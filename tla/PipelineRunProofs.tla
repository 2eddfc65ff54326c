------------------------- MODULE PipelineRunProofs -------------------------
(***************************************************************************)
(* What PipelineRun does for every graph, every number of turns and every  *)
(* number of mishaps: the document stays well typed, a stage that counts   *)
(* as passed was verified and decided on as its edge asks, one turn or     *)
(* verification works at a time, an ended run leaves nothing at work, a    *)
(* run that executes has recorded what continues it, and nothing           *)
(* unapproved is pushed.                                                   *)
(***************************************************************************)
EXTENDS PipelineRun, TLAPS

-----------------------------------------------------------------------------
(* The inductive invariant. *)

Alive == native \in {"working", "idle"}

\* What a stored document may record together.
Flow(r) ==
    /\ r.active => r.status = "running" /\ r.pend = NoTurn /\ ~r.concl /\ ~r.adv /\ ~r.job
    /\ r.job => r.status = "running" /\ r.concl
    /\ r.adv => r.status \in {"running", "cancelled"} /\ ~r.concl
    /\ r.status = "completed" => ~r.concl
    /\ r.status = "failed" => r.phase = "provisioning"
    /\ r.phase = "provisioning" =>
          /\ r.status \in {"running", "failed", "cancelled"} /\ r.att = NoAttempt
          /\ r.pend = NoTurn /\ ~r.concl /\ ~r.adv /\ ~r.active
    /\ r.pend # NoTurn => r.pend.kind # "none"
    /\ r.hold.reason # "budget"

\* How the current stage stands while the document says what follows it.
Stands(r) ==
    LET s == r.nodes[r.node]
    IN /\ r.status = "running" /\ (r.concl \/ r.active) =>
             s.status = "running" /\ s.reason = "none"
       /\ r.status = "running" /\ r.adv => s.status = "passed"
       /\ r.status = "completed" => s.status = "passed"
       /\ r.status = "awaiting" /\ r.concl => s.status = "awaiting-gate" /\ s.reason = "none"
       /\ s.reason = "budget" =>
             \/ r.status = "cancelled"
             \/ r.status = "awaiting" /\ s.status = "awaiting-gate" /\ r.hold.kind # "none"

\* A run that executes has recorded what continues it.
Recorded(r) ==
    r.status = "running" /\ r.phase = "executing" =>
        r.active \/ r.pend # NoTurn \/ r.concl \/ r.adv \/ r.job \/ r.att = NoAttempt

\* What a stage's edge asks for, given what verified and what people decided.
Checks(r, n, c) == "verify" \in Flags(r, n) => c[n] # "no"
Clears(r, n, c, d) == Checks(r, n, c) /\ ("gate" \in Flags(r, n) => n \in d)

\* What the document says of stage n is true: what passed or only failed to publish has
\* what its edge asks for, what counts as verified was, and a turn still to come, or under
\* way, will be judged anew.
HonestAt(r, n, c, d) ==
    LET s == r.nodes[n]
    IN /\ s.status = "passed" => Clears(r, n, c, d)
       /\ s.status = "failed" /\ s.reason = "pr-failed" => Clears(r, n, c, d)
       /\ s.verified => c[n] # "no"
       /\ n = r.node /\ (r.active \/ r.job) => ~s.verified
       /\ n = r.node /\ s.reason = "budget" /\ ~OpensAttempt(r.hold.kind) => ~s.verified
       /\ r.pend # NoTurn /\ n = r.pend.node /\ ~OpensAttempt(r.pend.kind) => ~s.verified
Honest(r, c, d, x) ==
    /\ \A n \in Stages : r.nodes[n].bypassed => n \in d
    /\ \A n \in Stages \ x : HonestAt(r, n, c, d)

\* What the owner may accept, or approve the publication of, has what its edge asks for.
GatedAt(r, n, c, d) ==
    LET s == r.nodes[n]
    IN /\ s.status = "awaiting-gate" /\ s.reason = "none" => Checks(r, n, c)
       /\ n = r.node /\ s.reason = "risk-gate" /\ r.gate.resume \in {"advance", "publish"} =>
             Clears(r, n, c, d)
Gated(r, c, d, x) == \A n \in Stages \ x : GatedAt(r, n, c, d)

\* The stage whose gate a launch under way has reopened.
Reopening ==
    IF op.at = "prepare" /\ run.status = "awaiting"
       /\ run.nodes[op.node].status = "awaiting-gate"
    THEN {op.node} ELSE {}

\* Where an operation that starts or ends a turn waits.
Starts ==
    /\ op.at = "provision" =>
          run.phase = "provisioning" /\ run.status = "running" /\ op.node = run.node
    /\ op.at = "entry" =>
          /\ run.phase = "executing" /\ run.status = "running" /\ run.att = NoAttempt
          /\ ~run.active /\ ~run.job
    /\ op.at = "prepare" =>
          /\ run.phase = "executing" /\ run.status \in {"running", "awaiting"}
          /\ run.pend = [node |-> op.node, kind |-> op.kind] /\ op.kind # "none"
          /\ ~run.active /\ ~run.job
    /\ op.at = "start" => op.kind # "none"
    /\ op.at \in {"start", "stop", "timeout", "timedout"} => run.active /\ op.node = run.node
    /\ op.at \in {"start", "timedout"} => ~Alive

\* Where an operation that concludes, publishes or cancels waits.
Ends ==
    /\ op.at = "conclude" =>
          /\ run.status = "running" /\ run.concl /\ ~run.active /\ ~run.job
          /\ op.node = run.node
    /\ op.at = "verify" => run.job /\ check = "absent" /\ op.node = run.node
    /\ op.at \in {"publish", "push", "pushed"} =>
          /\ op.node = run.node
          /\ \/ op.resume = "advance" /\ run.status = "running" /\ run.adv /\ ~run.active
             \/ op.resume = "publish" /\ run.status = "completed"
    /\ op.at \in {"cancel", "cancelled"} =>
          run.cancel /\ ~Terminal(run) /\ op.node = run.node
    /\ op.at = "cancelled" /\ Alive => leaked

\* A queued turn that continues an attempt is either being launched, waits for the next
\* poll, or was cut off.
Queued ==
    /\ op.at = "prepare" /\ run.status = "awaiting" /\ ~OpensAttempt(op.kind) =>
          op.node = run.node /\ run.nodes[op.node].status = "awaiting-gate"
    /\ op.at # "prepare" /\ run.pend # NoTurn /\ ~OpensAttempt(run.pend.kind) =>
          \/ run.pend.node \in cut
          \/ /\ op.at \notin {"conclude", "verify", "publish", "push", "pushed"}
             /\ run.status \in {"running", "cancelled"} /\ ~run.job

\* The document and the operation agree.
Settled ==
    /\ run \in RunType /\ op \in OpType
    /\ Flow(run) /\ Stands(run) /\ Recorded(run)
    /\ Honest(run, checked, decided, cut)
    /\ Gated(run, checked, decided, cut \cup Reopening)
    /\ Starts /\ Ends /\ Queued

\* What works in the worktree, and what was pushed.
Processes ==
    /\ Alive => run.active \/ leaked
    /\ orphan => leaked
    /\ check = "running" => run.job

Publication ==
    /\ op.at = "push" => op.sha \in (0 .. run.approved) \cup run.excused
    /\ PublishedApproved

RunInvariant == TypeOK /\ Settled /\ Processes /\ Publication

-----------------------------------------------------------------------------
(* What the operators on the document return. *)

LEMMA GraphFacts ==
    /\ \A s \in Stages : PassTo[s] \in Stages \cup {End}
    /\ \A s \in Stages : FailTo[s] \in Stages \cup {End, NoEdge}
    /\ \A s \in Stages : MaxLoops[s] \in Nat /\ (MaxLoops[s] > 0 => FailTo[s] \in Stages)
    /\ \A s \in Stages : Continue[s] \in BOOLEAN
    /\ Entry \in Stages /\ End \notin Stages /\ NoEdge \notin Stages
    /\ NoTurn \in TurnType /\ NoAttempt \in AttemptType /\ NoGate \in GateType
    /\ Idle \in OpType /\ MaxChanges \in Nat
<1>1. MaxChanges \in Nat BY BoundAssumption
<1>2. NoTurn \in TurnType BY GraphAssumption DEF NoTurn, TurnType
<1>3. NoAttempt \in AttemptType
  <2>1. -1 \in -1 .. MaxChanges BY <1>1
  <2> QED BY <2>1 DEF NoAttempt, AttemptType
<1>4. NoGate \in GateType /\ Idle \in OpType
  <2>1. 0 \in 0 .. MaxChanges BY <1>1
  <2> QED BY <2>1, GraphAssumption DEF NoGate, GateType, Idle, OpType
<1> QED BY <1>1, <1>2, <1>3, <1>4, GraphAssumption

\* An operation that waits at a stage is well typed.
LEMMA AtType ==
  ASSUME NEW n \in Stages,
         NEW where \in {"provision", "entry", "prepare", "stop", "timeout", "timedout",
                        "conclude", "verify", "publish", "cancel", "cancelled"}
  PROVE  /\ At(where, n) \in OpType
         /\ At(where, n).at = where /\ At(where, n).node = n
<1>1. 0 \in 0 .. MaxChanges BY GraphFacts
<1> QED BY <1>1 DEF At, Idle, OpType

LEMMA StageOf ==
  ASSUME NEW r \in RunType
  PROVE  /\ r.nodes \in [Stages -> NodeType] /\ r.node \in Stages
         /\ \A n \in Stages : r.nodes[n] \in NodeType
BY DEF RunType

\* One stage of the document changes.
LEMMA NodeEdit ==
  ASSUME NEW r \in RunType, NEW n \in Stages, NEW x \in NodeType
  PROVE  LET nodes == [r.nodes EXCEPT ![n] = x]
         IN /\ nodes \in [Stages -> NodeType] /\ nodes[n] = x
            /\ \A s \in Stages \ {n} : nodes[s] = r.nodes[s]
BY StageOf

OthersSame(p, r, n) == \A s \in Stages \ {n} : p.nodes[s] = r.nodes[s]

\* Parking a stage sets its status and reason and drops what was recorded to continue.
LEMMA ParkFacts ==
  ASSUME NEW r \in RunType, NEW n \in Stages, NEW why \in Reasons
  PROVE  LET p == Park(r, n, why) IN
         /\ p \in RunType /\ p.phase = r.phase /\ p.status = "awaiting" /\ p.cancel = r.cancel
         /\ p.node = r.node /\ p.active = (r.active /\ n # r.node)
         /\ p.pend = NoTurn /\ p.concl = FALSE /\ p.adv = FALSE /\ p.job = r.job
         /\ p.hold = r.hold /\ p.gate = r.gate
         /\ p.approved = r.approved /\ p.excused = r.excused
         /\ p.nodes[n].status = (IF why \in Retryable THEN "failed" ELSE "awaiting-gate")
         /\ p.nodes[n].reason = why /\ p.nodes[n].via = r.nodes[n].via
         /\ p.nodes[n].verified = r.nodes[n].verified
         /\ p.nodes[n].bypassed = r.nodes[n].bypassed
         /\ OthersSame(p, r, n)
<1> DEFINE p == Park(r, n, why)
           st == IF why \in Retryable THEN "failed" ELSE "awaiting-gate"
           x == [r.nodes[n] EXCEPT !.status = st, !.reason = why]
           nn == [r.nodes EXCEPT ![n] = x]
           ac == r.active /\ n # r.node
<1>1. p = [r EXCEPT !.nodes = nn, !.active = ac, !.status = "awaiting", !.pend = NoTurn,
                    !.concl = FALSE, !.adv = FALSE]
  BY DEF Park
<1>0. r.nodes[n] \in NodeType BY StageOf
<1>2. st \in {"failed", "awaiting-gate"} /\ ac \in BOOLEAN OBVIOUS
<1> HIDE DEF st, ac
<1>3. /\ x \in NodeType /\ x.status = st /\ x.reason = why /\ x.via = r.nodes[n].via
      /\ x.verified = r.nodes[n].verified /\ x.bypassed = r.nodes[n].bypassed
  BY <1>0, <1>2 DEF NodeType
<1> HIDE DEF x
<1>4. nn \in [Stages -> NodeType] /\ nn[n] = x /\ \A s \in Stages \ {n} : nn[s] = r.nodes[s]
  BY <1>3, NodeEdit
<1> HIDE DEF nn, p
<1>5. /\ p \in RunType /\ p.phase = r.phase /\ p.status = "awaiting" /\ p.cancel = r.cancel
      /\ p.node = r.node /\ p.active = ac /\ p.pend = NoTurn /\ p.concl = FALSE
      /\ p.adv = FALSE /\ p.job = r.job /\ p.hold = r.hold /\ p.gate = r.gate
      /\ p.approved = r.approved /\ p.excused = r.excused /\ p.nodes = nn
  BY <1>1, <1>2, <1>4, GraphFacts DEF RunType
<1> QED BY <1>3, <1>4, <1>5 DEF p, st, ac, OthersSame

\* Holding a turn above the budget parks its stage, now the current one, with the turn.
LEMMA HoldFacts ==
  ASSUME NEW r \in RunType, NEW n \in Stages, NEW kind \in Kinds
  PROVE  LET p == HoldTurn(r, n, kind) IN
         /\ p \in RunType /\ p.phase = r.phase /\ p.status = "awaiting" /\ p.cancel = r.cancel
         /\ p.node = n /\ p.active = r.active
         /\ p.pend = NoTurn /\ p.concl = FALSE /\ p.adv = FALSE /\ p.job = r.job
         /\ p.hold.kind = kind /\ p.hold.reason # "budget" /\ p.gate = r.gate
         /\ p.approved = r.approved /\ p.excused = r.excused
         /\ p.nodes[n].status = "awaiting-gate" /\ p.nodes[n].reason = "budget"
         /\ p.nodes[n].via = r.nodes[n].via /\ p.nodes[n].verified = r.nodes[n].verified
         /\ p.nodes[n].bypassed = r.nodes[n].bypassed
         /\ OthersSame(p, r, n)
<1> DEFINE p == HoldTurn(r, n, kind)
           x == [r.nodes[n] EXCEPT !.status = "awaiting-gate", !.reason = "budget"]
           nn == [r.nodes EXCEPT ![n] = x]
           at == IF n = r.node THEN r.att ELSE NoAttempt
           why == IF r.nodes[n].reason = "budget" THEN "none" ELSE r.nodes[n].reason
           h == [kind |-> kind, reason |-> why]
<1>1. p = [r EXCEPT !.att = at, !.node = n, !.hold = h, !.nodes = nn,
                    !.status = "awaiting", !.resume = FALSE, !.pend = NoTurn,
                    !.concl = FALSE, !.adv = FALSE]
  BY DEF HoldTurn
<1>0. r.nodes[n] \in NodeType BY StageOf
<1>2. /\ x \in NodeType /\ x.status = "awaiting-gate" /\ x.reason = "budget"
      /\ x.via = r.nodes[n].via /\ x.verified = r.nodes[n].verified
      /\ x.bypassed = r.nodes[n].bypassed
  BY <1>0 DEF NodeType, Reasons
<1> HIDE DEF x
<1>3. nn \in [Stages -> NodeType] /\ nn[n] = x /\ \A s \in Stages \ {n} : nn[s] = r.nodes[s]
  BY <1>2, NodeEdit
<1>4. at \in AttemptType BY GraphFacts DEF RunType
<1>5. why \in Reasons /\ why # "budget" BY <1>0 DEF NodeType, Reasons
<1> HIDE DEF nn, at, why
<1>6. /\ h \in [kind : Kinds \cup {"none"}, reason : Reasons]
      /\ h.kind = kind /\ h.reason # "budget"
  BY <1>5
<1> HIDE DEF h, p
<1>7. /\ p \in RunType /\ p.phase = r.phase /\ p.status = "awaiting" /\ p.cancel = r.cancel
      /\ p.node = n /\ p.active = r.active /\ p.pend = NoTurn /\ p.concl = FALSE
      /\ p.adv = FALSE /\ p.job = r.job /\ p.hold = h /\ p.gate = r.gate
      /\ p.approved = r.approved /\ p.excused = r.excused /\ p.nodes = nn
  BY <1>1, <1>3, <1>4, <1>6, GraphFacts DEF RunType
<1> QED BY <1>2, <1>3, <1>6, <1>7 DEF p, OthersSame

\* A kickoff or a resumed repair forgets what verified its stage; any other turn does not.
LEMMA OpenedFacts ==
  ASSUME NEW r \in RunType, NEW n \in Stages, NEW kind \in Kinds
  PROVE  LET p == Opened(r, n, kind) IN
         /\ p \in RunType /\ p.phase = r.phase /\ p.status = r.status /\ p.cancel = r.cancel
         /\ p.node = r.node /\ p.active = r.active /\ p.pend = r.pend /\ p.concl = r.concl
         /\ p.adv = r.adv /\ p.job = r.job /\ p.hold = r.hold /\ p.gate = r.gate
         /\ p.approved = r.approved /\ p.excused = r.excused
         /\ p.nodes[n].status = r.nodes[n].status /\ p.nodes[n].reason = r.nodes[n].reason
         /\ p.nodes[n].via = r.nodes[n].via /\ p.nodes[n].bypassed = r.nodes[n].bypassed
         /\ p.nodes[n].verified = (r.nodes[n].verified /\ ~OpensAttempt(kind))
         /\ OthersSame(p, r, n)
<1>0. r.nodes[n] \in NodeType BY StageOf
<1>1. CASE ~OpensAttempt(kind)
  <2>1. Opened(r, n, kind) = r BY <1>1 DEF Opened
  <2>2. r.nodes[n].verified \in BOOLEAN BY <1>0 DEF NodeType
  <2> QED BY <1>1, <2>1, <2>2 DEF OthersSame
<1>2. CASE OpensAttempt(kind)
  <2> DEFINE p == Opened(r, n, kind)
             fresh == kind = "resumed"
             x == [r.nodes[n] EXCEPT !.nudges = 0, !.tries = 0, !.asked = FALSE,
                     !.verified = FALSE, !.unsound = FALSE, !.native = fresh]
             nn == [r.nodes EXCEPT ![n] = x]
  <2>1. p = [r EXCEPT !.nodes = nn] BY <1>2 DEF Opened
  <2>2. fresh \in BOOLEAN OBVIOUS
  <2> HIDE DEF fresh
  <2>3. x \in NodeType BY <1>0, <2>2 DEF NodeType
  <2>4. /\ x.status = r.nodes[n].status /\ x.reason = r.nodes[n].reason
        /\ x.via = r.nodes[n].via /\ x.bypassed = r.nodes[n].bypassed /\ x.verified = FALSE
    BY <1>0 DEF NodeType
  <2> HIDE DEF x
  <2>5. nn \in [Stages -> NodeType] /\ nn[n] = x /\ \A s \in Stages \ {n} : nn[s] = r.nodes[s]
    BY <2>3, NodeEdit
  <2> HIDE DEF nn, p
  <2>6. /\ p \in RunType /\ p.phase = r.phase /\ p.status = r.status /\ p.cancel = r.cancel
        /\ p.node = r.node /\ p.active = r.active /\ p.pend = r.pend /\ p.concl = r.concl
        /\ p.adv = r.adv /\ p.job = r.job /\ p.hold = r.hold /\ p.gate = r.gate
        /\ p.approved = r.approved /\ p.excused = r.excused /\ p.nodes = nn
    BY <2>1, <2>5 DEF RunType
  <2> QED BY <1>2, <2>4, <2>5, <2>6 DEF p, OthersSame
<1> QED BY <1>1, <1>2

\* A passed stage advances; it keeps its edge and what verified it.
LEMMA PassedFacts ==
  ASSUME NEW r \in RunType, NEW n \in Stages
  PROVE  LET p == Passed(r, n) IN
         /\ p \in RunType /\ p.phase = r.phase /\ p.status = "running" /\ p.cancel = r.cancel
         /\ p.node = r.node /\ p.active = r.active /\ p.pend = r.pend /\ p.concl = FALSE
         /\ p.adv = TRUE /\ p.job = r.job /\ p.hold = r.hold /\ p.gate = r.gate
         /\ p.approved = r.approved /\ p.excused = r.excused
         /\ p.nodes[n].status = "passed" /\ p.nodes[n].reason = "none"
         /\ p.nodes[n].via = r.nodes[n].via /\ p.nodes[n].verified = r.nodes[n].verified
         /\ p.nodes[n].bypassed = FALSE
         /\ OthersSame(p, r, n)
<1>0. r.nodes[n] \in NodeType BY StageOf
<1> DEFINE p == Passed(r, n)
           x == [r.nodes[n] EXCEPT !.status = "passed", !.reason = "none", !.bypassed = FALSE]
           nn == [r.nodes EXCEPT ![n] = x]
<1>1. p = [r EXCEPT !.nodes = nn, !.status = "running", !.concl = FALSE, !.adv = TRUE]
  BY DEF Passed
<1>2. x \in NodeType BY <1>0 DEF NodeType, Reasons
<1>3. /\ x.status = "passed" /\ x.reason = "none" /\ x.via = r.nodes[n].via
      /\ x.verified = r.nodes[n].verified /\ x.bypassed = FALSE
  BY <1>0 DEF NodeType
<1> HIDE DEF x
<1>4. nn \in [Stages -> NodeType] /\ nn[n] = x /\ \A s \in Stages \ {n} : nn[s] = r.nodes[s]
  BY <1>2, NodeEdit
<1> HIDE DEF nn, p
<1>5. /\ p \in RunType /\ p.phase = r.phase /\ p.status = "running" /\ p.cancel = r.cancel
      /\ p.node = r.node /\ p.active = r.active /\ p.pend = r.pend /\ p.concl = FALSE
      /\ p.adv = TRUE /\ p.job = r.job /\ p.hold = r.hold /\ p.gate = r.gate
      /\ p.approved = r.approved /\ p.excused = r.excused /\ p.nodes = nn
  BY <1>1, <1>4 DEF RunType
<1> QED BY <1>3, <1>4, <1>5 DEF p, OthersSame

\* A reset stage is pending; the others stay.
LEMMA ResetFacts ==
  ASSUME NEW r \in RunType, NEW S
  PROVE  LET p == ResetStages(r, S) IN
         /\ p \in RunType /\ p.phase = r.phase /\ p.status = r.status /\ p.cancel = r.cancel
         /\ p.node = r.node /\ p.att = r.att /\ p.active = r.active /\ p.pend = r.pend
         /\ p.concl = r.concl /\ p.adv = r.adv /\ p.job = r.job /\ p.hold = r.hold
         /\ p.gate = r.gate /\ p.approved = r.approved /\ p.excused = r.excused
         /\ p.loops = r.loops
         /\ \A s \in Stages \ S : p.nodes[s] = r.nodes[s]
         /\ \A s \in Stages \cap S :
               /\ p.nodes[s].status = "pending" /\ p.nodes[s].reason = "none"
               /\ ~p.nodes[s].verified /\ ~p.nodes[s].bypassed
<1> DEFINE p == ResetStages(r, S)
           x(s) == [r.nodes[s] EXCEPT !.status = "pending", !.reason = "none",
                       !.verdict = "none", !.native = FALSE, !.bypassed = FALSE,
                       !.verified = FALSE, !.unsound = FALSE]
           nn == [s \in Stages |-> IF s \notin S THEN r.nodes[s] ELSE x(s)]
<1>1. p = [r EXCEPT !.nodes = nn] BY DEF ResetStages
<1>2. \A s \in Stages : x(s) \in NodeType /\ x(s).status = "pending"
          /\ x(s).reason = "none" /\ x(s).verified = FALSE /\ x(s).bypassed = FALSE
  <2> SUFFICES ASSUME NEW s \in Stages
               PROVE  x(s) \in NodeType /\ x(s).status = "pending"
                      /\ x(s).reason = "none" /\ x(s).verified = FALSE /\ x(s).bypassed = FALSE
    OBVIOUS
  <2>1. r.nodes[s] \in NodeType BY StageOf
  <2> QED BY <2>1 DEF NodeType, Reasons
<1> HIDE DEF x
<1>3. nn \in [Stages -> NodeType] BY <1>2, StageOf
<1>4. \A s \in Stages : nn[s] = IF s \notin S THEN r.nodes[s] ELSE x(s) OBVIOUS
<1> HIDE DEF nn, p
<1>5. /\ p \in RunType /\ p.phase = r.phase /\ p.status = r.status /\ p.cancel = r.cancel
      /\ p.node = r.node /\ p.att = r.att /\ p.active = r.active /\ p.pend = r.pend
      /\ p.concl = r.concl /\ p.adv = r.adv /\ p.job = r.job /\ p.hold = r.hold
      /\ p.gate = r.gate /\ p.approved = r.approved /\ p.excused = r.excused
      /\ p.loops = r.loops /\ p.nodes = nn
  BY <1>1, <1>3 DEF RunType
<1> QED BY <1>2, <1>4, <1>5 DEF p

-----------------------------------------------------------------------------
(* Edits no property reads. *)

\* p differs from r in what no invariant reads, may have ended the turn or the verification
\* and may have dropped what verified a stage.
Alike(p, r) ==
    /\ p.phase = r.phase /\ p.status = r.status /\ p.node = r.node /\ p.pend = r.pend
    /\ p.concl = r.concl /\ p.adv = r.adv /\ p.hold = r.hold /\ p.gate = r.gate
    /\ p.approved = r.approved /\ p.excused = r.excused
    /\ p.active => r.active
    /\ p.job => r.job
    /\ r.phase = "provisioning" => p.att = r.att
    /\ \A s \in Stages :
          /\ p.nodes[s].status = r.nodes[s].status /\ p.nodes[s].reason = r.nodes[s].reason
          /\ p.nodes[s].bypassed = r.nodes[s].bypassed
          /\ p.nodes[s].verified => r.nodes[s].verified
          /\ \/ p.nodes[s].via = r.nodes[s].via
             \/ r.nodes[s].status = "running" /\ r.nodes[s].reason = "none"

LEMMA AlikeKeeps ==
  ASSUME NEW r, NEW p, NEW c, NEW d, NEW x, NEW y, Alike(p, r), p.node \in Stages
  PROVE  /\ Flow(r) => Flow(p)
         /\ Stands(r) => Stands(p)
         /\ Honest(r, c, d, x) => Honest(p, c, d, x)
         /\ Gated(r, c, d, y) => Gated(p, c, d, y)
<1>1. Flow(r) => Flow(p) BY DEF Flow, Alike
<1>2. Stands(r) => Stands(p) BY DEF Stands, Alike
<1>3. \A n \in Stages : p.nodes[n].via = r.nodes[n].via =>
          /\ Checks(p, n, c) <=> Checks(r, n, c)
          /\ Clears(p, n, c, d) <=> Clears(r, n, c, d)
  BY DEF Checks, Clears, Flags
<1>4. \A n \in Stages : HonestAt(r, n, c, d) => HonestAt(p, n, c, d)
  BY <1>3 DEF HonestAt, Alike
<1>5. \A n \in Stages : GatedAt(r, n, c, d) => GatedAt(p, n, c, d)
  BY <1>3 DEF GatedAt, Alike
<1> QED BY <1>1, <1>2, <1>4, <1>5 DEF Honest, Gated, Alike

-----------------------------------------------------------------------------
(* Edits of one stage, or of none. *)

\* What holds of the stage that changed holds of all, if the rest of the document and of
\* what was verified and decided stays.
LEMMA OneStage ==
  ASSUME NEW r, NEW p, NEW n, NEW c, NEW d, NEW x, NEW y, NEW c0, NEW d0, NEW x0, NEW y0,
         \A s \in Stages \ {n} : p.nodes[s] = r.nodes[s],
         p.node = n \/ (p.node = r.node /\ p.gate = r.gate /\ p.hold = r.hold),
         p.node = n \/ ((p.active => r.active) /\ (p.job => r.job)),
         \/ p.pend = r.pend \/ p.pend = NoTurn \/ p.pend.node = n
         \/ OpensAttempt(p.pend.kind),
         \A s \in Stages \ {n} : /\ c[s] = c0[s] /\ (s \in d0 => s \in d)
                                 /\ (s \notin x => s \notin x0) /\ (s \notin y => s \notin y0),
         Honest(r, c0, d0, x0), Gated(r, c0, d0, y0),
         n \in Stages => (p.nodes[n].bypassed => n \in d),
         n \in Stages /\ n \notin x => HonestAt(p, n, c, d),
         n \in Stages /\ n \notin y => GatedAt(p, n, c, d)
  PROVE  Honest(p, c, d, x) /\ Gated(p, c, d, y)
<1>1. \A s \in Stages \ {n} : /\ Checks(p, s, c) <=> Checks(r, s, c0)
                              /\ Clears(r, s, c0, d0) => Clears(p, s, c, d)
  BY DEF Checks, Clears, Flags
<1>2. \A s \in Stages \ {n} : HonestAt(r, s, c0, d0) => HonestAt(p, s, c, d)
  BY <1>1 DEF HonestAt
<1>3. \A s \in Stages \ {n} : GatedAt(r, s, c0, d0) => GatedAt(p, s, c, d)
  BY <1>1 DEF GatedAt
<1> QED BY <1>2, <1>3 DEF Honest, Gated

\* The stages stay as they are.
LEMMA NoStage ==
  ASSUME NEW r, NEW p, NEW c, NEW d, NEW x, NEW y,
         p.nodes = r.nodes, p.node = r.node, p.gate = r.gate, p.hold = r.hold,
         p.active => r.active,
         p.job => r.job,
         p.pend = r.pend \/ p.pend = NoTurn \/ OpensAttempt(p.pend.kind),
         Honest(r, c, d, x), Gated(r, c, d, y)
  PROVE  Honest(p, c, d, x) /\ Gated(p, c, d, y)
<1>1. \A s \in Stages : /\ Checks(p, s, c) <=> Checks(r, s, c)
                        /\ Clears(r, s, c, d) <=> Clears(p, s, c, d)
  BY DEF Checks, Clears, Flags
<1>2. \A s \in Stages : HonestAt(r, s, c, d) => HonestAt(p, s, c, d) BY <1>1 DEF HonestAt
<1>3. \A s \in Stages : GatedAt(r, s, c, d) => GatedAt(p, s, c, d) BY <1>1 DEF GatedAt
<1> QED BY <1>2, <1>3 DEF Honest, Gated

-----------------------------------------------------------------------------
(* How the shared steps of the handlers leave the run. *)

\* The reasons a stage is parked for, but for its risky changes and the budget.
Parks == {"session-error", "timeout", "usage", "pr-failed", "verify-failed", "verdict",
          "verdict-fail"}

\* Parking: a failed publication needs a stage that has what its edge asks for.
LEMMA ParkKeeps ==
  ASSUME NEW r \in RunType, NEW n \in Stages, NEW why \in Parks, NEW y,
         run' = Park(r, n, why), op' \in OpType, op'.at = "idle",
         r.phase = "executing", ~r.job, r.active => n = r.node, r.status # "cancelled",
         r.hold.reason # "budget", Stands(r),
         Honest(r, checked', decided', cut'), Gated(r, checked', decided', y),
         y \subseteq cut' \cup {n},
         why = "pr-failed" => n \in cut' \/ Clears(r, n, checked', decided')
  PROVE  /\ Settled' /\ ~run'.active /\ ~run'.job
         /\ run'.approved = r.approved /\ run'.excused = r.excused
<1>1. why \in Reasons \ {"none", "risk-gate", "budget"} BY DEF Parks, Reasons
<1> DEFINE p == Park(r, n, why)
<1>2. /\ p \in RunType /\ p.phase = r.phase /\ p.status = "awaiting" /\ p.cancel = r.cancel
      /\ p.node = r.node /\ p.active = (r.active /\ n # r.node)
      /\ p.pend = NoTurn /\ p.concl = FALSE /\ p.adv = FALSE /\ p.job = r.job
      /\ p.hold = r.hold /\ p.gate = r.gate
      /\ p.approved = r.approved /\ p.excused = r.excused
      /\ p.nodes[n].status = (IF why \in Retryable THEN "failed" ELSE "awaiting-gate")
      /\ p.nodes[n].reason = why /\ p.nodes[n].via = r.nodes[n].via
      /\ p.nodes[n].verified = r.nodes[n].verified
      /\ p.nodes[n].bypassed = r.nodes[n].bypassed
      /\ OthersSame(p, r, n)
  BY <1>1, ParkFacts
<1>2a. \A s \in Stages \ {n} : p.nodes[s] = r.nodes[s] BY <1>2 DEF OthersSame
<1> HIDE DEF p
<1>3. Flow(p) BY <1>2, <1>2a DEF Flow
<1>4. Stands(p) BY <1>1, <1>2, <1>2a, StageOf DEF Stands
<1>5. Recorded(p) BY <1>2, <1>2a DEF Recorded
<1>6. /\ Checks(p, n, checked') <=> Checks(r, n, checked')
      /\ Clears(p, n, checked', decided') <=> Clears(r, n, checked', decided')
  BY <1>2 DEF Checks, Clears, Flags
<1>7. /\ p.nodes[n].bypassed => n \in decided'
      /\ n \notin cut' => HonestAt(p, n, checked', decided')
      /\ GatedAt(p, n, checked', decided')
  BY <1>1, <1>2, <1>6 DEF Honest, HonestAt, GatedAt
<1>8. Honest(p, checked', decided', cut') /\ Gated(p, checked', decided', cut')
  BY <1>2, <1>2a, <1>7, OneStage
<1>10. run' = p BY DEF p
<1>11. op' \in OpType /\ op'.at = "idle" OBVIOUS
<1>12. Reopening' = {} BY <1>11 DEF Reopening
<1>13. Starts' /\ Ends' /\ Queued' BY <1>2, <1>10, <1>11 DEF Starts, Ends, Queued
<1>14. Gated(run', checked', decided', cut' \cup Reopening') BY <1>8, <1>10, <1>12
<1> QED BY <1>2, <1>3, <1>4, <1>5, <1>8, <1>10, <1>11, <1>13, <1>14 DEF Settled

\* Launching: the turn is held, or queued while its launch waits.
LEMMA LaunchKeeps ==
  ASSUME NEW r \in RunType, NEW n \in Stages, NEW kind \in Kinds, NEW y,
         Launch(r, n, kind),
         r.phase = "executing", r.status \in {"running", "awaiting"}, ~r.active, ~r.job,
         Flow(r), Stands(r),
         Honest(r, checked', decided', cut'), Gated(r, checked', decided', y),
         y \subseteq cut' \cup {n},
         (r.status = "awaiting" /\ r.nodes[n].status = "awaiting-gate") \/ y \subseteq cut',
         ~OpensAttempt(kind) => n \in cut' \/ ~r.nodes[n].verified,
         r.status = "awaiting" /\ ~OpensAttempt(kind) =>
            n = r.node /\ r.nodes[n].status = "awaiting-gate"
  PROVE  /\ Settled' /\ ~run'.active /\ ~run'.job /\ op'.at \in {"idle", "prepare"}
         /\ run'.approved = r.approved /\ run'.excused = r.excused
<1>0. kind # "none" BY DEF Kinds
<1>1. CASE r.over
  <2> DEFINE p == HoldTurn(r, n, kind)
  <2>1. /\ p \in RunType /\ p.phase = r.phase /\ p.status = "awaiting" /\ p.cancel = r.cancel
        /\ p.node = n /\ p.active = r.active
        /\ p.pend = NoTurn /\ p.concl = FALSE /\ p.adv = FALSE /\ p.job = r.job
        /\ p.hold.kind = kind /\ p.hold.reason # "budget" /\ p.gate = r.gate
        /\ p.approved = r.approved /\ p.excused = r.excused
        /\ p.nodes[n].status = "awaiting-gate" /\ p.nodes[n].reason = "budget"
        /\ p.nodes[n].via = r.nodes[n].via /\ p.nodes[n].verified = r.nodes[n].verified
        /\ p.nodes[n].bypassed = r.nodes[n].bypassed
        /\ OthersSame(p, r, n)
    BY HoldFacts
  <2>1a. \A s \in Stages \ {n} : p.nodes[s] = r.nodes[s] BY <2>1 DEF OthersSame
  <2>2. run' = p /\ op' = Idle BY <1>1 DEF Launch
  <2> HIDE DEF p
  <2>3. Flow(p) BY <2>1 DEF Flow
  <2>4. Stands(p) BY <1>0, <2>1 DEF Stands
  <2>5. Recorded(p) BY <2>1 DEF Recorded
  <2>6. /\ Checks(p, n, checked') <=> Checks(r, n, checked')
        /\ Clears(p, n, checked', decided') <=> Clears(r, n, checked', decided')
    BY <2>1 DEF Checks, Clears, Flags
  <2>7. /\ p.nodes[n].bypassed => n \in decided'
        /\ n \notin cut' => HonestAt(p, n, checked', decided')
        /\ GatedAt(p, n, checked', decided')
    BY <2>1, <2>6 DEF Honest, HonestAt, GatedAt
  <2>8. Honest(p, checked', decided', cut') /\ Gated(p, checked', decided', cut')
    BY <2>1, <2>1a, <2>7, OneStage
  <2>10. op' \in OpType /\ op'.at = "idle" BY <2>2, GraphFacts DEF Idle
  <2>11. Reopening' = {} BY <2>10 DEF Reopening
  <2>12. Starts' /\ Ends' /\ Queued' BY <2>1, <2>2, <2>10 DEF Starts, Ends, Queued
  <2>13. Gated(run', checked', decided', cut' \cup Reopening') BY <2>2, <2>8, <2>11
  <2> QED BY <2>1, <2>2, <2>3, <2>4, <2>5, <2>8, <2>10, <2>12, <2>13 DEF Settled
<1>2. CASE ~r.over
  <2> DEFINE turn == [node |-> n, kind |-> kind]
             p == [r EXCEPT !.pend = turn]
             o == [At("prepare", n) EXCEPT !.kind = kind]
  <2>1. run' = p /\ op' = o BY <1>2 DEF Launch
  <2>2. /\ turn \in TurnType /\ turn.node = n /\ turn.kind = kind
        /\ turn # NoTurn
    BY <1>0 DEF TurnType, NoTurn
  <2>3. /\ o \in OpType /\ o.at = "prepare" /\ o.node = n /\ o.kind = kind
    BY AtType DEF OpType
  <2>3a. turn = [node |-> o.node, kind |-> o.kind] BY <2>3
  <2> HIDE DEF turn, o
  <2>4. /\ p \in RunType /\ p.phase = r.phase /\ p.status = r.status /\ p.node = r.node
        /\ p.att = r.att /\ p.active = r.active /\ p.pend = turn /\ p.concl = r.concl
        /\ p.adv = r.adv /\ p.job = r.job /\ p.hold = r.hold /\ p.gate = r.gate
        /\ p.approved = r.approved /\ p.excused = r.excused /\ p.nodes = r.nodes
    BY <2>2 DEF RunType
  <2> HIDE DEF p
  <2>5. Flow(p) BY <1>0, <2>2, <2>4 DEF Flow
  <2>6. Stands(p) BY <2>4 DEF Stands
  <2>7. Recorded(p) BY <2>2, <2>4 DEF Recorded
  <2>8. /\ Checks(p, n, checked') <=> Checks(r, n, checked')
        /\ Clears(p, n, checked', decided') <=> Clears(r, n, checked', decided')
    BY <2>4 DEF Checks, Clears, Flags
  <2>9. /\ p.nodes[n].bypassed => n \in decided'
        /\ n \notin cut' => HonestAt(p, n, checked', decided')
        /\ n \notin y => GatedAt(p, n, checked', decided')
    BY <2>2, <2>4, <2>8 DEF Honest, HonestAt, Gated, GatedAt
  <2>10. Honest(p, checked', decided', cut') /\ Gated(p, checked', decided', y)
    BY <2>2, <2>4, <2>9, OneStage
  <2>11. y \subseteq cut' \cup Reopening' BY <2>1, <2>3, <2>4 DEF Reopening
  <2>12. Gated(run', checked', decided', cut' \cup Reopening')
    BY <2>1, <2>10, <2>11 DEF Gated
  <2>13. Starts' BY <2>1, <2>3, <2>3a, <2>4, <1>0 DEF Starts
  <2>14. Ends' /\ Queued' BY <2>1, <2>3, <2>4 DEF Ends, Queued
  <2> QED BY <2>1, <2>3, <2>4, <2>5, <2>6, <2>7, <2>10, <2>12, <2>13, <2>14 DEF Settled
<1> QED BY <1>1, <1>2

\* The end of the graph or the launch of the next stage, from a stage that passed.
LEMMA OnwardKeeps ==
  ASSUME NEW r \in RunType, NEW n \in Stages, Onward(r, n), n = r.node,
         r.adv, r.status = "running", r.phase = "executing", ~r.active, ~r.job,
         Flow(r), Stands(r),
         Honest(r, checked', decided', cut'), Gated(r, checked', decided', cut'),
         r.pend # NoTurn /\ ~OpensAttempt(r.pend.kind) => r.pend.node \in cut'
  PROVE  /\ Settled' /\ ~run'.active /\ ~run'.job /\ op'.at \in {"idle", "prepare"}
         /\ run'.approved = r.approved /\ run'.excused = r.excused
<1>1. CASE Successor(r, n) \in Stages
  <2>1. "kickoff" \in Kinds /\ OpensAttempt("kickoff") BY DEF Kinds, OpensAttempt
  <2>2. Launch(r, Successor(r, n), "kickoff") BY <1>1 DEF Onward
  <2>3. cut' \subseteq cut' \cup {Successor(r, n)} OBVIOUS
  <2> QED BY <1>1, <2>1, <2>2, <2>3, LaunchKeeps
<1>2. CASE Successor(r, n) \notin Stages
  <2> DEFINE p == [r EXCEPT !.status = "completed", !.adv = FALSE, !.active = FALSE]
  <2>1. run' = p /\ op' = Idle BY <1>2 DEF Onward
  <2>2. /\ p \in RunType /\ p.phase = r.phase /\ p.status = "completed" /\ p.node = r.node
        /\ p.active = FALSE /\ p.pend = r.pend /\ p.concl = r.concl
        /\ p.adv = FALSE /\ p.job = r.job /\ p.hold = r.hold /\ p.gate = r.gate
        /\ p.approved = r.approved /\ p.excused = r.excused /\ p.nodes = r.nodes
    BY DEF RunType
  <2> HIDE DEF p
  <2>3. Flow(p) /\ Stands(p) /\ Recorded(p) BY <2>2 DEF Flow, Stands, Recorded
  <2>4. Honest(p, checked', decided', cut') /\ Gated(p, checked', decided', cut')
    BY <2>2, NoStage
  <2>7. op' \in OpType /\ op'.at = "idle" BY <2>1, GraphFacts DEF Idle
  <2>8. Reopening' = {} BY <2>7 DEF Reopening
  <2>9. Starts' /\ Ends' /\ Queued' BY <2>1, <2>2, <2>7 DEF Starts, Ends, Queued
  <2>10. Gated(run', checked', decided', cut' \cup Reopening') BY <2>1, <2>4, <2>8
  <2> QED BY <2>1, <2>2, <2>3, <2>4, <2>7, <2>9, <2>10 DEF Settled
<1> QED BY <1>1, <1>2

\* Advancing from a stage that has what its edge asks for.
LEMMA AdvanceKeeps ==
  ASSUME NEW r \in RunType, NEW n \in Stages, NEW y, Advance(r, n), n = r.node,
         r.phase = "executing", ~r.active, ~r.job,
         r.hold.reason # "budget", r.pend # NoTurn => r.pend.kind # "none",
         Honest(r, checked', decided', cut'), Gated(r, checked', decided', y),
         y \subseteq cut' \cup {n},
         n \in cut' \/ Clears(r, n, checked', decided'),
         r.pend # NoTurn /\ ~OpensAttempt(r.pend.kind) => r.pend.node \in cut'
  PROVE  /\ Settled' /\ ~run'.active /\ ~run'.job /\ op'.at \in {"idle", "prepare", "publish"}
         /\ run'.approved = r.approved /\ run'.excused = r.excused
<1> DEFINE p == Passed(r, n)
<1>1. /\ p \in RunType /\ p.phase = r.phase /\ p.status = "running" /\ p.cancel = r.cancel
      /\ p.node = r.node /\ p.active = r.active /\ p.pend = r.pend /\ p.concl = FALSE
      /\ p.adv = TRUE /\ p.job = r.job /\ p.hold = r.hold /\ p.gate = r.gate
      /\ p.approved = r.approved /\ p.excused = r.excused
      /\ p.nodes[n].status = "passed" /\ p.nodes[n].reason = "none"
      /\ p.nodes[n].via = r.nodes[n].via /\ p.nodes[n].verified = r.nodes[n].verified
      /\ p.nodes[n].bypassed = FALSE
      /\ OthersSame(p, r, n)
  BY PassedFacts
<1>2. \A s \in Stages \ {n} : p.nodes[s] = r.nodes[s] BY <1>1 DEF OthersSame
<1>3. \/ /\ run' = p /\ op' = [At("publish", n) EXCEPT !.resume = "advance"]
      \/ Onward(p, n)
  BY DEF Advance
<1> HIDE DEF p
<1>4. Flow(p) /\ Stands(p) /\ Recorded(p) BY <1>1 DEF Flow, Stands, Recorded
<1>5. /\ Checks(p, n, checked') <=> Checks(r, n, checked')
      /\ Clears(p, n, checked', decided') <=> Clears(r, n, checked', decided')
  BY <1>1 DEF Checks, Clears, Flags
<1>6. /\ p.nodes[n].bypassed => n \in decided'
      /\ n \notin cut' => HonestAt(p, n, checked', decided')
      /\ GatedAt(p, n, checked', decided')
  BY <1>1, <1>5 DEF Honest, HonestAt, GatedAt
<1>7. Honest(p, checked', decided', cut') /\ Gated(p, checked', decided', cut')
  BY <1>1, <1>2, <1>6, OneStage
<1>9. CASE Onward(p, n) BY <1>1, <1>4, <1>7, <1>9, OnwardKeeps
<1>10. CASE run' = p /\ op' = [At("publish", n) EXCEPT !.resume = "advance"]
  <2>1. op' \in OpType /\ op'.at = "publish" /\ op'.node = n /\ op'.resume = "advance"
    BY <1>10, AtType DEF OpType
  <2>2. Reopening' = {} BY <2>1 DEF Reopening
  <2>3. Starts' /\ Ends' /\ Queued' BY <1>1, <1>10, <2>1 DEF Starts, Ends, Queued
  <2>4. Gated(run', checked', decided', cut' \cup Reopening') BY <1>7, <1>10, <2>2
  <2> QED BY <1>1, <1>4, <1>7, <1>10, <2>1, <2>3, <2>4 DEF Settled
<1> QED BY <1>3, <1>9, <1>10

\* A stored conclusion is taken up at once.
LEMMA ConcludeKeeps ==
  ASSUME NEW r \in RunType, NEW n \in Stages, NEW y, Conclude(r, n), n = r.node,
         r.phase = "executing", ~r.active, ~r.job, ~r.adv,
         r.hold.reason # "budget", r.pend # NoTurn => r.pend.kind # "none",
         Honest(r, checked', decided', cut'), Gated(r, checked', decided', y),
         y \subseteq cut' \cup {n},
         r.pend # NoTurn /\ ~OpensAttempt(r.pend.kind) => r.pend.node \in cut'
  PROVE  /\ Settled' /\ ~run'.active /\ ~run'.job /\ op'.at = "conclude"
         /\ run'.approved = r.approved /\ run'.excused = r.excused
<1> DEFINE p == run'
           x == [r.nodes[n] EXCEPT !.status = "running", !.reason = "none"]
           nn == [r.nodes EXCEPT ![n] = x]
<1>0. r.nodes[n] \in NodeType BY StageOf
<1>1. run' = [r EXCEPT !.nodes = nn, !.status = "running", !.concl = TRUE]
      /\ op' = At("conclude", n)
  BY DEF Conclude
<1>2. x \in NodeType BY <1>0 DEF NodeType, Reasons
<1>3. /\ x.status = "running" /\ x.reason = "none" /\ x.via = r.nodes[n].via
      /\ x.verified = r.nodes[n].verified /\ x.bypassed = r.nodes[n].bypassed
  BY <1>0 DEF NodeType
<1> HIDE DEF x
<1>4. nn \in [Stages -> NodeType] /\ nn[n] = x /\ \A s \in Stages \ {n} : nn[s] = r.nodes[s]
  BY <1>2, NodeEdit
<1> HIDE DEF nn
<1>5. /\ p \in RunType /\ p.phase = r.phase /\ p.status = "running"
      /\ p.node = r.node /\ p.active = r.active /\ p.pend = r.pend /\ p.concl = TRUE
      /\ p.adv = r.adv /\ p.job = r.job /\ p.hold = r.hold /\ p.gate = r.gate
      /\ p.approved = r.approved /\ p.excused = r.excused /\ p.nodes = nn
  BY <1>1, <1>4 DEF RunType
<1> HIDE DEF p
<1>6. Flow(p) /\ Stands(p) /\ Recorded(p) BY <1>3, <1>4, <1>5 DEF Flow, Stands, Recorded
<1>7. /\ Checks(p, n, checked') <=> Checks(r, n, checked')
      /\ Clears(p, n, checked', decided') <=> Clears(r, n, checked', decided')
  BY <1>3, <1>4, <1>5 DEF Checks, Clears, Flags
<1>8. /\ p.nodes[n].bypassed => n \in decided'
      /\ n \notin cut' => HonestAt(p, n, checked', decided')
      /\ GatedAt(p, n, checked', decided')
  BY <1>3, <1>4, <1>5, <1>7 DEF Honest, HonestAt, GatedAt
<1>8a. \A s \in Stages \ {n} : p.nodes[s] = r.nodes[s] BY <1>4, <1>5
<1>9. Honest(p, checked', decided', cut') /\ Gated(p, checked', decided', cut')
  BY <1>5, <1>8, <1>8a, OneStage
<1>11. op' \in OpType /\ op'.at = "conclude" /\ op'.node = n BY <1>1, AtType
<1>12. Reopening' = {} BY <1>11 DEF Reopening
<1>13. run' = p BY DEF p
<1>14. Starts' /\ Ends' /\ Queued' BY <1>5, <1>11, <1>13 DEF Starts, Ends, Queued
<1>15. Gated(run', checked', decided', cut' \cup Reopening') BY <1>9, <1>12, <1>13
<1> QED BY <1>5, <1>6, <1>9, <1>11, <1>13, <1>14, <1>15 DEF Settled

\* A kickoff and a resumed repair open an attempt.
LEMMA RepairsOpen ==
  ASSUME NEW r, NEW t, NEW again, NEW kind \in RepairKinds(r, t, again)
  PROVE  kind \in Kinds /\ OpensAttempt(kind)
BY DEF RepairKinds, Kinds, OpensAttempt

\* Resetting stages hides nothing: a reset stage claims nothing.
LEMMA ResetKeeps ==
  ASSUME NEW r \in RunType, NEW S, NEW c, NEW d, NEW x, NEW q \in RunType, NEW t, NEW y,
         LET p == ResetStages(r, S) IN
            /\ q.node = p.node /\ q.nodes = p.nodes /\ q.hold = p.hold /\ q.gate = p.gate
            /\ q.active => p.active
            /\ q.job => p.job
            /\ q.pend = p.pend \/ OpensAttempt(q.pend.kind),
         Honest(r, c, d, x), Gated(r, c, d, y)
  PROVE  Honest(q, c, d, x) /\ Gated(q, c, d, y)
<1> DEFINE p == ResetStages(r, S)
<1>1. /\ p.node = r.node /\ p.active = r.active /\ p.pend = r.pend /\ p.job = r.job
      /\ p.hold = r.hold /\ p.gate = r.gate
      /\ \A s \in Stages \ S : p.nodes[s] = r.nodes[s]
      /\ \A s \in Stages \cap S :
            /\ p.nodes[s].status = "pending" /\ p.nodes[s].reason = "none"
            /\ ~p.nodes[s].verified /\ ~p.nodes[s].bypassed
  BY ResetFacts
<1>2. /\ q.node = r.node
      /\ q.active => r.active
      /\ q.job => r.job
      /\ q.pend = r.pend \/ OpensAttempt(q.pend.kind)
      /\ q.hold = r.hold /\ q.gate = r.gate
      /\ \A s \in Stages \ S : q.nodes[s] = r.nodes[s]
      /\ \A s \in Stages \cap S :
            /\ q.nodes[s].status = "pending" /\ q.nodes[s].reason = "none"
            /\ ~q.nodes[s].verified /\ ~q.nodes[s].bypassed
  BY <1>1
<1>3. \A s \in Stages \ S : /\ Checks(q, s, c) <=> Checks(r, s, c)
                            /\ Clears(q, s, c, d) <=> Clears(r, s, c, d)
  BY <1>2 DEF Checks, Clears, Flags
<1>4. \A s \in Stages : HonestAt(r, s, c, d) => HonestAt(q, s, c, d)
  <2> SUFFICES ASSUME NEW s \in Stages, HonestAt(r, s, c, d) PROVE HonestAt(q, s, c, d)
    OBVIOUS
  <2>1. CASE s \in S BY <1>2, <2>1 DEF HonestAt
  <2>2. CASE s \notin S BY <1>2, <1>3, <2>2 DEF HonestAt
  <2> QED BY <2>1, <2>2
<1>5. \A s \in Stages : GatedAt(r, s, c, d) => GatedAt(q, s, c, d)
  BY <1>2, <1>3 DEF GatedAt
<1>6. \A s \in Stages : q.nodes[s].bypassed => r.nodes[s].bypassed BY <1>2
<1> QED BY <1>4, <1>5, <1>6 DEF Honest, Gated

\* Looping back resets the stages of the loop and launches its target.
LEMMA LoopBackKeeps ==
  ASSUME NEW r \in RunType, NEW n \in Stages, LoopBack(r, n), MaxLoops[n] > 0,
         r.phase = "executing", r.status \in {"running", "awaiting"}, ~r.active, ~r.job,
         Flow(r), Stands(r),
         Honest(r, checked', decided', cut'), Gated(r, checked', decided', cut')
  PROVE  /\ Settled' /\ ~run'.active /\ ~run'.job /\ op'.at \in {"idle", "prepare"}
         /\ run'.approved = r.approved /\ run'.excused = r.excused
<1> DEFINE S == LoopResetSet(n)
           p == ResetStages(r, S)
<1>1. PICK kind \in RepairKinds(r, FailTo[n], Continue[n]) :
         Launch([p EXCEPT !.loops[n] = @ + 1, !.concl = FALSE, !.adv = FALSE,
                          !.pend = [node |-> FailTo[n], kind |-> kind]], FailTo[n], kind)
  BY DEF LoopBack
<1> DEFINE turn == [node |-> FailTo[n], kind |-> kind]
           loops == [p.loops EXCEPT ![n] = @ + 1]
           back == [p EXCEPT !.loops = loops, !.concl = FALSE, !.adv = FALSE, !.pend = turn]
<1>2. Launch(back, FailTo[n], kind) BY <1>1
<1>3. kind \in Kinds /\ OpensAttempt(kind) /\ kind # "none" BY RepairsOpen DEF Kinds
<1>4. FailTo[n] \in Stages BY GraphFacts
<1>5. turn \in TurnType /\ turn.kind = kind BY <1>3, <1>4 DEF TurnType
<1>6. /\ p \in RunType /\ p.phase = r.phase /\ p.status = r.status /\ p.cancel = r.cancel
      /\ p.node = r.node /\ p.att = r.att /\ p.active = r.active /\ p.pend = r.pend
      /\ p.concl = r.concl /\ p.adv = r.adv /\ p.job = r.job /\ p.hold = r.hold
      /\ p.gate = r.gate /\ p.approved = r.approved /\ p.excused = r.excused
      /\ p.loops = r.loops
      /\ \A s \in Stages \ S : p.nodes[s] = r.nodes[s]
      /\ \A s \in Stages \cap S :
            /\ p.nodes[s].status = "pending" /\ p.nodes[s].reason = "none"
            /\ ~p.nodes[s].verified /\ ~p.nodes[s].bypassed
  BY ResetFacts
<1> HIDE DEF p, S, turn
<1>7. loops \in [Stages -> Nat] BY <1>6 DEF RunType
<1> HIDE DEF loops
<1>8. /\ back \in RunType /\ back.phase = p.phase /\ back.status = p.status
      /\ back.node = p.node /\ back.active = p.active /\ back.pend = turn
      /\ back.concl = FALSE /\ back.adv = FALSE /\ back.job = p.job /\ back.hold = p.hold
      /\ back.gate = p.gate /\ back.approved = p.approved /\ back.excused = p.excused
      /\ back.nodes = p.nodes
  BY <1>5, <1>6, <1>7 DEF RunType
<1> HIDE DEF back
<1>9. Flow(back) BY <1>3, <1>5, <1>6, <1>8 DEF Flow
<1>10. Stands(back)
  <2>1. r.node \in Stages BY StageOf
  <2> QED BY <1>6, <1>8, <2>1 DEF Stands
<1>11. Honest(back, checked', decided', cut') /\ Gated(back, checked', decided', cut')
  BY <1>3, <1>5, <1>8, ResetKeeps DEF p
<1>12. cut' \subseteq cut' \cup {FailTo[n]} OBVIOUS
<1> QED BY <1>2, <1>3, <1>4, <1>6, <1>8, <1>9, <1>10, <1>11, <1>12, LaunchKeeps

-----------------------------------------------------------------------------
(* Every action keeps the invariant. *)

\* Everything but the document and the operation is well typed.
Typed ==
    /\ native \in Live \cup Ended \cup {"none"}
    /\ check \in {"none", "absent", "running", "pass", "fail", "dead"}
    /\ changes \in 0 .. MaxChanges /\ turns \in 0 .. MaxTurns
    /\ mishaps \in 0 .. MaxMishaps /\ returns \in 0 .. MaxReturns
    /\ leaked \in BOOLEAN /\ orphan \in BOOLEAN
    /\ checked \in [Stages -> {"no", "pass", "waived"}] /\ decided \subseteq Stages
    /\ cut \subseteq Stages

LEMMA MishapType ==
  ASSUME TypeOK, Mishap
  PROVE  mishaps' \in 0 .. MaxMishaps
BY BoundAssumption DEF TypeOK, Mishap

\* A step that pushes nothing and takes no approval back.
LEMMA Finish ==
  ASSUME RunInvariant, Settled', Typed', Processes', published' = published,
         op'.at = "push" => op.at = "push" /\ op'.sha = op.sha,
         run.approved <= run'.approved, run.excused \subseteq run'.excused
  PROVE  RunInvariant'
<1>1. run.approved \in 0 .. MaxChanges /\ run'.approved \in 0 .. MaxChanges
  BY DEF RunInvariant, Settled, RunType
<1>2. MaxChanges \in Nat BY BoundAssumption
<1>3. 0 .. run.approved \subseteq 0 .. run'.approved BY <1>1, <1>2
<1>4. published \subseteq (0 .. run'.approved) \cup run'.excused
  BY <1>3 DEF RunInvariant, Publication, PublishedApproved
<1>5. op'.at = "push" => op'.sha \in (0 .. run'.approved) \cup run'.excused
  BY <1>3 DEF RunInvariant, Publication
<1>5a. Publication' BY <1>4, <1>5 DEF Publication, PublishedApproved
<1>6. TypeOK' BY DEF RunInvariant, Settled, Typed, TypeOK
<1> QED BY <1>5a, <1>6 DEF RunInvariant

\* The invariant read apart.
LEMMA Unpack ==
  ASSUME RunInvariant
  PROVE  /\ Typed /\ Processes /\ run \in RunType /\ op \in OpType
         /\ Flow(run) /\ Stands(run) /\ Recorded(run)
         /\ Honest(run, checked, decided, cut)
         /\ Gated(run, checked, decided, cut \cup Reopening)
         /\ Starts /\ Ends /\ Queued
         /\ op.at # "prepare" => Gated(run, checked, decided, cut)
         /\ run.nodes \in [Stages -> NodeType] /\ run.node \in Stages /\ op.node \in Stages
         /\ run.approved \in Int
<1>1. TypeOK /\ Settled /\ Processes BY DEF RunInvariant
<1>2. Typed BY <1>1 DEF TypeOK, Typed
<1>3. op.at # "prepare" => cut \cup Reopening = cut BY DEF Reopening
<1>4. op.node \in Stages /\ run.approved \in Int
  <2>1. MaxChanges \in Nat BY BoundAssumption
  <2> QED BY <1>1, <2>1 DEF Settled, OpType, RunType
<1> QED BY <1>1, <1>2, <1>3, <1>4, StageOf DEF Settled

\* A step that leaves the document as it is.
LEMMA SameRun ==
  ASSUME RunInvariant, run' = run, UNCHANGED <<published, checked, decided>>,
         op' \in OpType, op'.at = "push" => op' = op, cut \subseteq cut',
         cut \cup Reopening \subseteq cut' \cup Reopening',
         Starts', Ends', Queued', Typed', Processes'
  PROVE  RunInvariant'
<1>1. Honest(run', checked', decided', cut') BY Unpack DEF Honest
<1>2. Gated(run', checked', decided', cut' \cup Reopening') BY Unpack DEF Gated
<1>3. Settled' BY <1>1, <1>2, Unpack DEF Settled, Flow, Stands, Recorded
<1> QED BY <1>3, Finish, Unpack

LEMMA TickProvisionKeeps == RunInvariant /\ TickProvision => RunInvariant'
<1> SUFFICES ASSUME RunInvariant, TickProvision PROVE RunInvariant' OBVIOUS
<1> USE Unpack
<1> USE DEF TickProvision, Ready, Quiet, NoGhost, rigged
<1>1. /\ op.at = "idle" /\ run.phase = "provisioning" /\ ~Terminal(run)
      /\ op' = At("provision", run.node) /\ run' = run
  OBVIOUS
<1>2. op' \in OpType /\ op'.at = "provision" /\ op'.node = run.node BY <1>1, AtType
<1>3. run.status = "running" BY <1>1 DEF Flow, Terminal
<1>4. Reopening = {} BY <1>1 DEF Reopening
<1>5. Starts' /\ Ends' /\ Queued' BY <1>1, <1>2, <1>3 DEF Starts, Ends, Queued, Flow
<1>6. Typed' /\ Processes' BY <1>1 DEF Typed, Processes, Alive
<1> QED BY <1>1, <1>2, <1>4, <1>5, <1>6, SameRun

LEMMA TickConcludeKeeps == RunInvariant /\ TickConclude => RunInvariant'
<1> SUFFICES ASSUME RunInvariant, TickConclude PROVE RunInvariant' OBVIOUS
<1> USE Unpack
<1> USE DEF TickConclude, Unqueued, Executing, Ready, Quiet, NoGhost, rigged
<1>1. /\ op.at = "idle" /\ run.status = "running" /\ ~run.job /\ run.pend = NoTurn
      /\ run.concl /\ op' = At("conclude", run.node) /\ run' = run
  OBVIOUS
<1>2. op' \in OpType /\ op'.at = "conclude" /\ op'.node = run.node BY <1>1, AtType
<1>3. ~run.active BY <1>1 DEF Flow
<1>4. Reopening = {} BY <1>1 DEF Reopening
<1>5. Starts' /\ Ends' /\ Queued' BY <1>1, <1>2, <1>3 DEF Starts, Ends, Queued
<1>6. Typed' /\ Processes' BY <1>1 DEF Typed, Processes, Alive
<1> QED BY <1>1, <1>2, <1>4, <1>5, <1>6, SameRun

LEMMA TickTimeoutKeeps == RunInvariant /\ TickTimeout => RunInvariant'
<1> SUFFICES ASSUME RunInvariant, TickTimeout PROVE RunInvariant' OBVIOUS
<1> USE Unpack
<1> USE DEF TickTimeout, Turning, Unqueued, Executing, Ready, Quiet, NoGhost, rigged
<1>1. /\ op.at = "idle" /\ run.status = "running" /\ ~run.job /\ run.pend = NoTurn
      /\ run.active /\ op' = At("timeout", run.node) /\ run' = run
  OBVIOUS
<1>2. op' \in OpType /\ op'.at = "timeout" /\ op'.node = run.node BY <1>1, AtType
<1>4. Reopening = {} BY <1>1 DEF Reopening
<1>5. Starts' /\ Ends' /\ Queued' BY <1>1, <1>2 DEF Starts, Ends, Queued
<1>6. Typed' /\ Processes' BY <1>1 DEF Typed, Processes, Alive
<1> QED BY <1>1, <1>2, <1>4, <1>5, <1>6, SameRun

LEMMA StopLandsKeeps == RunInvariant /\ StopLands => RunInvariant'
<1> SUFFICES ASSUME RunInvariant, StopLands PROVE RunInvariant' OBVIOUS
<1> USE Unpack
<1> USE DEF StopLands, NoGhost, rigged, bounds
<1>1. /\ op.at \in {"stop", "timeout"} /\ native' = Told /\ run' = run
      /\ op' = IF op.at = "stop" THEN Idle ELSE At("timedout", op.node)
  OBVIOUS
<1>2. /\ op' \in OpType /\ op'.at \in {"idle", "timedout"}
      /\ op'.at = "timedout" => op'.node = op.node
  BY <1>1, AtType, GraphFacts DEF Idle
<1>3. native' \in (Live \cup Ended \cup {"none"}) \ {"working", "idle"}
  BY <1>1 DEF Told, Typed, Live, Ended
<1>4. Reopening = {} BY <1>1 DEF Reopening
<1>5. run.active /\ op.node = run.node BY <1>1 DEF Starts
<1>6. Starts' /\ Ends' /\ Queued' BY <1>1, <1>2, <1>3, <1>5 DEF Starts, Ends, Queued, Alive, Flow
<1>7. Typed' /\ Processes' BY <1>1, <1>3 DEF Typed, Processes, Alive
<1> QED BY <1>1, <1>2, <1>4, <1>6, <1>7, SameRun

LEMMA StopFailsKeeps == RunInvariant /\ StopFails => RunInvariant'
<1> SUFFICES ASSUME RunInvariant, StopFails PROVE RunInvariant' OBVIOUS
<1> USE Unpack
<1> USE DEF StopFails, Quiet, NoGhost, rigged
<1>1. /\ op.at \in {"stop", "timeout"} /\ op' = Idle /\ run' = run /\ Mishap
  OBVIOUS
<1>2. op' \in OpType /\ op'.at = "idle" BY <1>1, GraphFacts DEF Idle
<1>3. run.active BY <1>1 DEF Starts
<1>4. Reopening = {} BY <1>1 DEF Reopening
<1>5. Starts' /\ Ends' /\ Queued' BY <1>1, <1>2, <1>3 DEF Starts, Ends, Queued, Flow
<1>6. mishaps' \in 0 .. MaxMishaps BY <1>1, MishapType DEF RunInvariant
<1>7. Typed' /\ Processes' BY <1>1, <1>6 DEF Typed, Processes, Alive
<1> QED BY <1>1, <1>2, <1>4, <1>5, <1>7, SameRun

LEMMA VerifyStartsKeeps == RunInvariant /\ VerifyStarts => RunInvariant'
<1> SUFFICES ASSUME RunInvariant, VerifyStarts PROVE RunInvariant' OBVIOUS
<1> USE Unpack
<1> USE DEF VerifyStarts, NoGhost, rigged, bounds
<1>1. /\ op.at = "verify" /\ op' = Idle /\ run' = run /\ check' = "running" /\ native' = native
  OBVIOUS
<1>2. op' \in OpType /\ op'.at = "idle" BY <1>1, GraphFacts DEF Idle
<1>3. run.job BY <1>1 DEF Ends
<1>4. Reopening = {} BY <1>1 DEF Reopening
<1>5. Starts' /\ Ends' /\ Queued' BY <1>1, <1>2, <1>3 DEF Starts, Ends, Queued
<1>6. Typed' /\ Processes' BY <1>1, <1>3 DEF Typed, Processes, Alive
<1> QED BY <1>1, <1>2, <1>4, <1>5, <1>6, SameRun

LEMMA TickCancelKeeps == RunInvariant /\ TickCancel => RunInvariant'
<1> SUFFICES ASSUME RunInvariant, TickCancel PROVE RunInvariant' OBVIOUS
<1> USE Unpack
<1> USE DEF TickCancel, Ready, Quiet, NoGhost, rigged
<1>1. /\ op.at = "idle" /\ ~Terminal(run) /\ run.cancel
      /\ op' = At("cancel", run.node) /\ run' = run
  OBVIOUS
<1>2. op' \in OpType /\ op'.at = "cancel" /\ op'.node = run.node BY <1>1, AtType
<1>4. Reopening = {} BY <1>1 DEF Reopening
<1>5. Starts' /\ Ends' /\ Queued' BY <1>1, <1>2 DEF Starts, Ends, Queued, Terminal
<1>6. Typed' /\ Processes' BY <1>1 DEF Typed, Processes, Alive
<1> QED BY <1>1, <1>2, <1>4, <1>5, <1>6, SameRun

LEMMA CancelTurnKeeps == RunInvariant /\ CancelTurn => RunInvariant'
<1> SUFFICES ASSUME RunInvariant, CancelTurn PROVE RunInvariant' OBVIOUS
<1> USE Unpack
<1> USE DEF CancelTurn, NoGhost, rigged
<1>1. /\ op.at = "cancel" /\ run' = run /\ op.node = run.node /\ run.cancel /\ ~Terminal(run)
  BY DEF Ends
<1>2. mishaps' \in 0 .. MaxMishaps BY MishapType DEF RunInvariant, Typed
<1>3. /\ op' \in OpType
      /\ \/ op'.at = "idle" /\ native' = native
         \/ /\ op'.at = "cancelled" /\ op'.node = op.node
            /\ native' = IF run.active /\ native \in Live THEN "lost" ELSE native
  BY AtType, GraphFacts DEF Idle
<1>4. Reopening = {} BY <1>1 DEF Reopening
<1>5. native' \in Live \cup Ended \cup {"none"} /\ (Alive' => Alive)
  BY <1>3 DEF Typed, Live, Ended, Alive
<1>6. op'.at = "cancelled" /\ Alive' => leaked' BY <1>3 DEF Processes, Alive, Live
<1>7. Starts' /\ Ends' /\ Queued'
  BY <1>1, <1>3, <1>6 DEF Starts, Ends, Queued, Terminal
<1>8. Typed' /\ Processes' BY <1>1, <1>2, <1>5 DEF Typed, Processes
<1>9. op'.at # "push" BY <1>3
<1> QED BY <1>1, <1>3, <1>4, <1>7, <1>8, <1>9, SameRun

LEMMA CancelCheckKeeps == RunInvariant /\ CancelCheck => RunInvariant'
<1> SUFFICES ASSUME RunInvariant, CancelCheck PROVE RunInvariant' OBVIOUS
<1> USE Unpack
<1> USE DEF CancelCheck, NoGhost, rigged, bounds
<1>1. /\ op.at = "cancelled" /\ run' = run /\ op.node = run.node /\ run.cancel
      /\ ~Terminal(run) /\ run.job /\ native' = native
  BY DEF Ends
<1>2. op' \in OpType /\ op'.at \in {"idle", "cancelled"} /\ (op'.at = "cancelled" => op' = op)
  BY <1>1, GraphFacts DEF Idle
<1>3. check' = check \/ check' = "dead" OBVIOUS
<1>4. Reopening = {} BY <1>1 DEF Reopening
<1>5. Starts' /\ Ends' /\ Queued'
  BY <1>1, <1>2 DEF Starts, Ends, Queued, Terminal, Alive
<1>6. Typed' /\ Processes' BY <1>1, <1>3 DEF Typed, Processes, Alive
<1> QED BY <1>1, <1>2, <1>4, <1>5, <1>6, SameRun

LEMMA TurnEndsKeeps == RunInvariant /\ TurnEnds => RunInvariant'
<1> SUFFICES ASSUME RunInvariant, TurnEnds PROVE RunInvariant' OBVIOUS
<1> USE Unpack
<1> USE DEF TurnEnds, NoGhost, rigged, bounds
<1>1. /\ native' \in Live \cup Ended \cup {"none"} /\ (Alive' => Alive)
      /\ run' = run /\ op' = op /\ cut' = cut
  BY DEF Live, Ended, Alive
<1>2. Reopening' = Reopening BY <1>1 DEF Reopening
<1>4. Starts' /\ Ends' /\ Queued' BY <1>1 DEF Starts, Ends, Queued, Terminal
<1>5. Typed' /\ Processes' BY <1>1 DEF Typed, Processes
<1> QED BY <1>1, <1>2, <1>4, <1>5, SameRun

LEMMA CheckEndsKeeps == RunInvariant /\ CheckEnds => RunInvariant'
<1> SUFFICES ASSUME RunInvariant, CheckEnds PROVE RunInvariant' OBVIOUS
<1> USE Unpack
<1> USE DEF CheckEnds, NoGhost, rigged, bounds
<1>1. /\ check = "running" /\ check' \in {"pass", "fail", "dead"}
      /\ run' = run /\ op' = op /\ cut' = cut /\ native' = native
  OBVIOUS
<1>2. Reopening' = Reopening BY <1>1 DEF Reopening
<1>4. Starts' /\ Ends' /\ Queued' BY <1>1 DEF Starts, Ends, Queued, Terminal, Alive
<1>5. Typed' /\ Processes' BY <1>1 DEF Typed, Processes, Alive
<1> QED BY <1>1, <1>2, <1>4, <1>5, SameRun

LEMMA WriteKeeps == RunInvariant /\ Write => RunInvariant'
<1> SUFFICES ASSUME RunInvariant, Write PROVE RunInvariant' OBVIOUS
<1> USE Unpack
<1> USE DEF Write, NoGhost, rigged, bounds
<1>1. /\ changes' \in 0 .. MaxChanges
      /\ run' = run /\ op' = op /\ cut' = cut /\ native' = native /\ check' = check
  BY BoundAssumption DEF Typed
<1>2. Reopening' = Reopening BY <1>1 DEF Reopening
<1>4. Starts' /\ Ends' /\ Queued' BY <1>1 DEF Starts, Ends, Queued, Terminal, Alive
<1>5. Typed' /\ Processes' BY <1>1 DEF Typed, Processes, Alive
<1> QED BY <1>1, <1>2, <1>4, <1>5, SameRun

LEMMA CrashKeeps == RunInvariant /\ Crash => RunInvariant'
<1> SUFFICES ASSUME RunInvariant, Crash PROVE RunInvariant' OBVIOUS
<1> USE Unpack
<1> USE DEF Crash
<1>1. /\ op.at # "idle" /\ op' = Idle /\ run' = run /\ cut' = cut \cup Reopening
  BY DEF Reopening
<1>2. op' \in OpType /\ op'.at = "idle" BY <1>1, GraphFacts DEF Idle
<1>3. mishaps' \in 0 .. MaxMishaps BY MishapType DEF RunInvariant
<1>4. /\ native' \in Live \cup Ended \cup {"none"}
      /\ Alive' => Alive \/ run.active
  BY DEF Typed, Live, Ended, Alive, Starts
<1>5. check' \in {"none", "absent", "running", "pass", "fail", "dead"}
      /\ (check' = "running" => check = "running" \/ run.job)
  BY DEF Typed, Ends
<1>6. Starts' /\ Ends' BY <1>1, <1>2 DEF Starts, Ends
<1>7. Queued'
  <2>1. CASE op.at = "prepare"
    <3>1. /\ run.pend.node = op.node /\ run.pend.kind = op.kind /\ ~run.job
          /\ run.status \in {"running", "awaiting"}
      BY <2>1 DEF Starts
    <3>2. CASE run.status = "awaiting" /\ ~OpensAttempt(op.kind)
      <4>1. Reopening = {op.node} BY <2>1, <3>2 DEF Queued, Reopening
      <4> QED BY <1>1, <1>2, <3>1, <4>1 DEF Queued
    <3> QED BY <1>1, <1>2, <3>1, <3>2 DEF Queued
  <2>2. CASE op.at # "prepare" BY <1>1, <1>2, <2>2 DEF Queued
  <2> QED BY <2>1, <2>2
<1>8. cut' \subseteq Stages BY <1>1 DEF Typed, Reopening
<1>9. Typed' /\ Processes' BY <1>1, <1>3, <1>4, <1>5, <1>8 DEF Typed, Processes
<1> QED BY <1>1, <1>2, <1>6, <1>7, <1>9, SameRun

LEMMA CreatePrKeeps == RunInvariant /\ CreatePr => RunInvariant'
<1> SUFFICES ASSUME RunInvariant, CreatePr PROVE RunInvariant' OBVIOUS
<1> USE Unpack
<1> USE DEF CreatePr, Plain, Quiet
<1>1. /\ op.at = "idle" /\ run.status = "completed" /\ run' = run
      /\ op' = [At("publish", run.node) EXCEPT !.resume = "publish"]
  BY DEF Owner, Offered, Terminal
<1>2. op' \in OpType /\ op'.at = "publish" /\ op'.node = run.node /\ op'.resume = "publish"
  BY <1>1, AtType DEF OpType
<1>4. Reopening = {} BY <1>1 DEF Reopening
<1>5. Starts' /\ Ends' /\ Queued' BY <1>1, <1>2 DEF Starts, Ends, Queued
<1>6. Typed' /\ Processes' BY <1>1 DEF Typed, Processes, Alive
<1> QED BY <1>1, <1>2, <1>4, <1>5, <1>6, SameRun

\* Parking or launching after what worked has ended.
LEMMA Rests ==
  ASSUME RunInvariant, Settled', Typed', ~run'.active, ~run'.job, op'.at # "push",
         run'.approved = run.approved, run'.excused = run.excused, published' = published,
         Alive' => leaked', orphan' => leaked', check' # "running"
  PROVE  RunInvariant'
<1>1. Processes' BY DEF Processes
<1>2. run.approved <= run'.approved BY Unpack
<1> QED BY <1>1, <1>2, Finish

LEMMA TickLostKeeps == RunInvariant /\ TickLost => RunInvariant'
<1> SUFFICES ASSUME RunInvariant, TickLost PROVE RunInvariant' OBVIOUS
<1> USE Unpack
<1> USE DEF TickLost, Turning, Unqueued, Executing, Ready, Quiet, NoGhost, rigged
<1>1. /\ op.at = "idle" /\ run.status = "running" /\ ~run.job /\ run.phase = "executing"
      /\ run' = Park(run, run.node, "session-error") /\ op' = op
      /\ ~run.active \/ native = "none"
  OBVIOUS
<1>2. "session-error" \in Parks BY DEF Parks
<1>3. Gated(run, checked', decided', cut') /\ cut' \subseteq cut' \cup {run.node} BY <1>1
<1>4. run.hold.reason # "budget" BY DEF Flow
<1>5. /\ Settled' /\ ~run'.active /\ ~run'.job
      /\ run'.approved = run.approved /\ run'.excused = run.excused
  BY <1>1, <1>2, <1>3, <1>4, ParkKeeps
<1>6. Typed' BY DEF Typed
<1>7. (Alive' => leaked') /\ (orphan' => leaked') /\ check' # "running"
  BY <1>1 DEF Processes, Alive
<1> QED BY <1>1, <1>5, <1>6, <1>7, Rests

LEMMA IdleType == Idle \in OpType /\ Idle.at = "idle"
BY GraphFacts DEF Idle

\* A launch for which nothing worked.
LEMMA LaunchRests ==
  ASSUME RunInvariant, NEW r \in RunType, NEW n \in Stages, NEW kind \in Kinds,
         Launch(r, n, kind), Alike(r, run), op.at # "prepare",
         r.phase = "executing", r.status \in {"running", "awaiting"}, ~r.active, ~r.job,
         UNCHANGED <<published, checked, decided, cut>>, Typed',
         Alive' => leaked', orphan' => leaked', check' # "running",
         ~OpensAttempt(kind) => n \in cut \/ ~r.nodes[n].verified,
         r.status = "awaiting" /\ ~OpensAttempt(kind) =>
            n = r.node /\ r.nodes[n].status = "awaiting-gate"
  PROVE  RunInvariant'
<1> USE Unpack
<1>1. r.node \in Stages BY StageOf
<1>2. /\ Flow(r) /\ Stands(r) /\ Honest(r, checked', decided', cut')
      /\ Gated(r, checked', decided', cut')
  BY <1>1, AlikeKeeps
<1>3. cut' \subseteq cut' \cup {n} /\ cut' \subseteq cut' OBVIOUS
<1>4. /\ Settled' /\ ~run'.active /\ ~run'.job /\ op'.at \in {"idle", "prepare"}
      /\ run'.approved = r.approved /\ run'.excused = r.excused
  BY <1>2, <1>3, LaunchKeeps
<1>5. r.approved = run.approved /\ r.excused = run.excused BY DEF Alike
<1> QED BY <1>4, <1>5, Rests

LEMMA AlikeSelf ==
  ASSUME NEW r
  PROVE  Alike(r, r)
BY DEF Alike

LEMMA LaunchEntryKeeps == RunInvariant /\ LaunchEntry => RunInvariant'
<1> SUFFICES ASSUME RunInvariant, LaunchEntry PROVE RunInvariant' OBVIOUS
<1> USE Unpack
<1> USE DEF LaunchEntry, Quiet, NoGhost, rigged
<1>1. /\ op.at = "entry" /\ run.phase = "executing" /\ run.status = "running"
      /\ ~run.active /\ ~run.job /\ Launch(run, run.node, "kickoff")
  BY DEF Starts
<1>2. "kickoff" \in Kinds /\ OpensAttempt("kickoff") BY DEF Kinds, OpensAttempt
<1>3. Typed' BY DEF Typed
<1>4. (Alive' => leaked') /\ (orphan' => leaked') /\ check' # "running"
  BY <1>1 DEF Processes, Alive
<1> QED BY <1>1, <1>2, <1>3, <1>4, AlikeSelf, LaunchRests

LEMMA TickPendingKeeps == RunInvariant /\ TickPending => RunInvariant'
<1> SUFFICES ASSUME RunInvariant, TickPending PROVE RunInvariant' OBVIOUS
<1> USE Unpack
<1> USE DEF TickPending, Executing, Ready, Quiet, NoGhost, rigged
<1>1. /\ op.at = "idle" /\ run.phase = "executing" /\ run.status = "running"
      /\ ~run.job /\ run.pend # NoTurn /\ Launch(run, run.pend.node, run.pend.kind)
  OBVIOUS
<1>2. ~run.active /\ run.pend.kind # "none" BY <1>1 DEF Flow
<1>3. run.pend.node \in Stages /\ run.pend.kind \in Kinds BY <1>2 DEF RunType, TurnType
<1>4. ~OpensAttempt(run.pend.kind) =>
         run.pend.node \in cut \/ ~run.nodes[run.pend.node].verified
  BY <1>1, <1>3 DEF Honest, HonestAt
<1>5. Typed' BY DEF Typed
<1>6. (Alive' => leaked') /\ (orphan' => leaked') /\ check' # "running"
  BY <1>1, <1>2 DEF Processes, Alive
<1> QED BY <1>1, <1>2, <1>3, <1>4, <1>5, <1>6, AlikeSelf, LaunchRests

LEMMA TickUsageResetKeeps == RunInvariant /\ TickUsageReset => RunInvariant'
<1> SUFFICES ASSUME RunInvariant, TickUsageReset PROVE RunInvariant' OBVIOUS
<1> USE Unpack
<1> USE DEF TickUsageReset, Ready, Quiet, NoGhost, rigged
<1>1. /\ op.at = "idle" /\ run.status = "awaiting" /\ Launch(run, run.node, "kickoff")
  OBVIOUS
<1>2. ~run.active /\ ~run.job /\ run.phase = "executing" BY <1>1 DEF Flow, RunType
<1>3. "kickoff" \in Kinds /\ OpensAttempt("kickoff") BY DEF Kinds, OpensAttempt
<1>4. Typed' BY DEF Typed
<1>5. (Alive' => leaked') /\ (orphan' => leaked') /\ check' # "running"
  BY <1>1, <1>2 DEF Processes, Alive
<1> QED BY <1>1, <1>2, <1>3, <1>4, <1>5, AlikeSelf, LaunchRests

\* The run's phase while it waits for the owner, and what works then.
LEMMA Waiting ==
  ASSUME RunInvariant, run.status \in {"awaiting", "completed"}
  PROVE  /\ run.phase = "executing" /\ ~run.active /\ ~run.job /\ ~run.adv
         /\ Alive => leaked
         /\ orphan => leaked
         /\ check # "running" /\ run.hold.reason # "budget"
         /\ run.pend # NoTurn => run.pend.kind # "none"
         /\ op.at # "prepare" /\ run.pend # NoTurn /\ ~OpensAttempt(run.pend.kind) =>
               run.pend.node \in cut
<1> USE Unpack
<1>1. run.phase = "executing" /\ ~run.active /\ ~run.job BY DEF Flow, RunType
<1>2. run.status = "completed" => ~run.adv BY DEF Flow
<1> QED BY <1>1, <1>2 DEF Flow, Processes, Queued, Alive

\* What each decision needs the run to be (availableActions).
LEMMA OfferedFacts ==
  ASSUME NEW r \in RunType
  PROVE  LET s == r.nodes[r.node] IN
         /\ "accept" \in Offered(r) =>
               r.status = "awaiting" /\ s.status = "awaiting-gate" /\ s.reason = "none"
         /\ "override" \in Offered(r) =>
               r.status = "awaiting" /\ s.reason # "budget"
         /\ "feedback" \in Offered(r) =>
               r.status = "awaiting" /\ s.status = "awaiting-gate" /\ s.reason # "budget"
         /\ "retry" \in Offered(r) \/ "resume-now" \in Offered(r) =>
               r.status = "awaiting" /\ s.status = "failed"
         /\ "wait" \in Offered(r) => r.status = "awaiting"
         /\ "raise-budget" \in Offered(r) => r.status = "awaiting" /\ s.reason = "budget"
         /\ "loop-back" \in Offered(r) => r.status = "awaiting" /\ Loops(r.node)
         /\ "reconcile" \in Offered(r) => r.status = "awaiting" /\ s.status = "failed"
         /\ "approve-risk" \in Offered(r) => r.status = "awaiting" /\ s.reason = "risk-gate"
         /\ "decline-risk" \in Offered(r) =>
               r.status = "awaiting" /\ s.reason = "risk-gate" /\ r.gate.resume = "publish"
         /\ "return" \in Offered(r) =>
               r.status \in {"completed", "failed"} /\ r.phase = "executing"
<1>1. Terminal(r) \/ r.status = "running" \/ r.status = "awaiting" BY DEF RunType, Terminal
<1>2. CASE Terminal(r)
  <2>1. Offered(r) = {a \in {"create-pr", "return"} :
                IF a = "create-pr" THEN r.status = "completed" /\ ~r.pr
                ELSE r.status # "cancelled" /\ r.phase = "executing"}
    BY <1>2 DEF Offered, Active, Terminal
  <2> QED BY <1>2, <2>1 DEF Terminal
<1>3. CASE r.status = "running"
  <2>1. Offered(r) = {"abort"} BY <1>3 DEF Offered, Terminal
  <2> QED BY <2>1
<1>4. CASE r.status = "awaiting"
  <2>1. ~Terminal(r) /\ r.status # "running" BY <1>4 DEF Terminal
  <2>2. CASE r.nodes[r.node].reason = "budget"
    <3>1. Offered(r) = {"abort", "raise-budget"} BY <1>4, <2>1, <2>2 DEF Offered, Active
    <3> QED BY <1>4, <2>2, <3>1
  <2>3. CASE r.nodes[r.node].reason = "risk-gate" /\ r.gate.resume = "publish"
    <3>1. Offered(r) = {"approve-risk", "decline-risk"}
      BY <1>4, <2>1, <2>3 DEF Offered, Active
    <3> QED BY <1>4, <2>3, <3>1
  <2>4. CASE /\ r.nodes[r.node].reason # "budget"
             /\ ~(r.nodes[r.node].reason = "risk-gate" /\ r.gate.resume = "publish")
    <3> DEFINE n == r.nodes[r.node]
    <3>1. Offered(r) =
            {"abort"}
            \cup {a \in {"approve-risk", "override", "accept", "feedback"} :
                    /\ n.status = "awaiting-gate"
                    /\ CASE a = "feedback" -> n.native
                         [] a = "approve-risk" -> n.reason = "risk-gate"
                         [] a = "override" -> n.reason \notin {"none", "risk-gate"}
                         [] OTHER -> n.reason = "none"}
            \cup {a \in {"wait", "resume-now", "retry", "reconcile", "override"} :
                    /\ n.status = "failed"
                    /\ CASE a \in {"wait", "resume-now"} -> n.reason = "usage"
                         [] a = "retry" -> n.reason # "usage"
                         [] OTHER -> /\ n.reason \in {"session-error", "timeout"}
                                     /\ r.att.status \in {"running", "finished"}
                                     /\ a = "reconcile" => ~r.att.stopped}
            \cup (IF Loops(r.node) THEN {"loop-back"} ELSE {})
      BY <1>4, <2>1, <2>4 DEF Offered, Active
    <3> HIDE DEF n
    <3>2. /\ "accept" \in Offered(r) => n.status = "awaiting-gate" /\ n.reason = "none"
          /\ "feedback" \in Offered(r) => n.status = "awaiting-gate"
          /\ "retry" \in Offered(r) \/ "resume-now" \in Offered(r) => n.status = "failed"
          /\ "raise-budget" \notin Offered(r) /\ "decline-risk" \notin Offered(r)
          /\ "return" \notin Offered(r)
          /\ "reconcile" \in Offered(r) => n.status = "failed"
          /\ "approve-risk" \in Offered(r) => n.reason = "risk-gate"
          /\ "loop-back" \in Offered(r) => Loops(r.node)
      BY <3>1
    <3> QED BY <1>4, <2>4, <3>2 DEF n
  <2> QED BY <2>2, <2>3, <2>4
<1> QED BY <1>1, <1>2, <1>3, <1>4


\* A step that approves or excuses more, after which nothing works.
LEMMA RestsApproved ==
  ASSUME RunInvariant, Settled', Typed', ~run'.active, ~run'.job, op'.at # "push",
         run.approved <= run'.approved, run.excused \subseteq run'.excused,
         published' = published, Alive' => leaked', orphan' => leaked', check' # "running"
  PROVE  RunInvariant'
<1>1. Processes' BY DEF Processes
<1> QED BY <1>1, Finish

\* A step that changes nothing an invariant reads, and waits where it may.
LEMMA AlikeSettled ==
  ASSUME RunInvariant, run' \in RunType, Alike(run', run), Recorded(run'),
         UNCHANGED <<checked, decided, cut>>, op.at # "prepare",
         op' \in OpType, op'.at # "prepare", Starts', Ends', Queued'
  PROVE  Settled'
<1> USE Unpack
<1>1. run'.node \in Stages BY StageOf
<1>2. /\ Flow(run') /\ Stands(run') /\ Honest(run', checked', decided', cut')
      /\ Gated(run', checked', decided', cut')
  BY <1>1, AlikeKeeps
<1>3. Reopening' = {} BY DEF Reopening
<1> QED BY <1>2, <1>3 DEF Settled

\* Parking after what worked has ended.
LEMMA ParkRests ==
  ASSUME RunInvariant, NEW r \in RunType, NEW n \in Stages, NEW why \in Parks,
         run' = Park(r, n, why), op' \in OpType, op'.at = "idle", Alike(r, run),
         r.phase = "executing", ~r.job, r.active => n = r.node, r.status # "cancelled",
         UNCHANGED <<published, checked, decided, cut>>, Typed',
         op.at = "prepare" => op.node = n,
         Alive' => leaked', orphan' => leaked', check' # "running",
         why = "pr-failed" => n \in cut \/ Clears(r, n, checked, decided)
  PROVE  RunInvariant'
<1> USE Unpack
<1>1. r.node \in Stages BY StageOf
<1> DEFINE y == cut \cup Reopening
<1>2. /\ Flow(r) /\ Stands(r) /\ Honest(r, checked', decided', cut')
      /\ Gated(r, checked', decided', y)
  BY <1>1, AlikeKeeps
<1>3. y \subseteq cut' \cup {n} BY DEF Reopening
<1>4. r.hold.reason # "budget" BY <1>2 DEF Flow
<1> HIDE DEF y
<1>5. /\ Settled' /\ ~run'.active /\ ~run'.job
      /\ run'.approved = r.approved /\ run'.excused = r.excused
  BY <1>2, <1>3, <1>4, ParkKeeps
<1>6. r.approved = run.approved /\ r.excused = run.excused BY DEF Alike
<1> QED BY <1>5, <1>6, Rests

LEMMA ProvisionedKeeps == RunInvariant /\ Provisioned => RunInvariant'
<1> SUFFICES ASSUME RunInvariant, Provisioned PROVE RunInvariant' OBVIOUS
<1> USE Unpack
<1> USE DEF Provisioned, Quiet, NoGhost, rigged
<1>1. /\ op.at = "provision" /\ run.phase = "provisioning" /\ run.status = "running"
      /\ run' = [run EXCEPT !.phase = "executing"] /\ op' = At("entry", run.node)
  BY DEF Starts
<1>2. op' \in OpType /\ op'.at = "entry" BY <1>1, AtType
<1>3. run.att = NoAttempt /\ run.pend = NoTurn /\ ~run.concl /\ ~run.adv /\ ~run.active
      /\ ~run.job
  BY <1>1 DEF Flow
<1>4. /\ run' \in RunType /\ run'.phase = "executing" /\ run'.status = "running"
      /\ run'.node = run.node /\ run'.att = run.att /\ run'.active = run.active
      /\ run'.pend = run.pend /\ run'.concl = run.concl /\ run'.adv = run.adv
      /\ run'.job = run.job /\ run'.hold = run.hold /\ run'.gate = run.gate
      /\ run'.approved = run.approved /\ run'.excused = run.excused /\ run'.nodes = run.nodes
  BY <1>1 DEF RunType
<1>5. Flow(run') /\ Stands(run') /\ Recorded(run')
  BY <1>1, <1>3, <1>4 DEF Flow, Stands, Recorded
<1>6. Honest(run, checked', decided', cut') /\ Gated(run, checked', decided', cut') BY <1>1
<1>7. Honest(run', checked', decided', cut') /\ Gated(run', checked', decided', cut')
  BY <1>4, <1>6, NoStage
<1>8. Reopening' = {} BY <1>2 DEF Reopening
<1>9. Starts' /\ Ends' /\ Queued' BY <1>2, <1>3, <1>4 DEF Starts, Ends, Queued
<1>10. Settled' BY <1>2, <1>4, <1>5, <1>7, <1>8, <1>9 DEF Settled
<1>11. Typed' BY DEF Typed
<1>12. (Alive' => leaked') /\ (orphan' => leaked') /\ check' # "running"
  BY <1>3 DEF Processes, Alive
<1> QED BY <1>2, <1>3, <1>4, <1>10, <1>11, <1>12, Rests

LEMMA ProvisionFailsKeeps == RunInvariant /\ ProvisionFails => RunInvariant'
<1> SUFFICES ASSUME RunInvariant, ProvisionFails PROVE RunInvariant' OBVIOUS
<1> USE Unpack
<1> USE DEF ProvisionFails, Quiet, NoGhost, rigged
<1>1. /\ op.at = "provision" /\ run.phase = "provisioning" /\ run.status = "running"
      /\ run' = [run EXCEPT !.status = "failed"] /\ op' = Idle /\ Mishap
  BY DEF Starts
<1>2. op' \in OpType /\ op'.at = "idle" BY <1>1, IdleType
<1>3. run.att = NoAttempt /\ run.pend = NoTurn /\ ~run.concl /\ ~run.adv /\ ~run.active
      /\ ~run.job
  BY <1>1 DEF Flow
<1>4. /\ run' \in RunType /\ run'.phase = run.phase /\ run'.status = "failed"
      /\ run'.node = run.node /\ run'.att = run.att /\ run'.active = run.active
      /\ run'.pend = run.pend /\ run'.concl = run.concl /\ run'.adv = run.adv
      /\ run'.job = run.job /\ run'.hold = run.hold /\ run'.gate = run.gate
      /\ run'.approved = run.approved /\ run'.excused = run.excused /\ run'.nodes = run.nodes
  BY <1>1 DEF RunType
<1>5. Flow(run') /\ Stands(run') /\ Recorded(run')
  BY <1>1, <1>3, <1>4 DEF Flow, Stands, Recorded
<1>6. Honest(run, checked', decided', cut') /\ Gated(run, checked', decided', cut') BY <1>1
<1>7. Honest(run', checked', decided', cut') /\ Gated(run', checked', decided', cut')
  BY <1>4, <1>6, NoStage
<1>8. Reopening' = {} BY <1>2 DEF Reopening
<1>9. Starts' /\ Ends' /\ Queued' BY <1>2, <1>3, <1>4 DEF Starts, Ends, Queued
<1>10. Settled' BY <1>2, <1>4, <1>5, <1>7, <1>8, <1>9 DEF Settled
<1>11. mishaps' \in 0 .. MaxMishaps BY <1>1, MishapType DEF RunInvariant
<1>12. Typed' BY <1>11 DEF Typed
<1>13. (Alive' => leaked') /\ (orphan' => leaked') /\ check' # "running"
  BY <1>3 DEF Processes, Alive
<1> QED BY <1>2, <1>3, <1>4, <1>10, <1>12, <1>13, Rests

LEMMA PrepareFailsKeeps == RunInvariant /\ PrepareFails => RunInvariant'
<1> SUFFICES ASSUME RunInvariant, PrepareFails PROVE RunInvariant' OBVIOUS
<1> USE Unpack
<1> USE DEF PrepareFails, Quiet, NoGhost, rigged
<1> DEFINE r == Opened(run, op.node, op.kind)
<1>1. /\ op.at = "prepare" /\ run' = Park(r, op.node, "session-error") /\ op' = Idle
      /\ (mishaps' = mishaps \/ Mishap)
  OBVIOUS
<1>2. /\ run.phase = "executing" /\ run.status \in {"running", "awaiting"}
      /\ op.kind # "none" /\ ~run.active /\ ~run.job
  BY <1>1 DEF Starts
<1>3. op.kind \in Kinds BY <1>2 DEF OpType
<1>4. /\ r \in RunType /\ r.phase = run.phase /\ r.status = run.status
      /\ r.node = run.node /\ r.active = run.active /\ r.pend = run.pend
      /\ r.concl = run.concl /\ r.adv = run.adv /\ r.job = run.job /\ r.hold = run.hold
      /\ r.gate = run.gate /\ r.approved = run.approved /\ r.excused = run.excused
      /\ r.nodes[op.node].status = run.nodes[op.node].status
      /\ r.nodes[op.node].reason = run.nodes[op.node].reason
      /\ r.nodes[op.node].via = run.nodes[op.node].via
      /\ r.nodes[op.node].bypassed = run.nodes[op.node].bypassed
      /\ r.nodes[op.node].verified = (run.nodes[op.node].verified /\ ~OpensAttempt(op.kind))
      /\ OthersSame(r, run, op.node)
  BY <1>3, OpenedFacts
<1> HIDE DEF r
<1>5. Alike(r, run) BY <1>2, <1>4 DEF Alike, OthersSame
<1>6. op' \in OpType /\ op'.at = "idle" BY <1>1, IdleType
<1>7. mishaps' \in 0 .. MaxMishaps BY <1>1, MishapType DEF RunInvariant, Typed
<1>8. Typed' BY <1>7 DEF Typed
<1>9. (Alive' => leaked') /\ (orphan' => leaked') /\ check' # "running"
  BY <1>2 DEF Processes, Alive
<1>10. "session-error" \in Parks BY DEF Parks
<1> QED BY <1>1, <1>2, <1>4, <1>5, <1>6, <1>8, <1>9, <1>10, ParkRests

\* Away from stage n, what was verified and decided stays or grows, and so do the
\* stages that are excused.
Elsewhere(n, c, d, x, c0, d0, x0, y0) ==
    \A s \in Stages \ {n} : /\ c[s] = c0[s] /\ (s \in d0 => s \in d)
                            /\ (s \notin x => s \notin x0) /\ (s \notin x => s \notin y0)

\* The stage that changed is or becomes the current one.
LEMMA CurrentStage ==
  ASSUME NEW r, NEW p, NEW n, NEW c, NEW d, NEW x, NEW c0, NEW d0, NEW x0, NEW y0,
         p.node = n, p.pend = NoTurn \/ p.pend = r.pend, OthersSame(p, r, n),
         Elsewhere(n, c, d, x, c0, d0, x0, y0),
         Honest(r, c0, d0, x0), Gated(r, c0, d0, y0),
         p.nodes[n].bypassed => n \in d, n \notin x => HonestAt(p, n, c, d)
  PROVE  /\ Honest(p, c, d, x) /\ Gated(p, c, d, x \cup {n})
         /\ (n \notin x => GatedAt(p, n, c, d)) => Gated(p, c, d, x)
<1> USE DEF OthersSame, Elsewhere
<1>1. \A s \in Stages \ {n} : /\ Checks(p, s, c) <=> Checks(r, s, c0)
                              /\ Clears(r, s, c0, d0) => Clears(p, s, c, d)
  BY DEF Checks, Clears, Flags
<1>2. \A s \in Stages \ {n} : HonestAt(r, s, c0, d0) => HonestAt(p, s, c, d)
  BY <1>1 DEF HonestAt
<1>3. \A s \in Stages \ {n} : GatedAt(r, s, c0, d0) => GatedAt(p, s, c, d)
  BY <1>1 DEF GatedAt
<1> QED BY <1>2, <1>3 DEF Honest, Gated

\* A launched turn opens its stage anew: nothing of what it was verified or decided by
\* counts, and nothing it claims needs either.
LEMMA PreparedKeeps == RunInvariant /\ Prepared => RunInvariant'
<1> SUFFICES ASSUME RunInvariant, Prepared PROVE RunInvariant' OBVIOUS
<1> USE Unpack
<1> DEFINE n == op.node
           r == Opened(run, n, op.kind)
           x == [r.nodes[n] EXCEPT !.verdict = "none", !.overridden = FALSE,
                    !.bypassed = FALSE, !.status = "running", !.reason = "none", !.ran = TRUE]
           nn == [r.nodes EXCEPT ![n] = x]
           att == [NoAttempt EXCEPT !.kind = op.kind, !.status = "launching"]
<1>1. /\ op.at = "prepare" /\ turns < MaxTurns /\ turns' = turns + 1
      /\ run' = [r EXCEPT !.nodes = nn, !.gate = NoGate, !.status = "running",
                    !.pend = NoTurn, !.concl = FALSE, !.adv = FALSE, !.node = n, !.att = att,
                    !.active = TRUE, !.resume = FALSE]
      /\ op' = [op EXCEPT !.at = "start"]
      /\ checked' = [checked EXCEPT ![n] = "no"] /\ decided' = decided \ {n}
      /\ cut' = (IF OpensAttempt(op.kind) THEN cut \ {n} ELSE cut)
      /\ orphan' = (orphan \/ native \in {"working", "idle"}) /\ native' = "none"
      /\ UNCHANGED <<check, changes, mishaps, returns, published, leaked>>
  BY DEF Prepared
<1>2. /\ run.phase = "executing" /\ run.status \in {"running", "awaiting"}
      /\ run.pend = [node |-> n, kind |-> op.kind]
      /\ op.kind # "none" /\ ~run.active /\ ~run.job
  BY <1>1 DEF Starts
<1>3. op.kind \in Kinds /\ n \in Stages BY <1>2 DEF OpType
<1>4. /\ r \in RunType /\ r.phase = run.phase
      /\ r.active = run.active /\ r.job = run.job /\ r.hold = run.hold
      /\ r.approved = run.approved /\ r.excused = run.excused
      /\ r.nodes[n].verified = (run.nodes[n].verified /\ ~OpensAttempt(op.kind))
      /\ OthersSame(r, run, n)
  BY <1>3, OpenedFacts
<1>5. r.nodes[n] \in NodeType BY <1>3, <1>4, StageOf
<1>6. /\ op' \in OpType /\ op'.at = "start" /\ op'.node = n /\ op'.kind = op.kind
  BY <1>1 DEF OpType
<1>7. cut' \subseteq Stages /\ cut' \subseteq cut /\ cut \subseteq cut' \cup {n}
      /\ (~OpensAttempt(op.kind) => cut' = cut)
  BY <1>1 DEF Typed
<1> HIDE DEF n, r
<1>8. x \in NodeType /\ x.status = "running" /\ x.reason = "none" /\ x.bypassed = FALSE
      /\ x.verified = r.nodes[n].verified
  BY <1>5 DEF NodeType, Reasons
<1> HIDE DEF x
<1>9. nn \in [Stages -> NodeType] /\ nn[n] = x /\ \A s \in Stages \ {n} : nn[s] = r.nodes[s]
  BY <1>3, <1>4, <1>8, NodeEdit
<1>10. att \in AttemptType BY <1>3, GraphFacts DEF AttemptType
<1> HIDE DEF nn, att
<1>11. /\ run' \in RunType /\ run'.phase = "executing" /\ run'.status = "running"
       /\ run'.node = n /\ run'.att = att /\ run'.active = TRUE /\ run'.pend = NoTurn
       /\ run'.concl = FALSE /\ run'.adv = FALSE /\ run'.job = FALSE /\ run'.hold = run.hold
       /\ run'.approved = run.approved /\ run'.excused = run.excused /\ run'.nodes = nn
  BY <1>1, <1>2, <1>3, <1>4, <1>9, <1>10, GraphFacts DEF RunType
<1>12. Flow(run') /\ Stands(run') /\ Recorded(run')
  BY <1>8, <1>9, <1>11 DEF Flow, Stands, Recorded
<1>13. n \notin cut' => ~x.verified
  <2> SUFFICES ASSUME n \notin cut', ~OpensAttempt(op.kind) PROVE ~x.verified BY <1>4, <1>8
  <2>1. HonestAt(run, n, checked, decided) BY <1>3, <1>7 DEF Honest
  <2>2. run.pend # NoTurn /\ n = run.pend.node /\ ~OpensAttempt(run.pend.kind)
    BY <1>2 DEF NoTurn
  <2> QED BY <1>4, <1>8, <2>1, <2>2 DEF HonestAt
<1>14. ~run'.nodes[n].bypassed BY <1>8, <1>9, <1>11
<1>15. n \notin cut' => HonestAt(run', n, checked', decided')
  BY <1>8, <1>9, <1>11, <1>13 DEF HonestAt
<1>16. GatedAt(run', n, checked', decided') BY <1>8, <1>9, <1>11 DEF GatedAt
<1> DEFINE y == cut \cup Reopening
<1>17. \A s \in Stages \ {n} : s \notin cut' => s \notin y
  BY <1>7 DEF Reopening, n
<1>18. Elsewhere(n, checked', decided', cut', checked, decided, cut, y)
  BY <1>1, <1>7, <1>17 DEF Typed, Elsewhere
<1>19. OthersSame(run', run, n) BY <1>4, <1>9, <1>11 DEF OthersSame
<1> HIDE DEF y
<1>20. Honest(run, checked, decided, cut) /\ Gated(run, checked, decided, y) BY DEF y
<1>21. Honest(run', checked', decided', cut') /\ Gated(run', checked', decided', cut')
  BY <1>11, <1>14, <1>15, <1>16, <1>18, <1>19, <1>20, CurrentStage
<1>22. Reopening' = {} BY <1>6 DEF Reopening
<1>23. Starts' /\ Ends' /\ Queued' BY <1>1, <1>2, <1>6, <1>11 DEF Starts, Ends, Queued, Alive
<1>24. Settled' BY <1>6, <1>11, <1>12, <1>21, <1>22, <1>23 DEF Settled
<1>25. turns' \in 0 .. MaxTurns BY <1>1, BoundAssumption DEF Typed
<1>26. checked' \in [Stages -> {"no", "pass", "waived"}] /\ decided' \subseteq Stages
  BY <1>1, <1>3 DEF Typed
<1>27. Typed' BY <1>1, <1>7, <1>25, <1>26 DEF Typed
<1>28. Processes' BY <1>1, <1>2, <1>11 DEF Processes, Alive
<1>29. run.approved <= run'.approved BY <1>11
<1> QED BY <1>1, <1>6, <1>11, <1>24, <1>27, <1>28, <1>29, Finish

\* The attempt of a turn under way changes.
LEMMA AttemptEdit ==
  ASSUME NEW r \in RunType, NEW att \in AttemptType, r.phase = "executing"
  PROVE  LET p == [r EXCEPT !.att = att] IN
         /\ p \in RunType /\ Alike(p, r) /\ p.phase = r.phase /\ p.status = r.status
         /\ p.node = r.node /\ p.active = r.active /\ p.pend = r.pend /\ p.concl = r.concl
         /\ p.adv = r.adv /\ p.job = r.job /\ p.approved = r.approved
         /\ p.excused = r.excused /\ p.nodes = r.nodes
BY DEF RunType, Alike

LEMMA StartedKeeps == RunInvariant /\ Started => RunInvariant'
<1> SUFFICES ASSUME RunInvariant, Started PROVE RunInvariant' OBVIOUS
<1> USE Unpack
<1> USE DEF Started, NoGhost, rigged, bounds
<1> DEFINE att == [run.att EXCEPT !.status = "running"]
<1>1. /\ op.at = "start" /\ run' = [run EXCEPT !.att = att] /\ op' = Idle
      /\ native' = "working" /\ check' = check
  OBVIOUS
<1>2. run.active BY <1>1 DEF Starts
<1>3. run.phase = "executing" /\ run.status = "running" /\ run.pend = NoTurn /\ ~run.job
  BY <1>2 DEF Flow, RunType
<1>4. att \in AttemptType BY DEF RunType, AttemptType
<1> HIDE DEF att
<1>5. /\ run' \in RunType /\ Alike(run', run) /\ run'.active = run.active
      /\ run'.pend = run.pend /\ run'.job = run.job /\ run'.approved = run.approved
      /\ run'.excused = run.excused
  BY <1>1, <1>3, <1>4, AttemptEdit
<1>6. op' \in OpType /\ op'.at = "idle" BY <1>1, IdleType
<1>7. Recorded(run') BY <1>2, <1>5 DEF Recorded
<1>8. Starts' /\ Ends' /\ Queued' BY <1>3, <1>5, <1>6 DEF Starts, Ends, Queued
<1>9. Settled' BY <1>1, <1>5, <1>6, <1>7, <1>8, AlikeSettled
<1>10. Typed' BY <1>1 DEF Typed, Live
<1>11. Processes' BY <1>1, <1>2, <1>3, <1>5 DEF Processes
<1>12. run.approved <= run'.approved BY <1>5
<1> QED BY <1>5, <1>6, <1>9, <1>10, <1>11, <1>12, Finish

LEMMA TickGraceKeeps == RunInvariant /\ TickGrace => RunInvariant'
<1> SUFFICES ASSUME RunInvariant, TickGrace PROVE RunInvariant' OBVIOUS
<1> USE Unpack
<1> USE DEF TickGrace, Turning, Unqueued, Executing, Ready, Quiet, NoGhost, rigged
<1> DEFINE att == [run.att EXCEPT !.settled = TRUE]
<1>1. /\ op.at = "idle" /\ run' = [run EXCEPT !.att = att] /\ op' = At("stop", run.node)
      /\ run.active /\ run.phase = "executing" /\ run.pend = NoTurn /\ ~run.job
      /\ native' = native
  OBVIOUS
<1>2. att \in AttemptType BY DEF RunType, AttemptType
<1> HIDE DEF att
<1>2a. run \in RunType /\ run' = [run EXCEPT !.att = att] /\ run.phase = "executing" BY <1>1
<1>2b. UNCHANGED <<native, check, changes, turns, returns, mishaps, published, leaked, orphan, checked, decided, cut>> OBVIOUS
<1> HIDE DEF TickGrace, Turning, Unqueued, Executing, Ready
<1>3. /\ run' \in RunType /\ Alike(run', run) /\ run'.active = run.active
      /\ run'.node = run.node /\ run'.pend = run.pend /\ run'.job = run.job
      /\ run'.approved = run.approved /\ run'.excused = run.excused
  BY <1>2, <1>2a, AttemptEdit
<1>4. op' \in OpType /\ op'.at = "stop" /\ op'.node = run.node BY <1>1, AtType
<1>5. Recorded(run') BY <1>1, <1>3 DEF Recorded
<1>6. Starts' /\ Ends' /\ Queued' BY <1>1, <1>3, <1>4 DEF Starts, Ends, Queued
<1>7. Settled' BY <1>1, <1>2b, <1>3, <1>4, <1>5, <1>6, AlikeSettled
<1>8. Typed' BY <1>2b DEF Typed
<1>9. Processes' BY <1>1, <1>2b, <1>3 DEF Processes, Alive
<1>10. run.approved <= run'.approved BY <1>3
<1> QED BY <1>2b, <1>3, <1>4, <1>7, <1>8, <1>9, <1>10, Finish

LEMMA TimedOutKeeps == RunInvariant /\ TimedOut => RunInvariant'
<1> SUFFICES ASSUME RunInvariant, TimedOut PROVE RunInvariant' OBVIOUS
<1> USE Unpack
<1> USE DEF TimedOut, Quiet, NoGhost, rigged
<1> DEFINE att == [run.att EXCEPT !.stopped = TRUE]
           r == [run EXCEPT !.att = att]
<1>1. /\ op.at = "timedout" /\ run' = Park(r, op.node, "timeout") /\ op' = Idle
  OBVIOUS
<1>2. run.active /\ op.node = run.node /\ ~Alive BY <1>1 DEF Starts
<1>3. run.phase = "executing" /\ run.status = "running" /\ ~run.job
  BY <1>2 DEF Flow, RunType
<1>4. att \in AttemptType BY DEF RunType, AttemptType
<1> HIDE DEF att
<1>5. /\ r \in RunType /\ Alike(r, run) /\ r.phase = run.phase /\ r.status = run.status
      /\ r.node = run.node /\ r.job = run.job
  BY <1>3, <1>4, AttemptEdit
<1> HIDE DEF r
<1>6. op' \in OpType /\ op'.at = "idle" BY <1>1, IdleType
<1>7. Typed' BY DEF Typed
<1>8. (Alive' => leaked') /\ (orphan' => leaked') /\ check' # "running"
  BY <1>2, <1>3 DEF Processes, Alive
<1>9. "timeout" \in Parks BY DEF Parks
<1> QED BY <1>1, <1>2, <1>3, <1>5, <1>6, <1>7, <1>8, <1>9, ParkRests

LEMMA CancelKeeps == RunInvariant /\ Cancel => RunInvariant'
<1> SUFFICES ASSUME RunInvariant, Cancel PROVE RunInvariant' OBVIOUS
<1> USE Unpack
<1> USE DEF Cancel, Ready, Quiet, NoGhost, rigged, Cancelling
<1>1. /\ op.at = "idle" /\ ~Terminal(run) /\ run' = [run EXCEPT !.cancel = TRUE]
      /\ op' = At("cancel", run.node) /\ native' = native
  OBVIOUS
<1>2. /\ run' \in RunType /\ run'.cancel /\ run'.phase = run.phase
      /\ run'.status = run.status /\ run'.node = run.node /\ run'.att = run.att
      /\ run'.active = run.active /\ run'.pend = run.pend /\ run'.concl = run.concl
      /\ run'.adv = run.adv /\ run'.job = run.job /\ run'.hold = run.hold
      /\ run'.gate = run.gate /\ run'.approved = run.approved
      /\ run'.excused = run.excused /\ run'.nodes = run.nodes
  BY <1>1 DEF RunType
<1>3. Alike(run', run) BY <1>2 DEF Alike
<1>4. op' \in OpType /\ op'.at = "cancel" /\ op'.node = run.node BY <1>1, AtType
<1>5. Recorded(run') BY <1>2 DEF Recorded
<1>6. Starts' /\ Ends' /\ Queued'
  BY <1>1, <1>2, <1>4 DEF Starts, Ends, Queued, Terminal
<1>7. Settled' BY <1>1, <1>2, <1>3, <1>4, <1>5, <1>6, AlikeSettled
<1>8. Typed' BY DEF Typed
<1>9. Processes' BY <1>1, <1>2 DEF Processes, Alive
<1>10. run.approved <= run'.approved BY <1>2
<1> QED BY <1>2, <1>4, <1>7, <1>8, <1>9, <1>10, Finish

LEMMA WaitForResetKeeps == RunInvariant /\ WaitForReset => RunInvariant'
<1> SUFFICES ASSUME RunInvariant, WaitForReset PROVE RunInvariant' OBVIOUS
<1> USE Unpack
<1> USE DEF WaitForReset, Owner, Plain, Quiet
<1>1. /\ op.at = "idle" /\ run' = [run EXCEPT !.resume = TRUE] /\ op' = op
      /\ native' = native
  OBVIOUS
<1>2. /\ run' \in RunType /\ run'.phase = run.phase
      /\ run'.status = run.status /\ run'.node = run.node /\ run'.att = run.att
      /\ run'.active = run.active /\ run'.pend = run.pend /\ run'.concl = run.concl
      /\ run'.adv = run.adv /\ run'.job = run.job /\ run'.hold = run.hold
      /\ run'.gate = run.gate /\ run'.approved = run.approved
      /\ run'.excused = run.excused /\ run'.nodes = run.nodes
  BY <1>1 DEF RunType
<1>3. Alike(run', run) BY <1>2 DEF Alike
<1>5. Recorded(run') BY <1>2 DEF Recorded
<1>6. Starts' /\ Ends' /\ Queued' BY <1>1, <1>2 DEF Starts, Ends, Queued
<1>7. Settled' BY <1>1, <1>2, <1>3, <1>5, <1>6, AlikeSettled
<1>8. Typed' BY DEF Typed
<1>9. Processes' BY <1>1, <1>2 DEF Processes, Alive
<1>10. run.approved <= run'.approved BY <1>2
<1> QED BY <1>1, <1>2, <1>7, <1>8, <1>9, <1>10, Finish

\* The fields that neither the end of a turn or of a job nor an edit of a stage changes.
Kept(p, r) ==
    /\ p.phase = r.phase /\ p.status = r.status /\ p.node = r.node /\ p.pend = r.pend
    /\ p.concl = r.concl /\ p.adv = r.adv /\ p.hold = r.hold /\ p.gate = r.gate
    /\ p.approved = r.approved /\ p.excused = r.excused

\* An edit of a stage no property reads.
LEMMA NodeAlike ==
  ASSUME NEW r \in RunType, NEW p, NEW n \in Stages, NEW x \in NodeType, Kept(p, r),
         p.active => r.active,
         p.job => r.job,
         r.phase = "executing",
         p.nodes[n] = x, OthersSame(p, r, n),
         x.status = r.nodes[n].status, x.reason = r.nodes[n].reason,
         x.bypassed = r.nodes[n].bypassed,
         x.verified => r.nodes[n].verified,
         \/ x.via = r.nodes[n].via
         \/ r.nodes[n].status = "running" /\ r.nodes[n].reason = "none"
  PROVE  Alike(p, r)
BY DEF Alike, Kept, OthersSame

LEMMA AlikeTwice ==
  ASSUME NEW p, NEW q, NEW r, Alike(p, q), Alike(q, r)
  PROVE  Alike(p, r)
BY DEF Alike

\* A session that cannot continue is replaced by a kickoff.
LEMMA FallbackRests ==
  ASSUME RunInvariant, NEW r \in RunType, NEW n \in Stages, ResumeFallback(r, n),
         Alike(r, run), op.at # "prepare", r.phase = "executing", r.status = "running", ~r.job,
         UNCHANGED <<published, checked, decided, cut>>, Typed',
         Alive' => leaked', orphan' => leaked', check' # "running"
  PROVE  RunInvariant'
<1> DEFINE att == [r.att EXCEPT !.status = "finished"]
           x == [r.nodes[n] EXCEPT !.native = FALSE]
           nn == [r.nodes EXCEPT ![n] = x]
           p == [r EXCEPT !.att = att, !.active = FALSE, !.nodes = nn]
<1>1. Launch(p, n, "kickoff") BY DEF ResumeFallback
<1>2. att \in AttemptType BY DEF RunType, AttemptType
<1>3. r.nodes[n] \in NodeType BY StageOf
<1>4. /\ x \in NodeType /\ x.status = r.nodes[n].status /\ x.reason = r.nodes[n].reason
      /\ x.bypassed = r.nodes[n].bypassed /\ x.verified = r.nodes[n].verified
      /\ x.via = r.nodes[n].via
  BY <1>3 DEF NodeType
<1> HIDE DEF x, att
<1>5. nn \in [Stages -> NodeType] /\ nn[n] = x /\ \A s \in Stages \ {n} : nn[s] = r.nodes[s]
  BY <1>4, NodeEdit
<1> HIDE DEF nn
<1>6. p \in RunType /\ Kept(p, r) /\ p.active = FALSE /\ p.job = r.job /\ p.nodes = nn
  BY <1>2, <1>5 DEF RunType, Kept
<1> HIDE DEF p
<1>7. p.nodes[n] = x /\ OthersSame(p, r, n) BY <1>5, <1>6 DEF OthersSame
<1>8. Alike(p, r) BY <1>4, <1>6, <1>7, NodeAlike
<1>8a. Alike(p, run) BY <1>8, AlikeTwice
<1>8b. p.phase = r.phase /\ p.status = r.status BY <1>6 DEF Kept
<1>9. "kickoff" \in Kinds /\ OpensAttempt("kickoff") BY DEF Kinds, OpensAttempt
<1> QED BY <1>1, <1>6, <1>8a, <1>8b, <1>9, LaunchRests

LEMMA StartFailsKeeps == RunInvariant /\ StartFails => RunInvariant'
<1> SUFFICES ASSUME RunInvariant, StartFails PROVE RunInvariant' OBVIOUS
<1> USE Unpack
<1>1. /\ op.at = "start"
      /\ \/ native' = native /\ leaked' = leaked
         \/ native' \in {"none", "lost"} /\ leaked' = leaked
         \/ native' = "working" /\ leaked' = TRUE
      /\ mishaps' = mishaps \/ Mishap
      /\ UNCHANGED <<check, changes, turns, returns, published, orphan, checked, decided, cut>>
  BY DEF StartFails
<1>2. \/ ResumeFallback(run, op.node)
      \/ run' = Park(run, op.node, "session-error") /\ op' = Idle
  BY DEF StartFails
<1>3. run.active /\ op.node = run.node /\ ~Alive BY <1>1 DEF Starts
<1>4. run.phase = "executing" /\ run.status = "running" /\ ~run.job
  BY <1>3 DEF Flow, RunType
<1>5. mishaps' \in 0 .. MaxMishaps BY <1>1, MishapType DEF RunInvariant, Typed
<1>6. Typed' BY <1>1, <1>5 DEF Typed, Live, Ended
<1>7. (Alive' => leaked') /\ (orphan' => leaked') /\ check' # "running"
  BY <1>1, <1>3, <1>4 DEF Processes, Alive
<1>8. "session-error" \in Parks BY DEF Parks
<1>9. CASE ResumeFallback(run, op.node)
  BY <1>1, <1>3, <1>4, <1>6, <1>7, <1>9, AlikeSelf, FallbackRests
<1>10. CASE run' = Park(run, op.node, "session-error") /\ op' = Idle
  BY <1>1, <1>3, <1>4, <1>6, <1>7, <1>8, <1>10, AlikeSelf, IdleType, ParkRests
<1> QED BY <1>2, <1>9, <1>10

LEMMA CheckpointFailsKeeps == RunInvariant /\ CheckpointFails => RunInvariant'
<1> SUFFICES ASSUME RunInvariant, CheckpointFails PROVE RunInvariant' OBVIOUS
<1> USE Unpack
<1>1. /\ op.at = "conclude" /\ run' = Park(run, op.node, "session-error") /\ op' = Idle
      /\ Mishap
      /\ UNCHANGED <<native, check, changes, turns, returns, published, leaked, orphan,
                     checked, decided, cut>>
  BY DEF CheckpointFails, Quiet, NoGhost, rigged
<1>2. run.status = "running" /\ run.concl /\ ~run.active /\ ~run.job /\ op.node = run.node
  BY <1>1 DEF Ends
<1>3. run.phase = "executing" BY <1>2 DEF Flow, RunType
<1>4. mishaps' \in 0 .. MaxMishaps BY <1>1, MishapType DEF RunInvariant
<1>5. Typed' BY <1>1, <1>4 DEF Typed
<1>6. (Alive' => leaked') /\ (orphan' => leaked') /\ check' # "running"
  BY <1>1, <1>2 DEF Processes, Alive
<1>7. "session-error" \in Parks BY DEF Parks
<1> QED BY <1>1, <1>2, <1>3, <1>5, <1>6, <1>7, AlikeSelf, IdleType, ParkRests

LEMMA VerifyStartFailsKeeps == RunInvariant /\ VerifyStartFails => RunInvariant'
<1> SUFFICES ASSUME RunInvariant, VerifyStartFails PROVE RunInvariant' OBVIOUS
<1> USE Unpack
<1> DEFINE n == op.node
           x == [run.nodes[n] EXCEPT !.unsound = FALSE]
           nn == [run.nodes EXCEPT ![n] = x]
           r == [run EXCEPT !.job = FALSE, !.nodes = nn]
<1>1. /\ op.at = "verify" /\ Mishap /\ run' = Park(r, n, "verify-failed")
      /\ check' = "none" /\ op' = Idle
      /\ UNCHANGED <<native, changes, turns, returns, published, leaked, orphan,
                     checked, decided, cut>>
  BY DEF VerifyStartFails, NoGhost, rigged
<1>2. run.job /\ n = run.node BY <1>1 DEF Ends
<1>3. run.nodes[n] \in NodeType OBVIOUS
<1>4. /\ x \in NodeType /\ x.status = run.nodes[n].status
      /\ x.reason = run.nodes[n].reason /\ x.bypassed = run.nodes[n].bypassed
      /\ x.verified = run.nodes[n].verified /\ x.via = run.nodes[n].via
  BY <1>3 DEF NodeType
<1> HIDE DEF x
<1>5. nn \in [Stages -> NodeType] /\ nn[n] = x /\ \A s \in Stages \ {n} : nn[s] = run.nodes[s]
  BY <1>4, NodeEdit
<1> HIDE DEF nn
<1>5a. r \in RunType /\ Kept(r, run) /\ r.active = run.active /\ ~r.job /\ r.nodes = nn
  BY <1>5 DEF RunType, Kept
<1> HIDE DEF r
<1>5b. ~run.active /\ run.phase = "executing" /\ run.status = "running"
  BY <1>2 DEF Flow, RunType
<1>5c. r.nodes[n] = x /\ OthersSame(r, run, n) BY <1>5, <1>5a DEF OthersSame
<1>5d. Alike(r, run) BY <1>4, <1>5a, <1>5b, <1>5c, NodeAlike
<1>5e. r.phase = "executing" /\ r.status = "running" /\ ~r.active BY <1>5a, <1>5b DEF Kept
<1>6. mishaps' \in 0 .. MaxMishaps BY <1>1, MishapType DEF RunInvariant
<1>7. Typed' BY <1>1, <1>6 DEF Typed
<1>8. ~run.active BY <1>2 DEF Flow
<1>9. (Alive' => leaked') /\ (orphan' => leaked') /\ check' # "running"
  BY <1>1, <1>8 DEF Processes, Alive
<1>10. "verify-failed" \in Parks BY DEF Parks
<1> QED BY <1>1, <1>5a, <1>5d, <1>5e, <1>7, <1>9, <1>10, IdleType, ParkRests

LEMMA TickAdvanceKeeps == RunInvariant /\ TickAdvance => RunInvariant'
<1> SUFFICES ASSUME RunInvariant, TickAdvance PROVE RunInvariant' OBVIOUS
<1> USE Unpack
<1> DEFINE n == run.node
<1>1. /\ op.at = "idle" /\ run.status = "running" /\ run.phase = "executing" /\ run.adv
      /\ ~run.job /\ run.pend = NoTurn /\ Advance(run, n)
      /\ UNCHANGED <<native, check, changes, turns, returns, mishaps, published, leaked,
                     orphan, checked, decided, cut>>
  BY DEF TickAdvance, Unqueued, Executing, Ready, Quiet, NoGhost, rigged
<1>2. ~run.active /\ run.hold.reason # "budget" BY <1>1 DEF Flow
<1>3. run.nodes[n].status = "passed" BY <1>1 DEF Stands
<1>4. n \in cut' \/ Clears(run, n, checked', decided') BY <1>1, <1>3 DEF Honest, HonestAt
<1>5. Honest(run, checked', decided', cut') /\ Gated(run, checked', decided', cut') BY <1>1
<1>6. cut' \subseteq cut' \cup {n} OBVIOUS
<1>7. /\ Settled' /\ ~run'.active /\ ~run'.job /\ op'.at \in {"idle", "prepare", "publish"}
      /\ run'.approved = run.approved /\ run'.excused = run.excused
  BY <1>1, <1>2, <1>4, <1>5, <1>6, AdvanceKeeps
<1>8. Typed' BY <1>1 DEF Typed
<1>9. (Alive' => leaked') /\ (orphan' => leaked') /\ check' # "running"
  BY <1>1, <1>2 DEF Processes, Alive
<1> QED BY <1>1, <1>7, <1>8, <1>9, Rests

\* A verification's result: the stage concludes again, is repaired, or waits.
LEMMA TickVerifiedKeeps == RunInvariant /\ TickVerified => RunInvariant'
<1> SUFFICES ASSUME RunInvariant, TickVerified PROVE RunInvariant' OBVIOUS
<1> USE Unpack
<1> DEFINE n == run.node
<1>1. /\ op.at = "idle" /\ run.job /\ run.phase = "executing" /\ run.status = "running"
      /\ check' = "none"
      /\ UNCHANGED <<native, changes, turns, mishaps, returns, published, leaked, orphan,
                     decided, cut>>
  BY DEF TickVerified, Executing, Ready, bounds
<1>2. run.concl /\ ~run.active BY <1>1 DEF Flow
<1>3. run.nodes[n].status = "running" /\ run.nodes[n].reason = "none"
  BY <1>1, <1>2 DEF Stands
<1>4. run.pend # NoTurn /\ ~OpensAttempt(run.pend.kind) => run.pend.node \in cut
  BY <1>1 DEF Queued
<1>5. (Alive' => leaked') /\ (orphan' => leaked') /\ check' # "running"
  BY <1>1, <1>2 DEF Processes, Alive
<1>6. run.nodes[n] \in NodeType OBVIOUS
<1>7. CASE /\ run' = [run EXCEPT !.job = FALSE,
                         !.nodes[n] = [@ EXCEPT !.verified = TRUE, !.unsound = FALSE]]
           /\ op' = At("conclude", n) /\ checked' = [checked EXCEPT ![n] = "pass"]
  <2> DEFINE x == [run.nodes[n] EXCEPT !.verified = TRUE, !.unsound = FALSE]
             nn == [run.nodes EXCEPT ![n] = x]
  <2>1. run' = [run EXCEPT !.job = FALSE, !.nodes = nn] BY <1>7
  <2>2. /\ x \in NodeType /\ x.status = "running" /\ x.reason = "none"
        /\ x.bypassed = run.nodes[n].bypassed
    BY <1>3, <1>6 DEF NodeType
  <2> HIDE DEF x
  <2>3. nn \in [Stages -> NodeType] /\ nn[n] = x /\ \A s \in Stages \ {n} : nn[s] = run.nodes[s]
    BY <2>2, NodeEdit
  <2> HIDE DEF nn
  <2>4. run' \in RunType /\ Kept(run', run) /\ run'.active = run.active /\ ~run'.job
        /\ run'.nodes = nn
    BY <2>1, <2>3 DEF RunType, Kept
  <2>5. Flow(run') /\ Stands(run') /\ Recorded(run')
    BY <1>1, <1>2, <2>2, <2>3, <2>4 DEF Flow, Stands, Recorded, Kept
  <2>6. checked' \in [Stages -> {"no", "pass", "waived"}] /\ checked'[n] = "pass"
        /\ \A s \in Stages \ {n} : checked'[s] = checked[s]
    BY <1>7 DEF Typed
  <2>7. run'.nodes[n].bypassed => n \in decided' BY <1>1, <2>2, <2>3, <2>4 DEF Honest
  <2>8. n \notin cut' => HonestAt(run', n, checked', decided')
    BY <1>1, <1>2, <1>4, <2>2, <2>3, <2>4, <2>6 DEF HonestAt, Kept
  <2>9. GatedAt(run', n, checked', decided') BY <2>2, <2>3, <2>4 DEF GatedAt
  <2>10. Honest(run', checked', decided', cut') /\ Gated(run', checked', decided', cut')
    <3>1. OthersSame(run', run, n) BY <2>3, <2>4 DEF OthersSame
    <3>2. run'.node = n /\ run'.pend = run.pend BY <2>4 DEF Kept
    <3>3. Elsewhere(n, checked', decided', cut', checked, decided, cut, cut)
      BY <1>1, <2>6 DEF Elsewhere
    <3>4. Honest(run, checked, decided, cut) /\ Gated(run, checked, decided, cut) BY <1>1
    <3> QED BY <2>7, <2>8, <2>9, <3>1, <3>2, <3>3, <3>4, CurrentStage
  <2>11. op' \in OpType /\ op'.at = "conclude" /\ op'.node = n BY <1>7, AtType
  <2>12. Reopening' = {} BY <2>11 DEF Reopening
  <2>13. Starts' /\ Ends' /\ Queued'
    BY <1>1, <1>2, <1>4, <2>4, <2>11 DEF Starts, Ends, Queued, Kept
  <2>14. Settled' BY <2>4, <2>5, <2>10, <2>11, <2>12, <2>13 DEF Settled
  <2>15. Typed' BY <1>1, <2>6 DEF Typed
  <2>16. run'.approved = run.approved /\ run'.excused = run.excused BY <2>4 DEF Kept
  <2> QED BY <1>1, <1>2, <1>5, <2>4, <2>11, <2>14, <2>15, <2>16, Rests
<1>8. ASSUME NEW x \in NodeType, checked' = checked,
             x.status = run.nodes[n].status, x.reason = run.nodes[n].reason,
             x.bypassed = run.nodes[n].bypassed, x.verified = run.nodes[n].verified,
             x.via = run.nodes[n].via,
             LET r == [run EXCEPT !.job = FALSE, !.nodes[n] = x]
             IN \/ Launch(r, n, "repair")
                \/ run' = Park(r, n, "verify-failed") /\ op' = Idle
      PROVE  RunInvariant'
  <2> DEFINE nn == [run.nodes EXCEPT ![n] = x]
             r == [run EXCEPT !.job = FALSE, !.nodes = nn]
  <2>1. Launch(r, n, "repair") \/ (run' = Park(r, n, "verify-failed") /\ op' = Idle)
    BY <1>8
  <2>2. nn \in [Stages -> NodeType] /\ nn[n] = x /\ \A s \in Stages \ {n} : nn[s] = run.nodes[s]
    BY <1>8, NodeEdit
  <2> HIDE DEF nn
  <2>3. r \in RunType /\ Kept(r, run) /\ r.active = run.active /\ ~r.job /\ r.nodes = nn
    BY <2>2 DEF RunType, Kept
  <2> HIDE DEF r
  <2>4. r.nodes[n] = x /\ OthersSame(r, run, n) BY <2>2, <2>3 DEF OthersSame
  <2>5. Alike(r, run) BY <1>1, <1>8, <2>3, <2>4, NodeAlike
  <2>6. r.phase = "executing" /\ r.status = "running" /\ ~r.active
    BY <1>1, <1>2, <2>3 DEF Kept
  <2>7. n \in cut \/ ~r.nodes[n].verified BY <1>1, <1>8, <2>4 DEF Honest, HonestAt
  <2>8. Typed' BY <1>1, <1>8 DEF Typed
  <2>9. "repair" \in Kinds /\ "verify-failed" \in Parks BY DEF Kinds, Parks
  <2>10. CASE Launch(r, n, "repair")
    BY <1>1, <1>5, <1>8, <2>3, <2>5, <2>6, <2>7, <2>8, <2>9, <2>10, LaunchRests
  <2>11. CASE run' = Park(r, n, "verify-failed") /\ op' = Idle
    BY <1>1, <1>5, <1>8, <2>3, <2>5, <2>6, <2>8, <2>9, <2>11, IdleType, ParkRests
  <2> QED BY <2>1, <2>10, <2>11
<1>9. CASE /\ checked' = checked
           /\ LET r == [run EXCEPT !.job = FALSE,
                          !.nodes[n] = [@ EXCEPT !.unsound = TRUE, !.tries = run.nodes[n].tries + 1]]
              IN \/ Launch(r, n, "repair")
                 \/ run' = Park(r, n, "verify-failed") /\ op' = Idle
  <2> DEFINE tries == run.nodes[n].tries + 1
             x == [run.nodes[n] EXCEPT !.unsound = TRUE, !.tries = tries]
  <2>0. tries \in Nat BY <1>6 DEF NodeType
  <2>0a. LET r == [run EXCEPT !.job = FALSE, !.nodes[n] = x]
         IN \/ Launch(r, n, "repair")
            \/ run' = Park(r, n, "verify-failed") /\ op' = Idle
    <3> DEFINE z == [run.nodes[n] EXCEPT !.unsound = TRUE, !.tries = @ + 1]
    <3>1. z = x BY <1>6 DEF NodeType
    <3>2. LET r == [run EXCEPT !.job = FALSE, !.nodes[n] = z]
          IN \/ Launch(r, n, "repair")
             \/ run' = Park(r, n, "verify-failed") /\ op' = Idle
      BY <1>9
    <3> HIDE DEF z, x
    <3> QED BY <3>1, <3>2
  <2> HIDE DEF tries
  <2>1. /\ x \in NodeType /\ x.status = run.nodes[n].status
        /\ x.reason = run.nodes[n].reason /\ x.bypassed = run.nodes[n].bypassed
        /\ x.verified = run.nodes[n].verified /\ x.via = run.nodes[n].via
    BY <1>6, <2>0 DEF NodeType
  <2> HIDE DEF x
  <2> QED BY <1>8, <1>9, <2>0a, <2>1
<1>10. CASE /\ checked' = checked /\ op' = Idle
            /\ run' = Park([run EXCEPT !.job = FALSE, !.nodes[n] = [@ EXCEPT !.unsound = FALSE]],
                           n, "verify-failed")
  <2> DEFINE x == [run.nodes[n] EXCEPT !.unsound = FALSE]
  <2>1. /\ x \in NodeType /\ x.status = run.nodes[n].status
        /\ x.reason = run.nodes[n].reason /\ x.bypassed = run.nodes[n].bypassed
        /\ x.verified = run.nodes[n].verified /\ x.via = run.nodes[n].via
    BY <1>6 DEF NodeType
  <2>2. LET r == [run EXCEPT !.job = FALSE, !.nodes[n] = x]
        IN \/ Launch(r, n, "repair")
           \/ run' = Park(r, n, "verify-failed") /\ op' = Idle
    BY <1>10
  <2> HIDE DEF x
  <2> QED BY <1>8, <1>10, <2>1, <2>2
<1>11. \/ /\ run' = [run EXCEPT !.job = FALSE,
                         !.nodes[n] = [@ EXCEPT !.verified = TRUE, !.unsound = FALSE]]
          /\ op' = At("conclude", n) /\ checked' = [checked EXCEPT ![n] = "pass"]
       \/ /\ checked' = checked
          /\ LET r == [run EXCEPT !.job = FALSE,
                          !.nodes[n] = [@ EXCEPT !.unsound = TRUE, !.tries = run.nodes[n].tries + 1]]
              IN \/ Launch(r, n, "repair")
                 \/ run' = Park(r, n, "verify-failed") /\ op' = Idle
       \/ /\ checked' = checked /\ op' = Idle
          /\ run' = Park([run EXCEPT !.job = FALSE, !.nodes[n] = [@ EXCEPT !.unsound = FALSE]],
                           n, "verify-failed")
  BY DEF TickVerified
<1> QED BY <1>7, <1>9, <1>10, <1>11

\* The end of a cancelled run: nothing works, and every stage it had under way is cancelled.
LEMMA CancelledKeeps == RunInvariant /\ Cancelled => RunInvariant'
<1> SUFFICES ASSUME RunInvariant, Cancelled PROVE RunInvariant' OBVIOUS
<1> USE Unpack
<1> DEFINE gone(s) == run.nodes[s].status \in {"running", "awaiting-gate"}
           x(s) == [run.nodes[s] EXCEPT !.status = "cancelled"]
           nn == [s \in Stages |-> IF gone(s) THEN x(s) ELSE run.nodes[s]]
<1>1. /\ op.at = "cancelled" /\ op' = Idle /\ check' = "none"
      /\ run' = [run EXCEPT !.status = "cancelled", !.active = FALSE, !.job = FALSE,
                            !.resume = FALSE, !.nodes = nn]
      /\ UNCHANGED <<native, changes, turns, mishaps, returns, published, leaked, orphan,
                     checked, decided, cut>>
  BY DEF Cancelled, NoGhost, rigged, bounds
<1>2. \A s \in Stages : /\ x(s) \in NodeType /\ x(s).status = "cancelled"
                        /\ x(s).reason = run.nodes[s].reason /\ x(s).via = run.nodes[s].via
                        /\ x(s).verified = run.nodes[s].verified
                        /\ x(s).bypassed = run.nodes[s].bypassed
  <2> SUFFICES ASSUME NEW s \in Stages
               PROVE  /\ x(s) \in NodeType /\ x(s).status = "cancelled"
                      /\ x(s).reason = run.nodes[s].reason /\ x(s).via = run.nodes[s].via
                      /\ x(s).verified = run.nodes[s].verified
                      /\ x(s).bypassed = run.nodes[s].bypassed
    OBVIOUS
  <2>1. run.nodes[s] \in NodeType OBVIOUS
  <2> QED BY <2>1 DEF NodeType
<1> HIDE DEF x
<1>3. nn \in [Stages -> NodeType] BY <1>2
<1>4. \A s \in Stages : nn[s] = IF gone(s) THEN x(s) ELSE run.nodes[s] OBVIOUS
<1>5. \A s \in Stages :
         /\ nn[s].reason = run.nodes[s].reason /\ nn[s].via = run.nodes[s].via
         /\ nn[s].verified = run.nodes[s].verified /\ nn[s].bypassed = run.nodes[s].bypassed
         /\ nn[s].status \in {"passed", "failed"} => nn[s].status = run.nodes[s].status
         /\ nn[s].status # "awaiting-gate"
  BY <1>2, <1>4
<1> HIDE DEF nn
<1>6. /\ run' \in RunType /\ run'.phase = run.phase /\ run'.status = "cancelled"
      /\ run'.node = run.node /\ run'.att = run.att /\ ~run'.active /\ run'.pend = run.pend
      /\ run'.concl = run.concl /\ run'.adv = run.adv /\ ~run'.job /\ run'.hold = run.hold
      /\ run'.gate = run.gate /\ run'.approved = run.approved
      /\ run'.excused = run.excused /\ run'.nodes = nn
  BY <1>1, <1>3 DEF RunType
<1>7. Flow(run') /\ Stands(run') /\ Recorded(run') BY <1>5, <1>6 DEF Flow, Stands, Recorded
<1>8. \A s \in Stages : /\ Checks(run', s, checked') <=> Checks(run, s, checked)
                        /\ Clears(run', s, checked', decided')
                              <=> Clears(run, s, checked, decided)
  BY <1>1, <1>5, <1>6 DEF Checks, Clears, Flags
<1>9. \A s \in Stages : HonestAt(run, s, checked, decided)
                           => HonestAt(run', s, checked', decided')
  BY <1>1, <1>5, <1>6, <1>8 DEF HonestAt
<1>10. \A s \in Stages : GatedAt(run, s, checked, decided)
                            => GatedAt(run', s, checked', decided')
  BY <1>1, <1>5, <1>6, <1>8 DEF GatedAt
<1>11. Honest(run', checked', decided', cut') /\ Gated(run', checked', decided', cut')
  BY <1>1, <1>5, <1>6, <1>9, <1>10 DEF Honest, Gated
<1>12. op' \in OpType /\ op'.at = "idle" BY <1>1, IdleType
<1>13. Reopening' = {} BY <1>12 DEF Reopening
<1>14. Starts' /\ Ends' BY <1>12 DEF Starts, Ends
<1>15. Queued' BY <1>1, <1>6, <1>12 DEF Queued
<1>16. Settled' BY <1>6, <1>7, <1>11, <1>12, <1>13, <1>14, <1>15 DEF Settled
<1>17. Typed' BY <1>1 DEF Typed
<1>18. (Alive' => leaked') /\ (orphan' => leaked') /\ check' # "running"
  BY <1>1 DEF Processes, Alive, Ends
<1> QED BY <1>1, <1>6, <1>12, <1>16, <1>17, <1>18, Rests

\* p is r with stage n edited.
Edited(p, r, n, x) == p = [r EXCEPT !.nodes[n] = x]

\* Editing what no property reads of the stage whose turn ended.
LEMMA StageEdit ==
  ASSUME NEW r \in RunType, NEW n \in Stages, NEW x \in NodeType,
         r.phase = "executing",
         x.status = r.nodes[n].status, x.reason = r.nodes[n].reason,
         x.bypassed = r.nodes[n].bypassed,
         x.verified => r.nodes[n].verified,
         \/ x.via = r.nodes[n].via
         \/ r.nodes[n].status = "running" /\ r.nodes[n].reason = "none",
         NEW p, Edited(p, r, n, x)
  PROVE  /\ p \in RunType /\ Kept(p, r) /\ Alike(p, r) /\ p.active = r.active
         /\ p.job = r.job /\ p.nodes[n] = x /\ OthersSame(p, r, n)
<1> DEFINE nn == [r.nodes EXCEPT ![n] = x]
<1>1. p = [r EXCEPT !.nodes = nn] BY DEF Edited
<1>2. nn \in [Stages -> NodeType] /\ nn[n] = x /\ \A s \in Stages \ {n} : nn[s] = r.nodes[s]
  BY NodeEdit
<1> HIDE DEF nn
<1>3. p \in RunType /\ Kept(p, r) /\ p.active = r.active /\ p.job = r.job /\ p.nodes = nn
  BY <1>1, <1>2 DEF RunType, Kept
<1>4. p.nodes[n] = x /\ OthersSame(p, r, n) BY <1>2, <1>3 DEF OthersSame
<1> QED BY <1>3, <1>4, NodeAlike

\* A turn that ended: its outcome parks its stage, asks its session again, starts it anew
\* or concludes it.
LEMMA TickOutcomeKeeps == RunInvariant /\ TickOutcome => RunInvariant'
<1> SUFFICES ASSUME RunInvariant, TickOutcome PROVE RunInvariant' OBVIOUS
<1> USE Unpack
<1> DEFINE n == run.node
           att == [run.att EXCEPT !.status = "finished"]
           x(seen) == [run.nodes[n] EXCEPT !.native = run.nodes[n].native \/ seen]
           nn(seen) == [run.nodes EXCEPT ![n] = x(seen)]
           doc(seen, crossed) ==
              [run EXCEPT !.att = att, !.active = FALSE, !.nodes = nn(seen),
                          !.over = @ \/ crossed]
<1>1. /\ op.at = "idle" /\ run.status = "running" /\ run.phase = "executing" /\ run.active
      /\ native \in Ended
      /\ UNCHANGED <<native, check, changes, turns, returns, published, leaked, orphan,
                     checked, decided, cut>>
  BY DEF TickOutcome, Turning, Unqueued, Executing, Ready, NoGhost, rigged
<1>2. /\ ~run.job /\ run.pend = NoTurn /\ ~run.concl /\ ~run.adv BY <1>1 DEF Flow
<1>3. run.nodes[n].status = "running" /\ run.nodes[n].reason = "none" BY <1>1 DEF Stands
<1>4. n \in cut \/ ~run.nodes[n].verified BY <1>1 DEF Honest, HonestAt
<1>5. (Alive' => leaked') /\ (orphan' => leaked') /\ check' # "running"
  BY <1>1, <1>2 DEF Processes, Alive, Ended
<1>6. run.nodes[n] \in NodeType OBVIOUS
<1>7. PICK seen \in BOOLEAN, crossed \in BOOLEAN :
        /\ mishaps' = mishaps \/ Mishap
        /\ ReadVerdict(doc(seen, crossed), n) \/ FailedTurn(doc(seen, crossed), n)
  BY DEF TickOutcome
<1> DEFINE r == doc(seen, crossed)
           y == x(seen)
           nodes == nn(seen)
           over == run.over \/ crossed
<1>8. Typed'
  <2>1. mishaps' \in 0 .. MaxMishaps BY <1>7, MishapType DEF RunInvariant, Typed
  <2> QED BY <1>1, <2>1 DEF Typed
<1>9. /\ y \in NodeType /\ y.status = run.nodes[n].status
      /\ y.reason = run.nodes[n].reason /\ y.bypassed = run.nodes[n].bypassed
      /\ y.verified = run.nodes[n].verified /\ y.via = run.nodes[n].via
  BY <1>6 DEF NodeType
<1>10. r = [run EXCEPT !.att = att, !.active = FALSE, !.nodes = nodes, !.over = over] OBVIOUS
<1>11. nodes = [run.nodes EXCEPT ![n] = y] OBVIOUS
<1>12. ReadVerdict(r, n) \/ FailedTurn(r, n) BY <1>7
<1>13. att \in AttemptType /\ over \in BOOLEAN BY DEF RunType, AttemptType
<1> HIDE DEF x, nn, doc, y, nodes, r, att, over
<1>14. nodes \in [Stages -> NodeType] /\ nodes[n] = y
       /\ \A s \in Stages \ {n} : nodes[s] = run.nodes[s]
  BY <1>9, <1>11, NodeEdit
<1>15. r \in RunType /\ Kept(r, run) /\ ~r.active /\ r.job = run.job /\ r.nodes = nodes
  BY <1>10, <1>13, <1>14 DEF RunType, Kept
<1>16. r.nodes[n] = y /\ OthersSame(r, run, n) BY <1>14, <1>15 DEF OthersSame
<1>17. Alike(r, run) BY <1>1, <1>9, <1>15, <1>16, NodeAlike
<1>18. /\ r.phase = "executing" /\ r.status = "running" /\ ~r.job /\ r.node = n
       /\ r.pend = NoTurn /\ ~r.adv
  BY <1>1, <1>2, <1>15 DEF Kept
<1>19. y.status = "running" /\ y.reason = "none" /\ (n \in cut \/ ~y.verified)
  BY <1>3, <1>4, <1>9
\* Any edit of the stage that no property reads, then a question or a stop.
<1>20. ASSUME NEW z \in NodeType, z.status = y.status, z.reason = y.reason,
              z.bypassed = y.bypassed, z.verified = y.verified, z.via = y.via,
              NEW p, Edited(p, r, n, z),
              \/ Launch(p, n, "nudge")
              \/ \E why \in Parks : run' = Park(p, n, why) /\ op' = Idle /\ why # "pr-failed"
       PROVE  RunInvariant'
  <2>1. /\ p \in RunType /\ Kept(p, r) /\ Alike(p, r) /\ p.active = r.active
        /\ p.job = r.job /\ p.nodes[n] = z
    BY <1>15, <1>16, <1>18, <1>20, StageEdit
  <2>2. Alike(p, run) BY <1>17, <2>1, AlikeTwice
  <2>3. p.phase = "executing" /\ p.status = "running" /\ ~p.job /\ ~p.active
    BY <1>15, <1>18, <2>1 DEF Kept
  <2>4. "nudge" \in Kinds BY DEF Kinds
  <2>5. n \in cut \/ ~p.nodes[n].verified BY <1>19, <1>20, <2>1
  <2>6. CASE Launch(p, n, "nudge")
    BY <1>1, <1>5, <1>8, <2>1, <2>2, <2>3, <2>4, <2>5, <2>6, LaunchRests
  <2>7. ASSUME NEW why \in Parks, run' = Park(p, n, why), op' = Idle, why # "pr-failed"
        PROVE  RunInvariant'
    BY <1>1, <1>5, <1>8, <2>1, <2>2, <2>3, <2>7, IdleType, ParkRests
  <2> QED BY <1>20, <2>6, <2>7
<1>21. CASE MissingVerdict(r, n)
  <2> DEFINE nudges == r.nodes[n].nudges + 1
             z == [r.nodes[n] EXCEPT !.nudges = nudges]
             p == [r EXCEPT !.nodes[n] = z]
  <2>1. \/ Launch(p, n, "nudge")
        \/ \E why \in {"verify-failed", "verdict"} : run' = Park(p, n, why) /\ op' = Idle
    BY <1>21 DEF MissingVerdict
  <2>2. nudges \in Nat BY <1>9, <1>16 DEF NodeType
  <2> HIDE DEF nudges
  <2>3. /\ z \in NodeType /\ z.status = y.status /\ z.reason = y.reason
        /\ z.bypassed = y.bypassed /\ z.verified = y.verified /\ z.via = y.via
    BY <1>9, <1>16, <2>2 DEF NodeType
  <2>4. {"verify-failed", "verdict"} \subseteq Parks BY DEF Parks
  <2>5. Edited(p, r, n, z) BY DEF Edited
  <2> HIDE DEF z, p
  <2> QED BY <1>20, <2>1, <2>3, <2>4, <2>5
<1>22. CASE Launch([r EXCEPT !.nodes[n] = [@ EXCEPT !.asked = TRUE]], n, "nudge")
  <2> DEFINE z == [r.nodes[n] EXCEPT !.asked = TRUE]
             p == [r EXCEPT !.nodes[n] = z]
  <2>1. Launch(p, n, "nudge") BY <1>22
  <2>3. /\ z \in NodeType /\ z.status = y.status /\ z.reason = y.reason
        /\ z.bypassed = y.bypassed /\ z.verified = y.verified /\ z.via = y.via
    BY <1>9, <1>16 DEF NodeType
  <2>5. Edited(p, r, n, z) BY DEF Edited
  <2> HIDE DEF z, p
  <2> QED BY <1>20, <2>1, <2>3, <2>5
<1>23. ASSUME NEW v \in Verdicts,
              run' = [r EXCEPT !.nodes[n] = [@ EXCEPT !.verdict = v], !.concl = TRUE],
              op' = At("conclude", n)
       PROVE  RunInvariant'
  <2> DEFINE z == [r.nodes[n] EXCEPT !.verdict = v]
             p == [r EXCEPT !.nodes[n] = z]
  <2>1. /\ z \in NodeType /\ z.status = y.status /\ z.reason = y.reason
        /\ z.bypassed = y.bypassed /\ z.verified = y.verified /\ z.via = y.via
    BY <1>9, <1>16 DEF NodeType
  <2>2. run' = [p EXCEPT !.concl = TRUE] BY <1>23
  <2>3. Edited(p, r, n, z) BY DEF Edited
  <2> HIDE DEF z, p
  <2>4. /\ p \in RunType /\ Kept(p, r) /\ Alike(p, r) /\ p.active = r.active
        /\ p.job = r.job /\ p.nodes[n] = z
    BY <1>15, <1>16, <1>18, <2>1, <2>3, StageEdit
  <2>5. Alike(p, run) BY <1>17, <2>4, AlikeTwice
  <2>6. /\ p.phase = "executing" /\ p.status = "running" /\ ~p.job /\ ~p.active
        /\ p.node = n /\ p.pend = NoTurn /\ ~p.adv
    BY <1>15, <1>18, <2>4 DEF Kept
  <2>7. /\ Flow(p) /\ Honest(p, checked', decided', cut') /\ Gated(p, checked', decided', cut')
    BY <1>1, <2>5, <2>6, AlikeKeeps
  <2>8. /\ run' \in RunType /\ run'.phase = p.phase /\ run'.status = p.status
        /\ run'.node = p.node /\ run'.active = p.active /\ run'.pend = p.pend
        /\ run'.concl /\ run'.adv = p.adv /\ run'.job = p.job /\ run'.hold = p.hold
        /\ run'.gate = p.gate /\ run'.approved = p.approved
        /\ run'.excused = p.excused /\ run'.nodes = p.nodes
    BY <2>2, <2>4 DEF RunType
  <2>9. Flow(run') /\ Stands(run') /\ Recorded(run')
    BY <1>19, <2>1, <2>4, <2>6, <2>7, <2>8 DEF Flow, Stands, Recorded
  <2>10. Honest(run', checked', decided', cut') /\ Gated(run', checked', decided', cut')
    BY <2>7, <2>8, NoStage
  <2>11. op' \in OpType /\ op'.at = "conclude" /\ op'.node = n BY <1>23, AtType
  <2>12. Reopening' = {} BY <2>11 DEF Reopening
  <2>13. Starts' /\ Ends' /\ Queued' BY <2>6, <2>8, <2>11 DEF Starts, Ends, Queued
  <2>14. Settled' BY <2>8, <2>9, <2>10, <2>11, <2>12, <2>13 DEF Settled
  <2>15. run'.approved = run.approved /\ run'.excused = run.excused BY <2>5, <2>8 DEF Alike
  <2> QED BY <1>1, <1>5, <1>8, <2>6, <2>8, <2>11, <2>14, <2>15, Rests
<1>24. CASE ReadVerdict(r, n)
  <2>1. \/ MissingVerdict(r, n)
        \/ Launch([r EXCEPT !.nodes[n] = [@ EXCEPT !.asked = TRUE]], n, "nudge")
        \/ \E v \in Verdicts :
             /\ run' = [r EXCEPT !.nodes[n] = [@ EXCEPT !.verdict = v], !.concl = TRUE]
             /\ op' = At("conclude", n)
    BY <1>24 DEF ReadVerdict
  <2> QED BY <1>21, <1>22, <1>23, <2>1
<1>25. CASE FailedTurn(r, n)
  <2>1. \/ run' = Park([r EXCEPT !.resume = TRUE], n, "usage") /\ op' = Idle
        \/ ResumeFallback(r, n)
        \/ run' = Park(r, n, "session-error") /\ op' = Idle
    BY <1>25 DEF FailedTurn
  <2>2. "usage" \in Parks /\ "session-error" \in Parks BY DEF Parks
  <2>3. CASE ResumeFallback(r, n)
    BY <1>1, <1>5, <1>8, <1>15, <1>17, <1>18, <2>3, FallbackRests
  <2>4. CASE run' = Park(r, n, "session-error") /\ op' = Idle
    BY <1>1, <1>5, <1>8, <1>15, <1>17, <1>18, <2>2, <2>4, IdleType, ParkRests
  <2>5. CASE run' = Park([r EXCEPT !.resume = TRUE], n, "usage") /\ op' = Idle
    <3> DEFINE p == [r EXCEPT !.resume = TRUE]
    <3>1. run' = Park(p, n, "usage") BY <2>5
    <3>2. /\ p \in RunType /\ Kept(p, r) /\ p.active = r.active
          /\ p.job = r.job /\ p.nodes = r.nodes
      BY <1>15 DEF RunType, Kept
    <3> HIDE DEF p
    <3>3. Alike(p, r) BY <1>18, <3>2 DEF Alike, Kept
    <3>4. Alike(p, run) BY <1>17, <3>3, AlikeTwice
    <3>5. p.phase = "executing" /\ p.status = "running" /\ ~p.job /\ ~p.active
      BY <1>15, <1>18, <3>2 DEF Kept
    <3> QED BY <1>1, <1>5, <1>8, <2>2, <2>5, <3>1, <3>2, <3>4, <3>5, IdleType, ParkRests
  <2> QED BY <2>1, <2>3, <2>4, <2>5
<1> QED BY <1>12, <1>24, <1>25

-----------------------------------------------------------------------------
(* The owner's decisions. *)

\* A person's decision takes nothing back.
LEMMA DecidedMore ==
  ASSUME NEW r, NEW c, NEW d, NEW e, NEW x, NEW y, d \subseteq e,
         Honest(r, c, d, x), Gated(r, c, d, y)
  PROVE  Honest(r, c, e, x) /\ Gated(r, c, e, y)
BY DEF Honest, HonestAt, Gated, GatedAt, Clears

LEMMA AcceptKeeps == RunInvariant /\ Accept => RunInvariant'
<1> SUFFICES ASSUME RunInvariant, Accept PROVE RunInvariant' OBVIOUS
<1> USE Unpack
<1> DEFINE n == run.node
<1>1. /\ op.at = "idle" /\ "accept" \in Offered(run) /\ Advance(run, n)
      /\ decided' = decided \cup {n}
      /\ UNCHANGED <<native, check, changes, turns, returns, mishaps, published, leaked,
                     orphan, cut, checked>>
  BY DEF Accept, Owner, Plain, Quiet
<1>2. /\ run.status = "awaiting" /\ run.nodes[n].status = "awaiting-gate"
      /\ run.nodes[n].reason = "none"
  BY <1>1, OfferedFacts
<1>3. /\ run.phase = "executing" /\ ~run.active /\ ~run.job
      /\ Alive => leaked
      /\ orphan => leaked
      /\ check # "running" /\ run.hold.reason # "budget"
      /\ run.pend # NoTurn => run.pend.kind # "none"
      /\ run.pend # NoTurn /\ ~OpensAttempt(run.pend.kind) => run.pend.node \in cut
  BY <1>1, <1>2, Waiting
<1>4. Honest(run, checked', decided', cut') /\ Gated(run, checked', decided', cut')
  BY <1>1, DecidedMore
<1>5. n \in cut' \/ Clears(run, n, checked', decided')
  BY <1>1, <1>2 DEF Gated, GatedAt, Clears
<1>6. cut' \subseteq cut' \cup {n} OBVIOUS
<1>7. /\ Settled' /\ ~run'.active /\ ~run'.job /\ op'.at \in {"idle", "prepare", "publish"}
      /\ run'.approved = run.approved /\ run'.excused = run.excused
  BY <1>1, <1>3, <1>4, <1>5, <1>6, AdvanceKeeps
<1>8. Typed' BY <1>1 DEF Typed
<1> QED BY <1>1, <1>3, <1>7, <1>8, Rests DEF Alive

\* The owner takes on a stage with an edit no property reads.
LEMMA TakenOn ==
  ASSUME RunInvariant, NEW x \in NodeType, NEW r, Edited(r, run, run.node, x),
         Conclude(r, run.node), op.at = "idle", run.status = "awaiting",
         x.status = run.nodes[run.node].status, x.reason = run.nodes[run.node].reason,
         x.bypassed = run.nodes[run.node].bypassed,
         x.verified => run.nodes[run.node].verified,
         x.via = run.nodes[run.node].via,
         UNCHANGED <<native, check, changes, turns, returns, mishaps, published, leaked,
                     orphan, cut, checked, decided>>
  PROVE  RunInvariant'
<1> USE Unpack
<1> DEFINE n == run.node
<1>1. /\ run.phase = "executing" /\ ~run.active /\ ~run.job /\ ~run.adv
      /\ Alive => leaked
      /\ orphan => leaked
      /\ check # "running" /\ run.hold.reason # "budget"
      /\ run.pend # NoTurn => run.pend.kind # "none"
      /\ run.pend # NoTurn /\ ~OpensAttempt(run.pend.kind) => run.pend.node \in cut
  BY Waiting
<1>2. /\ r \in RunType /\ Kept(r, run) /\ Alike(r, run) /\ r.active = run.active
      /\ r.job = run.job
  BY <1>1, StageEdit
<1>3. /\ r.phase = "executing" /\ r.node = n /\ ~r.active /\ ~r.job /\ ~r.adv
      /\ r.hold = run.hold /\ r.pend = run.pend
      /\ r.approved = run.approved /\ r.excused = run.excused
  BY <1>1, <1>2 DEF Kept
<1>4. Honest(r, checked', decided', cut') /\ Gated(r, checked', decided', cut')
  BY <1>2, <1>3, AlikeKeeps
<1>5. cut' \subseteq cut' \cup {n} OBVIOUS
<1>6. /\ Settled' /\ ~run'.active /\ ~run'.job /\ op'.at = "conclude"
      /\ run'.approved = r.approved /\ run'.excused = r.excused
  BY <1>1, <1>2, <1>3, <1>4, <1>5, ConcludeKeeps
<1>7. Typed' BY DEF Typed
<1> QED BY <1>1, <1>3, <1>6, <1>7, Rests DEF Alive

LEMMA OverrideTurnKeeps == RunInvariant /\ OverrideTurn => RunInvariant'
<1> SUFFICES ASSUME RunInvariant, OverrideTurn PROVE RunInvariant' OBVIOUS
<1> USE Unpack
<1> DEFINE n == run.node
           x == [run.nodes[n] EXCEPT !.overridden = TRUE]
           r == [run EXCEPT !.nodes[n] = x]
<1>1. /\ op.at = "idle" /\ "override" \in Offered(run) /\ Conclude(r, n)
      /\ UNCHANGED <<native, check, changes, turns, returns, mishaps, published, leaked,
                     orphan, cut, checked, decided>>
  BY DEF OverrideTurn, Owner, Plain, Quiet
<1>2. run.status = "awaiting" BY <1>1, OfferedFacts
<1>3. run.nodes[n] \in NodeType OBVIOUS
<1>4. /\ x \in NodeType /\ x.status = run.nodes[n].status
      /\ x.reason = run.nodes[n].reason /\ x.bypassed = run.nodes[n].bypassed
      /\ x.verified = run.nodes[n].verified /\ x.via = run.nodes[n].via
  BY <1>3 DEF NodeType
<1>5. Edited(r, run, n, x) BY DEF Edited
<1> HIDE DEF x, r
<1> QED BY <1>1, <1>2, <1>4, <1>5, TakenOn

LEMMA ReconcileKeeps == RunInvariant /\ Reconcile => RunInvariant'
<1> SUFFICES ASSUME RunInvariant, Reconcile PROVE RunInvariant' OBVIOUS
<1> USE Unpack
<1> DEFINE n == run.node
           x(v) == [run.nodes[n] EXCEPT !.verified = FALSE, !.tries = 0, !.verdict = v]
           r(v) == [run EXCEPT !.nodes[n] = x(v)]
<1>1. PICK v \in Verdicts : Conclude(r(v), n) BY DEF Reconcile
<1>2. /\ op.at = "idle" /\ "reconcile" \in Offered(run)
      /\ UNCHANGED <<native, check, changes, turns, returns, mishaps, published, leaked,
                     orphan, cut, checked, decided>>
  BY DEF Reconcile, Owner, Plain, Quiet
<1>3. run.status = "awaiting" BY <1>2, OfferedFacts
<1>4. run.nodes[n] \in NodeType OBVIOUS
<1>5. /\ x(v) \in NodeType /\ x(v).status = run.nodes[n].status
      /\ x(v).reason = run.nodes[n].reason /\ x(v).bypassed = run.nodes[n].bypassed
      /\ x(v).verified = FALSE /\ x(v).via = run.nodes[n].via
  BY <1>4 DEF NodeType
<1>6. Edited(r(v), run, n, x(v)) BY DEF Edited
<1> HIDE DEF x, r
<1> QED BY <1>1, <1>2, <1>3, <1>5, <1>6, TakenOn

LEMMA FeedbackKeeps == RunInvariant /\ Feedback => RunInvariant'
<1> SUFFICES ASSUME RunInvariant, Feedback PROVE RunInvariant' OBVIOUS
<1> USE Unpack
<1> DEFINE n == run.node
           x == [run.nodes[n] EXCEPT !.verified = FALSE, !.tries = 0, !.unsound = FALSE]
           r == [run EXCEPT !.nodes[n] = x]
<1>1. /\ op.at = "idle" /\ "feedback" \in Offered(run) /\ Launch(r, n, "feedback")
      /\ UNCHANGED <<native, check, changes, turns, returns, mishaps, published, leaked,
                     orphan, cut, checked, decided>>
  BY DEF Feedback, Owner, Plain, Quiet
<1>2. run.status = "awaiting" /\ run.nodes[n].status = "awaiting-gate"
  BY <1>1, OfferedFacts
<1>3. run.nodes[n] \in NodeType OBVIOUS
<1>4. /\ x \in NodeType /\ x.status = run.nodes[n].status
      /\ x.reason = run.nodes[n].reason /\ x.bypassed = run.nodes[n].bypassed
      /\ x.verified = FALSE /\ x.via = run.nodes[n].via
  BY <1>3 DEF NodeType
<1>5. Edited(r, run, n, x) BY DEF Edited
<1> HIDE DEF x, r
<1>6. /\ run.phase = "executing" /\ ~run.active /\ ~run.job
      /\ Alive => leaked
      /\ orphan => leaked
      /\ check # "running"
  BY <1>2, Waiting
<1>7. /\ r \in RunType /\ Kept(r, run) /\ Alike(r, run) /\ r.active = run.active
      /\ r.job = run.job /\ r.nodes[n] = x
  BY <1>4, <1>5, <1>6, StageEdit
<1>8. /\ r.phase = "executing" /\ r.status = "awaiting" /\ r.node = n /\ ~r.active /\ ~r.job
  BY <1>2, <1>6, <1>7 DEF Kept
<1>9. "feedback" \in Kinds BY DEF Kinds
<1>10. Typed' BY <1>1 DEF Typed
<1>11. (Alive' => leaked') /\ (orphan' => leaked') /\ check' # "running"
  BY <1>1, <1>6 DEF Alive
<1> QED BY <1>1, <1>2, <1>4, <1>7, <1>8, <1>9, <1>10, <1>11, LaunchRests

LEMMA RetryKeeps == RunInvariant /\ Retry => RunInvariant'
<1> SUFFICES ASSUME RunInvariant, Retry PROVE RunInvariant' OBVIOUS
<1> USE Unpack
<1> DEFINE n == run.node
<1>1. /\ op.at = "idle" /\ ("retry" \in Offered(run) \/ "resume-now" \in Offered(run))
      /\ UNCHANGED <<native, check, changes, turns, returns, mishaps, published, leaked,
                     orphan, cut, checked, decided>>
  BY DEF Retry, Owner, Plain, Quiet
<1>2. run.status = "awaiting" /\ run.nodes[n].status = "failed" BY <1>1, OfferedFacts
<1>3. /\ run.phase = "executing" /\ ~run.active /\ ~run.job
      /\ Alive => leaked
      /\ orphan => leaked
      /\ check # "running" /\ run.hold.reason # "budget"
      /\ run.pend # NoTurn => run.pend.kind # "none"
      /\ run.pend # NoTurn /\ ~OpensAttempt(run.pend.kind) => run.pend.node \in cut
  BY <1>1, <1>2, Waiting
<1>4. Typed' BY <1>1 DEF Typed
<1>5. (Alive' => leaked') /\ (orphan' => leaked') /\ check' # "running"
  BY <1>1, <1>3 DEF Alive
<1>6. CASE run.nodes[n].reason = "pr-failed" /\ Advance(run, n)
  <2>1. n \in cut' \/ Clears(run, n, checked', decided')
    BY <1>1, <1>2, <1>6 DEF Honest, HonestAt
  <2>2. Honest(run, checked', decided', cut') /\ Gated(run, checked', decided', cut')
    BY <1>1
  <2>3. cut' \subseteq cut' \cup {n} OBVIOUS
  <2>4. /\ Settled' /\ ~run'.active /\ ~run'.job /\ op'.at \in {"idle", "prepare", "publish"}
        /\ run'.approved = run.approved /\ run'.excused = run.excused
    BY <1>3, <1>6, <2>1, <2>2, <2>3, <1>1, AdvanceKeeps
  <2> QED BY <1>1, <1>4, <1>5, <2>4, Rests
<1>7. CASE Launch([run EXCEPT !.resume = FALSE], n, "kickoff")
  <2> DEFINE r == [run EXCEPT !.resume = FALSE]
  <2>1. /\ r \in RunType /\ Kept(r, run) /\ r.active = run.active
        /\ r.job = run.job /\ r.nodes = run.nodes
    BY DEF RunType, Kept
  <2>2. Launch(r, n, "kickoff") BY <1>7
  <2> HIDE DEF r
  <2>3. Alike(r, run) BY <1>3, <2>1 DEF Alike, Kept
  <2>4. r.phase = "executing" /\ r.status = "awaiting" /\ ~r.active /\ ~r.job
    BY <1>2, <1>3, <2>1 DEF Kept
  <2>5. "kickoff" \in Kinds /\ OpensAttempt("kickoff") BY DEF Kinds, OpensAttempt
  <2> QED BY <1>1, <1>4, <1>5, <2>1, <2>2, <2>3, <2>4, <2>5, LaunchRests
<1> QED BY <1>6, <1>7 DEF Retry, Active

LEMMA OwnerLoopBackKeeps == RunInvariant /\ OwnerLoopBack => RunInvariant'
<1> SUFFICES ASSUME RunInvariant, OwnerLoopBack PROVE RunInvariant' OBVIOUS
<1> USE Unpack
<1> DEFINE n == run.node
<1>1. /\ op.at = "idle" /\ "loop-back" \in Offered(run) /\ LoopBack(run, n)
      /\ returns < MaxReturns /\ returns' = returns + 1
      /\ UNCHANGED <<native, check, changes, turns, mishaps, published, leaked,
                     orphan, cut, checked, decided>>
  BY DEF OwnerLoopBack, Owner, NoGhost, rigged
<1>2. run.status = "awaiting" /\ MaxLoops[n] > 0 BY <1>1, OfferedFacts DEF Loops
<1>3. /\ run.phase = "executing" /\ ~run.active /\ ~run.job
      /\ Alive => leaked
      /\ orphan => leaked
      /\ check # "running"
  BY <1>2, Waiting
<1>4. returns' \in 0 .. MaxReturns BY <1>1, BoundAssumption DEF Typed
<1>5. Typed' BY <1>1, <1>4 DEF Typed
<1>6. (Alive' => leaked') /\ (orphan' => leaked') /\ check' # "running"
  BY <1>1, <1>3 DEF Alive
<1>7. Honest(run, checked', decided', cut') /\ Gated(run, checked', decided', cut') BY <1>1
<1>8. /\ Settled' /\ ~run'.active /\ ~run'.job /\ op'.at \in {"idle", "prepare"}
      /\ run'.approved = run.approved /\ run'.excused = run.excused
  BY <1>1, <1>2, <1>3, <1>7, LoopBackKeeps
<1> QED BY <1>1, <1>5, <1>6, <1>8, Rests

\* A finished run goes back to a stage it ran.
LEMMA ReturnKeeps == RunInvariant /\ Return => RunInvariant'
<1> SUFFICES ASSUME RunInvariant, Return PROVE RunInvariant' OBVIOUS
<1> USE Unpack
<1>1. /\ op.at = "idle" /\ "return" \in Offered(run)
      /\ returns < MaxReturns /\ returns' = returns + 1
      /\ UNCHANGED <<native, check, changes, turns, mishaps, published, leaked,
                     orphan, cut, checked, decided>>
  BY DEF Return, Owner, NoGhost, rigged
<1> DEFINE doc(m) == ResetStages(run, Reach(m))
<1>2a. PICK n \in Stages : \E kind \in RepairKinds(run, n, TRUE) :
         Launch([doc(n) EXCEPT !.status = "running", !.concl = FALSE, !.adv = FALSE], n, kind)
  BY DEF Return
<1>2. PICK kind \in RepairKinds(run, n, TRUE) :
         Launch([doc(n) EXCEPT !.status = "running", !.concl = FALSE, !.adv = FALSE], n, kind)
  BY <1>2a
<1> DEFINE S == Reach(n)
           p == ResetStages(run, S)
           r == [p EXCEPT !.status = "running", !.concl = FALSE, !.adv = FALSE]
<1>3. Launch(r, n, kind) BY <1>2
<1>4. run.status = "completed"
  <2>1. run.status \in {"completed", "failed"} /\ run.phase = "executing"
    BY <1>1, OfferedFacts
  <2> QED BY <2>1 DEF Flow
<1>5. /\ run.phase = "executing" /\ ~run.active /\ ~run.job
      /\ Alive => leaked
      /\ orphan => leaked
      /\ check # "running"
  BY <1>4, Waiting
<1>6. kind \in Kinds /\ OpensAttempt(kind) BY RepairsOpen
<1>7. /\ p \in RunType /\ p.phase = run.phase /\ p.node = run.node /\ p.active = run.active
      /\ p.pend = run.pend /\ p.job = run.job /\ p.hold = run.hold /\ p.gate = run.gate
      /\ p.approved = run.approved /\ p.excused = run.excused
      /\ \A s \in Stages \ S : p.nodes[s] = run.nodes[s]
      /\ \A s \in Stages \cap S : p.nodes[s].reason = "none"
  BY ResetFacts
<1> HIDE DEF p, S, doc
<1>8. /\ r \in RunType /\ r.phase = p.phase /\ r.status = "running" /\ r.node = p.node
      /\ r.active = p.active /\ r.pend = p.pend /\ ~r.concl /\ ~r.adv /\ r.job = p.job
      /\ r.hold = p.hold /\ r.gate = p.gate /\ r.approved = p.approved
      /\ r.excused = p.excused /\ r.nodes = p.nodes
  BY <1>7 DEF RunType
<1> HIDE DEF r
<1>9. Flow(r) BY <1>5, <1>7, <1>8 DEF Flow
<1>10. Stands(r)
  <2>1. run.nodes[run.node].reason # "budget" BY <1>4 DEF Stands
  <2>2. p.nodes[run.node].reason # "budget" BY <1>7, <2>1
  <2> QED BY <1>5, <1>7, <1>8, <2>2 DEF Stands
<1>11. Honest(run, checked', decided', cut') /\ Gated(run, checked', decided', cut') BY <1>1
<1>12. Honest(r, checked', decided', cut') /\ Gated(r, checked', decided', cut')
  BY <1>7, <1>8, <1>11, ResetKeeps DEF p
<1>13. cut' \subseteq cut' \cup {n} OBVIOUS
<1>14. /\ Settled' /\ ~run'.active /\ ~run'.job /\ op'.at \in {"idle", "prepare"}
       /\ run'.approved = r.approved /\ run'.excused = r.excused
  BY <1>3, <1>5, <1>6, <1>7, <1>8, <1>9, <1>10, <1>12, <1>13, LaunchKeeps
<1>15. returns' \in 0 .. MaxReturns BY <1>1, BoundAssumption DEF Typed
<1>16. Typed' BY <1>1, <1>15 DEF Typed
<1>17. (Alive' => leaked') /\ (orphan' => leaked') /\ check' # "running"
  BY <1>1, <1>5 DEF Alive
<1> QED BY <1>1, <1>7, <1>8, <1>14, <1>16, <1>17, Rests

\* An override at a gate decides as that gate; a failed verification is waived.
LEMMA OverrideGateKeeps == RunInvariant /\ OverrideGate => RunInvariant'
<1> SUFFICES ASSUME RunInvariant, OverrideGate PROVE RunInvariant' OBVIOUS
<1> USE Unpack
<1> DEFINE n == run.node
<1>1. /\ op.at = "idle" /\ "override" \in Offered(run) /\ decided' = decided \cup {n}
      /\ run.nodes[n].status = "awaiting-gate"
      /\ UNCHANGED <<native, check, changes, turns, returns, mishaps, published, leaked,
                     orphan, cut>>
  BY DEF OverrideGate, Owner, Plain, Quiet, Active
<1>2. run.status = "awaiting" /\ run.nodes[n].reason # "budget" BY <1>1, OfferedFacts
<1>3. /\ run.phase = "executing" /\ ~run.active /\ ~run.job /\ ~run.adv
      /\ Alive => leaked
      /\ orphan => leaked
      /\ check # "running" /\ run.hold.reason # "budget"
      /\ run.pend # NoTurn => run.pend.kind # "none"
      /\ run.pend # NoTurn /\ ~OpensAttempt(run.pend.kind) => run.pend.node \in cut
  BY <1>1, <1>2, Waiting
<1>4. run.nodes[n] \in NodeType OBVIOUS
<1>5. (Alive' => leaked') /\ (orphan' => leaked') /\ check' # "running"
  BY <1>1, <1>3 DEF Alive
<1>6. cut' \subseteq cut' \cup {n} OBVIOUS
<1>7. CASE /\ Advance([run EXCEPT !.nodes[n] = [@ EXCEPT !.overridden = TRUE,
                              !.via = IF run.nodes[n].via = "none" THEN "pass"
                                      ELSE run.nodes[n].via]], n)
           /\ checked' = [checked EXCEPT ![n] = "waived"]
  <2> DEFINE via == IF run.nodes[n].via = "none" THEN "pass" ELSE run.nodes[n].via
             x == [run.nodes[n] EXCEPT !.overridden = TRUE, !.via = via]
             nn == [run.nodes EXCEPT ![n] = x]
             r == [run EXCEPT !.nodes = nn]
  <2>1. Advance(r, n) BY <1>7
  <2>2. via \in {"none", "pass", "fail"} BY <1>4 DEF NodeType
  <2> HIDE DEF via
  <2>3. /\ x \in NodeType /\ x.status = run.nodes[n].status
        /\ x.reason = run.nodes[n].reason /\ x.bypassed = run.nodes[n].bypassed
        /\ x.verified = run.nodes[n].verified
    BY <1>4, <2>2 DEF NodeType
  <2> HIDE DEF x
  <2>4. nn \in [Stages -> NodeType] /\ nn[n] = x /\ \A s \in Stages \ {n} : nn[s] = run.nodes[s]
    BY <2>3, NodeEdit
  <2> HIDE DEF nn
  <2>5. r \in RunType /\ Kept(r, run) /\ r.active = run.active /\ r.job = run.job
        /\ r.nodes = nn
    BY <2>4 DEF RunType, Kept
  <2> HIDE DEF r
  <2>6. checked' \in [Stages -> {"no", "pass", "waived"}] /\ checked'[n] = "waived"
        /\ \A s \in Stages \ {n} : checked'[s] = checked[s]
    BY <1>7 DEF Typed
  <2>7. Clears(r, n, checked', decided') /\ Checks(r, n, checked')
    BY <1>1, <2>6 DEF Clears, Checks
  <2>8. HonestAt(r, n, checked', decided') \/ n \in cut'
    BY <1>1, <1>2, <1>3, <2>3, <2>4, <2>5, <2>6, <2>7 DEF HonestAt, Kept
  <2>9. GatedAt(r, n, checked', decided') BY <2>7 DEF GatedAt
  <2>10. /\ OthersSame(r, run, n) /\ r.node = n /\ r.pend = run.pend
         /\ r.nodes[n].bypassed => n \in decided'
    BY <1>1, <2>4, <2>5 DEF OthersSame, Kept
  <2>11. Elsewhere(n, checked', decided', cut', checked, decided, cut, cut)
    BY <1>1, <2>6 DEF Elsewhere
  <2>12. Honest(run, checked, decided, cut) /\ Gated(run, checked, decided, cut) BY <1>1
  <2>13. Honest(r, checked', decided', cut') /\ Gated(r, checked', decided', cut')
    BY <2>8, <2>9, <2>10, <2>11, <2>12, CurrentStage
  <2>14. /\ r.phase = "executing" /\ ~r.active /\ ~r.job /\ r.hold.reason # "budget"
         /\ r.pend # NoTurn => r.pend.kind # "none"
         /\ r.pend # NoTurn /\ ~OpensAttempt(r.pend.kind) => r.pend.node \in cut'
         /\ r.approved = run.approved /\ r.excused = run.excused
    BY <1>1, <1>3, <2>5 DEF Kept
  <2>15. /\ Settled' /\ ~run'.active /\ ~run'.job
         /\ op'.at \in {"idle", "prepare", "publish"}
         /\ run'.approved = r.approved /\ run'.excused = r.excused
    BY <1>6, <2>1, <2>5, <2>7, <2>10, <2>13, <2>14, AdvanceKeeps
  <2>16. Typed' BY <1>1, <2>6 DEF Typed
  <2> QED BY <1>1, <1>5, <2>14, <2>15, <2>16, Rests
<1>8. CASE /\ Conclude([run EXCEPT !.nodes[n] = [@ EXCEPT !.overridden = TRUE,
                                                          !.bypassed = TRUE]], n)
           /\ checked' = checked
  <2> DEFINE x == [run.nodes[n] EXCEPT !.overridden = TRUE, !.bypassed = TRUE]
             nn == [run.nodes EXCEPT ![n] = x]
             r == [run EXCEPT !.nodes = nn]
  <2>1. Conclude(r, n) BY <1>8
  <2>3. /\ x \in NodeType /\ x.status = run.nodes[n].status
        /\ x.reason = run.nodes[n].reason /\ x.via = run.nodes[n].via
        /\ x.verified = run.nodes[n].verified
    BY <1>4 DEF NodeType
  <2> HIDE DEF x
  <2>4. nn \in [Stages -> NodeType] /\ nn[n] = x /\ \A s \in Stages \ {n} : nn[s] = run.nodes[s]
    BY <2>3, NodeEdit
  <2> HIDE DEF nn
  <2>5. r \in RunType /\ Kept(r, run) /\ r.active = run.active /\ r.job = run.job
        /\ r.nodes = nn /\ r.adv = run.adv
    BY <2>4 DEF RunType, Kept
  <2> HIDE DEF r
  <2>6. Honest(run, checked, decided', cut) /\ Gated(run, checked, decided', cut)
    BY <1>1, DecidedMore
  <2>7. /\ Checks(r, n, checked) <=> Checks(run, n, checked)
        /\ Clears(r, n, checked, decided') <=> Clears(run, n, checked, decided')
    BY <2>3, <2>4, <2>5 DEF Checks, Clears, Flags
  <2>8. n \notin cut => HonestAt(run, n, checked, decided') /\ GatedAt(run, n, checked, decided')
    BY <2>6 DEF Honest, Gated
  <2>9. n \notin cut' => HonestAt(r, n, checked', decided')
    BY <1>1, <1>8, <2>3, <2>4, <2>5, <2>7, <2>8 DEF HonestAt, Kept
  <2>10. n \notin cut' => GatedAt(r, n, checked', decided')
    BY <1>1, <1>8, <2>3, <2>4, <2>5, <2>7, <2>8 DEF GatedAt, Kept
  <2>11. /\ OthersSame(r, run, n) /\ r.node = n /\ r.pend = run.pend
         /\ r.nodes[n].bypassed => n \in decided'
    BY <1>1, <2>4, <2>5 DEF OthersSame, Kept
  <2>12. Elsewhere(n, checked', decided', cut', checked, decided', cut, cut)
    BY <1>1, <1>8 DEF Elsewhere
  <2>13. Honest(r, checked', decided', cut') /\ Gated(r, checked', decided', cut')
    BY <2>6, <2>9, <2>10, <2>11, <2>12, CurrentStage
  <2>14. /\ r.phase = "executing" /\ ~r.active /\ ~r.job /\ ~r.adv /\ r.hold.reason # "budget"
         /\ r.pend # NoTurn => r.pend.kind # "none"
         /\ r.pend # NoTurn /\ ~OpensAttempt(r.pend.kind) => r.pend.node \in cut'
         /\ r.approved = run.approved /\ r.excused = run.excused
    BY <1>1, <1>3, <2>5 DEF Kept
  <2>15. /\ Settled' /\ ~run'.active /\ ~run'.job /\ op'.at = "conclude"
         /\ run'.approved = r.approved /\ run'.excused = r.excused
    BY <1>6, <2>1, <2>5, <2>11, <2>13, <2>14, ConcludeKeeps
  <2>16. Typed' BY <1>1, <1>8 DEF Typed
  <2> QED BY <1>1, <1>5, <2>14, <2>15, <2>16, Rests
<1> QED BY <1>7, <1>8 DEF OverrideGate

\* A raised budget: the held turn starts, and its stage's gate is what it was before.
LEMMA RaiseBudgetKeeps == RunInvariant /\ RaiseBudget => RunInvariant'
<1> SUFFICES ASSUME RunInvariant, RaiseBudget PROVE RunInvariant' OBVIOUS
<1> USE Unpack
<1> DEFINE n == run.node
           why == run.hold.reason
           kind == run.hold.kind
           x == [run.nodes[n] EXCEPT !.reason = why]
           nn == [run.nodes EXCEPT ![n] = x]
           r == [run EXCEPT !.over = FALSE, !.hold = NoHold, !.nodes = nn]
<1>1. /\ op.at = "idle" /\ "raise-budget" \in Offered(run) /\ Launch(r, n, kind)
      /\ UNCHANGED <<native, check, changes, turns, returns, mishaps, published, leaked,
                     orphan, cut, checked, decided>>
  BY DEF RaiseBudget, Owner, Plain, Quiet
<1>2. run.status = "awaiting" /\ run.nodes[n].reason = "budget" BY <1>1, OfferedFacts
<1>3. /\ run.phase = "executing" /\ ~run.active /\ ~run.job /\ ~run.adv
      /\ Alive => leaked
      /\ orphan => leaked
      /\ check # "running" /\ why # "budget"
  BY <1>2, Waiting
<1>4. run.nodes[n].status = "awaiting-gate" /\ kind # "none" /\ ~run.concl
  BY <1>2 DEF Stands
<1>5. kind \in Kinds /\ why \in Reasons BY <1>4 DEF RunType
<1>6. run.nodes[n] \in NodeType OBVIOUS
<1>7. n \in cut \/ OpensAttempt(kind) \/ ~run.nodes[n].verified
  BY <1>1, <1>2 DEF Honest, HonestAt
<1> HIDE DEF why, kind
<1>8. /\ x \in NodeType /\ x.status = run.nodes[n].status
      /\ x.reason = why /\ x.via = run.nodes[n].via
      /\ x.verified = run.nodes[n].verified /\ x.bypassed = run.nodes[n].bypassed
  BY <1>5, <1>6 DEF NodeType
<1> HIDE DEF x
<1>9. nn \in [Stages -> NodeType] /\ nn[n] = x /\ \A s \in Stages \ {n} : nn[s] = run.nodes[s]
  BY <1>8, NodeEdit
<1> HIDE DEF nn
<1>10. NoHold \in [kind : Kinds \cup {"none"}, reason : Reasons] /\ NoHold.reason # "budget"
  BY DEF NoHold, Reasons
<1>11. /\ r \in RunType /\ r.phase = run.phase /\ r.status = run.status /\ r.node = run.node
       /\ r.active = run.active /\ r.pend = run.pend /\ r.concl = run.concl
       /\ r.adv = run.adv /\ r.job = run.job /\ r.hold = NoHold /\ r.gate = run.gate
       /\ r.approved = run.approved /\ r.excused = run.excused /\ r.nodes = nn
  BY <1>9, <1>10 DEF RunType
<1> HIDE DEF r
<1>12. Flow(r) /\ Stands(r)
  BY <1>2, <1>3, <1>4, <1>8, <1>9, <1>10, <1>11 DEF Flow, Stands
<1> DEFINE y == cut \cup {n}
<1>13. n \notin cut => HonestAt(r, n, checked, decided)
  BY <1>1, <1>3, <1>4, <1>8, <1>9, <1>11 DEF Honest, HonestAt
<1>14. r.nodes[n].bypassed => n \in decided BY <1>8, <1>9, <1>11 DEF Honest
<1>15. OthersSame(r, run, n) BY <1>9, <1>11 DEF OthersSame
<1>16. Elsewhere(n, checked, decided, cut, checked, decided, cut, cut) BY DEF Elsewhere
<1>16a. Gated(run, checked, decided, cut) /\ Honest(run, checked, decided, cut) BY <1>1
<1>17. Honest(r, checked, decided, cut) /\ Gated(r, checked, decided, y)
  BY <1>11, <1>13, <1>14, <1>15, <1>16, <1>16a, CurrentStage
<1> HIDE DEF y
<1>18. y \subseteq cut' \cup {n} BY <1>1 DEF y
<1>19. Honest(r, checked', decided', cut') /\ Gated(r, checked', decided', y)
  BY <1>1, <1>17
<1>20. /\ Settled' /\ ~run'.active /\ ~run'.job /\ op'.at \in {"idle", "prepare"}
       /\ run'.approved = r.approved /\ run'.excused = r.excused
  BY <1>1, <1>2, <1>3, <1>4, <1>5, <1>7, <1>8, <1>9, <1>11, <1>12, <1>18, <1>19, LaunchKeeps
<1>21. Typed' BY <1>1 DEF Typed
<1>22. (Alive' => leaked') /\ (orphan' => leaked') /\ check' # "running"
  BY <1>1, <1>3 DEF Alive
<1> QED BY <1>1, <1>11, <1>20, <1>21, <1>22, Rests

-----------------------------------------------------------------------------
(* The risk gate and the publication. *)

\* Parking before a risky commit, with what the gate resumes.
AtRiskGate(p, r, n, gate) == p = [Park(r, n, "risk-gate") EXCEPT !.gate = gate]
LEMMA ParkGateFacts ==
  ASSUME NEW r \in RunType, NEW n \in Stages, NEW gate \in GateType, NEW p,
         AtRiskGate(p, r, n, gate)
  PROVE  /\ p \in RunType /\ p.phase = r.phase /\ p.status = "awaiting" /\ p.node = r.node
         /\ p.active = (r.active /\ n # r.node)
         /\ p.pend = NoTurn /\ p.concl = FALSE /\ p.adv = FALSE /\ p.job = r.job
         /\ p.hold = r.hold /\ p.gate = gate
         /\ p.approved = r.approved /\ p.excused = r.excused
         /\ p.nodes[n].status = "awaiting-gate" /\ p.nodes[n].reason = "risk-gate"
         /\ p.nodes[n].via = r.nodes[n].via /\ p.nodes[n].verified = r.nodes[n].verified
         /\ p.nodes[n].bypassed = r.nodes[n].bypassed
         /\ OthersSame(p, r, n)
<1>1. PICK why \in Reasons : why = "risk-gate" BY DEF Reasons
<1> DEFINE q == Park(r, n, why)
<1>2. /\ q \in RunType /\ q.phase = r.phase /\ q.status = "awaiting" /\ q.cancel = r.cancel
      /\ q.node = r.node /\ q.active = (r.active /\ n # r.node)
      /\ q.pend = NoTurn /\ q.concl = FALSE /\ q.adv = FALSE /\ q.job = r.job
      /\ q.hold = r.hold /\ q.gate = r.gate
      /\ q.approved = r.approved /\ q.excused = r.excused
      /\ q.nodes[n].status = (IF why \in Retryable THEN "failed" ELSE "awaiting-gate")
      /\ q.nodes[n].reason = why /\ q.nodes[n].via = r.nodes[n].via
      /\ q.nodes[n].verified = r.nodes[n].verified
      /\ q.nodes[n].bypassed = r.nodes[n].bypassed
      /\ OthersSame(q, r, n)
  BY ParkFacts
<1> HIDE DEF q
<1>3. why \notin Retryable BY <1>1 DEF Retryable
<1>3a. p = [q EXCEPT !.gate = gate] BY <1>1 DEF AtRiskGate, q
<1>4. /\ p \in RunType /\ p.phase = q.phase /\ p.status = q.status /\ p.node = q.node
      /\ p.active = q.active /\ p.pend = q.pend /\ p.concl = q.concl /\ p.adv = q.adv
      /\ p.job = q.job /\ p.hold = q.hold /\ p.gate = gate
      /\ p.approved = q.approved /\ p.excused = q.excused /\ p.nodes = q.nodes
  BY <1>2, <1>3a DEF RunType
<1>5. OthersSame(p, r, n) BY <1>2, <1>4 DEF OthersSame
<1> QED BY <1>1, <1>2, <1>3, <1>4, <1>5

\* A risky conclusion or publication stops for an approval; a publication stops only where
\* the stage has what its edge asks for.
LEMMA ParkRiskKeeps ==
  ASSUME NEW r \in RunType, NEW n \in Stages, NEW to \in 0 .. MaxChanges,
         NEW resume \in {"conclude", "advance", "publish"}, NEW error \in BOOLEAN,
         run' = ParkRisk(r, n, to, resume, error), op' \in OpType, op'.at = "idle",
         n = r.node, r.phase = "executing", ~r.active, ~r.job,
         r.hold.reason # "budget", Stands(r),
         Honest(r, checked', decided', cut'), Gated(r, checked', decided', cut'),
         resume # "conclude" => n \in cut' \/ Clears(r, n, checked', decided'),
         resume = "publish" => ~r.concl /\ ~r.adv,
         r.pend # NoTurn => r.pend.kind # "none",
         r.pend # NoTurn /\ ~OpensAttempt(r.pend.kind) => r.pend.node \in cut'
  PROVE  /\ Settled' /\ ~run'.active /\ ~run'.job
         /\ run'.approved = r.approved /\ run'.excused = r.excused
<1> DEFINE p == run'
           gate == [resume |-> resume, sha |-> to, error |-> error]
<1>0. r.nodes[n] \in NodeType BY StageOf
<1>1. gate \in GateType /\ gate.resume = resume BY DEF GateType
<1>2. /\ p \in RunType /\ p.phase = r.phase /\ p.status = "awaiting" /\ p.node = r.node
      /\ ~p.active /\ (p.pend = NoTurn \/ p.pend = r.pend) /\ ~p.concl /\ ~p.adv
      /\ ~p.job /\ p.hold = r.hold /\ p.gate = gate
      /\ p.approved = r.approved /\ p.excused = r.excused
      /\ p.nodes[n].status = "awaiting-gate" /\ p.nodes[n].reason = "risk-gate"
      /\ p.nodes[n].via = r.nodes[n].via /\ p.nodes[n].verified = r.nodes[n].verified
      /\ p.nodes[n].bypassed = r.nodes[n].bypassed
      /\ OthersSame(p, r, n)
  <2>1. CASE resume = "publish"
    <3> DEFINE x == [r.nodes[n] EXCEPT !.status = "awaiting-gate", !.reason = "risk-gate"]
               nn == [r.nodes EXCEPT ![n] = x]
    <3>1. p = [r EXCEPT !.gate = gate, !.status = "awaiting", !.nodes = nn]
      BY <2>1 DEF ParkRisk
    <3>2. x \in NodeType /\ x.status = "awaiting-gate" /\ x.reason = "risk-gate"
          /\ x.via = r.nodes[n].via /\ x.verified = r.nodes[n].verified
          /\ x.bypassed = r.nodes[n].bypassed
      BY <1>0 DEF NodeType, Reasons
    <3> HIDE DEF x
    <3>3. nn \in [Stages -> NodeType] /\ nn[n] = x /\ \A s \in Stages \ {n} : nn[s] = r.nodes[s]
      BY <3>2, NodeEdit
    <3> HIDE DEF nn, p, gate
    <3>4. /\ p \in RunType /\ p.phase = r.phase /\ p.status = "awaiting" /\ p.node = r.node
          /\ p.active = r.active /\ p.pend = r.pend /\ p.concl = r.concl /\ p.adv = r.adv
          /\ p.job = r.job /\ p.hold = r.hold /\ p.gate = gate
          /\ p.approved = r.approved /\ p.excused = r.excused /\ p.nodes = nn
      BY <1>1, <3>1, <3>3 DEF RunType
    <3>5. OthersSame(p, r, n) BY <3>3, <3>4 DEF OthersSame
    <3> QED BY <2>1, <3>2, <3>3, <3>4, <3>5
  <2>2. CASE resume # "publish"
    <3>1. AtRiskGate(p, r, n, gate) BY <2>2 DEF ParkRisk, AtRiskGate
    <3> HIDE DEF p, gate
    <3>2. /\ p \in RunType /\ p.phase = r.phase /\ p.status = "awaiting" /\ p.node = r.node
          /\ p.active = (r.active /\ n # r.node)
          /\ p.pend = NoTurn /\ p.concl = FALSE /\ p.adv = FALSE /\ p.job = r.job
          /\ p.hold = r.hold /\ p.gate = gate
          /\ p.approved = r.approved /\ p.excused = r.excused
          /\ p.nodes[n].status = "awaiting-gate" /\ p.nodes[n].reason = "risk-gate"
          /\ p.nodes[n].via = r.nodes[n].via /\ p.nodes[n].verified = r.nodes[n].verified
          /\ p.nodes[n].bypassed = r.nodes[n].bypassed
          /\ OthersSame(p, r, n)
      <4>1. r \in RunType /\ n \in Stages /\ gate \in GateType BY <1>1
      <4> QED BY ONLY <4>1, <3>1, ParkGateFacts
    <3> QED BY <3>2
  <2> QED BY <2>1, <2>2
<1> HIDE DEF p, gate
<1>3. Flow(p) /\ Recorded(p) BY <1>2 DEF Flow, Recorded
<1>4. Stands(p) BY <1>2 DEF Stands
<1>5. /\ Checks(p, n, checked') <=> Checks(r, n, checked')
      /\ Clears(p, n, checked', decided') <=> Clears(r, n, checked', decided')
  BY <1>2 DEF Checks, Clears, Flags
<1>6. p.nodes[n].bypassed => n \in decided' BY <1>2 DEF Honest
<1>7. n \notin cut' => HonestAt(p, n, checked', decided')
  BY <1>2, <1>5 DEF Honest, HonestAt
<1>8. n \notin cut' => GatedAt(p, n, checked', decided')
  BY <1>1, <1>2, <1>5 DEF GatedAt
<1>9. Elsewhere(n, checked', decided', cut', checked', decided', cut', cut') BY DEF Elsewhere
<1>10. Honest(p, checked', decided', cut') /\ Gated(p, checked', decided', cut')
  BY <1>2, <1>6, <1>7, <1>8, <1>9, CurrentStage
<1>11. run' = p BY DEF p
<1>12. Reopening' = {} BY DEF Reopening
<1>13. Starts' /\ Ends' BY DEF Starts, Ends
<1>14. Queued' BY <1>2, <1>11 DEF Queued
<1>15. Gated(run', checked', decided', cut' \cup Reopening') BY <1>10, <1>11, <1>12
<1> QED BY <1>2, <1>3, <1>4, <1>10, <1>11, <1>13, <1>14, <1>15 DEF Settled

\* Where a publication waits: the stage passed, or the run is completed.
LEMMA Publishing ==
  ASSUME RunInvariant, op.at \in {"publish", "push", "pushed"}
  PROVE  /\ op.node = run.node /\ op.resume \in {"advance", "publish"}
         /\ run.nodes[run.node].status = "passed" /\ run.phase = "executing"
         /\ ~run.active /\ ~run.job /\ run.status \in {"running", "completed"}
         /\ ~run.concl /\ run.hold.reason # "budget"
         /\ op.resume = "advance" => run.status = "running" /\ run.adv
         /\ op.resume = "publish" => run.status = "completed" /\ ~run.adv
         /\ Alive => leaked
         /\ orphan => leaked
         /\ check # "running"
         /\ run.pend # NoTurn => run.pend.kind # "none"
         /\ run.pend # NoTurn /\ ~OpensAttempt(run.pend.kind) => run.pend.node \in cut
         /\ run.node \in cut \/ Clears(run, run.node, checked, decided)
         /\ Gated(run, checked, decided, cut)
<1> USE Unpack
<1>1. /\ op.node = run.node
      /\ \/ op.resume = "advance" /\ run.status = "running" /\ run.adv /\ ~run.active
         \/ op.resume = "publish" /\ run.status = "completed"
  BY DEF Ends
<1>2. /\ ~run.active /\ ~run.job /\ ~run.concl /\ run.phase = "executing"
      /\ op.resume = "publish" => ~run.adv
      /\ run.hold.reason # "budget"
      /\ run.pend # NoTurn => run.pend.kind # "none"
  BY <1>1 DEF Flow, RunType
<1>3. run.nodes[run.node].status = "passed" BY <1>1 DEF Stands
<1>4. run.node \in cut \/ Clears(run, run.node, checked, decided)
  BY <1>3 DEF Honest, HonestAt
<1>5. run.pend # NoTurn /\ ~OpensAttempt(run.pend.kind) => run.pend.node \in cut
  BY DEF Queued
<1> QED BY <1>1, <1>2, <1>3, <1>4, <1>5 DEF Processes

LEMMA PublicationRests ==
  ASSUME RunInvariant, op.at \in {"publish", "push", "pushed"}, PublicationFails,
         UNCHANGED <<published, checked, decided, cut>>, Typed',
         UNCHANGED <<native, check, leaked, orphan>>
  PROVE  RunInvariant'
<1> USE Unpack
<1>1. op' = Idle /\ op' \in OpType /\ op'.at = "idle" BY IdleType DEF PublicationFails
<1>2. /\ op.node = run.node /\ op.resume \in {"advance", "publish"}
      /\ run.phase = "executing"
      /\ ~run.active /\ ~run.job /\ run.status \in {"running", "completed"}
      /\ run.pend # NoTurn /\ ~OpensAttempt(run.pend.kind) => run.pend.node \in cut
      /\ run.node \in cut \/ Clears(run, run.node, checked, decided)
      /\ Alive => leaked
      /\ orphan => leaked
      /\ check # "running"
  BY Publishing
<1>3. "pr-failed" \in Parks BY DEF Parks
<1>4. (Alive' => leaked') /\ (orphan' => leaked') /\ check' # "running" BY <1>2 DEF Alive
<1>5. CASE run' = Park(run, op.node, "pr-failed")
  BY <1>1, <1>2, <1>3, <1>4, <1>5, AlikeSelf, ParkRests
<1>6. CASE run' = run
  <2>1. Reopening = {} /\ Reopening' = {} BY <1>1 DEF Reopening
  <2>2. Starts' /\ Ends' BY <1>1 DEF Starts, Ends
  <2>3. Queued' BY <1>1, <1>2, <1>6 DEF Queued
  <2>4. Processes' BY <1>2, <1>4, <1>6 DEF Processes
  <2> QED BY <1>1, <1>6, <2>1, <2>2, <2>3, <2>4, SameRun
<1> QED BY <1>5, <1>6 DEF PublicationFails

LEMMA PublishCheckKeeps == RunInvariant /\ PublishCheck => RunInvariant'
<1> SUFFICES ASSUME RunInvariant, PublishCheck PROVE RunInvariant' OBVIOUS
<1> USE Unpack
<1>1. /\ op.at = "publish" /\ (mishaps' = mishaps \/ Mishap)
      /\ UNCHANGED <<native, check, changes, turns, returns, published, leaked,
                     orphan, cut, checked, decided>>
  BY DEF PublishCheck, Quiet, NoGhost, rigged
<1>2. \/ \E error \in BOOLEAN :
            run' = ParkRisk(run, op.node, changes, op.resume, error) /\ op' = Idle
      \/ /\ ~Risky(run, changes) /\ run' = run
         /\ op' = [op EXCEPT !.at = "push", !.sha = changes]
      \/ PublicationFails
  BY DEF PublishCheck
<1>3. /\ op.node = run.node /\ op.resume \in {"advance", "publish"}
      /\ run.nodes[run.node].status = "passed" /\ run.phase = "executing"
      /\ ~run.active /\ ~run.job /\ run.status \in {"running", "completed"}
      /\ ~run.concl /\ run.hold.reason # "budget"
      /\ op.resume = "advance" => run.status = "running" /\ run.adv
      /\ op.resume = "publish" => run.status = "completed" /\ ~run.adv
      /\ Alive => leaked
      /\ orphan => leaked
      /\ check # "running"
      /\ run.pend # NoTurn => run.pend.kind # "none"
      /\ run.pend # NoTurn /\ ~OpensAttempt(run.pend.kind) => run.pend.node \in cut
      /\ run.node \in cut \/ Clears(run, run.node, checked, decided)
      /\ Gated(run, checked, decided, cut)
  BY <1>1, Publishing
<1>4. mishaps' \in 0 .. MaxMishaps BY <1>1, MishapType DEF RunInvariant, Typed
<1>5. Typed' BY <1>1, <1>4 DEF Typed
<1>6. (Alive' => leaked') /\ (orphan' => leaked') /\ check' # "running"
  BY <1>1, <1>3 DEF Alive
<1>7. CASE PublicationFails BY <1>1, <1>5, <1>7, PublicationRests
<1>8. ASSUME NEW error \in BOOLEAN,
             run' = ParkRisk(run, op.node, changes, op.resume, error), op' = Idle
      PROVE  RunInvariant'
  <2>1. changes \in 0 .. MaxChanges BY DEF Typed
  <2>2. op' \in OpType /\ op'.at = "idle" BY <1>8, IdleType
  <2>3. Honest(run, checked', decided', cut') /\ Gated(run, checked', decided', cut')
    BY <1>1, <1>3
  <2>4. run.node \in cut' \/ Clears(run, run.node, checked', decided') BY <1>1, <1>3
  <2>5. op.resume \in {"conclude", "advance", "publish"} BY <1>3
  <2>6. /\ Settled' /\ ~run'.active /\ ~run'.job
        /\ run'.approved = run.approved /\ run'.excused = run.excused
    BY <1>1, <1>3, <1>8, <2>1, <2>2, <2>3, <2>4, <2>5, ParkRiskKeeps
  <2> QED BY <1>1, <1>5, <1>6, <2>2, <2>6, Rests
<1>9. CASE /\ ~Risky(run, changes) /\ run' = run
           /\ op' = [op EXCEPT !.at = "push", !.sha = changes]
  <2>1. /\ op' \in OpType /\ op'.at = "push" /\ op'.sha = changes /\ op'.node = op.node
        /\ op'.resume = op.resume
    BY <1>9 DEF Typed, OpType
  <2>2. Reopening' = {} BY <2>1 DEF Reopening
  <2>3. Starts' /\ Ends' BY <1>3, <1>9, <2>1 DEF Starts, Ends
  <2>4. Queued' BY <1>1, <1>3, <1>9, <2>1 DEF Queued
  <2>5. Honest(run', checked', decided', cut')
        /\ Gated(run', checked', decided', cut' \cup Reopening')
    BY <1>1, <1>3, <1>9, <2>2
  <2>6. Settled' BY <1>9, <2>1, <2>3, <2>4, <2>5 DEF Settled, Flow, Stands, Recorded
  <2>7. Processes' BY <1>3, <1>6, <1>9 DEF Processes
  <2>8. changes \in (0 .. run.approved) \cup run.excused
    <3>1. changes \in 0 .. MaxChanges /\ run.approved \in 0 .. MaxChanges /\ MaxChanges \in Nat
      BY BoundAssumption DEF Typed, RunType
    <3> QED BY <1>9, <3>1 DEF Risky
  <2>9. Publication' BY <1>1, <1>9, <2>1, <2>8 DEF Publication, PublishedApproved, RunInvariant
  <2>10. TypeOK' BY <1>1, <1>5, <1>9, <2>1 DEF RunInvariant, TypeOK, Typed
  <2> QED BY <2>6, <2>7, <2>9, <2>10 DEF RunInvariant
<1> QED BY <1>2, <1>7, <1>8, <1>9

LEMMA PushKeeps == RunInvariant /\ Push => RunInvariant'
<1> SUFFICES ASSUME RunInvariant, Push PROVE RunInvariant' OBVIOUS
<1> USE Unpack
<1>1. /\ op.at = "push" /\ (mishaps' = mishaps \/ Mishap)
      /\ UNCHANGED <<native, check, changes, turns, returns, leaked, orphan, checked,
                     decided, cut>>
  BY DEF Push, Quiet
<1>2. \/ /\ published' = published \cup {op.sha} /\ run' = run
         /\ op' = [op EXCEPT !.at = "pushed"]
      \/ PublicationFails /\ published' = published
  BY DEF Push
<1>3. /\ op.node = run.node /\ op.resume \in {"advance", "publish"}
      /\ ~run.active /\ ~run.job /\ run.status \in {"running", "completed"}
      /\ op.resume = "advance" => run.status = "running" /\ run.adv
      /\ op.resume = "publish" => run.status = "completed" /\ ~run.adv
      /\ run.pend # NoTurn /\ ~OpensAttempt(run.pend.kind) => run.pend.node \in cut
      /\ Gated(run, checked, decided, cut)
  BY <1>1, Publishing
<1>4. mishaps' \in 0 .. MaxMishaps BY <1>1, MishapType DEF RunInvariant, Typed
<1>5. Typed' BY <1>1, <1>4 DEF Typed
<1>6. CASE PublicationFails /\ published' = published
  BY <1>1, <1>5, <1>6, PublicationRests
<1>7. CASE /\ published' = published \cup {op.sha} /\ run' = run
           /\ op' = [op EXCEPT !.at = "pushed"]
  <2>1. /\ op' \in OpType /\ op'.at = "pushed" /\ op'.node = op.node
        /\ op'.resume = op.resume
    BY <1>7 DEF OpType
  <2>2. Reopening' = {} BY <2>1 DEF Reopening
  <2>3. Starts' /\ Ends' BY <1>3, <1>7, <2>1 DEF Starts, Ends
  <2>4. Queued' BY <1>1, <1>3, <1>7, <2>1 DEF Queued
  <2>5. Honest(run', checked', decided', cut')
        /\ Gated(run', checked', decided', cut' \cup Reopening')
    BY <1>1, <1>3, <1>7, <2>2
  <2>6. Settled' BY <1>7, <2>1, <2>3, <2>4, <2>5 DEF Settled, Flow, Stands, Recorded
  <2>7. Processes' BY <1>1, <1>7 DEF Processes, Alive
  <2>8. op.sha \in (0 .. run.approved) \cup run.excused BY <1>1 DEF RunInvariant, Publication
  <2>9. Publication'
    BY <1>7, <2>1, <2>8 DEF Publication, PublishedApproved, RunInvariant
  <2>10. op.sha \in 0 .. MaxChanges BY DEF OpType
  <2>11. TypeOK' BY <1>5, <1>7, <2>1, <2>10 DEF RunInvariant, TypeOK, Typed
  <2> QED BY <2>6, <2>7, <2>9, <2>11 DEF RunInvariant
<1> QED BY <1>2, <1>6, <1>7

\* The pull request is noted.
PrNoted(p, r) == p = [r EXCEPT !.pr = TRUE]

LEMMA PrNotedFacts ==
  ASSUME NEW r \in RunType, NEW p, PrNoted(p, r)
  PROVE  /\ p \in RunType /\ Alike(p, r) /\ p.phase = r.phase /\ p.status = r.status
         /\ p.node = r.node /\ p.active = r.active /\ p.pend = r.pend /\ p.concl = r.concl
         /\ p.adv = r.adv /\ p.job = r.job /\ p.approved = r.approved
         /\ p.excused = r.excused
BY DEF PrNoted, RunType, Alike

LEMMA PushedKeeps == RunInvariant /\ Pushed => RunInvariant'
<1> SUFFICES ASSUME RunInvariant, Pushed PROVE RunInvariant' OBVIOUS
<1> USE Unpack
<1> DEFINE r == [run EXCEPT !.pr = TRUE]
<1>1. /\ op.at = "pushed" /\ (mishaps' = mishaps \/ Mishap)
      /\ UNCHANGED <<native, check, changes, turns, returns, published, leaked, orphan,
                     checked, decided, cut>>
  BY DEF Pushed, Quiet, NoGhost, rigged
<1>2. \/ op.resume = "advance" /\ Onward(r, op.node)
      \/ op.resume # "advance" /\ run' = r /\ op' = Idle
      \/ PublicationFails
  BY DEF Pushed
<1>3. /\ op.node = run.node /\ run.phase = "executing"
      /\ ~run.active /\ ~run.job /\ run.status \in {"running", "completed"}
      /\ op.resume \in {"advance", "publish"}
      /\ op.resume = "advance" => run.status = "running" /\ run.adv
      /\ op.resume = "publish" => run.status = "completed" /\ ~run.adv
      /\ Alive => leaked
      /\ orphan => leaked
      /\ check # "running"
      /\ run.pend # NoTurn /\ ~OpensAttempt(run.pend.kind) => run.pend.node \in cut
      /\ Gated(run, checked, decided, cut)
  BY <1>1, Publishing
<1>4. mishaps' \in 0 .. MaxMishaps BY <1>1, MishapType DEF RunInvariant, Typed
<1>5. Typed' BY <1>1, <1>4 DEF Typed
<1>6. (Alive' => leaked') /\ (orphan' => leaked') /\ check' # "running"
  BY <1>1, <1>3 DEF Alive
<1>7. PrNoted(r, run) BY DEF PrNoted
<1> HIDE DEF r
<1>8. /\ r \in RunType /\ Alike(r, run) /\ r.phase = run.phase /\ r.status = run.status
      /\ r.node = run.node /\ r.active = run.active /\ r.pend = run.pend
      /\ r.concl = run.concl /\ r.adv = run.adv /\ r.job = run.job
      /\ r.approved = run.approved /\ r.excused = run.excused
  BY <1>7, PrNotedFacts
<1>9. CASE PublicationFails BY <1>1, <1>5, <1>9, PublicationRests
<1>10. CASE op.resume = "advance" /\ Onward(r, op.node)
  <2>1. /\ Flow(r) /\ Stands(r) /\ Honest(r, checked', decided', cut')
        /\ Gated(r, checked', decided', cut')
    BY <1>1, <1>3, <1>8, AlikeKeeps
  <2>2. /\ Settled' /\ ~run'.active /\ ~run'.job /\ op'.at \in {"idle", "prepare"}
        /\ run'.approved = r.approved /\ run'.excused = r.excused
    BY <1>1, <1>3, <1>8, <1>10, <2>1, OnwardKeeps
  <2> QED BY <1>1, <1>5, <1>6, <1>8, <2>2, Rests
<1>11. CASE op.resume # "advance" /\ run' = r /\ op' = Idle
  <2>1. op' \in OpType /\ op'.at = "idle" BY <1>11, IdleType
  <2>2. Recorded(run') BY <1>3, <1>8, <1>11 DEF Recorded
  <2>3. Starts' /\ Ends' BY <2>1 DEF Starts, Ends
  <2>4. Queued' BY <1>1, <1>3, <1>8, <1>11, <2>1 DEF Queued
  <2>5. Settled' BY <1>1, <1>8, <1>11, <2>1, <2>2, <2>3, <2>4, AlikeSettled
  <2> QED BY <1>1, <1>3, <1>5, <1>6, <1>8, <1>11, <2>1, <2>5, Rests
<1> QED BY <1>2, <1>9, <1>10, <1>11

\* An approval covers more than before, and clears the gate.
LEMMA ApprovedFacts ==
  ASSUME NEW r \in RunType
  PROVE  LET p == Approved(r) IN
         /\ p \in RunType /\ p.phase = r.phase /\ p.status = r.status /\ p.node = r.node
         /\ p.active = r.active /\ p.pend = r.pend /\ p.concl = r.concl /\ p.adv = r.adv
         /\ p.job = r.job /\ p.hold = r.hold /\ p.gate = NoGate /\ p.nodes = r.nodes
         /\ r.approved <= p.approved /\ r.excused \subseteq p.excused
<1> DEFINE p == Approved(r)
           more == IF ~r.gate.error /\ r.gate.sha > r.approved THEN r.gate.sha ELSE r.approved
           spared == IF r.gate.error THEN r.excused \cup {r.gate.sha} ELSE r.excused
<1>1. p = [r EXCEPT !.approved = more, !.excused = spared, !.gate = NoGate]
  BY DEF Approved
<1>2. /\ r.gate.sha \in 0 .. MaxChanges /\ r.approved \in 0 .. MaxChanges
      /\ r.excused \subseteq 0 .. MaxChanges /\ MaxChanges \in Nat
  BY GraphFacts DEF RunType, GateType
<1>3. more \in 0 .. MaxChanges /\ r.approved <= more BY <1>2
<1>4. spared \subseteq 0 .. MaxChanges /\ r.excused \subseteq spared BY <1>2
<1> HIDE DEF more, spared, p
<1>5. /\ p \in RunType /\ p.phase = r.phase /\ p.status = r.status /\ p.node = r.node
      /\ p.active = r.active /\ p.pend = r.pend /\ p.concl = r.concl /\ p.adv = r.adv
      /\ p.job = r.job /\ p.hold = r.hold /\ p.gate = NoGate /\ p.nodes = r.nodes
      /\ p.approved = more /\ p.excused = spared
  BY <1>1, <1>3, <1>4, GraphFacts DEF RunType
<1> QED BY <1>3, <1>4, <1>5 DEF p

\* A stage whose publication is decided on at its risk gate passes, and the run is
\* completed.
LEMMA PassAtGate ==
  ASSUME RunInvariant, NEW p \in RunType, NEW x,
         op.at = "idle", op' \in OpType,
         \/ op'.at = "idle"
         \/ op'.at = "publish" /\ op'.resume = "publish" /\ op'.node = run.node,
         run.status = "awaiting", run.nodes[run.node].reason = "risk-gate",
         run.gate.resume = "publish", run' = p,
         p.phase = run.phase, p.status = "completed", p.node = run.node,
         p.active = run.active, p.pend = run.pend, p.concl = run.concl, p.adv = run.adv,
         p.job = run.job, p.hold = run.hold, p.nodes[run.node] = x,
         OthersSame(p, run, run.node),
         x.status = "passed", x.reason = "none", x.via = run.nodes[run.node].via,
         x.verified = run.nodes[run.node].verified,
         x.bypassed = run.nodes[run.node].bypassed,
         run.approved <= p.approved, run.excused \subseteq p.excused,
         UNCHANGED <<native, check, changes, turns, returns, mishaps, published, leaked,
                     orphan, checked, decided, cut>>
  PROVE  RunInvariant'
<1> USE Unpack
<1> DEFINE n == run.node
<1>1. /\ run.phase = "executing" /\ ~run.active /\ ~run.job /\ ~run.adv
      /\ Alive => leaked
      /\ orphan => leaked
      /\ check # "running" /\ run.hold.reason # "budget"
      /\ run.pend # NoTurn => run.pend.kind # "none"
      /\ run.pend # NoTurn /\ ~OpensAttempt(run.pend.kind) => run.pend.node \in cut
  BY Waiting
<1>2. ~run.concl BY DEF Stands
<1>3. Flow(p) /\ Stands(p) /\ Recorded(p) BY <1>1, <1>2 DEF Flow, Stands, Recorded
<1>4. n \in cut \/ Clears(run, n, checked, decided) BY DEF Gated, GatedAt
<1>5. /\ Clears(p, n, checked, decided) <=> Clears(run, n, checked, decided)
  BY DEF Checks, Clears, Flags
<1>6. n \notin cut => HonestAt(p, n, checked, decided)
  BY <1>1, <1>4, <1>5 DEF Honest, HonestAt
<1>7. GatedAt(p, n, checked, decided) BY DEF GatedAt
<1>8. p.nodes[n].bypassed => n \in decided BY DEF Honest
<1>9. Elsewhere(n, checked, decided, cut, checked, decided, cut, cut) BY DEF Elsewhere
<1>10. Honest(run, checked, decided, cut) /\ Gated(run, checked, decided, cut) OBVIOUS
<1>11. Honest(p, checked, decided, cut) /\ Gated(p, checked, decided, cut)
  BY <1>6, <1>7, <1>8, <1>9, <1>10, CurrentStage
<1>12. Reopening' = {} BY DEF Reopening
<1>13. Starts' /\ Ends' BY DEF Starts, Ends
<1>14. Queued' BY <1>1 DEF Queued
<1>15. Honest(run', checked', decided', cut')
       /\ Gated(run', checked', decided', cut' \cup Reopening')
  BY <1>11, <1>12
<1>16. Settled' BY <1>3, <1>13, <1>14, <1>15 DEF Settled
<1>17. Typed' BY DEF Typed
<1> QED BY <1>1, <1>16, <1>17, RestsApproved DEF Alive

LEMMA DeclineRiskKeeps == RunInvariant /\ DeclineRisk => RunInvariant'
<1> SUFFICES ASSUME RunInvariant, DeclineRisk PROVE RunInvariant' OBVIOUS
<1> USE Unpack
<1> DEFINE n == run.node
           x == [run.nodes[n] EXCEPT !.reason = "none", !.status = "passed"]
           nn == [run.nodes EXCEPT ![n] = x]
           spared == IF run.gate.error THEN run.excused \cup {run.gate.sha} ELSE run.excused
           p == [run EXCEPT !.excused = spared, !.gate = NoGate, !.status = "completed",
                            !.nodes = nn]
<1>1. /\ op.at = "idle" /\ op' = op /\ "decline-risk" \in Offered(run) /\ run' = p
      /\ UNCHANGED <<native, check, changes, turns, returns, mishaps, published, leaked,
                     orphan, checked, decided, cut>>
  BY DEF DeclineRisk, Owner, Quiet, NoGhost, rigged
<1>2. /\ run.status = "awaiting" /\ run.nodes[n].reason = "risk-gate"
      /\ run.gate.resume = "publish"
  BY <1>1, OfferedFacts
<1>3. run.nodes[n] \in NodeType OBVIOUS
<1>4. /\ x \in NodeType /\ x.status = "passed" /\ x.reason = "none"
      /\ x.via = run.nodes[n].via /\ x.verified = run.nodes[n].verified
      /\ x.bypassed = run.nodes[n].bypassed
  BY <1>3 DEF NodeType, Reasons
<1> HIDE DEF x
<1>5. nn \in [Stages -> NodeType] /\ nn[n] = x /\ \A s \in Stages \ {n} : nn[s] = run.nodes[s]
  BY <1>4, NodeEdit
<1>6. spared \subseteq 0 .. MaxChanges /\ run.excused \subseteq spared
  BY DEF RunType, GateType
<1> HIDE DEF nn, spared
<1>7. /\ p \in RunType /\ p.phase = run.phase /\ p.status = "completed"
      /\ p.node = run.node /\ p.active = run.active /\ p.pend = run.pend
      /\ p.concl = run.concl /\ p.adv = run.adv /\ p.job = run.job /\ p.hold = run.hold
      /\ p.approved = run.approved /\ p.excused = spared /\ p.nodes = nn
  BY <1>5, <1>6, GraphFacts DEF RunType
<1> HIDE DEF p
<1>8. OthersSame(p, run, n) /\ p.nodes[n] = x BY <1>5, <1>7 DEF OthersSame
<1>9. run.approved <= p.approved BY <1>7
<1>10. op' \in OpType /\ op'.at = "idle" /\ run' = p BY <1>1
<1>11. run.excused \subseteq p.excused BY <1>6, <1>7
<1> QED BY <1>1, <1>2, <1>4, <1>7, <1>8, <1>9, <1>10, <1>11, PassAtGate

LEMMA ApproveRiskKeeps == RunInvariant /\ ApproveRisk => RunInvariant'
<1> SUFFICES ASSUME RunInvariant, ApproveRisk PROVE RunInvariant' OBVIOUS
<1> USE Unpack
<1> DEFINE n == run.node
           q == Approved(run)
           x == [q.nodes[n] EXCEPT !.reason = "none"]
           nn == [q.nodes EXCEPT ![n] = x]
           r == [q EXCEPT !.nodes = nn]
           r1 == [q EXCEPT !.nodes[n] = [@ EXCEPT !.reason = "none"]]
           done == [r EXCEPT !.nodes[n] = [@ EXCEPT !.status = "passed"],
                             !.status = "completed"]
<1>0. r1 = r OBVIOUS
<1>1. /\ op.at = "idle" /\ "approve-risk" \in Offered(run)
      /\ \/ run.gate.resume = "publish" /\ run' = done
            /\ op' = [At("publish", n) EXCEPT !.resume = "publish"]
         \/ run.gate.resume = "advance" /\ Advance(r, n)
         \/ Conclude(r, n)
      /\ UNCHANGED <<native, check, changes, turns, returns, mishaps, published, leaked,
                     orphan, checked, decided, cut>>
  BY <1>0 DEF ApproveRisk, Owner, Quiet, NoGhost, rigged
<1>2. run.status = "awaiting" /\ run.nodes[n].reason = "risk-gate" BY <1>1, OfferedFacts
<1>3. /\ run.phase = "executing" /\ ~run.active /\ ~run.job /\ ~run.adv
      /\ Alive => leaked
      /\ orphan => leaked
      /\ check # "running" /\ run.hold.reason # "budget"
      /\ run.pend # NoTurn => run.pend.kind # "none"
      /\ run.pend # NoTurn /\ ~OpensAttempt(run.pend.kind) => run.pend.node \in cut
  BY <1>1, <1>2, Waiting
<1>4. /\ q \in RunType /\ q.phase = run.phase /\ q.status = run.status /\ q.node = run.node
      /\ q.active = run.active /\ q.pend = run.pend /\ q.concl = run.concl
      /\ q.adv = run.adv /\ q.job = run.job /\ q.hold = run.hold /\ q.gate = NoGate
      /\ q.nodes = run.nodes
      /\ run.approved <= q.approved /\ run.excused \subseteq q.excused
  BY ApprovedFacts
<1> HIDE DEF q
<1>5. q.nodes[n] \in NodeType BY <1>4
<1>6. /\ x \in NodeType /\ x.status = run.nodes[n].status /\ x.reason = "none"
      /\ x.via = run.nodes[n].via /\ x.verified = run.nodes[n].verified
      /\ x.bypassed = run.nodes[n].bypassed
  BY <1>4, <1>5 DEF NodeType, Reasons
<1> HIDE DEF x
<1>7. nn \in [Stages -> NodeType] /\ nn[n] = x /\ \A s \in Stages \ {n} : nn[s] = run.nodes[s]
  BY <1>4, <1>6, NodeEdit
<1> HIDE DEF nn
<1>8. /\ r \in RunType /\ r.phase = run.phase /\ r.status = run.status /\ r.node = run.node
      /\ r.active = run.active /\ r.pend = run.pend /\ r.concl = run.concl
      /\ r.adv = run.adv /\ r.job = run.job /\ r.hold = run.hold /\ r.gate = NoGate
      /\ r.nodes = nn /\ r.approved = q.approved /\ r.excused = q.excused
  BY <1>4, <1>7 DEF RunType
<1> HIDE DEF r
<1>9. CASE /\ run.gate.resume = "publish" /\ run' = done
           /\ op' = [At("publish", n) EXCEPT !.resume = "publish"]
  <2> DEFINE y == [x EXCEPT !.status = "passed"]
             mm == [nn EXCEPT ![n] = y]
             p == [r EXCEPT !.nodes = mm, !.status = "completed"]
  <2>1. done = p BY <1>7, <1>8
  <2>2. /\ y \in NodeType /\ y.status = "passed" /\ y.reason = "none"
        /\ y.via = run.nodes[n].via /\ y.verified = run.nodes[n].verified
        /\ y.bypassed = run.nodes[n].bypassed
    BY <1>6 DEF NodeType
  <2> HIDE DEF y
  <2>3. mm \in [Stages -> NodeType] /\ mm[n] = y /\ \A s \in Stages \ {n} : mm[s] = run.nodes[s]
    BY <1>7, <2>2
  <2> HIDE DEF mm
  <2>4. /\ p \in RunType /\ p.phase = run.phase /\ p.status = "completed"
        /\ p.node = run.node /\ p.active = run.active /\ p.pend = run.pend
        /\ p.concl = run.concl /\ p.adv = run.adv /\ p.job = run.job /\ p.hold = run.hold
        /\ p.approved = q.approved /\ p.excused = q.excused /\ p.nodes = mm
    BY <1>8, <2>3 DEF RunType
  <2> HIDE DEF p
  <2>5. OthersSame(p, run, n) /\ p.nodes[n] = y BY <2>3, <2>4 DEF OthersSame
  <2>6. op' \in OpType /\ op'.at = "publish" /\ op'.resume = "publish" /\ op'.node = n
    BY <1>9, AtType DEF OpType
  <2>7. run' = p BY <1>9, <2>1
  <2> QED BY <1>1, <1>2, <1>4, <1>9, <2>2, <2>4, <2>5, <2>6, <2>7, PassAtGate
<1> DEFINE y == cut \cup {n}
<1>10. OthersSame(r, run, n) /\ r.nodes[n] = x BY <1>7, <1>8 DEF OthersSame
<1>11. /\ Checks(r, n, checked) <=> Checks(run, n, checked)
       /\ Clears(r, n, checked, decided) <=> Clears(run, n, checked, decided)
  BY <1>6, <1>10 DEF Checks, Clears, Flags
<1>12. n \notin cut => HonestAt(r, n, checked, decided)
  BY <1>3, <1>6, <1>8, <1>10, <1>11 DEF Honest, HonestAt
<1>13. r.nodes[n].bypassed => n \in decided BY <1>6, <1>10 DEF Honest
<1>14. Elsewhere(n, checked, decided, cut, checked, decided, cut, cut) BY DEF Elsewhere
<1>15. Honest(run, checked, decided, cut) /\ Gated(run, checked, decided, cut) BY <1>1
<1>16. Honest(r, checked, decided, cut) /\ Gated(r, checked, decided, y)
  BY <1>8, <1>10, <1>12, <1>13, <1>14, <1>15, CurrentStage
<1>17. y \subseteq cut' \cup {n} BY <1>1
<1> HIDE DEF y
<1>18. Honest(r, checked', decided', cut') /\ Gated(r, checked', decided', y) BY <1>1, <1>16
<1>19. Typed' BY <1>1 DEF Typed
<1>20. (Alive' => leaked') /\ (orphan' => leaked') /\ check' # "running"
  BY <1>1, <1>3 DEF Alive
<1>21. run.approved <= r.approved /\ run.excused \subseteq r.excused BY <1>4, <1>8
<1>22. CASE run.gate.resume = "advance" /\ Advance(r, n)
  <2>1. n \in cut \/ Clears(run, n, checked, decided)
    BY <1>2, <1>15, <1>22 DEF Gated, GatedAt
  <2>2. n \in cut' \/ Clears(r, n, checked', decided') BY <1>1, <1>11, <2>1
  <2>3. /\ Settled' /\ ~run'.active /\ ~run'.job /\ op'.at \in {"idle", "prepare", "publish"}
        /\ run'.approved = r.approved /\ run'.excused = r.excused
    BY <1>1, <1>3, <1>8, <1>17, <1>18, <1>22, <2>2, AdvanceKeeps
  <2> QED BY <1>1, <1>19, <1>20, <1>21, <2>3, RestsApproved
<1>23. CASE Conclude(r, n)
  <2>1. /\ Settled' /\ ~run'.active /\ ~run'.job /\ op'.at = "conclude"
        /\ run'.approved = r.approved /\ run'.excused = r.excused
    BY <1>1, <1>3, <1>8, <1>17, <1>18, <1>23, ConcludeKeeps
  <2> QED BY <1>1, <1>19, <1>20, <1>21, <2>1, RestsApproved
<1> QED BY <1>1, <1>9, <1>22, <1>23

-----------------------------------------------------------------------------
(* The conclusion of a stage. *)

LEMMA DecisionFacts ==
  ASSUME NEW r, NEW n
  PROVE  /\ Decision(r, n) \in {"pass", "route", "loop", "escalate"}
         /\ Decision(r, n) = "loop" => MaxLoops[n] > 0
<1>1. /\ FailDecision(r, n) \in {"pass", "route", "loop", "escalate"}
      /\ FailDecision(r, n) = "loop" => MaxLoops[n] > 0
  BY DEF FailDecision, Loops
<1> QED BY <1>1 DEF Decision

LEMMA CheckpointedFacts ==
  ASSUME NEW r \in RunType, r.phase = "executing", changes \in 0 .. MaxChanges
  PROVE  LET p == Checkpointed(r) IN
         /\ p \in RunType /\ Alike(p, r) /\ p.active = r.active /\ p.job = r.job
         /\ p.nodes = r.nodes
<1>1. CASE r.att.kind # "none" /\ r.att.sha = -1
  <2> DEFINE att == [r.att EXCEPT !.sha = changes]
             p == [r EXCEPT !.att = att]
  <2>1. Checkpointed(r) = p BY <1>1 DEF Checkpointed
  <2>2. att \in AttemptType BY GraphFacts DEF RunType, AttemptType
  <2> HIDE DEF att
  <2>3. /\ p \in RunType /\ Alike(p, r) /\ p.active = r.active /\ p.job = r.job
        /\ p.nodes = r.nodes
    BY <2>2, AttemptEdit
  <2> QED BY <2>1, <2>3
<1>2. CASE ~(r.att.kind # "none" /\ r.att.sha = -1)
  BY <1>2, AlikeSelf DEF Checkpointed
<1> QED BY <1>1, <1>2

\* The stage of a conclusion, with the edge its decision selects.
Concluding(r, n) ==
    /\ op.at = "conclude" /\ n = run.node
    /\ r \in RunType /\ Alike(r, run) /\ r.active = run.active /\ r.job = run.job

LEMMA ConcludingFacts ==
  ASSUME RunInvariant, NEW r, NEW n, Concluding(r, n)
  PROVE  /\ n \in Stages /\ n = r.node /\ r.status = "running" /\ r.phase = "executing"
         /\ r.concl /\ ~r.adv /\ ~r.active /\ ~r.job /\ r.hold.reason # "budget"
         /\ r.nodes[n] \in NodeType
         /\ r.nodes[n].status = "running" /\ r.nodes[n].reason = "none"
         /\ r.pend # NoTurn => r.pend.kind # "none"
         /\ r.pend # NoTurn /\ ~OpensAttempt(r.pend.kind) => r.pend.node \in cut
         /\ Flow(r) /\ Stands(r)
         /\ Honest(r, checked, decided, cut) /\ Gated(r, checked, decided, cut)
         /\ r.approved = run.approved /\ r.excused = run.excused
         /\ Alive => leaked
         /\ orphan => leaked
         /\ check # "running"
<1> USE Unpack
<1>1. op.at = "conclude" /\ n = run.node /\ r \in RunType BY DEF Concluding
<1>2. /\ run.status = "running" /\ run.concl /\ ~run.active /\ ~run.job
  BY <1>1 DEF Ends
<1>3. run.phase = "executing" /\ ~run.adv BY <1>2 DEF Flow, RunType
<1>4. run.nodes[n].status = "running" /\ run.nodes[n].reason = "none"
  BY <1>1, <1>2 DEF Stands
<1>5. run.pend # NoTurn /\ ~OpensAttempt(run.pend.kind) => run.pend.node \in cut
  BY <1>1 DEF Queued
<1>6. /\ r.phase = run.phase /\ r.status = run.status /\ r.node = run.node
      /\ r.pend = run.pend /\ r.concl = run.concl /\ r.adv = run.adv
      /\ r.approved = run.approved /\ r.excused = run.excused
      /\ r.active = run.active /\ r.job = run.job
      /\ r.nodes[n].status = run.nodes[n].status
      /\ r.nodes[n].reason = run.nodes[n].reason
  BY <1>1 DEF Concluding, Alike
<1>7. r.node \in Stages /\ r.nodes[n] \in NodeType BY <1>1, StageOf
<1>8. Honest(run, checked, decided, cut) /\ Gated(run, checked, decided, cut) BY <1>1
<1>9. /\ Flow(r) /\ Stands(r) /\ Honest(r, checked, decided, cut)
      /\ Gated(r, checked, decided, cut)
  BY <1>7, <1>8, AlikeKeeps DEF Concluding
<1>10. r.hold.reason # "budget" /\ (r.pend # NoTurn => r.pend.kind # "none")
  BY <1>9 DEF Flow
<1>11. /\ Alive => leaked
       /\ orphan => leaked
       /\ check # "running"
  BY <1>2 DEF Processes
<1> QED BY <1>1, <1>2, <1>3, <1>4, <1>5, <1>6, <1>7, <1>9, <1>10, <1>11

\* The verification is started before it is judged.
LEMMA VerificationKeeps ==
  ASSUME RunInvariant, NEW r, NEW n, Concluding(r, n), ~r.nodes[n].verified,
         run' = [r EXCEPT !.job = TRUE], op' = At("verify", n), check' = "absent",
         UNCHANGED <<native, published, leaked, orphan, checked, decided, cut>>, Typed'
  PROVE  RunInvariant'
<1>1. /\ n \in Stages /\ n = r.node /\ r.status = "running" /\ r.phase = "executing"
      /\ r.concl /\ ~r.adv /\ ~r.active /\ ~r.job /\ r.hold.reason # "budget"
      /\ r.nodes[n] \in NodeType
      /\ r.nodes[n].status = "running" /\ r.nodes[n].reason = "none"
      /\ r.pend # NoTurn => r.pend.kind # "none"
      /\ r.pend # NoTurn /\ ~OpensAttempt(r.pend.kind) => r.pend.node \in cut
      /\ Flow(r) /\ Stands(r)
      /\ Honest(r, checked, decided, cut) /\ Gated(r, checked, decided, cut)
      /\ r.approved = run.approved /\ r.excused = run.excused
      /\ Alive => leaked
      /\ orphan => leaked
      /\ check # "running"
  BY ConcludingFacts
<1>2. r \in RunType BY DEF Concluding
<1> DEFINE p == [r EXCEPT !.job = TRUE]
<1>3. /\ p \in RunType /\ p.phase = r.phase /\ p.status = r.status /\ p.node = r.node
      /\ p.active = r.active /\ p.pend = r.pend /\ p.concl = r.concl /\ p.adv = r.adv
      /\ p.job = TRUE /\ p.hold = r.hold /\ p.gate = r.gate
      /\ p.approved = r.approved /\ p.excused = r.excused /\ p.nodes = r.nodes
  BY <1>2 DEF RunType
<1>4. run' = p OBVIOUS
<1> HIDE DEF p
<1>5. Flow(p) /\ Stands(p) /\ Recorded(p) BY <1>1, <1>3 DEF Flow, Stands, Recorded
<1>6. OthersSame(p, r, n) BY <1>3 DEF OthersSame
<1>7. /\ Checks(p, n, checked) <=> Checks(r, n, checked)
      /\ Clears(p, n, checked, decided) <=> Clears(r, n, checked, decided)
  BY <1>3 DEF Checks, Clears, Flags
<1>8. n \notin cut => HonestAt(p, n, checked, decided) BY <1>1, <1>3 DEF HonestAt
<1>9. GatedAt(p, n, checked, decided) BY <1>1, <1>3 DEF GatedAt
<1>10. p.nodes[n].bypassed => n \in decided BY <1>1, <1>3 DEF Honest
<1>11. Elsewhere(n, checked, decided, cut, checked, decided, cut, cut) BY DEF Elsewhere
<1>12. Honest(p, checked, decided, cut) /\ Gated(p, checked, decided, cut)
  BY <1>1, <1>3, <1>6, <1>8, <1>9, <1>10, <1>11, CurrentStage
<1>13. op' \in OpType /\ op'.at = "verify" /\ op'.node = n BY <1>1, AtType
<1>14. Reopening' = {} BY <1>13 DEF Reopening
<1>15. Starts' /\ Ends' BY <1>1, <1>3, <1>4, <1>13 DEF Starts, Ends
<1>16. Queued' BY <1>1, <1>3, <1>4, <1>13 DEF Queued
<1>17. Honest(run', checked', decided', cut')
       /\ Gated(run', checked', decided', cut' \cup Reopening')
  BY <1>4, <1>12, <1>14
<1>18. Settled' BY <1>3, <1>4, <1>5, <1>13, <1>15, <1>16, <1>17 DEF Settled
<1>19. Processes' BY <1>1 DEF Processes, Alive
<1>20. run'.approved = run.approved /\ run'.excused = run.excused BY <1>1, <1>3, <1>4
<1>21. run.approved <= run'.approved BY <1>20, Unpack
<1> QED BY <1>13, <1>18, <1>19, <1>20, <1>21, Finish

\* A stage whose edge asks for a person waits for one.
LEMMA GateKeeps ==
  ASSUME RunInvariant, NEW r, NEW n, Concluding(r, n),
         ~("verify" \in Flags(r, n) /\ ~r.nodes[n].verified),
         run' = [r EXCEPT !.status = "awaiting",
                          !.nodes[n] = [@ EXCEPT !.status = "awaiting-gate"]],
         op' = Idle,
         UNCHANGED <<native, check, published, leaked, orphan, checked, decided, cut>>, Typed'
  PROVE  RunInvariant'
<1>1. /\ n \in Stages /\ n = r.node /\ r.status = "running" /\ r.phase = "executing"
      /\ r.concl /\ ~r.adv /\ ~r.active /\ ~r.job /\ r.hold.reason # "budget"
      /\ r.nodes[n] \in NodeType
      /\ r.nodes[n].status = "running" /\ r.nodes[n].reason = "none"
      /\ r.pend # NoTurn => r.pend.kind # "none"
      /\ r.pend # NoTurn /\ ~OpensAttempt(r.pend.kind) => r.pend.node \in cut
      /\ Flow(r) /\ Stands(r)
      /\ Honest(r, checked, decided, cut) /\ Gated(r, checked, decided, cut)
      /\ r.approved = run.approved /\ r.excused = run.excused
      /\ Alive => leaked
      /\ orphan => leaked
      /\ check # "running"
  BY ConcludingFacts
<1>2. r \in RunType BY DEF Concluding
<1> DEFINE x == [r.nodes[n] EXCEPT !.status = "awaiting-gate"]
           nn == [r.nodes EXCEPT ![n] = x]
           p == [r EXCEPT !.status = "awaiting", !.nodes = nn]
<1>3. run' = p OBVIOUS
<1>4. /\ x \in NodeType /\ x.status = "awaiting-gate" /\ x.reason = "none"
      /\ x.via = r.nodes[n].via /\ x.verified = r.nodes[n].verified
      /\ x.bypassed = r.nodes[n].bypassed
  BY <1>1 DEF NodeType
<1> HIDE DEF x
<1>5. nn \in [Stages -> NodeType] /\ nn[n] = x /\ \A s \in Stages \ {n} : nn[s] = r.nodes[s]
  BY <1>1, <1>2, <1>4, NodeEdit
<1> HIDE DEF nn
<1>6. /\ p \in RunType /\ p.phase = r.phase /\ p.status = "awaiting" /\ p.node = r.node
      /\ p.active = r.active /\ p.pend = r.pend /\ p.concl = r.concl /\ p.adv = r.adv
      /\ p.job = r.job /\ p.hold = r.hold /\ p.gate = r.gate
      /\ p.approved = r.approved /\ p.excused = r.excused /\ p.nodes = nn
  BY <1>2, <1>5 DEF RunType
<1> HIDE DEF p
<1>7. Flow(p) /\ Stands(p) /\ Recorded(p)
  BY <1>1, <1>4, <1>5, <1>6 DEF Flow, Stands, Recorded
<1>8. OthersSame(p, r, n) /\ p.nodes[n] = x BY <1>5, <1>6 DEF OthersSame
<1>9. /\ Checks(p, n, checked) <=> Checks(r, n, checked)
      /\ Clears(p, n, checked, decided) <=> Clears(r, n, checked, decided)
  BY <1>4, <1>8 DEF Checks, Clears, Flags
<1>10. n \notin cut => HonestAt(r, n, checked, decided) BY <1>1 DEF Honest
<1>11. n \notin cut => HonestAt(p, n, checked, decided)
  BY <1>1, <1>4, <1>6, <1>8, <1>10 DEF HonestAt
<1>12. n \notin cut => Checks(r, n, checked) BY <1>10 DEF HonestAt, Checks
<1>13. n \notin cut => GatedAt(p, n, checked, decided)
  BY <1>4, <1>8, <1>9, <1>12 DEF GatedAt
<1>14. p.nodes[n].bypassed => n \in decided BY <1>1, <1>4, <1>8 DEF Honest
<1>15. Elsewhere(n, checked, decided, cut, checked, decided, cut, cut) BY DEF Elsewhere
<1>16. Honest(p, checked, decided, cut) /\ Gated(p, checked, decided, cut)
  BY <1>1, <1>6, <1>8, <1>11, <1>13, <1>14, <1>15, CurrentStage
<1>17. op' \in OpType /\ op'.at = "idle" BY IdleType
<1>18. Reopening' = {} BY <1>17 DEF Reopening
<1>19. Starts' /\ Ends' BY <1>17 DEF Starts, Ends
<1>20. Queued' BY <1>1, <1>3, <1>6, <1>17 DEF Queued
<1>21. Honest(run', checked', decided', cut')
       /\ Gated(run', checked', decided', cut' \cup Reopening')
  BY <1>3, <1>16, <1>18
<1>22. Settled' BY <1>3, <1>6, <1>7, <1>17, <1>19, <1>20, <1>21 DEF Settled
<1>23. (Alive' => leaked') /\ (orphan' => leaked') /\ check' # "running"
  BY <1>1 DEF Alive
<1>24. /\ ~run'.active /\ ~run'.job
       /\ run'.approved = run.approved /\ run'.excused = run.excused
  BY <1>1, <1>3, <1>6
<1> QED BY <1>17, <1>22, <1>23, <1>24, Rests

\* A stage parked while it concludes.
LEMMA ConcludingParks ==
  ASSUME RunInvariant, NEW r, NEW n, NEW why \in Parks \ {"pr-failed"}, Concluding(r, n),
         run' = Park(r, n, why), op' = Idle,
         UNCHANGED <<native, check, published, leaked, orphan, checked, decided, cut>>, Typed'
  PROVE  RunInvariant'
<1>1. /\ n \in Stages /\ n = r.node /\ r.status = "running" /\ r.phase = "executing"
      /\ r.concl /\ ~r.adv /\ ~r.active /\ ~r.job /\ r.hold.reason # "budget"
      /\ r.nodes[n] \in NodeType
      /\ r.nodes[n].status = "running" /\ r.nodes[n].reason = "none"
      /\ r.pend # NoTurn => r.pend.kind # "none"
      /\ r.pend # NoTurn /\ ~OpensAttempt(r.pend.kind) => r.pend.node \in cut
      /\ Flow(r) /\ Stands(r)
      /\ Honest(r, checked, decided, cut) /\ Gated(r, checked, decided, cut)
      /\ r.approved = run.approved /\ r.excused = run.excused
      /\ Alive => leaked
      /\ orphan => leaked
      /\ check # "running"
  BY ConcludingFacts
<1>2. r \in RunType /\ Alike(r, run) /\ op.at = "conclude" BY DEF Concluding
<1>3. op' \in OpType /\ op'.at = "idle" BY IdleType
<1>4. (Alive' => leaked') /\ (orphan' => leaked') /\ check' # "running" BY <1>1 DEF Alive
<1> QED BY <1>1, <1>2, <1>3, <1>4, ParkRests

\* A stage that stops for an approval of its risky changes.
LEMMA ConcludingGated ==
  ASSUME RunInvariant, NEW r, NEW n, NEW to \in 0 .. MaxChanges, NEW error \in BOOLEAN,
         Concluding(r, n), run' = ParkRisk(r, n, to, "conclude", error), op' = Idle,
         UNCHANGED <<native, check, published, leaked, orphan, checked, decided, cut>>, Typed'
  PROVE  RunInvariant'
<1>1. /\ n \in Stages /\ n = r.node /\ r.status = "running" /\ r.phase = "executing"
      /\ r.concl /\ ~r.adv /\ ~r.active /\ ~r.job /\ r.hold.reason # "budget"
      /\ r.nodes[n] \in NodeType
      /\ r.nodes[n].status = "running" /\ r.nodes[n].reason = "none"
      /\ r.pend # NoTurn => r.pend.kind # "none"
      /\ r.pend # NoTurn /\ ~OpensAttempt(r.pend.kind) => r.pend.node \in cut
      /\ Flow(r) /\ Stands(r)
      /\ Honest(r, checked, decided, cut) /\ Gated(r, checked, decided, cut)
      /\ r.approved = run.approved /\ r.excused = run.excused
      /\ Alive => leaked
      /\ orphan => leaked
      /\ check # "running"
  BY ConcludingFacts
<1>2. r \in RunType BY DEF Concluding
<1>3. op' \in OpType /\ op'.at = "idle" BY IdleType
<1>4. (Alive' => leaked') /\ (orphan' => leaked') /\ check' # "running" BY <1>1 DEF Alive
<1>5. PICK resume \in {"conclude", "advance", "publish"} : resume = "conclude" OBVIOUS
<1>6. run' = ParkRisk(r, n, to, resume, error) BY <1>5
<1>7. Honest(r, checked', decided', cut') /\ Gated(r, checked', decided', cut') BY <1>1
<1>8. /\ resume # "conclude" => n \in cut' \/ Clears(r, n, checked', decided')
      /\ resume = "publish" => ~r.concl /\ ~r.adv
  BY <1>5
<1>9. r.pend # NoTurn /\ ~OpensAttempt(r.pend.kind) => r.pend.node \in cut' BY <1>1
<1>10. /\ Settled' /\ ~run'.active /\ ~run'.job
       /\ run'.approved = r.approved /\ run'.excused = r.excused
  BY <1>1, <1>2, <1>3, <1>6, <1>7, <1>8, <1>9, ParkRiskKeeps
<1> QED BY <1>1, <1>3, <1>4, <1>10, Rests

\* A concluded stage advances once it has what its edge asks for.
LEMMA ConcludingAdvances ==
  ASSUME RunInvariant, NEW r, NEW n, Concluding(r, n), Advance(r, n),
         ~("verify" \in Flags(r, n) /\ ~r.nodes[n].verified),
         "gate" \in Flags(r, n) => r.nodes[n].bypassed,
         UNCHANGED <<native, check, published, leaked, orphan, checked, decided, cut>>, Typed'
  PROVE  RunInvariant'
<1>1. /\ n \in Stages /\ n = r.node /\ r.status = "running" /\ r.phase = "executing"
      /\ r.concl /\ ~r.adv /\ ~r.active /\ ~r.job /\ r.hold.reason # "budget"
      /\ r.nodes[n] \in NodeType
      /\ r.nodes[n].status = "running" /\ r.nodes[n].reason = "none"
      /\ r.pend # NoTurn => r.pend.kind # "none"
      /\ r.pend # NoTurn /\ ~OpensAttempt(r.pend.kind) => r.pend.node \in cut
      /\ Flow(r) /\ Stands(r)
      /\ Honest(r, checked, decided, cut) /\ Gated(r, checked, decided, cut)
      /\ r.approved = run.approved /\ r.excused = run.excused
      /\ Alive => leaked
      /\ orphan => leaked
      /\ check # "running"
  BY ConcludingFacts
<1>2. r \in RunType BY DEF Concluding
<1>3. (Alive' => leaked') /\ (orphan' => leaked') /\ check' # "running" BY <1>1 DEF Alive
<1>4. n \notin cut => HonestAt(r, n, checked, decided) BY <1>1 DEF Honest
<1>5. r.nodes[n].bypassed => n \in decided BY <1>1 DEF Honest
<1>6. n \in cut \/ Clears(r, n, checked, decided)
  BY <1>4, <1>5 DEF HonestAt, Checks, Clears
<1>7. n \in cut' \/ Clears(r, n, checked', decided') BY <1>6
<1>8. Honest(r, checked', decided', cut') /\ Gated(r, checked', decided', cut') BY <1>1
<1>9. r.pend # NoTurn /\ ~OpensAttempt(r.pend.kind) => r.pend.node \in cut' BY <1>1
<1>10. cut' \subseteq cut' \cup {n} OBVIOUS
<1>11. /\ Settled' /\ ~run'.active /\ ~run'.job /\ op'.at \in {"idle", "prepare", "publish"}
       /\ run'.approved = r.approved /\ run'.excused = r.excused
  BY <1>1, <1>2, <1>7, <1>8, <1>9, <1>10, AdvanceKeeps
<1> QED BY <1>1, <1>3, <1>11, Rests

\* A stage that loops back.
LEMMA ConcludingLoops ==
  ASSUME RunInvariant, NEW r, NEW n, Concluding(r, n), LoopBack(r, n), MaxLoops[n] > 0,
         UNCHANGED <<native, check, published, leaked, orphan, checked, decided, cut>>, Typed'
  PROVE  RunInvariant'
<1>1. /\ n \in Stages /\ n = r.node /\ r.status = "running" /\ r.phase = "executing"
      /\ r.concl /\ ~r.adv /\ ~r.active /\ ~r.job /\ r.hold.reason # "budget"
      /\ r.nodes[n] \in NodeType
      /\ r.nodes[n].status = "running" /\ r.nodes[n].reason = "none"
      /\ r.pend # NoTurn => r.pend.kind # "none"
      /\ r.pend # NoTurn /\ ~OpensAttempt(r.pend.kind) => r.pend.node \in cut
      /\ Flow(r) /\ Stands(r)
      /\ Honest(r, checked, decided, cut) /\ Gated(r, checked, decided, cut)
      /\ r.approved = run.approved /\ r.excused = run.excused
      /\ Alive => leaked
      /\ orphan => leaked
      /\ check # "running"
  BY ConcludingFacts
<1>2. r \in RunType BY DEF Concluding
<1>3. (Alive' => leaked') /\ (orphan' => leaked') /\ check' # "running" BY <1>1 DEF Alive
<1>4. Honest(r, checked', decided', cut') /\ Gated(r, checked', decided', cut') BY <1>1
<1>5. /\ Settled' /\ ~run'.active /\ ~run'.job /\ op'.at \in {"idle", "prepare"}
      /\ run'.approved = r.approved /\ run'.excused = r.excused
  BY <1>1, <1>2, <1>4, LoopBackKeeps
<1> QED BY <1>1, <1>3, <1>5, Rests

LEMMA ConcludeStepKeeps == RunInvariant /\ ConcludeStep => RunInvariant'
<1> SUFFICES ASSUME RunInvariant, ConcludeStep PROVE RunInvariant' OBVIOUS
<1> USE Unpack
<1> DEFINE n == op.node
           decision == Decision(run, n)
           via == IF decision = "route" THEN "fail" ELSE "pass"
           q == Checkpointed(run)
           r == [q EXCEPT !.nodes[n] = [@ EXCEPT !.via = via]]
           to == r.att.sha
           x == [q.nodes[n] EXCEPT !.via = via]
<1>1. /\ op.at = "conclude"
      /\ UNCHANGED <<native, changes, turns, returns, published, leaked, orphan, checked,
                     decided, cut>>
  BY DEF ConcludeStep, NoGhost, rigged
<1>2. \/ decision = "loop" /\ LoopBack(r, n) /\ UNCHANGED <<check, mishaps>>
      \/ /\ Risky(r, to) /\ run' = ParkRisk(r, n, to, "conclude", FALSE)
         /\ op' = Idle /\ UNCHANGED <<check, mishaps>>
      \/ /\ Unreadable(r, to) /\ Mishap /\ run' = ParkRisk(r, n, to, "conclude", TRUE)
         /\ op' = Idle /\ UNCHANGED check
      \/ Judge(r, n, decision)
  BY DEF ConcludeStep
<1>3. n = run.node /\ n \in Stages BY <1>1 DEF Ends
<1>4. run.status = "running" /\ run.concl BY <1>1 DEF Ends
<1>5. run.phase = "executing" BY <1>4 DEF Flow, RunType
<1>6. run.nodes[n].status = "running" /\ run.nodes[n].reason = "none"
  BY <1>3, <1>4 DEF Stands
<1>7. decision = "loop" => MaxLoops[n] > 0 BY DecisionFacts
<1>8. q \in RunType /\ Alike(q, run) /\ q.active = run.active /\ q.job = run.job
      /\ q.nodes = run.nodes
  BY <1>5, CheckpointedFacts DEF Typed
<1>9. Edited(r, q, n, x) BY DEF Edited
<1>10. via \in {"none", "pass", "fail"} OBVIOUS
<1>11. q.nodes[n] \in NodeType BY <1>8
<1> HIDE DEF q, r, n, via, decision
<1>12. /\ x \in NodeType /\ x.status = q.nodes[n].status /\ x.reason = q.nodes[n].reason
       /\ x.bypassed = q.nodes[n].bypassed
       /\ (x.verified => q.nodes[n].verified)
  BY <1>10, <1>11 DEF NodeType
<1>13. q.nodes[n].status = "running" /\ q.nodes[n].reason = "none" BY <1>6, <1>8
<1>14. q.phase = "executing" BY <1>5, <1>8 DEF Alike
<1> HIDE DEF x
<1>15. r \in RunType /\ Alike(r, q) /\ r.active = q.active /\ r.job = q.job
  BY <1>3, <1>8, <1>9, <1>12, <1>13, <1>14, StageEdit
<1>16. Alike(r, run) BY <1>8, <1>15, AlikeTwice
<1>17. Concluding(r, n) BY <1>1, <1>3, <1>8, <1>15, <1>16 DEF Concluding
<1>18. to \in -1 .. MaxChanges BY <1>15 DEF RunType, AttemptType
<1>19. to >= 0 => to \in 0 .. MaxChanges BY <1>18, GraphFacts
<1>20. Mishap => mishaps' \in 0 .. MaxMishaps BY MishapType DEF RunInvariant
<1> HIDE DEF to
<1>21. CASE decision = "loop" /\ LoopBack(r, n) /\ UNCHANGED <<check, mishaps>>
  <2>1. Typed' BY <1>1, <1>21 DEF Typed
  <2> QED BY <1>1, <1>7, <1>17, <1>21, <2>1, ConcludingLoops
<1>22. CASE /\ Risky(r, to) /\ run' = ParkRisk(r, n, to, "conclude", FALSE)
            /\ op' = Idle /\ UNCHANGED <<check, mishaps>>
  <2>1. Typed' BY <1>1, <1>22 DEF Typed
  <2>2. to \in 0 .. MaxChanges BY <1>19, <1>22 DEF Risky
  <2> QED BY <1>1, <1>17, <1>22, <2>1, <2>2, ConcludingGated
<1>23. CASE /\ Unreadable(r, to) /\ Mishap /\ run' = ParkRisk(r, n, to, "conclude", TRUE)
            /\ op' = Idle /\ UNCHANGED check
  <2>1. Typed' BY <1>1, <1>20, <1>23 DEF Typed
  <2>2. to \in 0 .. MaxChanges BY <1>19, <1>23 DEF Unreadable
  <2> QED BY <1>1, <1>17, <1>23, <2>1, <2>2, ConcludingGated
<1>24. CASE Judge(r, n, decision)
  <2>1. \/ /\ ~r.nodes[n].verified /\ run' = [r EXCEPT !.job = TRUE]
           /\ op' = At("verify", n) /\ check' = "absent" /\ UNCHANGED mishaps
        \/ /\ Mishap /\ run' = Park(r, n, "verify-failed")
           /\ op' = Idle /\ UNCHANGED check
        \/ /\ ~("verify" \in Flags(r, n) /\ ~r.nodes[n].verified)
           /\ run' = [r EXCEPT !.status = "awaiting",
                               !.nodes[n] = [@ EXCEPT !.status = "awaiting-gate"]]
           /\ op' = Idle /\ UNCHANGED <<check, mishaps>>
        \/ /\ ~("verify" \in Flags(r, n) /\ ~r.nodes[n].verified)
           /\ "gate" \in Flags(r, n) => r.nodes[n].bypassed
           /\ Advance(r, n) /\ UNCHANGED <<check, mishaps>>
        \/ /\ run' = Park(r, n, "verdict-fail") /\ op' = Idle /\ UNCHANGED <<check, mishaps>>
    BY <1>24 DEF Judge
  <2>2. mishaps' \in 0 .. MaxMishaps BY <1>20, <2>1 DEF Typed
  <2>3. check' \in {check, "absent"} BY <2>1
  <2>4. Typed' BY <1>1, <2>2, <2>3 DEF Typed
  <2>5. \A why \in {"verify-failed", "verdict-fail"} : why \in Parks \ {"pr-failed"}
    BY DEF Parks
  <2>6. CASE /\ ~r.nodes[n].verified /\ run' = [r EXCEPT !.job = TRUE]
             /\ op' = At("verify", n) /\ check' = "absent" /\ UNCHANGED mishaps
    BY <1>1, <1>17, <2>4, <2>6, VerificationKeeps
  <2>7. ASSUME NEW why \in {"verify-failed", "verdict-fail"},
               run' = Park(r, n, why), op' = Idle, UNCHANGED check
        PROVE  RunInvariant'
    BY <1>1, <1>17, <2>4, <2>5, <2>7, ConcludingParks
  <2>8. CASE /\ ~("verify" \in Flags(r, n) /\ ~r.nodes[n].verified)
             /\ run' = [r EXCEPT !.status = "awaiting",
                                 !.nodes[n] = [@ EXCEPT !.status = "awaiting-gate"]]
             /\ op' = Idle /\ UNCHANGED <<check, mishaps>>
    BY <1>1, <1>17, <2>4, <2>8, GateKeeps
  <2>9. CASE /\ ~("verify" \in Flags(r, n) /\ ~r.nodes[n].verified)
             /\ "gate" \in Flags(r, n) => r.nodes[n].bypassed
             /\ Advance(r, n) /\ UNCHANGED <<check, mishaps>>
    BY <1>1, <1>17, <2>4, <2>9, ConcludingAdvances
  <2> QED BY <2>1, <2>6, <2>7, <2>8, <2>9
<1> QED BY <1>2, <1>21, <1>22, <1>23, <1>24

-----------------------------------------------------------------------------
(* The invariant holds. *)

LEMMA RunInitially == Init => RunInvariant
<1> SUFFICES ASSUME Init PROVE RunInvariant OBVIOUS
<1>1. /\ run = FreshRun /\ op = At("provision", Entry)
      /\ native = "none" /\ check = "none" /\ changes = 0
      /\ turns = 0 /\ mishaps = 0 /\ returns = 0
      /\ published = {} /\ leaked = FALSE /\ orphan = FALSE
      /\ checked = [s \in Stages |-> "no"] /\ decided = {} /\ cut = {}
  BY DEF Init
<1> DEFINE nn == [s \in Stages |-> FreshNode]
           loops == [s \in Stages |-> 0]
<1>2. FreshNode \in NodeType /\ FreshNode.status = "pending" /\ FreshNode.reason = "none"
      /\ FreshNode.verified = FALSE /\ FreshNode.bypassed = FALSE
  BY DEF FreshNode, NodeType, Reasons
<1>3. nn \in [Stages -> NodeType] /\ \A s \in Stages : nn[s] = FreshNode BY <1>2
<1>4. loops \in [Stages -> Nat] OBVIOUS
<1>5. run = [phase |-> "provisioning", status |-> "running", cancel |-> FALSE, node |-> Entry,
             att |-> NoAttempt, active |-> FALSE, pend |-> NoTurn, concl |-> FALSE,
             adv |-> FALSE, job |-> FALSE, loops |-> loops, resume |-> FALSE, pr |-> FALSE,
             over |-> FALSE, hold |-> NoHold, gate |-> NoGate, approved |-> 0,
             excused |-> {}, nodes |-> nn]
  BY <1>1 DEF FreshRun
<1> HIDE DEF nn, loops
<1>6. NoHold \in [kind : Kinds \cup {"none"}, reason : Reasons] /\ NoHold.reason = "none"
  BY DEF NoHold, Reasons
<1>7. 0 \in 0 .. MaxChanges BY GraphFacts
<1>8. /\ run \in RunType /\ run.phase = "provisioning" /\ run.status = "running"
      /\ run.cancel = FALSE /\ run.node = Entry /\ run.att = NoAttempt
      /\ run.active = FALSE /\ run.pend = NoTurn /\ run.concl = FALSE /\ run.adv = FALSE
      /\ run.job = FALSE /\ run.hold = NoHold /\ run.nodes = nn
  BY <1>3, <1>4, <1>5, <1>6, <1>7, GraphFacts DEF RunType
<1>9. op \in OpType /\ op.at = "provision" /\ op.node = Entry BY <1>1, GraphFacts, AtType
<1>10. Flow(run) /\ Recorded(run) BY <1>6, <1>8 DEF Flow, Recorded
<1>11. Stands(run) BY <1>2, <1>3, <1>8, GraphFacts DEF Stands
<1>12. \A s \in Stages : HonestAt(run, s, checked, decided) /\ GatedAt(run, s, checked, decided)
  BY <1>2, <1>3, <1>8 DEF HonestAt, GatedAt
<1>13. Honest(run, checked, decided, cut) /\ Gated(run, checked, decided, cut \cup Reopening)
  BY <1>2, <1>3, <1>8, <1>12 DEF Honest, Gated
<1>14. Starts /\ Ends /\ Queued BY <1>8, <1>9 DEF Starts, Ends, Queued
<1>15. Settled BY <1>8, <1>9, <1>10, <1>11, <1>13, <1>14 DEF Settled
<1>16. Processes /\ Publication
  BY <1>1, <1>9 DEF Processes, Publication, PublishedApproved, Alive
<1>17. /\ 0 \in 0 .. MaxTurns /\ 0 \in 0 .. MaxMishaps /\ 0 \in 0 .. MaxReturns
  BY BoundAssumption
<1>18. checked \in [Stages -> {"no", "pass", "waived"}] BY <1>1
<1>19. TypeOK BY <1>1, <1>7, <1>8, <1>9, <1>17, <1>18 DEF TypeOK, Live, Ended
<1> QED BY <1>15, <1>16, <1>19 DEF RunInvariant

LEMMA RunStutters == RunInvariant /\ UNCHANGED vars => RunInvariant'
<1> SUFFICES ASSUME RunInvariant, UNCHANGED vars PROVE RunInvariant' OBVIOUS
<1>1. UNCHANGED <<run, op, native, check, changes, turns, mishaps, returns, published, leaked,
                  orphan, checked, decided, cut>>
  BY DEF vars, bounds, rigged
<1>2. TypeOK' BY <1>1 DEF RunInvariant, TypeOK
<1>3. Starts' /\ Ends' /\ Queued' /\ Reopening' = Reopening
  BY <1>1 DEF RunInvariant, Settled, Starts, Ends, Queued, Reopening, Terminal, Alive
<1>4. Settled'
  BY <1>1, <1>3 DEF RunInvariant, Settled, Flow, Stands, Recorded, Honest, Gated
<1>5. Processes' /\ Publication'
  BY <1>1 DEF RunInvariant, Processes, Publication, PublishedApproved, Alive
<1> QED BY <1>2, <1>4, <1>5 DEF RunInvariant

LEMMA TickKeeps == RunInvariant /\ Tick => RunInvariant'
BY TickProvisionKeeps, TickUsageResetKeeps, TickPendingKeeps, TickAdvanceKeeps,
   TickConcludeKeeps, TickLostKeeps, TickGraceKeeps, TickTimeoutKeeps, TickOutcomeKeeps,
   TickVerifiedKeeps, TickCancelKeeps DEF Tick

LEMMA StepKeeps == RunInvariant /\ Step => RunInvariant'
BY ProvisionedKeeps, ProvisionFailsKeeps, LaunchEntryKeeps, PrepareFailsKeeps, PreparedKeeps,
   StartedKeeps, StartFailsKeeps, StopLandsKeeps, StopFailsKeeps, TimedOutKeeps,
   ConcludeStepKeeps, CheckpointFailsKeeps, VerifyStartsKeeps, VerifyStartFailsKeeps,
   PublishCheckKeeps, PushKeeps, PushedKeeps, CancelTurnKeeps, CancelCheckKeeps,
   CancelledKeeps DEF Step

LEMMA DecideKeeps == RunInvariant /\ Decide => RunInvariant'
BY CancelKeeps, AcceptKeeps, OverrideTurnKeeps, OverrideGateKeeps, FeedbackKeeps, RetryKeeps,
   WaitForResetKeeps, RaiseBudgetKeeps, OwnerLoopBackKeeps, ReconcileKeeps, ApproveRiskKeeps,
   DeclineRiskKeeps, CreatePrKeeps, ReturnKeeps DEF Decide

LEMMA NextKeeps == RunInvariant /\ [Next]_vars => RunInvariant'
BY TickKeeps, StepKeeps, DecideKeeps, TurnEndsKeeps, CheckEndsKeeps, WriteKeeps, CrashKeeps,
   RunStutters DEF Next

\* Every reachable state has the invariant.
THEOREM RunHolds == Spec => []RunInvariant
BY RunInitially, NextKeeps, PTL DEF Spec

\* The stored document, the operation that holds its lock and the processes are well typed.
THEOREM TypeCorrect == Spec => []TypeOK
<1>1. RunInvariant => TypeOK BY DEF RunInvariant
<1> QED BY <1>1, RunHolds, PTL

\* What a stage passed on, whatever crashed, was retried, overridden or approved between its
\* turn and its passing: the verification and the decision its edge asks for came after its
\* last turn (conclude, execution-stage.js:397-438).
THEOREM StagesPassAsRequired == Spec => []PassedAsRequired
<1>1. RunInvariant => PassedAsRequired
  <2> SUFFICES ASSUME RunInvariant, NEW n \in Stages \ cut, run.nodes[n].status = "passed"
               PROVE  /\ "verify" \in Flags(run, n) => checked[n] \in {"pass", "waived"}
                      /\ "gate" \in Flags(run, n) => n \in decided
    BY DEF PassedAsRequired
  <2>1. Clears(run, n, checked, decided) BY Unpack DEF Honest, HonestAt
  <2>2. checked[n] \in {"no", "pass", "waived"} BY Unpack DEF Typed
  <2> QED BY <2>1, <2>2 DEF Clears, Checks
<1> QED BY <1>1, RunHolds, PTL

\* One turn or one verification works in the run's worktree, whatever launches, stops and
\* crashes interleave, unless a failed launch could not be undone (execution-stage.js:194).
THEOREM OneTurnWorks == Spec => []OneWriter
<1>1. RunInvariant => OneWriter
  <2> SUFFICES ASSUME RunInvariant PROVE OneWriter OBVIOUS
  <2>1. Processes /\ Flow(run) BY Unpack
  <2> QED BY <2>1 DEF Processes, Flow, OneWriter, Alive
<1> QED BY <1>1, RunHolds, PTL

\* A run that completed, failed or was cancelled has nothing at work
\* (pipeline-actions.js:327-356).
THEOREM EndedRunsRest == Spec => []EndedQuiet
<1>1. RunInvariant => EndedQuiet
  <2> SUFFICES ASSUME RunInvariant, Terminal(run) PROVE EndedQuiet BY DEF EndedQuiet
  <2>1. Processes /\ Flow(run) BY Unpack
  <2>2. ~run.active /\ ~run.job BY <2>1 DEF Flow, Terminal
  <2> QED BY <2>1, <2>2 DEF Processes, EndedQuiet, Alive
<1> QED BY <1>1, RunHolds, PTL

\* A server that starts again finds recorded how a run that executes goes on
\* (pipeline-recovery.js:59-125).
THEOREM RunsResume == Spec => []Resumable
<1>1. RunInvariant => Resumable
  <2> SUFFICES ASSUME RunInvariant PROVE Resumable OBVIOUS
  <2>1. Recorded(run) BY Unpack
  <2> QED BY <2>1 DEF Recorded, Resumable
<1> QED BY <1>1, RunHolds, PTL

\* Every commit pushed was approved, or its failed check was decided on
\* (risk-gate.js:160-188, workspace-forge.js:130-166).
THEOREM PushesAreApproved == Spec => []PublishedApproved
<1>1. RunInvariant => PublishedApproved BY DEF RunInvariant, Publication
<1> QED BY <1>1, RunHolds, PTL

=============================================================================
