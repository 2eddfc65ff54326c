------------------------ MODULE ParallelGroupProofs ------------------------
(***************************************************************************)
(* Proofs about ParallelGroup, for every number of members and any bounds. *)
(*                                                                         *)
(* The inductive invariant is Kept: where the operation under the lock     *)
(* waits (Placed), what the stored document says together (Document), that *)
(* a CLI at work has its member's turn (Turns), that nobody works for a    *)
(* group that does not (Rests), what a launch that is still due leaves     *)
(* (Due), and that a join is of reports that stand (Joins).  The worktree  *)
(* is related to the group's checkpoints (Checkpoints) until a turn is     *)
(* given up with its CLI at work, and what may pass as it stands is known  *)
(* (Gates) until a crash loses the launch of a raised budget.              *)
(***************************************************************************)
EXTENDS ParallelGroup, WellFoundedInduction, TLAPS

-----------------------------------------------------------------------------
(* Type correctness.                                                        *)

LEMMA Bounds ==
    /\ N \in Nat /\ 1 \in Members /\ Members \subseteq Nat /\ Members \subseteq 0..N /\ 0 \in 0..N
    /\ MaxNudges \in Nat /\ MaxLoops \in Nat /\ MaxWrites \in Nat
    /\ 0 \in 0..MaxNudges /\ 0 \in 0..MaxLoops /\ 0 \in 0..MaxWrites
    /\ -1 \in Commits /\ Nat \subseteq Commits
BY GroupAssumption DEF Members, Commits

LEMMA InitTypes == Init => TypeOK
<1>1. Fresh \in MemberType /\ Idle \in TaskType
  BY Bounds DEF Fresh, MemberType, None, Idle, TaskType
<1> QED
  BY <1>1, Bounds DEF Init, TypeOK, GroupType, Reasons, None

LEMMA ReasonTypes ==
    /\ {None, "session-error", "usage", "members-blocked", "changed-files", "verdict-fail",
            "budget"} \subseteq Reasons
    /\ Verdicts \subseteq Verdicts \cup {None} /\ None \in Verdicts \cup {None}
BY DEF Reasons

\* What a step makes of a member.
LEMMA MemberTypes ==
    ASSUME NEW m \in MemberType
    PROVE  /\ ResetMember(m) \in MemberType /\ Prepared(m) \in MemberType
           /\ Overridden(m) \in MemberType
           /\ \A why \in {"verdict", "session-error", "usage", "timeout"} :
                 Parked(m, why) \in MemberType
<1>1. ResetMember(m) \in MemberType
  BY DEF ResetMember, MemberType
<1>2. [m EXCEPT !.native = FALSE, !.nudges = 0] \in MemberType
  BY Bounds DEF MemberType
<1>3. Prepared(m) \in MemberType
  BY <1>2 DEF Prepared
<1>4. Overridden(m) \in MemberType
  BY DEF Overridden, MemberType
<1>5. ASSUME NEW why \in {"verdict", "session-error", "usage", "timeout"}
      PROVE  Parked(m, why) \in MemberType
  BY DEF Parked, MemberType
<1> QED
  BY <1>1, <1>3, <1>4, <1>5

\* What a step makes of the group.
LEMMA GroupTypes ==
    ASSUME TypeOK
    PROVE  /\ Opened \in GroupType /\ Reopened \in GroupType
           /\ \A why \in Reasons : ParkGroup(why) => group' \in GroupType
           /\ \A hold \in {"fresh", "resume", "progress"} : HoldGroup(hold) => group' \in GroupType
           /\ Pass(group) \/ Pass([group EXCEPT !.overridden = TRUE]) => group' \in GroupType
           /\ LoopBack => group' \in GroupType
<1>1. group \in GroupType
  BY DEF TypeOK
<1>2. Opened \in GroupType
  <2>1. PICK r : r = IF group.pend = "fresh" THEN group.round + 1 ELSE group.round
    OBVIOUS
  <2>2. r \in Nat
    BY <1>1, <2>1 DEF GroupType
  <2>3. PICK b : b = IF group.pend = "fresh" THEN -1 ELSE group.base
    OBVIOUS
  <2>4. PICK e : e = IF group.pend = "fresh" THEN -1 ELSE group.end
    OBVIOUS
  <2>5. b \in Commits /\ e \in Commits
    BY <1>1, <2>3, <2>4, Bounds DEF GroupType
  <2>6. \A g \in GroupType : [g EXCEPT !.at = "group", !.status = "running", !.run = "running",
              !.pend = None, !.concl = FALSE, !.reason = None, !.resets = FALSE,
              !.overridden = FALSE, !.round = r, !.base = b, !.end = e] \in GroupType
    BY <2>2, <2>5, ReasonTypes DEF GroupType
  <2> QED
  BY <1>1, <2>1, <2>3, <2>4, <2>6 DEF Opened
<1>3. Reopened \in GroupType
  <2>1. [group EXCEPT !.status = "running", !.run = "running", !.reason = None,
                     !.verdict = None, !.resets = FALSE, !.end = -1] \in GroupType
    BY <1>1, Bounds, ReasonTypes DEF GroupType
  <2> QED BY <1>1, <2>1 DEF Reopened
<1>4. ASSUME NEW why \in Reasons, ParkGroup(why) PROVE group' \in GroupType
  BY <1>1, <1>4 DEF ParkGroup, GroupType
<1>5. ASSUME NEW hold \in {"fresh", "resume", "progress"}, HoldGroup(hold) PROVE group' \in GroupType
  <2>1. PICK r : r = IF group.reason = "budget" THEN None ELSE group.reason
    OBVIOUS
  <2>2. r \in Reasons
    BY <1>1, <2>1, ReasonTypes DEF GroupType
  <2>3. [group EXCEPT !.at = "group", !.run = "waiting", !.status = "gate",
                 !.reason = "budget", !.hold = hold, !.pend = None, !.concl = FALSE,
                 !.resets = FALSE, !.heldReason = r] \in GroupType
    BY <1>1, <2>2, ReasonTypes DEF GroupType
  <2> QED
    BY <1>5, <2>1, <2>3 DEF HoldGroup
<1>6. Pass(group) \/ Pass([group EXCEPT !.overridden = TRUE]) => group' \in GroupType
  BY <1>1, ReasonTypes DEF Pass, GroupType
<1>7. LoopBack => group' \in GroupType
  BY <1>1, ReasonTypes DEF LoopBack, GroupType
<1> QED
  BY <1>2, <1>3, <1>4, <1>5, <1>6, <1>7

\* A set of members has a first one, from the library's fact that < is well-founded.
LEMMA LeastMember ==
    ASSUME NEW S \in SUBSET Members, S # {}
    PROVE  Least(S) \in S
<1> DEFINE R == OpToRel(<, Nat)
<1>1. IsWellFoundedOn(R, Nat)
  BY NatLessThanWellFounded, Zenon
<1>2. \A j, k \in Nat : j < k => <<j, k>> \in R
  <2>1. R = {ss \in Nat \X Nat : ss[1] < ss[2]}
    BY Zenon DEF OpToRel
  <2> HIDE DEF R
  <2> QED
    BY <2>1, SMT
<1>3. S \subseteq Nat
  BY Bounds
<1> HIDE DEF R
<1>4. PICK k \in S : \A j \in S : ~ (<<j, k>> \in R)
  BY <1>1, <1>3, WFMin, Zenon
<1>5. \A j \in S : k <= j
  <2>1. \A j \in S : j \in Nat /\ k \in Nat /\ ~ (j < k)
    BY <1>2, <1>3, <1>4, Zenon
  <2> QED
    BY <2>1
<1> QED
  BY <1>5 DEF Least

\* Where the operation under the lock goes on.
LEMMA Going ==
    /\ Idle \in TaskType /\ Idle.do = "idle"
    /\ \A d \in {"launch", "progress", "prepare", "start", "join", "joined", "conclude", "sweep",
                 "cancel"} : Do(d) \in TaskType /\ Do(d).do = d /\ Do(d).back = "progress"
    /\ \A k \in Members, back \in {"progress", "sweep"} :
          /\ After(k, back) \in TaskType
          /\ After(k, back).do \in {"progress", "sweep"}
          /\ After(k, back).do = "sweep" => back = "sweep" /\ After(k, back).m \in Members
<1>1. Idle \in TaskType /\ Idle.do = "idle"
  BY Bounds DEF Idle, TaskType
<1>2. ASSUME NEW d \in {"launch", "progress", "prepare", "start", "join", "joined", "conclude",
                        "sweep", "cancel"}
      PROVE  Do(d) \in TaskType /\ Do(d).do = d /\ Do(d).back = "progress"
  BY Bounds DEF Do, Idle, TaskType
<1>3. ASSUME NEW k \in Members, NEW back \in {"progress", "sweep"}
      PROVE  /\ After(k, back) \in TaskType
             /\ After(k, back).do \in {"progress", "sweep"}
             /\ After(k, back).do = "sweep" => back = "sweep" /\ After(k, back).m \in Members
  <2>1. CASE back = "sweep" /\ k < N
    <3>1. k + 1 \in Members /\ k + 1 \in 0..N
      BY <2>1, Bounds DEF Members
    <3>2. After(k, back) = [do |-> "sweep", m |-> k + 1, back |-> "progress"]
      BY <2>1 DEF After
    <3> QED
      BY <2>1, <3>1, <3>2 DEF TaskType
  <2>2. CASE ~(back = "sweep" /\ k < N)
    BY <1>2, <2>2 DEF After
  <2> QED
    BY <2>1, <2>2
<1> QED
  BY <1>1, <1>2, <1>3

LEMMA LaunchTypes ==
    ASSUME TypeOK, NEW g \in GroupType, NEW how \in {"fresh", "resume"}, Launch(g, how)
    PROVE  group' \in GroupType /\ task' \in TaskType
<1>1. used.over => group' \in GroupType /\ task' \in TaskType
  BY GroupTypes, Going DEF Launch
<1>2. [g EXCEPT !.pend = how] \in GroupType
  BY DEF GroupType
<1> QED
  BY <1>1, <1>2, Going DEF Launch

Kinds == {"kickoff", "nudge", "feedback"}

LEMMA LaunchMemberTypes ==
    ASSUME TypeOK, NEW k \in Members, NEW m \in MemberType, NEW kind \in Kinds,
           NEW back \in {"progress", "sweep"}, LaunchMember(k, m, kind, back)
    PROVE  member' \in [Members -> MemberType] /\ task' \in TaskType
<1>1. /\ [m EXCEPT !.queued = kind, !.status = "pending"] \in MemberType
      /\ [m EXCEPT !.queued = kind] \in MemberType
  BY DEF MemberType, Kinds
<1>2. [m EXCEPT !.queued = kind, !.status = IF used'.over THEN "pending" ELSE @] \in MemberType
  BY <1>1 DEF MemberType
<1>3. member' \in [Members -> MemberType]
  BY <1>2 DEF LaunchMember, TypeOK
<1>4. [do |-> "prepare", m |-> k, back |-> back] \in TaskType
  BY Bounds DEF TaskType
<1> QED
  BY <1>3, <1>4, Going DEF LaunchMember

\* The bounds that a step uses up.
LEMMA UsedTypes ==
    ASSUME TypeOK
    PROVE  /\ Mishap => /\ used' \in [loops : 0..MaxLoops, owner : Nat, mishaps : Nat,
                                      writes : 0..MaxWrites, over : BOOLEAN]
                        /\ used'.over = used.over /\ used'.owner = used.owner
           /\ Decide => /\ used' \in [loops : 0..MaxLoops, owner : Nat, mishaps : Nat,
                                      writes : 0..MaxWrites, over : BOOLEAN]
                        /\ used'.over = used.over /\ used'.owner = used.owner + 1
<1> DEFINE U == [loops : 0..MaxLoops, owner : Nat, mishaps : Nat, writes : 0..MaxWrites,
                 over : BOOLEAN]
<1>1. PICK u \in U : u = used
  BY DEF TypeOK
<1>2. [u EXCEPT !.mishaps = @ + 1] \in U /\ [u EXCEPT !.owner = @ + 1] \in U
  <2>1. u.mishaps + 1 \in Nat /\ u.owner + 1 \in Nat
    OBVIOUS
  <2> QED BY <2>1
<1>3. /\ [u EXCEPT !.mishaps = @ + 1].over = u.over /\ [u EXCEPT !.owner = @ + 1].over = u.over
      /\ [u EXCEPT !.mishaps = @ + 1].owner = u.owner
      /\ [u EXCEPT !.owner = @ + 1].owner = u.owner + 1
  OBVIOUS
<1> QED
  BY <1>1, <1>2, <1>3, Zenon DEF Mishap, Decide

-----------------------------------------------------------------------------
(* The inductive invariant.                                                 *)

InGroup == group.at = "group"
FreshDue == InGroup /\ (group.pend = "fresh" \/ group.hold = "fresh")
Begun == InGroup /\ group.pend # "fresh" /\ group.hold # "fresh"
AllReported == \A k \in Members : member[k].status = "reported"
NoneBusy == \A k \in Members : member[k].status # "running"

\* Where the operation under the lock waits.
Placed ==
    /\ task.do \notin {"idle", "launch", "cancel"} => Live
    /\ task.do = "launch" => InGroup /\ group.pend # None
    /\ task.do \in {"prepare", "start", "sweep"} => task.m \in Members
    /\ task.do \in {"prepare", "start"} => ~used.over
    /\ task.do = "sweep" => group.pend = None
    /\ task.do \in {"prepare", "start"} /\ task.back = "sweep" => group.pend = None
    /\ task.do = "prepare" => /\ member[task.m].queued # None /\ ~member[task.m].turn
                              /\ group.end = -1
    /\ task.do = "start" => /\ member[task.m].status = "running" /\ member[task.m].turn
                            /\ proc[task.m] = None
    /\ task.do \in {"join", "joined", "conclude"} => AllReported
    /\ task.do = "joined" => group.end # -1
    /\ task.do = "conclude" => group.concl

\* What the document of the group says together; above the budget its launch is held.
Document ==
    /\ InGroup /\ (group.hold # None \/ group.heldReason # None) =>
          /\ group.run = "waiting" /\ group.status = "gate" /\ group.reason = "budget"
          /\ group.pend = None /\ task.do # "launch"
    /\ group.heldReason \in {None, "session-error", "usage", "members-blocked"}
    /\ InGroup /\ group.status = "failed" =>
          group.reason \in {"session-error", "usage", "members-blocked"}
    /\ InGroup /\ group.reason = "budget" => group.hold # None
    /\ group.hold = "progress" => group.heldReason = None
    /\ Live => group.reason = None
    /\ InGroup /\ group.status = "running" => group.run = "running"
    /\ InGroup => ~group.overridden /\ group.status \notin {"passed", "cancelled"}
    /\ group.at = "repair" =>
          /\ group.run = "running" /\ group.status = "pending" /\ group.reason = None
          /\ group.hold = None /\ group.heldReason = None /\ group.pend = None
          /\ ~group.concl /\ ~group.overridden

\* A turn is of a working member of this round, and its CLI is the only one at work.
TurnOf(k) ==
    /\ member[k].turn => member[k].status = "running" /\ member[k].round = group.round
    /\ member[k].status = "gate" => member[k].reason = "verdict"
    /\ member[k].status = "reported" =>
          member[k].overridden \/ member[k].round = group.round
    /\ ~seen.lost /\ proc[k] = "live" => member[k].turn
Turns == \A k \in Members : TurnOf(k)

\* Nobody works for a group that is parked, held, sent back, passed or cancelled.
Rests ==
    /\ ~Live => NoneBusy
    /\ group.pend # None /\ used.over => NoneBusy

\* A round that is still to begin, or whose start failed.
Due ==
    /\ FreshDue =>
          /\ task.do \in {"idle", "launch", "cancel"} /\ ~group.concl
          /\ group.status \in {"pending", "gate"} /\ group.reason \in {None, "budget"}
          /\ group.heldReason = None
    /\ group.at = "repair" \/ FreshDue => \A k \in Members : member[k].status = "pending"
    /\ Begun /\ Live => group.status = "running"
    /\ Begun /\ group.base = -1 =>
          /\ group.run = "waiting" /\ group.end = -1 /\ group.hold # "progress"
          /\ \/ group.reason = "session-error"
             \/ group.reason = "budget" /\ group.heldReason = "session-error"

\* A join is of reports that stand.
Joins ==
    /\ Begun /\ group.end # -1 => AllReported /\ group.verdict = JoinVerdict
    /\ InGroup /\ (group.concl \/ group.reason = "verdict-fail") =>
          Begun /\ group.end # -1 /\ group.end = group.base
    /\ InGroup /\ group.reason = "changed-files" => Begun /\ group.end # -1
    /\ InGroup /\ group.concl => group.status = "running"

\* The worktree against the commits of the group's two checkpoints.
Checkpoints ==
    /\ FreshDue => ~seen.written
    /\ InGroup /\ (group.concl \/ group.reason = "verdict-fail") => ~seen.written
    /\ Begun /\ group.end # -1 => ~worktree.dirty /\ worktree.head = group.end
    /\ Begun /\ group.base # -1 =>
          /\ group.base <= worktree.head
          /\ seen.written => worktree.dirty \/ worktree.head # group.base
    /\ Begun /\ group.base = -1 => ~seen.written

\* What the owner may pass as it stands, and what passed.
Gates ==
    /\ InGroup /\ group.status = "gate" /\ task.do # "launch" =>
          group.reason \in {"verdict-fail", "changed-files", "budget"}
    /\ group.at = "beyond" =>
          /\ AllReported
          /\ \A k \in Members : group.overridden \/ Passes(k)
          /\ seen.lost \/ ~seen.written

Kept ==
    /\ TypeOK /\ Placed /\ Document /\ Turns /\ Rests /\ Due /\ Joins
    /\ seen.lost \/ Checkpoints
    /\ seen.lapsed \/ Gates

-----------------------------------------------------------------------------
(* Every step keeps the types.                                              *)

Used == [loops : 0..MaxLoops, owner : Nat, mishaps : Nat, writes : 0..MaxWrites, over : BOOLEAN]
Ends == {None, "live", "done", "error", "limit", "stopped"}

LEMMA LaunchedTypes ==
    TypeOK => \A k \in Members : Launched(k) \in MemberType
BY MemberTypes DEF Launched, TypeOK

LEMMA LoopBackTypes ==
    TypeOK /\ LoopBack => member' \in [Members -> MemberType]
<1>1. \A m \in MemberType : [m EXCEPT !.status = "pending", !.reason = None, !.verdict = None,
                                !.native = FALSE] \in MemberType
  BY DEF MemberType
<1>2. ASSUME TypeOK, LoopBack PROVE member' \in [Members -> MemberType]
  <2>1. member' = [k \in Members |-> [member[k] EXCEPT !.status = "pending", !.reason = None,
                                        !.verdict = None, !.native = FALSE]]
    BY <1>2 DEF LoopBack
  <2>2. \A k \in Members : member[k] \in MemberType
    BY <1>2 DEF TypeOK
  <2>3. \A k \in Members : [member[k] EXCEPT !.status = "pending", !.reason = None,
                                        !.verdict = None, !.native = FALSE] \in MemberType
    BY <1>1, <2>2
  <2> QED
    BY <2>1, <2>3
<1> QED
  BY <1>2

LEMMA CommittedTypes ==
    TypeOK => /\ Committed \in [head : Nat, dirty : BOOLEAN] /\ ~Committed.dirty
              /\ Committed.head >= worktree.head
              /\ worktree.dirty => Committed.head > worktree.head
              /\ ~worktree.dirty => Committed.head = worktree.head
<1> SUFFICES ASSUME TypeOK
             PROVE  /\ Committed \in [head : Nat, dirty : BOOLEAN] /\ ~Committed.dirty
                    /\ Committed.head >= worktree.head
                    /\ worktree.dirty => Committed.head > worktree.head
                    /\ ~worktree.dirty => Committed.head = worktree.head
  OBVIOUS
<1>1. PICK h \in Nat : h = worktree.head
  BY DEF TypeOK
<1>2. worktree.dirty \in BOOLEAN
  BY DEF TypeOK
<1>3. h + 1 \in Nat /\ h + 0 = h /\ h + 1 > h /\ h >= h
  OBVIOUS
<1>4. Committed = [head |-> IF worktree.dirty THEN h + 1 ELSE h, dirty |-> FALSE]
  BY <1>1, <1>3 DEF Committed
<1> QED
  BY <1>1, <1>2, <1>3, <1>4

\* The group's launch, progress and join.
LEMMA GroupTypeStep ==
    ASSUME TypeOK, LaunchGroup \/ LaunchFails \/ Progress \/ Join \/ JoinFails \/ Joined \/ Conclude
    PROVE  TypeOK'
<1>1. CASE LaunchGroup
  <2>1. member' \in [Members -> MemberType]
    BY <1>1, LaunchedTypes DEF LaunchGroup
  <2>2. worktree' \in [head : Nat, dirty : BOOLEAN]
    BY <1>1, CommittedTypes DEF LaunchGroup, TypeOK
  <2>3. worktree'.head \in Commits
    BY <2>2 DEF Commits
  <2>4. [Opened EXCEPT !.base = worktree'.head] \in GroupType
    BY <2>3, GroupTypes DEF GroupType
  <2>5. group' \in GroupType
    BY <1>1, <2>4, GroupTypes DEF LaunchGroup
  <2> QED
    BY <1>1, <2>1, <2>2, <2>5, Going DEF LaunchGroup, TypeOK
<1>2. CASE LaunchFails
  <2>1. member' \in [Members -> MemberType]
    BY <1>2, LaunchedTypes DEF LaunchFails
  <2>2. [Opened EXCEPT !.run = "waiting", !.status = "failed", !.reason = "session-error"]
            \in GroupType
    BY GroupTypes, ReasonTypes DEF GroupType
  <2> QED
    BY <1>2, <2>1, <2>2, Going, UsedTypes DEF LaunchFails, TypeOK
<1>3. CASE Progress
  <2>1. UNCHANGED <<proc, file, worktree, used, seen>>
    BY <1>3 DEF Progress
  <2>2. ASSUME NEW k \in Members, NEW kind \in Kinds,
               LaunchMember(k, member[k], kind, "progress"), UNCHANGED group
        PROVE  TypeOK'
    <3>1. member[k] \in MemberType
      BY DEF TypeOK
    <3>2. member' \in [Members -> MemberType] /\ task' \in TaskType
      BY <2>2, <3>1, LaunchMemberTypes
    <3> QED
      BY <2>1, <2>2, <3>2 DEF TypeOK
  <2>3. \A k \in Members : member[k].queued \in Kinds \cup {None} /\ KindOf(k) \in Kinds
    BY DEF KindOf, TypeOK, MemberType, Kinds
  <2>4. CASE Live /\ Interrupted # {} /\ UNCHANGED group
             /\ LET k == Least(Interrupted)
                IN  LaunchMember(k, member[k], member[k].queued, "progress")
    <3>1. Least(Interrupted) \in Interrupted
      BY <2>4, LeastMember DEF Interrupted, Busy
    <3>2. PICK k \in Members : k = Least(Interrupted)
      BY <3>1 DEF Interrupted, Busy
    <3>3. member[k].queued \in Kinds
      BY <2>3, <3>1, <3>2 DEF Interrupted
    <3> QED
      BY <2>2, <2>4, <3>2, <3>3
  <2>5. CASE Pending # {} /\ UNCHANGED group
             /\ LET k == Least(Pending) IN LaunchMember(k, member[k], KindOf(k), "progress")
    <3>1. Least(Pending) \in Pending
      BY <2>5, LeastMember DEF Pending
    <3>2. PICK k \in Members : k = Least(Pending)
      BY <3>1 DEF Pending
    <3> QED
      BY <2>2, <2>3, <2>5, <3>2
  <2>6. CASE task' = Idle /\ UNCHANGED member /\ (HoldGroup("progress") \/ UNCHANGED group)
    <3>1. group' \in GroupType
      BY <2>6, GroupTypes DEF TypeOK
    <3> QED
      BY <2>1, <2>6, <3>1, Going DEF TypeOK
  <2>7. CASE Settle
    <3>1. ASSUME NEW limited \in BOOLEAN
          PROVE  [group EXCEPT !.run = "waiting", !.status = "failed", !.pend = None,
                      !.concl = FALSE, !.resets = limited,
                      !.reason = IF limited THEN "usage" ELSE "members-blocked"] \in GroupType
      BY ReasonTypes DEF TypeOK, GroupType
    <3>2. (\E k \in Blocked : member[k].reason = "usage") \in BOOLEAN
      OBVIOUS
    <3>3. \/ group' = group
          \/ \E limited \in BOOLEAN :
                group' = [group EXCEPT !.run = "waiting", !.status = "failed", !.pend = None,
                      !.concl = FALSE, !.resets = limited,
                      !.reason = IF limited THEN "usage" ELSE "members-blocked"]
      BY <2>7, <3>2, Zenon DEF Settle
    <3>4. group \in GroupType
      BY DEF TypeOK
    <3>5. group' \in GroupType
      BY <3>1, <3>3, <3>4, Zenon
    <3> QED
      BY <2>1, <2>7, <3>5, Going DEF Settle, TypeOK
  <2> QED
    BY <1>3, <2>4, <2>5, <2>6, <2>7 DEF Progress
<1>4. CASE Join
  <2>1. JoinVerdict \in Verdicts
    BY DEF JoinVerdict, Verdicts
  <2>2. worktree' \in [head : Nat, dirty : BOOLEAN]
    BY <1>4, CommittedTypes DEF Join, TypeOK
  <2>3. Committed.head \in Commits
    BY CommittedTypes DEF Commits
  <2>4. /\ [group EXCEPT !.verdict = JoinVerdict, !.end = Committed.head] \in GroupType
        /\ [group EXCEPT !.verdict = JoinVerdict] \in GroupType
    BY <2>1, <2>3 DEF TypeOK, GroupType
  <2> QED
    BY <1>4, <2>2, <2>4, Going DEF Join, TypeOK
<1>5. CASE JoinFails
  BY <1>5, GroupTypes, ReasonTypes, UsedTypes, Going DEF JoinFails, TypeOK
<1>6. CASE Joined
  <2>1. [group EXCEPT !.concl = TRUE] \in GroupType
    BY DEF TypeOK, GroupType
  <2>2. group' \in GroupType /\ task' \in TaskType
    BY <1>6, <2>1, GroupTypes, ReasonTypes, Going DEF Joined
  <2> QED
    BY <1>6, <2>2 DEF Joined, TypeOK
<1>7. CASE Conclude
  <2>1. group' \in GroupType
    BY <1>7, GroupTypes, ReasonTypes DEF Conclude
  <2>2. member' \in [Members -> MemberType]
    BY <1>7, LoopBackTypes DEF Conclude, TypeOK
  <2>4. used.loops < MaxLoops => used.loops + 1 \in 0..MaxLoops
    BY Bounds DEF TypeOK
  <2>5. used.loops < MaxLoops => [used EXCEPT !.loops = @ + 1] \in Used
    BY <2>4 DEF TypeOK, Used
  <2>6. used' \in Used
    BY <1>7, <2>5 DEF Conclude, TypeOK, Used
  <2> QED
    BY <1>7, <2>1, <2>2, <2>6, Going DEF Conclude, TypeOK, Used
<1> QED
  BY <1>1, <1>2, <1>3, <1>4, <1>5, <1>6, <1>7

\* A member's turn and the poll.
LEMMA TurnTypeStep ==
    ASSUME TypeOK, Placed,
           Prepare \/ PrepareFails \/ Start \/ StartFails \/ Sweep \/ SweepGivesUp \/ Poll
    PROVE  TypeOK'
<1> DEFINE k == task.m
<1>0. task.back \in {"progress", "sweep"}
  BY DEF TypeOK, TaskType
<1>1. CASE Prepare
  <2>1. k \in Members
    BY <1>1 DEF Placed, Prepare
  <2>2. Prepared(member[k]) \in MemberType /\ group.round \in Nat
    BY <2>1, MemberTypes DEF TypeOK, GroupType
  <2>3. \A m \in MemberType, r \in Nat :
           [m EXCEPT !.status = "running", !.reason = None, !.queued = None, !.verdict = None,
               !.overridden = FALSE, !.turn = TRUE, !.stopped = FALSE,
               !.attempt = "launching", !.round = r] \in MemberType
    BY DEF MemberType
  <2>4. member' \in [Members -> MemberType]
    BY <1>1, <2>1, <2>2, <2>3 DEF Prepare, TypeOK
  <2>5. [task EXCEPT !.do = "start"] \in TaskType
    BY DEF TypeOK, TaskType
  <2> QED
    BY <1>1, <2>4, <2>5 DEF Prepare, TypeOK
<1>2. CASE PrepareFails
  <2>1. k \in Members
    BY <1>2 DEF Placed, PrepareFails
  <2>2. Parked(Prepared(member[k]), "session-error") \in MemberType
    BY <2>1, MemberTypes DEF TypeOK
  <2>3. member' \in [Members -> MemberType]
    BY <1>2, <2>1, <2>2 DEF PrepareFails, TypeOK
  <2> QED
    BY <1>0, <1>2, <2>1, <2>3, Going, UsedTypes DEF PrepareFails, TypeOK
<1>3. CASE Start
  <2>1. k \in Members
    BY <1>3 DEF Placed, Start
  <2>2. \A m \in MemberType : [m EXCEPT !.attempt = "running", !.native = TRUE] \in MemberType
    BY DEF MemberType
  <2>3. member' \in [Members -> MemberType]
    BY <1>3, <2>1, <2>2 DEF Start, TypeOK
  <2> QED
    BY <1>0, <1>3, <2>1, <2>3, Going DEF Start, TypeOK
<1>4. CASE StartFails
  <2>1. k \in Members
    BY <1>4 DEF Placed, StartFails
  <2>2. Parked(member[k], "session-error") \in MemberType
    BY <2>1, MemberTypes DEF TypeOK
  <2>3. member' \in [Members -> MemberType]
    BY <1>4, <2>1, <2>2 DEF StartFails, TypeOK
  <2> QED
    BY <1>0, <1>4, <2>1, <2>3, Going, UsedTypes DEF StartFails, TypeOK
<1>5. CASE Sweep
  <2>1. k \in Members
    BY <1>5 DEF Placed, Sweep
  <2>2. PICK e : e = [member[k] EXCEPT !.turn = FALSE, !.attempt = "finished"]
    OBVIOUS
  <2>3. e \in MemberType
    <3>1. \A m \in MemberType : [m EXCEPT !.turn = FALSE, !.attempt = "finished"] \in MemberType
      BY DEF MemberType
    <3> QED
      BY <2>1, <2>2, <3>1 DEF TypeOK
  <2>4. After(k, "sweep") \in TaskType
    BY <2>1, Going
  <2>5. \A x \in MemberType : [member EXCEPT ![k] = x] \in [Members -> MemberType]
    BY DEF TypeOK
  <2>6. CASE ~member[k].turn \/ proc[k] \in {None, "live"}
    <3>1. Parked(member[k], "session-error") \in MemberType
      BY <2>1, MemberTypes DEF TypeOK
    <3>2. member' \in [Members -> MemberType]
      BY <1>5, <2>1, <2>6, <3>1, <2>5 DEF Sweep, TypeOK
    <3> QED
      BY <1>5, <2>4, <2>6, <3>2 DEF Sweep, TypeOK
  <2>7. CASE ~(~member[k].turn \/ proc[k] \in {None, "live"})
    <3>1. \A over \in BOOLEAN, mm \in Nat :
             [used EXCEPT !.over = over, !.mishaps = mm] \in Used
      BY DEF TypeOK, Used
    <3>2. PICK over \in BOOLEAN :
             used' = [used EXCEPT !.over = over,
                         !.mishaps = IF over # used.over THEN @ + 1 ELSE @]
      BY <1>5, <2>7 DEF Sweep, TypeOK
    <3>3. used.mishaps \in Nat /\ used.mishaps + 1 \in Nat
      BY DEF TypeOK
    <3>4. used' = [used EXCEPT !.over = over, !.mishaps = used.mishaps]
             \/ used' = [used EXCEPT !.over = over, !.mishaps = used.mishaps + 1]
      BY <3>2 DEF TypeOK
    <3>5. used' \in Used
      BY <3>1, <3>3, <3>4
    <3>6. member' \in [Members -> MemberType] /\ task' \in TaskType
      <4>1. CASE proc[k] = "done" /\ Reports(k, e)
        <5>1. file[k] \in Verdicts => [e EXCEPT !.status = "reported", !.verdict = file[k]] \in MemberType
          BY <2>3 DEF MemberType
        <5>2. e.nudges < MaxNudges => [e EXCEPT !.nudges = @ + 1] \in MemberType
          <6>1. e.nudges < MaxNudges => e.nudges + 1 \in 0..MaxNudges
            BY <2>3, Bounds DEF MemberType
          <6> QED
            BY <2>3, <6>1 DEF MemberType
        <5>3. Parked(e, "verdict") \in MemberType
          BY <2>3, MemberTypes
        <5>4. CASE file[k] \in Verdicts
          BY <4>1, <5>4, <5>1, <2>4, <2>5 DEF Reports
        <5>5. CASE file[k] \notin Verdicts /\ e.nudges < MaxNudges
          <6>1. LaunchMember(k, [e EXCEPT !.nudges = @ + 1], "nudge", "sweep")
            BY <4>1, <5>5 DEF Reports
          <6> QED
            BY <2>1, <5>2, <5>5, <6>1, LaunchMemberTypes DEF Kinds
        <5>6. CASE file[k] \notin Verdicts /\ ~(e.nudges < MaxNudges)
          BY <4>1, <5>6, <5>3, <2>4, <2>5 DEF Reports
        <5> QED
          BY <5>4, <5>5, <5>6
      <4>2. CASE /\ member' = [member EXCEPT ![k] =
                              Parked(e, IF proc[k] = "limit" THEN "usage" ELSE "session-error")]
                 /\ task' = After(k, "sweep")
        <5>1. Parked(e, IF proc[k] = "limit" THEN "usage" ELSE "session-error") \in MemberType
          BY <2>3, MemberTypes
        <5> QED
          BY <2>4, <2>5, <4>2, <5>1
      <4> QED
        BY <1>5, <2>2, <2>7, <4>1, <4>2 DEF Sweep
    <3> QED
      BY <1>5, <2>7, <3>5, <3>6 DEF Sweep, TypeOK, Used
  <2> QED
    BY <2>6, <2>7
<1>6. CASE SweepGivesUp
  <2>1. k \in Members
    BY <1>6 DEF Placed, SweepGivesUp
  <2>2. PICK stopped \in BOOLEAN :
           /\ member' = [member EXCEPT ![k] =
                     [Parked(member[k], IF stopped THEN "timeout" ELSE "session-error")
                         EXCEPT !.stopped = stopped]]
           /\ proc' = [proc EXCEPT ![k] = IF stopped THEN "stopped" ELSE @]
           /\ seen' = [seen EXCEPT !.lost = @ \/ ~stopped]
    BY <1>6, <2>1 DEF SweepGivesUp, TypeOK
  <2>3. Parked(member[k], IF stopped THEN "timeout" ELSE "session-error") \in MemberType
    BY <2>1, MemberTypes DEF TypeOK
  <2>4. [Parked(member[k], IF stopped THEN "timeout" ELSE "session-error")
                         EXCEPT !.stopped = stopped] \in MemberType
    BY <2>3 DEF MemberType
  <2>5. member' \in [Members -> MemberType]
    BY <2>1, <2>2, <2>4 DEF TypeOK
  <2>6. proc' \in [Members -> Ends]
    BY <2>1, <2>2 DEF TypeOK, Ends
  <2>7. seen' \in [lost : BOOLEAN, lapsed : BOOLEAN, written : BOOLEAN]
    BY <2>2 DEF TypeOK
  <2> QED
    BY <1>6, <2>1, <2>5, <2>6, <2>7, Going, UsedTypes DEF SweepGivesUp, TypeOK, Ends
<1>7. CASE Poll
  <2>1. [Do("sweep") EXCEPT !.m = 1] \in TaskType
    BY Going, Bounds DEF TaskType
  <2>2. ASSUME NEW how \in {"fresh", "resume"}, Launch(group, how)
        PROVE  group' \in GroupType /\ task' \in TaskType
    BY <2>2, LaunchTypes DEF TypeOK
  <2>3. group.pend # None => group.pend \in {"fresh", "resume"}
    BY DEF TypeOK, GroupType
  <2>4. group' \in GroupType /\ task' \in TaskType
    BY <1>7, <2>1, <2>2, <2>3, Going DEF Poll, TypeOK
  <2> QED
    BY <1>7, <2>4 DEF Poll, TypeOK
<1> QED
  BY <1>1, <1>2, <1>3, <1>4, <1>5, <1>6, <1>7

\* The owner, the CLIs, the stage before the group, and crashes.
LEMMA OutsideTypeStep ==
    ASSUME TypeOK, Placed,
           \/ OnGroup \/ CancelTurn \/ CancelFails \/ Cancelled \/ Repair \/ Crash
           \/ \E k \in Members : OnMember(k) \/ ProcEnds(k) \/ Write(k)
    PROVE  TypeOK'
<1>0. group \in GroupType /\ Reopened \in GroupType /\ \A k \in Members : member[k] \in MemberType
  BY GroupTypes DEF TypeOK
<1>1. ASSUME NEW k \in Members, OnMember(k) PROVE TypeOK'
  <2>1. used' \in Used /\ UNCHANGED <<proc, file, worktree, seen>> /\ group' = Reopened
    BY <1>1, UsedTypes DEF OnMember, Retry, Override, Feedback, Reconcile, Used
  <2>2. member' \in [Members -> MemberType] /\ task' \in TaskType
    <3>1. CASE Retry(k)
      <4>1. \A m \in MemberType : [m EXCEPT !.status = "pending", !.reason = None, !.queued = None]
               \in MemberType
        BY DEF MemberType
      <4> QED
        BY <3>1, <4>1, Going DEF Retry, TypeOK
    <3>2. CASE Override(k)
      BY <1>0, <3>2, MemberTypes, Going DEF Override, TypeOK
    <3>3. CASE Feedback(k)
      BY <1>0, <3>3, LaunchMemberTypes DEF Feedback, Kinds
    <3>4. CASE Reconcile(k)
      <4>1. \A m \in MemberType, v \in Verdicts :
               [m EXCEPT !.status = "reported", !.verdict = v, !.reason = None] \in MemberType
        BY DEF MemberType
      <4> QED
        BY <3>4, <4>1, Going DEF Reconcile, TypeOK
    <3> QED
      BY <1>1, <3>1, <3>2, <3>3, <3>4 DEF OnMember
  <2> QED
    BY <1>0, <2>1, <2>2 DEF TypeOK, Used
<1>2. ASSUME RetryGroup PROVE TypeOK'
  <2>1. [group EXCEPT !.resets = FALSE] \in GroupType
    BY <1>0 DEF GroupType
  <2>2. group' \in GroupType /\ task' \in TaskType
    BY <1>2, <2>1, LaunchTypes DEF RetryGroup
  <2> QED
    BY <1>2, <2>2, UsedTypes DEF RetryGroup, TypeOK
<1>3. ASSUME OverrideMembers PROVE TypeOK'
  <2>1. member' \in [Members -> MemberType]
    BY <1>0, <1>3, MemberTypes DEF OverrideMembers
  <2> QED
    BY <1>0, <1>3, <2>1, UsedTypes, Going DEF OverrideMembers, TypeOK
<1>4. ASSUME AcceptChanges PROVE TypeOK'
  <2>1. \A e \in Commits : [group EXCEPT !.run = "running", !.status = "running", !.reason = None,
                    !.base = e, !.concl = TRUE] \in GroupType
    BY <1>0, ReasonTypes DEF GroupType
  <2>2. group' \in GroupType
    BY <1>0, <1>4, <2>1 DEF AcceptChanges, GroupType
  <2>3. seen' \in [lost : BOOLEAN, lapsed : BOOLEAN, written : BOOLEAN]
    BY <1>4 DEF AcceptChanges, TypeOK
  <2> QED
    BY <1>4, <2>2, <2>3, UsedTypes, Going DEF AcceptChanges, TypeOK
<1>5. ASSUME PassGate PROVE TypeOK'
  BY <1>5, GroupTypes, UsedTypes, Going DEF PassGate, TypeOK
<1>6. ASSUME RaiseBudget PROVE TypeOK'
  <2>1. used' \in Used
    <3>1. used.owner + 1 \in Nat
      BY DEF TypeOK
    <3> QED
      BY <1>6, <3>1 DEF RaiseBudget, TypeOK, Used
  <2>2. group' \in GroupType /\ task' \in TaskType
    <3>1. \A r \in Reasons : [group EXCEPT !.hold = None, !.reason = r, !.heldReason = None] \in GroupType
      BY <1>0, ReasonTypes DEF GroupType
    <3>2. PICK g \in GroupType :
             g = [group EXCEPT !.hold = None, !.reason = group.heldReason, !.heldReason = None]
      BY <1>0, <3>1 DEF GroupType
    <3>3. /\ [g EXCEPT !.status = "running", !.run = "running"] \in GroupType
          /\ \A how \in {None, "fresh", "resume"} : [g EXCEPT !.pend = how] \in GroupType
      BY DEF GroupType
    <3>4. group.hold # "progress" => group.hold \in {None, "fresh", "resume"}
      BY <1>0 DEF GroupType
    <3>5. CASE group.at = "repair"
      BY <1>0, <1>6, <3>5 DEF RaiseBudget, TypeOK
    <3>6. CASE group.at # "repair" /\ group.hold = "progress"
      BY <1>6, <3>2, <3>3, <3>6, Going DEF RaiseBudget
    <3>7. CASE group.at # "repair" /\ group.hold # "progress"
      BY <1>6, <3>2, <3>3, <3>4, <3>7, Going DEF RaiseBudget
    <3> QED
      BY <3>5, <3>6, <3>7
  <2> QED
    BY <1>6, <2>1, <2>2 DEF RaiseBudget, TypeOK, Used
<1>7. ASSUME OwnerLoopBack PROVE TypeOK'
  BY <1>7, GroupTypes, LoopBackTypes, UsedTypes DEF OwnerLoopBack, TypeOK
<1>8. ASSUME Abort PROVE TypeOK'
  <2>1. [group EXCEPT !.cancel = TRUE] \in GroupType
    BY <1>0 DEF GroupType
  <2> QED
    BY <1>8, <2>1, UsedTypes, Going DEF Abort, TypeOK
<1>9. ASSUME CancelTurn PROVE TypeOK'
  <2>1. \A j : [proc EXCEPT ![j] = "stopped"] \in [Members -> Ends]
    BY DEF TypeOK, Ends
  <2> QED
    BY <1>9, <2>1 DEF CancelTurn, TypeOK, Ends
<1>10. ASSUME CancelFails PROVE TypeOK'
  BY <1>10, UsedTypes, Going DEF CancelFails, TypeOK
<1>11. ASSUME Cancelled PROVE TypeOK'
  <2>1. \A s \in {"pending", "running", "failed", "gate", "passed", "cancelled"} :
           [group EXCEPT !.at = "cancelled", !.cancel = FALSE, !.pend = None, !.status = s]
              \in GroupType
    BY <1>0 DEF GroupType
  <2>2. group' \in GroupType
    <3>1. PICK s : s = IF group.status \in {"running", "gate"} THEN "cancelled" ELSE group.status
      OBVIOUS
    <3>2. s \in {"pending", "running", "failed", "gate", "passed", "cancelled"}
      BY <1>0, <3>1 DEF GroupType
    <3> QED
      BY <1>11, <2>1, <3>1, <3>2 DEF Cancelled
  <2>3. \A m \in MemberType, s \in {"pending", "running", "reported", "failed", "gate", "cancelled"} :
           [m EXCEPT !.turn = FALSE, !.status = s] \in MemberType
    BY DEF MemberType
  <2>4. \A m \in MemberType :
           [m EXCEPT !.turn = FALSE,
                     !.status = IF @ \in {"running", "gate"} THEN "cancelled" ELSE @] \in MemberType
    <3>1. TAKE m \in MemberType
    <3>2. PICK s : s = IF m.status \in {"running", "gate"} THEN "cancelled" ELSE m.status
      OBVIOUS
    <3>3. s \in {"pending", "running", "reported", "failed", "gate", "cancelled"}
      BY <3>2 DEF MemberType
    <3> QED
      BY <2>3, <3>2, <3>3
  <2>5. member' \in [Members -> MemberType]
    BY <1>0, <1>11, <2>4 DEF Cancelled
  <2> QED
    BY <1>11, <2>2, <2>5, Going DEF Cancelled, TypeOK
<1>12. ASSUME NEW k \in Members, ProcEnds(k) PROVE TypeOK'
  BY <1>12, UsedTypes DEF ProcEnds, TypeOK
<1>13. ASSUME NEW k \in Members, Write(k) PROVE TypeOK'
  <2>1. used.writes < MaxWrites => used.writes + 1 \in 0..MaxWrites
    BY Bounds DEF TypeOK
  <2>2. used' \in Used
    BY <1>13, <2>1 DEF Write, TypeOK, Used
  <2>3. /\ worktree' \in [head : Nat, dirty : BOOLEAN]
        /\ seen' \in [lost : BOOLEAN, lapsed : BOOLEAN, written : BOOLEAN]
    BY <1>13 DEF Write, TypeOK
  <2> QED
    BY <1>13, <2>2, <2>3 DEF Write, TypeOK, Used
<1>14. ASSUME Repair PROVE TypeOK'
  <2>1. /\ worktree' \in [head : Nat, dirty : BOOLEAN]
        /\ seen' \in [lost : BOOLEAN, lapsed : BOOLEAN, written : BOOLEAN]
    <3>1. worktree.head + 1 \in Nat
      BY DEF TypeOK
    <3> QED
      BY <1>14, <3>1 DEF Repair, TypeOK
  <2>2. used' \in Used
    <3>1. used.mishaps + 1 \in Nat /\ used.mishaps \in Nat
      BY DEF TypeOK
    <3>2. \A over \in BOOLEAN, mm \in Nat : [used EXCEPT !.over = over, !.mishaps = mm] \in Used
      BY DEF TypeOK, Used
    <3>3. PICK over \in {FALSE, Calm} :
             used' = [used EXCEPT !.over = over, !.mishaps = IF over THEN @ + 1 ELSE @]
      BY <1>14, Zenon DEF Repair
    <3>4. over \in BOOLEAN
      <4>1. Calm \in BOOLEAN
        BY DEF Calm
      <4> QED
        BY <4>1, Zenon
    <3>5. \/ used' = [used EXCEPT !.over = over, !.mishaps = used.mishaps + 1]
          \/ used' = [used EXCEPT !.over = over, !.mishaps = used.mishaps]
      BY <3>3, <3>4 DEF TypeOK
    <3> QED
      BY <3>1, <3>2, <3>4, <3>5
  <2>3. group' \in GroupType /\ task' \in TaskType
    <3>1. /\ [group EXCEPT !.at = "group", !.run = "waiting", !.status = "gate",
                        !.reason = "budget", !.hold = "fresh", !.heldReason = None] \in GroupType
          /\ [group EXCEPT !.at = "group", !.pend = "fresh"] \in GroupType
      BY <1>0, ReasonTypes DEF GroupType
    <3> QED
      BY <1>14, <3>1, Going DEF Repair
  <2> QED
    BY <1>14, <2>1, <2>2, <2>3 DEF Repair, TypeOK, Used
<1>15. ASSUME Crash PROVE TypeOK'
  <2>1. seen' \in [lost : BOOLEAN, lapsed : BOOLEAN, written : BOOLEAN]
    BY <1>15 DEF Crash, TypeOK
  <2>2. proc' \in [Members -> Ends]
    BY <1>15 DEF Crash, TypeOK, Ends
  <2> QED
    BY <1>15, <2>1, <2>2, UsedTypes, Going DEF Crash, TypeOK, Ends
<1> QED
  BY <1>1, <1>2, <1>3, <1>4, <1>5, <1>6, <1>7, <1>8, <1>9, <1>10, <1>11, <1>12, <1>13, <1>14,
     <1>15 DEF OnGroup

LEMMA TypeStep == TypeOK /\ Placed /\ [Next]_vars => TypeOK'
<1> SUFFICES ASSUME TypeOK, Placed, [Next]_vars PROVE TypeOK'
  OBVIOUS
<1>1. CASE UNCHANGED vars
  BY <1>1 DEF vars, TypeOK
<1>2. CASE Next
  BY <1>2, GroupTypeStep, TurnTypeStep, OutsideTypeStep, Zenon DEF Next, Step
<1> QED
  BY <1>1, <1>2

-----------------------------------------------------------------------------
(* What the operations leave in the fields of the group and of a member.    *)

LEMMA ParkedGroup ==
    ASSUME TypeOK, NEW why, ParkGroup(why)
    PROVE  /\ group'.at = group.at /\ group'.run = "waiting" /\ group'.pend = None
           /\ ~group'.concl /\ group'.reason = why
           /\ group'.status = IF why \in {"changed-files", "verdict-fail"} THEN "gate" ELSE "failed"
           /\ group'.hold = group.hold /\ group'.heldReason = group.heldReason
           /\ group'.round = group.round /\ group'.base = group.base /\ group'.end = group.end
           /\ group'.verdict = group.verdict /\ group'.overridden = group.overridden
BY DEF ParkGroup, TypeOK, GroupType

LEMMA HeldGroup ==
    ASSUME TypeOK, NEW hold, HoldGroup(hold)
    PROVE  /\ group'.at = "group" /\ group'.run = "waiting" /\ group'.pend = None
           /\ ~group'.concl /\ group'.reason = "budget" /\ group'.status = "gate"
           /\ group'.hold = hold
           /\ group'.heldReason = IF group.reason = "budget" THEN None ELSE group.reason
           /\ group'.round = group.round /\ group'.base = group.base /\ group'.end = group.end
           /\ group'.verdict = group.verdict /\ group'.overridden = group.overridden
BY DEF HoldGroup, TypeOK, GroupType

LEMMA OpenedGroup ==
    ASSUME TypeOK
    PROVE  /\ Opened.at = "group" /\ Opened.run = "running" /\ Opened.pend = None
           /\ ~Opened.concl /\ Opened.reason = None /\ Opened.status = "running"
           /\ Opened.hold = group.hold /\ Opened.heldReason = group.heldReason
           /\ Opened.verdict = group.verdict /\ ~Opened.overridden
           /\ group.pend = "fresh" => Opened.base = -1 /\ Opened.end = -1
           /\ group.pend # "fresh" => /\ Opened.round = group.round /\ Opened.base = group.base
                                      /\ Opened.end = group.end
BY DEF Opened, TypeOK, GroupType

LEMMA ReopenedGroup ==
    ASSUME TypeOK, group' = Reopened
    PROVE  /\ group'.at = group.at /\ group'.pend = group.pend /\ group'.concl = group.concl
           /\ group'.hold = group.hold /\ group'.heldReason = group.heldReason
           /\ group'.round = group.round /\ group'.base = group.base
           /\ group'.overridden = group.overridden
           /\ group.status = "running" => group' = group
           /\ group.status # "running" => /\ group'.run = "running" /\ group'.status = "running"
                                          /\ group'.reason = None /\ group'.end = -1
BY DEF Reopened, TypeOK, GroupType

LEMMA PassedGroup ==
    ASSUME TypeOK
    PROVE  /\ Pass(group) \/ Pass([group EXCEPT !.overridden = TRUE]) =>
                 /\ group'.at = "beyond" /\ group'.run = "running" /\ group'.status = "passed"
                 /\ group'.pend = None /\ ~group'.concl /\ group'.reason = None
                 /\ group'.hold = group.hold /\ group'.heldReason = group.heldReason
                 /\ group'.round = group.round
           /\ Pass(group) => group'.overridden = group.overridden
           /\ Pass([group EXCEPT !.overridden = TRUE]) => group'.overridden
<1>1. group \in GroupType
  BY DEF TypeOK
<1>2. CASE Pass(group)
  BY <1>1, <1>2 DEF Pass, GroupType
<1>3. PICK g : g = [group EXCEPT !.overridden = TRUE]
  OBVIOUS
<1>4. /\ g \in GroupType /\ g.overridden /\ g.hold = group.hold
      /\ g.heldReason = group.heldReason /\ g.round = group.round
  BY <1>1, <1>3 DEF GroupType
<1>5. CASE Pass([group EXCEPT !.overridden = TRUE])
  <2>1. Pass(g)
    BY <1>3, <1>5
  <2>2. /\ group'.at = "beyond" /\ group'.run = "running" /\ group'.status = "passed"
        /\ group'.pend = None /\ ~group'.concl /\ group'.reason = None
        /\ group'.hold = g.hold /\ group'.heldReason = g.heldReason /\ group'.round = g.round
        /\ group'.overridden = g.overridden
    BY <1>4, <2>1 DEF Pass, GroupType
  <2>3. ASSUME Pass(group) PROVE group'.overridden = group.overridden
    BY <1>1, <2>3 DEF Pass, GroupType
  <2> QED
    BY <1>4, <2>2, <2>3
<1> QED
  BY <1>2, <1>5

LEMMA SentBack ==
    ASSUME TypeOK, LoopBack
    PROVE  /\ group'.at = "repair" /\ group'.run = "running" /\ group'.status = "pending"
           /\ group'.pend = None /\ ~group'.concl /\ group'.reason = None /\ group'.hold = None
           /\ group'.heldReason = group.heldReason /\ group'.round = group.round
           /\ group'.overridden = group.overridden
           /\ \A k \in Members : /\ member'[k].status = "pending"
                                 /\ member'[k].turn = member[k].turn
<1>1. group' = [group EXCEPT !.at = "repair", !.run = "running", !.status = "pending",
                    !.pend = None, !.concl = FALSE, !.reason = None, !.verdict = None,
                    !.hold = None]
  BY DEF LoopBack
<1>2. \A k \in Members : member'[k] = [member[k] EXCEPT !.status = "pending", !.reason = None,
                                        !.verdict = None, !.native = FALSE]
  BY DEF LoopBack
<1>3. \A k \in Members : member[k] \in MemberType
  BY DEF TypeOK
<1>4. \A k \in Members : member'[k].status = "pending" /\ member'[k].turn = member[k].turn
  BY <1>2, <1>3 DEF MemberType
<1> QED
  BY <1>1, <1>4 DEF TypeOK, GroupType

LEMMA MemberFields ==
    ASSUME NEW m \in MemberType
    PROVE  /\ ResetMember(m).status = "pending" /\ ResetMember(m).turn = m.turn
           /\ Prepared(m).status = m.status
           /\ Overridden(m).status = "reported" /\ Overridden(m).overridden
           /\ Overridden(m).turn = m.turn
           /\ \A why \in {"verdict", "session-error", "usage", "timeout"} :
                 /\ why = "verdict" => Parked(m, why).status = "gate"
                 /\ why # "verdict" => Parked(m, why).status = "failed"
                 /\ Parked(m, why).reason = why
                 /\ ~Parked(m, why).turn
BY DEF MemberType, ResetMember, Prepared, Overridden, Parked

LEMMA ParkedFields ==
    ASSUME NEW m \in MemberType, NEW why \in {"timeout", "usage", "session-error"}
    PROVE  Parked(m, why) \in MemberType /\ ~Parked(m, why).turn /\ Parked(m, why).status = "failed"
BY DEF MemberType, Parked

LEMMA BusyFields ==
    /\ NoneBusy <=> Busy = {}
    /\ AllReported <=> Blocked = {}
    /\ Pending \cup Busy = {} => NoneBusy
BY DEF NoneBusy, Busy, AllReported, Blocked, Pending

-----------------------------------------------------------------------------
(* Kinds of steps.                                                          *)

\* The group and its members rest: an operation goes on, ends or is lost, a CLI ends.
LEMMA OthersRest ==
    ASSUME Kept, TypeOK', Placed', UNCHANGED <<group, member, worktree>>,
           used'.over = used.over, seen.lost => seen'.lost, seen.lapsed => seen'.lapsed,
           seen'.written = seen.written,
           \A k \in Members : proc'[k] = "live" => proc[k] = "live" \/ member[k].turn,
           task'.do = "launch" => task.do = "launch",
           task.do = "launch" /\ task'.do # "launch" /\ group.status = "gate" => seen'.lapsed,
           FreshDue => task'.do \in {"idle", "launch", "cancel"}
    PROVE  Kept'
<1>1. Document'
  BY DEF Kept, Document, InGroup, Live
<1>2. Turns'
  BY DEF Kept, Turns, TurnOf
<1>3. Rests'
  BY DEF Kept, Rests, NoneBusy, Live
<1>4. Due'
  BY DEF Kept, Due, FreshDue, Begun, InGroup, Live
<1>5. Joins'
  BY DEF Kept, Joins, Begun, InGroup, AllReported, JoinVerdict, Asks, Passes
<1>6. seen'.lost \/ Checkpoints'
  BY DEF Kept, Checkpoints, FreshDue, Begun, InGroup
<1>7. seen'.lapsed \/ Gates'
  BY DEF Kept, Gates, InGroup, AllReported, Passes
<1> QED
  BY <1>1, <1>2, <1>3, <1>4, <1>5, <1>6, <1>7 DEF Kept

\* What the document says of a group that works on.
LEMMA AtWork ==
    ASSUME Kept, Live, task.do \notin {"idle", "launch", "cancel"}
    PROVE  /\ InGroup /\ Begun /\ ~FreshDue /\ group.reason = None /\ group.hold = None
           /\ group.heldReason = None /\ group.base # -1
BY DEF Kept, Live, InGroup, Begun, FreshDue, Document, Due

\* One member of a group that works on gets further: its turn is prepared, started, ended
\* or given up, or its launch waits.
LEMMA OneMember ==
    ASSUME Kept, TypeOK', Placed', UNCHANGED <<group, worktree>>,
           Live, task.do \notin {"idle", "launch", "cancel"}, group.end = -1,
           NEW k \in Members, TurnOf(k)',
           \A j \in Members \ {k} : member'[j] = member[j] /\ proc'[j] = proc[j],
           group.pend = None \/ ~used'.over \/ NoneBusy',
           seen.lost => seen'.lost, seen'.lapsed = seen.lapsed, seen'.written = seen.written
    PROVE  Kept'
<1>0. /\ InGroup /\ Begun /\ ~FreshDue /\ group.reason = None /\ group.hold = None
      /\ group.heldReason = None /\ group.base # -1
  BY AtWork
<1>1. Document'
  BY <1>0 DEF Kept, Document, InGroup, Live
<1>2. Turns'
  <2>1. ASSUME NEW j \in Members \ {k} PROVE TurnOf(j)'
    BY DEF Kept, Turns, TurnOf
  <2> QED
    BY <2>1 DEF Turns
<1>3. Rests'
  BY DEF Rests, Live
<1>4. Due'
  BY <1>0 DEF Kept, Due, FreshDue, Begun, InGroup, Live
<1>5. Joins'
  BY <1>0 DEF Kept, Joins, Begun, InGroup
<1>6. seen'.lost \/ Checkpoints'
  BY <1>0 DEF Kept, Checkpoints, FreshDue, Begun, InGroup
<1>7. seen'.lapsed \/ Gates'
  BY <1>0 DEF Kept, Gates, InGroup, Live, Document
<1> QED
  BY <1>1, <1>2, <1>3, <1>4, <1>5, <1>6, <1>7 DEF Kept

\* The group is parked.
LEMMA GroupParks ==
    ASSUME Kept, TypeOK', UNCHANGED <<member, proc, worktree, seen>>,
           Live, NoneBusy, task.do \notin {"idle", "launch", "cancel"}, task' = Idle,
           NEW why \in {"session-error", "usage", "members-blocked", "changed-files",
                        "verdict-fail"},
           why = "verdict-fail" => group.concl, why = "changed-files" => group.end # -1,
           group'.at = group.at, group'.run = "waiting", group'.pend = None, ~group'.concl,
           group'.reason = why,
           group'.status = IF why \in {"changed-files", "verdict-fail"} THEN "gate" ELSE "failed",
           group'.hold = group.hold, group'.heldReason = group.heldReason,
           group'.round = group.round, group'.base = group.base, group'.end = group.end,
           group'.verdict = group.verdict, group'.overridden = group.overridden
    PROVE  Kept'
<1>0. /\ InGroup /\ Begun /\ ~FreshDue /\ group.reason = None /\ group.hold = None
      /\ group.heldReason = None /\ group.base # -1
  BY AtWork
<1>1. Placed'
  BY Going DEF Placed
<1>2. Document'
  BY <1>0 DEF Kept, Document, InGroup, Live
<1>3. Turns'
  BY DEF Kept, Turns, TurnOf
<1>4. Rests'
  BY DEF Rests, NoneBusy
<1>5. Due'
  BY <1>0 DEF Due, FreshDue, Begun, InGroup, Live
<1>6. Joins'
  BY <1>0 DEF Kept, Joins, Begun, InGroup, AllReported, JoinVerdict, Asks, Passes
<1>7. seen'.lost \/ Checkpoints'
  BY <1>0 DEF Kept, Checkpoints, FreshDue, Begun, InGroup
<1>8. seen'.lapsed \/ Gates'
  BY <1>0 DEF Gates, InGroup
<1> QED
  BY <1>1, <1>2, <1>3, <1>4, <1>5, <1>6, <1>7, <1>8 DEF Kept

\* The group's launch, or its next member's, is held above the budget.
LEMMA GroupHeld ==
    ASSUME Kept, TypeOK', UNCHANGED <<member, proc, worktree, seen>>,
           InGroup, group.reason \in {None, "session-error", "usage", "members-blocked"},
           NoneBusy, task' = Idle,
           NEW how \in {"fresh", "resume", "progress"}, HoldGroup(how),
           how = "fresh" <=> FreshDue,
           how = "progress" => Live
    PROVE  Kept'
<1>0. /\ group'.at = "group" /\ group'.run = "waiting" /\ group'.pend = None
      /\ ~group'.concl /\ group'.reason = "budget" /\ group'.status = "gate"
      /\ group'.hold = how /\ group'.heldReason = group.reason
      /\ group'.round = group.round /\ group'.base = group.base /\ group'.end = group.end
      /\ group'.verdict = group.verdict /\ group'.overridden = group.overridden
  BY HeldGroup DEF Kept, None
<1>1. Placed'
  BY Going DEF Placed
<1>2. Document'
  BY <1>0, Going DEF Kept, Document, InGroup, Live, None
<1>3. Turns'
  BY <1>0 DEF Kept, Turns, TurnOf
<1>4. Rests'
  BY DEF Rests, NoneBusy
<1>5. group.hold = None /\ (FreshDue \/ Begun) /\ (FreshDue => group.pend = "fresh")
  BY DEF Kept, Document, FreshDue, Begun, None
<1>6. FreshDue' <=> FreshDue
  BY <1>0 DEF FreshDue, InGroup, None
<1>7. Begun' <=> Begun
  BY <1>0, <1>5 DEF Begun, FreshDue, InGroup
<1>8. Due'
  BY <1>0, <1>5, <1>6, <1>7, Going DEF Kept, Due, Document, Live, InGroup
<1>9. Joins'
  BY <1>0, <1>7 DEF Kept, Joins, InGroup, AllReported, JoinVerdict, Asks, Passes
<1>10. seen'.lost \/ Checkpoints'
  BY <1>0, <1>6, <1>7 DEF Kept, Checkpoints, InGroup
<1>11. seen'.lapsed \/ Gates'
  BY <1>0 DEF Gates, InGroup
<1> QED
  BY <1>1, <1>2, <1>3, <1>4, <1>8, <1>9, <1>10, <1>11 DEF Kept

\* A member's next turn is queued.
LEMMA MemberQueued ==
    ASSUME Kept, TypeOK', UNCHANGED <<group, proc, worktree, seen>>,
           Live, task.do \in {"progress", "sweep"}, group.end = -1,
           NEW k \in Members, NEW m \in MemberType, NEW kind \in Kinds,
           NEW back \in {"progress", "sweep"}, LaunchMember(k, m, kind, back),
           ~m.turn, m.status \in {"running", "pending"},
           m.status = "running" => member[k].status = "running",
           seen.lost \/ proc[k] # "live",
           back = "sweep" => task.do = "sweep",
           task.do = "progress" => used'.over = used.over
    PROVE  Kept'
<1>1. PICK x : x = [m EXCEPT !.queued = kind, !.status = IF used'.over THEN "pending" ELSE @]
  OBVIOUS
<1>2. x.queued = kind /\ ~x.turn /\ x.status = IF used'.over THEN "pending" ELSE m.status
  BY <1>1 DEF MemberType
<1>3. member \in [Members -> MemberType]
  BY DEF Kept, TypeOK
<1>4. member'[k] = x /\ \A j \in Members \ {k} : member'[j] = member[j]
  BY <1>1, <1>3 DEF LaunchMember
<1>5. TurnOf(k)'
  BY <1>2, <1>4 DEF TurnOf
<1>6. group.pend = None \/ ~used'.over \/ NoneBusy'
  <2>1. CASE task.do = "sweep"
    BY <2>1 DEF Kept, Placed
  <2>2. CASE task.do = "progress" /\ group.pend # None /\ used'.over
    <3>1. NoneBusy
      BY <2>2 DEF Kept, Rests
    <3> QED
      BY <1>2, <1>4, <2>2, <3>1 DEF NoneBusy
  <2> QED
    BY <2>1, <2>2
<1>7. task.do = "sweep" => group.pend = None
  BY DEF Kept, Placed
<1>8. Placed'
  <2>1. CASE used'.over
    <3>1. task' = After(k, back)
      BY <2>1 DEF LaunchMember
    <3> QED
      BY <1>7, <3>1, Going DEF Placed, Live
  <2>2. CASE ~used'.over
    <3>1. /\ task'.do = "prepare" /\ task'.m = k /\ task'.back = back
      BY <2>2 DEF LaunchMember
    <3>2. kind # None
      BY DEF Kinds, None
    <3> QED
      BY <1>2, <1>4, <1>7, <2>2, <3>1, <3>2 DEF Placed, Live
  <2> QED
    BY <2>1, <2>2
<1> QED
  BY <1>4, <1>5, <1>6, <1>8, OneMember

\* A member's turn ends in another way than with a new one.
LEMMA MemberEnds ==
    ASSUME Kept, TypeOK', UNCHANGED <<group, worktree>>,
           task.do \in {"prepare", "start", "sweep"}, group.end = -1,
           NEW k \in Members, k = task.m, TurnOf(k)',
           \A j \in Members \ {k} : member'[j] = member[j] /\ proc'[j] = proc[j],
           task' = After(k, IF task.do = "sweep" THEN "sweep" ELSE task.back),
           task.do # "sweep" => used'.over = used.over,
           seen.lost => seen'.lost, seen'.lapsed = seen.lapsed, seen'.written = seen.written
    PROVE  Kept'
<1>1. Live
  BY DEF Kept, Placed
<1>2. group.pend = None \/ ~used'.over
  BY DEF Kept, Placed
<1>3. Placed'
  <2>1. task.back \in {"progress", "sweep"}
    BY DEF Kept, TypeOK, TaskType
  <2>2. /\ task'.do \in {"progress", "sweep"}
        /\ task'.do = "sweep" => task'.m \in Members /\ (task.do = "sweep" \/ task.back = "sweep")
    BY <2>1, Going
  <2> QED
    BY <1>1, <2>2 DEF Kept, Placed, Live
<1> QED
  BY <1>1, <1>2, <1>3, OneMember

-----------------------------------------------------------------------------
(* Every step keeps the invariant.                                          *)

\* A group with a member that has not reported has no join.
LEMMA NotJoined ==
    ASSUME Kept, Begun, NEW k \in Members, member[k].status # "reported"
    PROVE  group.end = -1
BY DEF Kept, Joins, AllReported

LEMMA KeptAtStart ==
    ASSUME Kept, TypeOK', Prepare \/ PrepareFails \/ Start \/ StartFails
    PROVE  Kept'
<1>1. PICK k : k = task.m
  OBVIOUS
<1>2. /\ task.do \in {"prepare", "start"} /\ k \in Members /\ Live /\ ~used.over
      /\ task.back = "sweep" => group.pend = None
  BY <1>1 DEF Kept, Placed, Prepare, PrepareFails, Start, StartFails
<1>3. group.end = -1
  <2>1. CASE task.do = "prepare"
    BY <2>1 DEF Kept, Placed
  <2>2. CASE task.do = "start"
    BY <1>1, <1>2, <2>2, NotJoined, AtWork DEF Kept, Placed
  <2> QED
    BY <1>2, <2>1, <2>2
<1>4. member \in [Members -> MemberType] /\ member[k] \in MemberType
      /\ proc \in [Members -> Ends]
  BY <1>2 DEF Kept, TypeOK, Ends
<1>5. TurnOf(k) /\ task \in TaskType
  BY <1>2 DEF Kept, Turns, TypeOK
<1>6. CASE Prepare
  <2>1. PICK m : m = Prepared(member[k])
    OBVIOUS
  <2>2. m \in MemberType
    BY <1>4, <2>1, MemberTypes
  <2>3. PICK x : x = [m EXCEPT !.status = "running", !.reason = None, !.queued = None,
                    !.verdict = None, !.overridden = FALSE, !.turn = TRUE, !.stopped = FALSE,
                    !.attempt = "launching", !.round = group.round]
    OBVIOUS
  <2>4. x.status = "running" /\ x.turn /\ x.round = group.round
    BY <2>2, <2>3 DEF MemberType
  <2>5. /\ member'[k] = x /\ proc'[k] = None
        /\ \A j \in Members \ {k} : member'[j] = member[j] /\ proc'[j] = proc[j]
    BY <1>1, <1>2, <1>4, <1>6, <2>1, <2>3 DEF Prepare
  <2>6. UNCHANGED <<group, worktree, used, seen>>
    BY <1>6 DEF Prepare
  <2>7. TurnOf(k)'
    BY <2>4, <2>5, <2>6 DEF TurnOf, None
  <2>8. task'.do = "start" /\ task'.m = k /\ task'.back = task.back
    BY <1>1, <1>5, <1>6 DEF Prepare, TaskType
  <2>9. Placed'
    BY <1>2, <2>4, <2>5, <2>6, <2>8 DEF Placed, Live
  <2> QED
    BY <1>2, <1>3, <2>5, <2>6, <2>7, <2>9, OneMember
<1>7. CASE PrepareFails
  <2>1. PICK m : m = Prepared(member[k])
    OBVIOUS
  <2>2. m \in MemberType
    BY <1>4, <2>1, MemberTypes
  <2>3. PICK x : x = Parked(m, "session-error")
    OBVIOUS
  <2>4. x.status = "failed" /\ ~x.turn
    BY <2>2, <2>3, MemberFields
  <2>5. /\ member'[k] = x
        /\ \A j \in Members \ {k} : member'[j] = member[j]
    BY <1>1, <1>2, <1>4, <1>7, <2>1, <2>3 DEF PrepareFails
  <2>6. UNCHANGED <<group, proc, worktree, seen>> /\ used'.over = used.over
    BY <1>7, UsedTypes DEF PrepareFails, Kept
  <2>7. ~member[k].turn
    BY <1>1, <1>7 DEF Kept, Placed, PrepareFails
  <2>8. TurnOf(k)'
    BY <1>5, <2>4, <2>5, <2>6, <2>7 DEF TurnOf
  <2>9. task' = After(k, task.back)
    BY <1>1, <1>7 DEF PrepareFails
  <2> QED
    BY <1>1, <1>2, <1>3, <2>5, <2>6, <2>8, <2>9, MemberEnds
<1>8. CASE Start
  <2>1. PICK x : x = [member[k] EXCEPT !.attempt = "running", !.native = TRUE]
    OBVIOUS
  <2>2. /\ x.status = member[k].status /\ x.turn = member[k].turn /\ x.round = member[k].round
        /\ x.reason = member[k].reason /\ x.overridden = member[k].overridden
    BY <1>4, <2>1 DEF MemberType
  <2>3. /\ member'[k] = x
        /\ \A j \in Members \ {k} : member'[j] = member[j] /\ proc'[j] = proc[j]
    BY <1>1, <1>2, <1>4, <1>8, <2>1 DEF Start
  <2>4. UNCHANGED <<group, worktree, seen, used>> /\ task' = After(k, task.back)
    BY <1>1, <1>8 DEF Start
  <2>5. member[k].turn /\ task.do = "start"
    BY <1>1, <1>8 DEF Kept, Placed, Start
  <2>6. TurnOf(k)'
    BY <1>5, <2>2, <2>3, <2>4, <2>5 DEF TurnOf
  <2> QED
    BY <1>1, <1>2, <1>3, <2>3, <2>4, <2>5, <2>6, MemberEnds
<1>9. CASE StartFails
  <2>1. PICK x : x = Parked(member[k], "session-error")
    OBVIOUS
  <2>2. x.status = "failed" /\ ~x.turn
    BY <1>4, <2>1, MemberFields
  <2>3. /\ member'[k] = x
        /\ \A j \in Members \ {k} : member'[j] = member[j]
    BY <1>1, <1>2, <1>4, <1>9, <2>1 DEF StartFails
  <2>4. UNCHANGED <<group, proc, worktree, seen>> /\ used'.over = used.over
    BY <1>9, UsedTypes DEF StartFails, Kept
  <2>5. proc[k] = None /\ task.do = "start" /\ task' = After(k, task.back)
    BY <1>1, <1>9 DEF Kept, Placed, StartFails
  <2>6. TurnOf(k)'
    BY <2>2, <2>3, <2>4, <2>5 DEF TurnOf, None
  <2> QED
    BY <1>1, <1>2, <1>3, <2>3, <2>4, <2>5, <2>6, MemberEnds
<1> QED
  BY <1>6, <1>7, <1>8, <1>9

LEMMA KeptAtSweep ==
    ASSUME Kept, TypeOK', Sweep
    PROVE  Kept'
<1>1. PICK k : k = task.m
  OBVIOUS
<1>2. task.do = "sweep" /\ k \in Members /\ Live /\ group.pend = None /\ Begun /\ ~FreshDue
  BY <1>1, AtWork DEF Kept, Placed, Sweep
<1>3. /\ member \in [Members -> MemberType] /\ member[k] \in MemberType
      /\ TurnOf(k)
  BY <1>2 DEF Kept, TypeOK, Turns
<1>4. UNCHANGED <<group, proc, worktree, file>> /\ seen' = seen
  BY <1>1 DEF Sweep
<1>5. ASSUME task' = After(k, "sweep") PROVE Placed'
  <2>1. /\ task'.do \in {"progress", "sweep"}
        /\ task'.do = "sweep" => task'.m \in Members
    BY <1>2, <1>5, Going
  <2> QED
    BY <1>2, <1>4, <2>1 DEF Placed, Live
<1>6. CASE ~member[k].turn \/ proc[k] \in {None, "live"}
  <2>1. used' = used /\ task' = After(k, "sweep")
    BY <1>1, <1>6 DEF Sweep
  <2>2. CASE /\ member' = [member EXCEPT ![k] = Parked(@, "session-error")]
             /\ \/ member[k].turn /\ proc[k] = None
                \/ member[k].status = "running" /\ ~member[k].turn
    <3>1. PICK x : x = Parked(member[k], "session-error")
      OBVIOUS
    <3>2. x.status = "failed" /\ ~x.turn
      BY <1>3, <3>1, MemberFields
    <3>3. member'[k] = x /\ \A j \in Members \ {k} : member'[j] = member[j]
      BY <1>2, <1>3, <2>2, <3>1
    <3>4. seen.lost \/ proc[k] # "live"
      BY <1>3, <2>2 DEF TurnOf, None
    <3>5. TurnOf(k)'
      BY <1>4, <3>2, <3>3, <3>4 DEF TurnOf
    <3>6. group.end = -1
      BY <1>2, <1>3, <2>2, NotJoined DEF TurnOf
    <3>7. UNCHANGED <<group, worktree>> /\ \A j \in Members \ {k} : proc'[j] = proc[j]
      BY <1>4
    <3> QED
      BY <1>1, <1>2, <1>4, <2>1, <3>3, <3>5, <3>6, <3>7, MemberEnds
  <2>3. CASE member' = member
    <3>1. Placed'
      BY <1>5, <2>1
    <3>2. task'.do \in {"progress", "sweep"} /\ used'.over = used.over
      BY <1>2, <2>1, Going
    <3>3. UNCHANGED <<group, member, worktree>> /\ proc' = proc /\ seen' = seen
      BY <1>4, <2>3
    <3> QED
      BY <1>2, <3>1, <3>2, <3>3, OthersRest
  <2> QED
    BY <1>1, <1>6, <2>2, <2>3 DEF Sweep
<1>7. CASE ~(~member[k].turn \/ proc[k] \in {None, "live"})
  <2>1. group.end = -1 /\ member[k].status = "running" /\ member[k].round = group.round
    BY <1>2, <1>3, <1>7, NotJoined DEF TurnOf
  <2>2. PICK e : e = [member[k] EXCEPT !.turn = FALSE, !.attempt = "finished"]
    OBVIOUS
  <2>3. /\ e \in MemberType /\ ~e.turn /\ e.status = "running" /\ e.round = group.round
    <3>1. \A m \in MemberType : [m EXCEPT !.turn = FALSE, !.attempt = "finished"] \in MemberType
      BY DEF MemberType
    <3>2. e \in MemberType
      BY <1>3, <2>2, <3>1
    <3>3. ~e.turn /\ e.status = "running" /\ e.round = group.round
      BY <1>3, <2>1, <2>2 DEF MemberType
    <3> QED
      BY <3>2, <3>3
  <2>4. ASSUME NEW x \in MemberType, ~x.turn, x.status \in {"reported", "failed", "gate"},
               x.status = "gate" => x.reason = "verdict",
               x.status = "reported" => x.round = group.round,
               member' = [member EXCEPT ![k] = x], task' = After(k, "sweep")
        PROVE  Kept'
    <3>1. member'[k] = x /\ \A j \in Members \ {k} : member'[j] = member[j]
      BY <1>2, <1>3, <2>4
    <3>2. TurnOf(k)'
      BY <1>4, <1>7, <2>4, <3>1 DEF TurnOf
    <3> QED
      BY <1>1, <1>2, <1>4, <2>1, <2>4, <3>1, <3>2, MemberEnds
  <2>5. CASE Reports(k, e)
    <3>1. CASE file[k] \in Verdicts
      <4>1. PICK x : x = [e EXCEPT !.status = "reported", !.verdict = file[k]]
        OBVIOUS
      <4>2. x \in MemberType
        BY <2>3, <3>1, <4>1 DEF MemberType
      <4>3. ~x.turn /\ x.status = "reported" /\ x.round = group.round
        BY <2>3, <4>1 DEF MemberType
      <4>4. member' = [member EXCEPT ![k] = x] /\ task' = After(k, "sweep")
        BY <2>5, <3>1, <4>1 DEF Reports
      <4> QED
        BY <2>4, <4>2, <4>3, <4>4
    <3>2. CASE file[k] \notin Verdicts /\ e.nudges < MaxNudges
      <4>1. PICK m : m = [e EXCEPT !.nudges = @ + 1]
        OBVIOUS
      <4>2. m \in MemberType
        <5>1. e.nudges + 1 \in 0..MaxNudges
          BY <2>3, <3>2, Bounds DEF MemberType
        <5> QED
          BY <2>3, <4>1, <5>1 DEF MemberType
      <4>3. ~m.turn /\ m.status = "running"
        BY <2>3, <4>1 DEF MemberType
      <4>4. LaunchMember(k, m, "nudge", "sweep")
        BY <2>5, <3>2, <4>1 DEF Reports
      <4> QED
        BY <1>2, <1>4, <1>7, <2>1, <4>2, <4>3, <4>4, MemberQueued DEF Kinds
    <3>3. CASE file[k] \notin Verdicts /\ ~(e.nudges < MaxNudges)
      <4>1. PICK x : x = Parked(e, "verdict")
        OBVIOUS
      <4>2. x \in MemberType /\ ~x.turn /\ x.status = "gate" /\ x.reason = "verdict"
        BY <2>3, <4>1, MemberTypes, MemberFields
      <4>3. member' = [member EXCEPT ![k] = x] /\ task' = After(k, "sweep")
        BY <2>5, <3>3, <4>1 DEF Reports
      <4> QED
        BY <2>4, <4>2, <4>3
    <3> QED
      BY <3>1, <3>2, <3>3
  <2>6. CASE /\ member' = [member EXCEPT ![k] =
                          Parked(e, IF proc[k] = "limit" THEN "usage" ELSE "session-error")]
             /\ task' = After(k, "sweep")
    <3>1. PICK why \in {"usage", "session-error"} :
             why = IF proc[k] = "limit" THEN "usage" ELSE "session-error"
      OBVIOUS
    <3>2. PICK x : x = Parked(e, why)
      OBVIOUS
    <3>3. x \in MemberType /\ ~x.turn /\ x.status = "failed"
      BY <2>3, <3>2, ParkedFields
    <3>4. member' = [member EXCEPT ![k] = x]
      BY <2>6, <3>1, <3>2
    <3> QED
      BY <2>4, <2>6, <3>3, <3>4
  <2> QED
    BY <1>1, <1>7, <2>2, <2>5, <2>6 DEF Sweep
<1> QED
  BY <1>6, <1>7

LEMMA KeptAtTimeout ==
    ASSUME Kept, TypeOK', SweepGivesUp
    PROVE  Kept'
<1>1. PICK k : k = task.m
  OBVIOUS
<1>2. /\ task.do = "sweep" /\ k \in Members /\ Begun
      /\ member[k].turn /\ proc[k] = "live" /\ used'.over = used.over
  BY <1>1, UsedTypes, AtWork DEF Kept, Placed, SweepGivesUp
<1>3. /\ member \in [Members -> MemberType] /\ member[k] \in MemberType /\ TurnOf(k)
      /\ proc \in [Members -> Ends] /\ seen \in [lost : BOOLEAN, lapsed : BOOLEAN, written : BOOLEAN]
  BY <1>2 DEF Kept, TypeOK, Turns, Ends
<1>4. group.end = -1
  BY <1>2, <1>3, NotJoined DEF TurnOf
<1>5. PICK stopped \in BOOLEAN :
         /\ member' = [member EXCEPT ![k] =
                     [Parked(member[k], IF stopped THEN "timeout" ELSE "session-error")
                         EXCEPT !.stopped = stopped]]
         /\ proc' = [proc EXCEPT ![k] = IF stopped THEN "stopped" ELSE @]
         /\ seen' = [seen EXCEPT !.lost = @ \/ ~stopped]
  BY <1>1, <1>2, <1>3 DEF SweepGivesUp
<1>6. PICK why \in {"timeout", "session-error"} : why = IF stopped THEN "timeout" ELSE "session-error"
  OBVIOUS
<1>7. PICK m : m = Parked(member[k], why)
  OBVIOUS
<1>8. m \in MemberType /\ ~m.turn /\ m.status = "failed"
  BY <1>3, <1>7, ParkedFields
<1>9. PICK x : x = [m EXCEPT !.stopped = stopped]
  OBVIOUS
<1>10. ~x.turn /\ x.status = "failed"
  BY <1>8, <1>9 DEF MemberType
<1>11. /\ member'[k] = x
       /\ \A j \in Members \ {k} : member'[j] = member[j]
  BY <1>2, <1>3, <1>5, <1>6, <1>7, <1>9
<1>12. \A j \in Members \ {k} : proc'[j] = proc[j]
  BY <1>2, <1>3, <1>5
<1>13. /\ seen'.lapsed = seen.lapsed /\ seen'.written = seen.written
       /\ seen.lost => seen'.lost
       /\ seen'.lost \/ proc'[k] # "live"
  BY <1>2, <1>3, <1>5
<1>14. TurnOf(k)'
  BY <1>10, <1>11, <1>13 DEF TurnOf
<1>15. UNCHANGED <<group, worktree>> /\ task' = After(k, "sweep")
  BY <1>1 DEF SweepGivesUp
<1> QED
  BY <1>1, <1>2, <1>4, <1>11, <1>12, <1>13, <1>14, <1>15, MemberEnds

\* A stage that passes: everybody reported, and nothing was written that nobody accepted.
LEMMA GroupPasses ==
    ASSUME Kept, TypeOK', UNCHANGED <<member, proc, worktree, seen>>,
           InGroup, group.hold = None, NoneBusy, task' = Idle,
           group'.at = "beyond", group'.pend = None, ~group'.concl, group'.hold = group.hold,
           group'.heldReason = group.heldReason, group'.round = group.round,
           seen.lapsed \/ /\ AllReported
                          /\ \A k \in Members : group'.overridden \/ Passes(k)
                          /\ seen.lost \/ ~seen.written
    PROVE  Kept'
<1>1. Placed'
  BY Going DEF Placed
<1>2. Document'
  BY DEF Kept, Document, InGroup, Live, None
<1>3. Turns'
  BY DEF Kept, Turns, TurnOf, InGroup
<1>4. Rests'
  BY DEF Rests, NoneBusy
<1>5. Due'
  BY DEF Due, FreshDue, Begun, InGroup, Live
<1>6. Joins'
  BY DEF Joins, Begun, InGroup
<1>7. seen'.lost \/ Checkpoints'
  BY DEF Checkpoints, FreshDue, Begun, InGroup
<1>8. seen'.lapsed \/ Gates'
  BY DEF Gates, InGroup, AllReported, Passes
<1> QED
  BY <1>1, <1>2, <1>3, <1>4, <1>5, <1>6, <1>7, <1>8 DEF Kept

\* The group is sent back to the stage before it.
LEMMA GroupSentBack ==
    ASSUME Kept, TypeOK', UNCHANGED <<proc, worktree, seen>>,
           InGroup, group.reason # "budget", NoneBusy, task' = Idle, LoopBack
    PROVE  Kept'
<1>0. /\ group'.at = "repair" /\ group'.run = "running" /\ group'.status = "pending"
      /\ group'.pend = None /\ ~group'.concl /\ group'.reason = None /\ group'.hold = None
      /\ group'.heldReason = group.heldReason /\ group'.round = group.round
      /\ group'.overridden = group.overridden
      /\ \A k \in Members : /\ member'[k].status = "pending"
                            /\ member'[k].turn = member[k].turn
  BY SentBack DEF Kept
<1>1. Placed'
  BY Going DEF Placed
<1>2. Document'
  BY <1>0 DEF Kept, Document, InGroup, Live, None
<1>3. Turns'
  <2>1. ASSUME NEW k \in Members PROVE TurnOf(k)'
    <3>1. TurnOf(k) /\ member[k].status # "running"
      BY DEF Kept, Turns, NoneBusy
    <3> QED
      BY <1>0, <3>1 DEF TurnOf
  <2> QED
    BY <2>1 DEF Turns
<1>4. Rests'
  BY <1>0 DEF Rests, NoneBusy
<1>5. Due'
  BY <1>0 DEF Due, FreshDue, Begun, InGroup, Live
<1>6. Joins'
  BY <1>0 DEF Joins, Begun, InGroup
<1>7. seen'.lost \/ Checkpoints'
  BY <1>0 DEF Checkpoints, FreshDue, Begun, InGroup
<1>8. seen'.lapsed \/ Gates'
  BY <1>0 DEF Gates, InGroup
<1> QED
  BY <1>1, <1>2, <1>3, <1>4, <1>5, <1>6, <1>7, <1>8 DEF Kept

LEMMA KeptAtProgress ==
    ASSUME Kept, TypeOK', Progress
    PROVE  Kept'
<1>1. task.do = "progress" /\ Live /\ UNCHANGED <<proc, file, worktree, used, seen>>
  BY DEF Kept, Placed, Progress
<1>2. /\ Begun /\ ~FreshDue /\ InGroup /\ group.reason = None /\ used'.over = used.over
  BY <1>1, AtWork
<1>3. ASSUME NEW k \in Members, NEW kind \in Kinds, LaunchMember(k, member[k], kind, "progress"),
             UNCHANGED group,
             member[k].status = "pending" \/ (member[k].status = "running" /\ ~member[k].turn)
      PROVE  Kept'
  <2>1. member[k] \in MemberType /\ TurnOf(k)
    BY DEF Kept, TypeOK, Turns
  <2>2. ~member[k].turn /\ (seen.lost \/ proc[k] # "live")
    BY <1>3, <2>1 DEF TurnOf
  <2>3. group.end = -1
    BY <1>2, <1>3, NotJoined
  <2> QED
    BY <1>1, <1>2, <1>3, <2>1, <2>2, <2>3, MemberQueued
<1>4. ASSUME UNCHANGED <<group, member>>, task' \in {Idle, Do("join")},
             task' = Do("join") => AllReported
      PROVE  Kept'
  <2>1. Placed'
    BY <1>1, <1>4, Going DEF Placed, Live, AllReported
  <2>2. task'.do \in {"idle", "join"}
    BY <1>4, Going
  <2> QED
    BY <1>1, <1>2, <1>4, <2>1, <2>2, OthersRest
<1>5. \A k \in Members : member[k].queued \in Kinds \cup {None} /\ KindOf(k) \in Kinds
  BY DEF KindOf, Kept, TypeOK, MemberType, Kinds
<1>6. CASE Interrupted # {} /\ UNCHANGED group
           /\ LET k == Least(Interrupted)
              IN  LaunchMember(k, member[k], member[k].queued, "progress")
  <2>1. Least(Interrupted) \in Interrupted
    BY <1>6, LeastMember DEF Interrupted, Busy
  <2>2. PICK k \in Members : k = Least(Interrupted)
    BY <2>1 DEF Interrupted, Busy
  <2>3. member[k].queued \in Kinds /\ member[k].status = "running" /\ ~member[k].turn
    BY <1>5, <2>1, <2>2 DEF Interrupted, Busy
  <2> QED
    BY <1>3, <1>6, <2>2, <2>3
<1>7. CASE Pending # {} /\ UNCHANGED group
           /\ LET k == Least(Pending) IN LaunchMember(k, member[k], KindOf(k), "progress")
  <2>1. Least(Pending) \in Pending
    BY <1>7, LeastMember DEF Pending
  <2>2. PICK k \in Members : k = Least(Pending)
    BY <2>1 DEF Pending
  <2>3. member[k].status = "pending"
    BY <2>1, <2>2 DEF Pending
  <2> QED
    BY <1>3, <1>5, <1>7, <2>2, <2>3
<1>8. CASE task' = Idle /\ UNCHANGED member /\ Busy = {} /\ HoldGroup("progress")
  BY <1>1, <1>2, <1>8, BusyFields, GroupHeld DEF None
<1>9. CASE task' = Idle /\ UNCHANGED <<group, member>>
  <2>1. Idle.do # Do("join").do
    BY Going
  <2> QED
    BY <1>4, <1>9, <2>1
<1>10. CASE Settle /\ Pending \cup Busy = {} /\ Blocked # {}
  <2>1. task' = Idle /\ UNCHANGED member /\ NoneBusy
    BY <1>10, BusyFields DEF Settle
  <2>2. PICK why \in {"usage", "members-blocked"} :
           why = IF \E k \in Blocked : member[k].reason = "usage" THEN "usage" ELSE "members-blocked"
    OBVIOUS
  <2>3. group \in GroupType
    BY DEF Kept, TypeOK
  <2>4. /\ group'.at = group.at /\ group'.run = "waiting" /\ group'.pend = None /\ ~group'.concl
        /\ group'.reason = why /\ group'.status = "failed"
        /\ group'.hold = group.hold /\ group'.heldReason = group.heldReason
        /\ group'.round = group.round /\ group'.base = group.base /\ group'.end = group.end
        /\ group'.verdict = group.verdict /\ group'.overridden = group.overridden
    BY <1>10, <2>2, <2>3 DEF Settle, GroupType
  <2> QED
    BY <1>1, <2>1, <2>4, GroupParks
<1>11. CASE Settle /\ Pending \cup Busy = {} /\ Blocked = {}
  BY <1>4, <1>11, BusyFields DEF Settle
<1>12. CASE Settle /\ Pending \cup Busy # {}
  BY <1>9, <1>12 DEF Settle
<1> QED
  BY <1>6, <1>7, <1>8, <1>9, <1>10, <1>11, <1>12 DEF Progress

LEMMA KeptAtJoin ==
    ASSUME Kept, TypeOK', Join \/ JoinFails \/ Joined
    PROVE  Kept'
<1>1. /\ task.do \in {"join", "joined"} /\ Live /\ AllReported /\ NoneBusy
  BY DEF Kept, Placed, Join, JoinFails, Joined, AllReported, NoneBusy
<1>2. /\ InGroup /\ Begun /\ ~FreshDue /\ group.reason = None /\ group.hold = None
      /\ group.heldReason = None /\ group.base # -1 /\ group.status = "running"
  BY <1>1, AtWork DEF Kept, Due
<1>3. group \in GroupType
  BY DEF Kept, TypeOK
<1>4. CASE Join
  <2>1. PICK e : e = IF group.end = -1 THEN Committed.head ELSE group.end
    OBVIOUS
  <2>2. group' = [group EXCEPT !.verdict = JoinVerdict, !.end = e]
    BY <1>3, <1>4, <2>1 DEF Join, GroupType
  <2>3. /\ group'.at = group.at /\ group'.run = group.run /\ group'.pend = group.pend
        /\ group'.concl = group.concl /\ group'.reason = group.reason /\ group'.status = group.status
        /\ group'.hold = group.hold /\ group'.heldReason = group.heldReason
        /\ group'.round = group.round /\ group'.base = group.base /\ group'.end = e
        /\ group'.verdict = JoinVerdict /\ group'.overridden = group.overridden
    BY <1>3, <2>2 DEF GroupType
  <2>4. UNCHANGED <<member, proc, used, seen>> /\ task'.do = "joined"
    BY <1>4, Going DEF Join
  <2>5. e # -1 /\ (group.end # -1 => e = group.end)
    BY <2>1, CommittedTypes DEF Kept
  <2>6. Placed'
    BY <1>1, <2>3, <2>4, <2>5 DEF Placed, Live, AllReported
  <2>7. Document'
    BY <1>2, <2>3, <2>4 DEF Kept, Document, InGroup, Live
  <2>8. Turns'
    BY <2>3, <2>4 DEF Kept, Turns, TurnOf
  <2>9. Rests'
    BY <1>1, <2>4 DEF Rests, NoneBusy
  <2>10. FreshDue' <=> FreshDue
    BY <2>3 DEF FreshDue, InGroup
  <2>11. Begun'
    BY <1>2, <2>3 DEF Begun, InGroup
  <2>12. Due'
    BY <1>1, <1>2, <2>3, <2>10 DEF Kept, Due, InGroup, Live
  <2>13. JoinVerdict' = JoinVerdict /\ AllReported'
    BY <1>1, <2>4 DEF JoinVerdict, Asks, Passes, AllReported
  <2>14. Joins'
    BY <1>2, <2>3, <2>5, <2>11, <2>13 DEF Kept, Joins, InGroup
  <2>15. ASSUME Checkpoints PROVE Checkpoints'
    <3>1. PICK h \in Nat : h = worktree.head
      BY DEF Kept, TypeOK
    <3>2. PICK h1 \in Nat : h1 = worktree'.head
      BY DEF TypeOK
    <3>3. PICK b \in Nat : b = group.base
      BY <1>2, <1>3 DEF GroupType, Commits
    <3>4. CASE group.end = -1
      <4>1. worktree' = Committed
        BY <1>4, <3>4 DEF Join
      <4>2. h1 >= h /\ (worktree.dirty => h1 > h) /\ ~worktree'.dirty /\ worktree'.head = e
        BY <2>1, <3>1, <3>2, <3>4, <4>1, CommittedTypes DEF Kept
      <4>3. b <= h /\ (seen.written => worktree.dirty \/ h # b)
        BY <1>2, <2>15, <3>1, <3>3 DEF Checkpoints
      <4>4. ~group.concl
        BY <1>2, <3>4 DEF Kept, Joins
      <4>5. b <= h1
        BY <4>2, <4>3
      <4>6. seen.written => h1 # b
        <5>1. CASE worktree.dirty
          BY <4>2, <4>3, <5>1
        <5>2. CASE ~worktree.dirty
          BY <4>2, <4>3, <4>1, <3>1, <3>2, <5>2, CommittedTypes DEF Kept
        <5> QED
          BY <5>1, <5>2
      <4>7. b <= worktree'.head /\ (seen.written => worktree'.head # b)
        BY <3>2, <4>5, <4>6
      <4> QED
        BY <1>2, <2>3, <2>4, <2>10, <3>3, <4>2, <4>4, <4>7 DEF Checkpoints, None
    <3>5. CASE group.end # -1
      <4>1. worktree' = worktree
        BY <1>4, <3>5 DEF Join
      <4> QED
        BY <1>2, <2>3, <2>4, <2>5, <2>10, <2>15, <3>5, <4>1 DEF Checkpoints
    <3> QED
      BY <3>4, <3>5
  <2>16. seen'.lapsed \/ Gates'
    BY <1>2, <2>3 DEF Gates, InGroup
  <2> QED
    BY <2>4, <2>6, <2>7, <2>8, <2>9, <2>12, <2>14, <2>15, <2>16 DEF Kept
<1>5. CASE JoinFails
  <2>1. UNCHANGED <<member, proc, worktree, seen>> /\ task' = Idle /\ ParkGroup("session-error")
    BY <1>5 DEF JoinFails
  <2> QED
    BY <1>1, <2>1, ParkedGroup, GroupParks DEF Kept
<1>6. CASE Joined
  <2>1. UNCHANGED <<member, proc, worktree, used, seen>> /\ group.end # -1 /\ task.do = "joined"
    BY <1>6 DEF Kept, Placed, Joined
  <2>2. CASE group.end # group.base
    <3>1. task' = Idle /\ ParkGroup("changed-files")
      BY <1>6, <2>2 DEF Joined
    <3> QED
      BY <1>1, <2>1, <3>1, ParkedGroup, GroupParks DEF Kept
  <2>3. CASE group.end = group.base
    <3>1. group' = [group EXCEPT !.concl = TRUE] /\ task'.do = "conclude"
      BY <1>2, <1>6, <2>3, Going DEF Joined
    <3>2. /\ group'.at = group.at /\ group'.run = group.run /\ group'.pend = group.pend
          /\ group'.concl /\ group'.reason = group.reason /\ group'.status = group.status
          /\ group'.hold = group.hold /\ group'.heldReason = group.heldReason
          /\ group'.round = group.round /\ group'.base = group.base /\ group'.end = group.end
          /\ group'.verdict = group.verdict /\ group'.overridden = group.overridden
      BY <1>3, <3>1 DEF GroupType
    <3>3. Placed'
      BY <1>1, <2>1, <3>1, <3>2 DEF Placed, Live, AllReported
    <3>4. Document'
      BY <1>2, <3>1, <3>2 DEF Kept, Document, InGroup, Live
    <3>5. Turns'
      BY <2>1, <3>2 DEF Kept, Turns, TurnOf
    <3>6. Rests'
      BY <1>1, <2>1 DEF Rests, NoneBusy
    <3>7. (FreshDue' <=> FreshDue) /\ Begun'
      BY <1>2, <3>2 DEF FreshDue, Begun, InGroup
    <3>8. Due'
      BY <1>1, <1>2, <3>2, <3>7 DEF Kept, Due, InGroup, Live
    <3>9. Joins'
      BY <1>2, <2>1, <2>3, <3>2, <3>7 DEF Kept, Joins, InGroup, AllReported, JoinVerdict, Asks, Passes
    <3>10. ASSUME Checkpoints PROVE Checkpoints'
      <4>1. ~seen.written
        BY <1>2, <2>1, <2>3, <3>10 DEF Checkpoints
      <4> QED
        BY <1>2, <2>1, <3>2, <3>7, <3>10, <4>1 DEF Checkpoints
    <3>11. seen'.lapsed \/ Gates'
      BY <1>2, <3>2 DEF Gates, InGroup
    <3> QED
      BY <2>1, <3>3, <3>4, <3>5, <3>6, <3>8, <3>9, <3>10, <3>11 DEF Kept
  <2> QED
    BY <2>2, <2>3
<1> QED
  BY <1>4, <1>5, <1>6

LEMMA KeptAtConclude ==
    ASSUME Kept, TypeOK', Conclude
    PROVE  Kept'
<1>1. /\ task.do = "conclude" /\ Live /\ AllReported /\ NoneBusy /\ group.concl
  BY DEF Kept, Placed, Conclude, AllReported, NoneBusy
<1>2. /\ InGroup /\ Begun /\ group.reason = None /\ group.hold = None /\ ~group.overridden
      /\ group.end # -1
  BY <1>1, AtWork DEF Kept, Document, Joins
<1>3. /\ UNCHANGED <<proc, worktree, seen>> /\ task' = Idle
  BY DEF Conclude
<1>4. CASE Pass(group) /\ UNCHANGED member /\ group.verdict = "pass"
  <2>1. group.verdict = JoinVerdict
    BY <1>2 DEF Kept, Joins
  <2>2. \A k \in Members : Passes(k)
    BY <1>4, <2>1 DEF JoinVerdict
  <2>3. seen.lost \/ ~seen.written
    BY <1>1, <1>2 DEF Kept, Checkpoints
  <2>4. /\ group'.at = "beyond" /\ group'.pend = None /\ ~group'.concl
        /\ group'.hold = group.hold /\ group'.heldReason = group.heldReason
        /\ group'.round = group.round
    BY <1>4, PassedGroup DEF Kept
  <2> QED
    BY <1>1, <1>2, <1>3, <1>4, <2>2, <2>3, <2>4, GroupPasses
<1>5. CASE LoopBack
  BY <1>1, <1>2, <1>3, <1>5, GroupSentBack DEF None
<1>6. CASE ParkGroup("verdict-fail") /\ UNCHANGED member
  BY <1>1, <1>2, <1>3, <1>6, ParkedGroup, GroupParks DEF Kept
<1> QED
  BY <1>2, <1>4, <1>5, <1>6 DEF Conclude

\* A launch that follows on what is stored: held above the budget, else saved as pending.
LEMMA GroupLaunches ==
    ASSUME Kept, TypeOK', UNCHANGED <<member, proc, worktree, seen>>, used'.over = used.over,
           task = Idle, InGroup, used.over => NoneBusy,
           group.reason \in {None, "session-error", "usage", "members-blocked"},
           NEW how \in {"fresh", "resume"}, how = "fresh" <=> FreshDue,
           NEW b \in BOOLEAN, Launch([group EXCEPT !.resets = b], how)
    PROVE  Kept'
<1>1. CASE used.over
  BY <1>1, GroupHeld DEF Launch
<1>2. CASE ~used.over
  <2>1. group \in GroupType
    BY DEF Kept, TypeOK
  <2>2. PICK g : g = [group EXCEPT !.resets = b]
    OBVIOUS
  <2>3. group' = [g EXCEPT !.pend = how] /\ task'.do = "launch"
    BY <1>2, <2>2, Going DEF Launch
  <2>4. /\ g \in GroupType /\ g.at = group.at /\ g.run = group.run
        /\ g.concl = group.concl /\ g.reason = group.reason /\ g.status = group.status
        /\ g.hold = group.hold /\ g.heldReason = group.heldReason
        /\ g.round = group.round /\ g.base = group.base /\ g.end = group.end
        /\ g.verdict = group.verdict /\ g.overridden = group.overridden
    BY <2>1, <2>2 DEF GroupType
  <2>5. /\ group'.at = group.at /\ group'.run = group.run /\ group'.pend = how
        /\ group'.concl = group.concl /\ group'.reason = group.reason /\ group'.status = group.status
        /\ group'.hold = group.hold /\ group'.heldReason = group.heldReason
        /\ group'.round = group.round /\ group'.base = group.base /\ group'.end = group.end
        /\ group'.verdict = group.verdict /\ group'.overridden = group.overridden
    BY <2>3, <2>4 DEF GroupType
  <2>6. group.hold = None /\ group.heldReason = None
    BY DEF Kept, Document, None
  <2>7. Placed'
    BY <2>3, <2>5 DEF Placed, InGroup, None
  <2>8. Document'
    BY <2>5, <2>6 DEF Kept, Document, InGroup, Live
  <2>9. Turns'
    BY <2>5 DEF Kept, Turns, TurnOf
  <2>10. Rests'
    BY <1>2, <2>5 DEF Kept, Rests, NoneBusy, Live
  <2>11. (FreshDue' <=> FreshDue) /\ (Begun' <=> Begun)
    BY <2>5, <2>6 DEF FreshDue, Begun, InGroup, None
  <2>12. Due'
    BY <2>3, <2>5, <2>11 DEF Kept, Due, InGroup, Live
  <2>13. Joins'
    BY <2>5, <2>11 DEF Kept, Joins, InGroup, AllReported, JoinVerdict, Asks, Passes
  <2>14. seen'.lost \/ Checkpoints'
    BY <2>5, <2>11 DEF Kept, Checkpoints, InGroup
  <2>15. seen'.lapsed \/ Gates'
    BY <2>3, <2>5 DEF Gates, InGroup
  <2> QED
    BY <2>7, <2>8, <2>9, <2>10, <2>12, <2>13, <2>14, <2>15 DEF Kept
<1> QED
  BY <1>1, <1>2

LEMMA KeptAtPoll ==
    ASSUME Kept, TypeOK', Poll
    PROVE  Kept'
<1>1. task = Idle /\ UNCHANGED <<member, proc, worktree, seen, used>>
  BY DEF Poll
<1>2. group \in GroupType /\ [group EXCEPT !.resets = group.resets] = group
      /\ group.resets \in BOOLEAN
  BY DEF Kept, TypeOK, GroupType
<1>3. ASSUME InGroup, NEW how \in {"fresh", "resume"}, Launch(group, how),
             how = "fresh" <=> FreshDue, used.over => NoneBusy,
             group.reason \in {None, "session-error", "usage", "members-blocked"}
      PROVE  Kept'
  <2>1. PICK b \in BOOLEAN : b = group.resets
    BY <1>2
  <2>2. Launch([group EXCEPT !.resets = b], how)
    BY <1>2, <1>3, <2>1
  <2> QED
    BY <1>1, <1>3, <2>2, GroupLaunches
<1>4. CASE group.cancel
  <2>1. task'.do = "cancel" /\ group' = group
    BY <1>4, Going DEF Poll
  <2>2. Placed'
    BY <2>1 DEF Placed
  <2> QED
    BY <1>1, <2>1, <2>2, Going, OthersRest
<1>5. CASE ~group.cancel /\ group.run = "waiting"
  <2>1. InGroup /\ group.reason = "usage" /\ Launch(group, "resume")
    BY <1>5 DEF Poll, InGroup
  <2>2. ~FreshDue /\ NoneBusy
    BY <1>5, <2>1 DEF Kept, Due, Rests, Live, None
  <2> QED
    BY <1>3, <2>1, <2>2
<1>6. CASE ~group.cancel /\ group.run # "waiting" /\ group.pend # None
  <2>1. InGroup /\ Launch(group, group.pend) /\ group.pend \in {"fresh", "resume"}
    BY <1>2, <1>6 DEF Poll, InGroup, GroupType
  <2>2. Live /\ group.reason = None /\ group.hold = None
    BY <1>2, <1>6, <2>1 DEF Kept, Live, Document, GroupType, InGroup
  <2>3. group.pend = "fresh" <=> FreshDue
    BY <2>1, <2>2 DEF FreshDue, None
  <2>4. used.over => NoneBusy
    BY <1>6 DEF Kept, Rests
  <2>5. PICK how \in {"fresh", "resume"} : how = group.pend
    BY <2>1
  <2> QED
    BY <1>3, <2>1, <2>2, <2>3, <2>4, <2>5 DEF None
<1>7. CASE ~group.cancel /\ group.run # "waiting" /\ group.pend = None
  <2>1. InGroup /\ group' = group
        /\ task' = IF group.concl THEN Do("conclude") ELSE [Do("sweep") EXCEPT !.m = 1]
    BY <1>7 DEF Poll, InGroup
  <2>2. Live /\ ~FreshDue
    <3>1. Live /\ group.hold = None
      BY <1>2, <1>7, <2>1 DEF Kept, Live, Document, GroupType, InGroup
    <3> QED
      BY <1>7, <3>1 DEF FreshDue, None
  <2>3. Do("sweep") \in TaskType /\ Do("sweep").do = "sweep"
    BY Going
  <2>4. [Do("sweep") EXCEPT !.m = 1].do = "sweep" /\ [Do("sweep") EXCEPT !.m = 1].m = 1
    BY <2>3 DEF TaskType
  <2>5. \/ task'.do = "conclude" /\ group.concl
        \/ task'.do = "sweep" /\ task'.m \in Members
    BY <2>1, <2>4, Going, Bounds
  <2>6. group.concl => AllReported
    BY <2>1 DEF Kept, Joins
  <2>7. Placed'
    BY <1>1, <1>7, <2>1, <2>2, <2>5, <2>6 DEF Placed, Live, AllReported
  <2> QED
    BY <1>1, <2>1, <2>2, <2>5, <2>7, Going, OthersRest
<1> QED
  BY <1>4, <1>5, <1>6, <1>7

\* What a launch makes of the members.
LEMMA Launching ==
    ASSUME Kept, task.do = "launch", member' = [k \in Members |-> Launched(k)],
           UNCHANGED <<proc, seen>>, group.pend # "fresh" => group'.round = group.round
    PROVE  /\ InGroup /\ group.pend # None /\ group.hold = None /\ group.heldReason = None
           /\ group.pend = "fresh" <=> FreshDue
           /\ group.pend # "fresh" <=> Begun
           /\ Turns'
           /\ FreshDue \/ NoneBusy => NoneBusy'
           /\ Begun /\ AllReported => member' = member
<1>1. InGroup /\ group.pend # None /\ group.hold = None /\ group.heldReason = None
  BY DEF Kept, Placed, Document
<1>2. (group.pend = "fresh" <=> FreshDue) /\ (group.pend # "fresh" <=> Begun)
  BY <1>1 DEF FreshDue, Begun, None
<1>3. member \in [Members -> MemberType] /\ \A k \in Members : member[k] \in MemberType
  BY DEF Kept, TypeOK
<1>4. ASSUME NEW k \in Members
      PROVE  /\ \/ member'[k] = member[k] /\ ~FreshDue
                \/ /\ member'[k].status = "pending" /\ ~member[k].turn
                   /\ member'[k].turn = member[k].turn
                   /\ member[k].status # "reported" \/ FreshDue
             /\ TurnOf(k)'
  <2>1. TurnOf(k)
    BY DEF Kept, Turns
  <2>2. member'[k] = Launched(k)
    BY DEF Launched
  <2>3. CASE group.pend = "fresh"
    <3>1. member'[k] = ResetMember(member[k])
      BY <2>2, <2>3 DEF Launched
    <3>2. member'[k].status = "pending" /\ member'[k].turn = member[k].turn
      BY <1>3, <3>1, MemberFields
    <3>3. member[k].status = "pending" /\ ~member[k].turn
      BY <1>2, <2>1, <2>3 DEF Kept, Due, TurnOf
    <3> QED
      BY <1>2, <2>1, <2>3, <3>2, <3>3 DEF TurnOf
  <2>4. CASE group.pend # "fresh" /\ member[k].status # "reported" /\ ~member[k].turn
               /\ member'[k] = ResetMember(member[k])
    <3>1. member'[k].status = "pending" /\ member'[k].turn = member[k].turn
      BY <1>3, <2>4, MemberFields
    <3> QED
      BY <2>1, <2>4, <3>1 DEF TurnOf
  <2>5. CASE group.pend # "fresh" /\ member'[k] = member[k]
    BY <1>2, <2>1, <2>5 DEF TurnOf
  <2> QED
    BY <2>2, <2>3, <2>4, <2>5 DEF Launched
<1>5. Turns'
  BY <1>4 DEF Turns
<1>6. FreshDue \/ NoneBusy => NoneBusy'
  BY <1>4 DEF NoneBusy
<1>7. ASSUME Begun, AllReported PROVE member' = member
  <2>1. \A k \in Members : member'[k] = member[k]
    BY <1>2, <1>4, <1>7 DEF AllReported
  <2>2. \A k \in Members : Launched(k) = member[k]
    BY <2>1 DEF Launched
  <2> QED
    BY <1>3, <2>2
<1> QED
  BY <1>1, <1>2, <1>5, <1>6, <1>7

LEMMA KeptAtLaunch ==
    ASSUME Kept, TypeOK', LaunchGroup \/ LaunchFails
    PROVE  Kept'
<1>1. /\ task.do = "launch" /\ member' = [k \in Members |-> Launched(k)]
      /\ UNCHANGED <<proc, seen>>
  BY DEF LaunchGroup, LaunchFails
<1>2. /\ Opened.at = "group" /\ Opened.run = "running" /\ Opened.pend = None
      /\ ~Opened.concl /\ Opened.reason = None /\ Opened.status = "running"
      /\ Opened.hold = group.hold /\ Opened.heldReason = group.heldReason
      /\ Opened.verdict = group.verdict /\ ~Opened.overridden
      /\ group.pend = "fresh" => Opened.base = -1 /\ Opened.end = -1
      /\ group.pend # "fresh" => /\ Opened.round = group.round /\ Opened.base = group.base
                                 /\ Opened.end = group.end
  BY OpenedGroup DEF Kept
<1>3. Opened \in GroupType
  BY GroupTypes DEF Kept
<1>4. CASE LaunchGroup
  <2>1. PICK b : b = IF Opened.base # -1 THEN Opened.base ELSE worktree'.head
    OBVIOUS
  <2>2. group' = [Opened EXCEPT !.base = b]
    BY <1>3, <1>4, <2>1 DEF LaunchGroup, GroupType
  <2>3. /\ group'.at = "group" /\ group'.run = "running" /\ group'.pend = None
        /\ ~group'.concl /\ group'.reason = None /\ group'.status = "running"
        /\ group'.hold = group.hold /\ group'.heldReason = group.heldReason
        /\ group'.verdict = group.verdict /\ ~group'.overridden
        /\ group'.round = Opened.round /\ group'.base = b /\ group'.end = Opened.end
    BY <1>2, <1>3, <2>2 DEF GroupType
  <2>4. /\ InGroup /\ group.pend # None /\ group.hold = None /\ group.heldReason = None
        /\ group.pend = "fresh" <=> FreshDue
        /\ group.pend # "fresh" <=> Begun
        /\ Turns'
        /\ Begun /\ AllReported => member' = member
    BY <1>1, <1>2, <2>3, Launching
  <2>5. task'.do = "progress"
    BY <1>4, Going DEF LaunchGroup
  <2>6. worktree'.head \in Nat /\ b # -1
    BY <2>1 DEF TypeOK
  <2>7. Begun' /\ ~FreshDue' /\ Live'
    BY <2>3, <2>4 DEF Begun, FreshDue, InGroup, Live, None
  <2>8. Placed'
    BY <2>5, <2>7 DEF Placed
  <2>9. Document'
    BY <2>3, <2>4, <2>7 DEF Document, InGroup, Live, None
  <2>10. Rests'
    BY <2>3, <2>7 DEF Rests
  <2>11. Due'
    BY <2>3, <2>6, <2>7 DEF Due
  <2>12. group'.end # -1 => Begun /\ group'.end = group.end /\ AllReported /\ member' = member
    BY <1>2, <2>3, <2>4 DEF Kept, Joins
  <2>13. Joins'
    BY <2>3, <2>7, <2>12 DEF Kept, Joins, InGroup, AllReported, JoinVerdict, Asks, Passes, None
  <2>14. ASSUME Checkpoints PROVE Checkpoints'
    <3>1. CASE Opened.base # -1
      <4>1. worktree' = worktree /\ b = group.base /\ Begun
        BY <1>2, <1>4, <2>1, <2>4, <3>1 DEF LaunchGroup
      <4> QED
        BY <1>1, <2>3, <2>7, <2>12, <2>14, <3>1, <4>1, <1>2, <2>4 DEF Checkpoints, InGroup, None
    <3>2. CASE Opened.base = -1
      <4>1. ~seen.written /\ group'.end = -1
        BY <1>2, <2>3, <2>4, <2>14, <3>2 DEF Checkpoints, Kept, Due
      <4>2. b = worktree'.head
        BY <2>1, <3>2
      <4> QED
        BY <1>1, <2>3, <2>6, <2>7, <4>1, <4>2 DEF Checkpoints
    <3> QED
      BY <3>1, <3>2
  <2>15. seen'.lapsed \/ Gates'
    BY <2>3 DEF Gates
  <2> QED
    BY <1>1, <2>4, <2>8, <2>9, <2>10, <2>11, <2>13, <2>14, <2>15 DEF Kept
<1>5. CASE LaunchFails
  <2>1. group' = [Opened EXCEPT !.run = "waiting", !.status = "failed", !.reason = "session-error"]
        /\ Opened.base = -1 /\ worktree' = worktree
    BY <1>5 DEF LaunchFails
  <2>2. /\ group'.at = "group" /\ group'.run = "waiting" /\ group'.pend = None
        /\ ~group'.concl /\ group'.reason = "session-error" /\ group'.status = "failed"
        /\ group'.hold = group.hold /\ group'.heldReason = group.heldReason
        /\ group'.verdict = group.verdict /\ ~group'.overridden
        /\ group'.round = Opened.round /\ group'.base = -1 /\ group'.end = Opened.end
    BY <1>2, <1>3, <2>1 DEF GroupType
  <2>3. /\ InGroup /\ group.pend # None /\ group.hold = None /\ group.heldReason = None
        /\ group.pend = "fresh" <=> FreshDue
        /\ group.pend # "fresh" <=> Begun
        /\ Turns'
        /\ FreshDue \/ NoneBusy => NoneBusy'
    BY <1>1, <1>2, <2>2, Launching
  <2>4. task'.do = "idle"
    BY <1>5, Going DEF LaunchFails
  <2>5. /\ Begun' /\ ~FreshDue' /\ ~Live' /\ group'.end = -1
        /\ FreshDue \/ NoneBusy
    <3>1. Begun' /\ ~FreshDue' /\ ~Live'
      BY <2>2, <2>3 DEF Begun, FreshDue, InGroup, Live, None
    <3>2. Begun => group.base = -1 /\ group.end = -1 /\ group.run = "waiting"
      BY <1>2, <2>1, <2>3 DEF Kept, Due
    <3>3. Begun => NoneBusy
      BY <3>2 DEF Kept, Rests, Live
    <3> QED
      BY <1>2, <2>2, <2>3, <3>1, <3>2, <3>3
  <2>6. Placed'
    BY <2>4 DEF Placed
  <2>7. Document'
    BY <2>2, <2>3, <2>5 DEF Document, InGroup, None
  <2>8. Rests'
    BY <2>3, <2>5 DEF Rests
  <2>9. Due'
    BY <2>2, <2>3, <2>5 DEF Due, InGroup, None
  <2>10. Joins'
    BY <2>2, <2>5 DEF Joins
  <2>11. ASSUME Checkpoints PROVE Checkpoints'
    <3>1. ~seen.written
      BY <1>2, <2>1, <2>3, <2>11 DEF Checkpoints
    <3> QED
      BY <1>1, <2>2, <2>5, <3>1 DEF Checkpoints
  <2>12. seen'.lapsed \/ Gates'
    BY <2>2 DEF Gates
  <2> QED
    BY <1>1, <2>3, <2>6, <2>7, <2>8, <2>9, <2>10, <2>11, <2>12 DEF Kept
<1> QED
  BY <1>4, <1>5

LEMMA KeptAtCrash ==
    ASSUME Kept, TypeOK', Crash \/ CancelFails \/ CancelTurn
    PROVE  Kept'
<1>1. UNCHANGED <<group, member, worktree>> /\ used'.over = used.over
  BY UsedTypes DEF Kept, Crash, CancelFails, CancelTurn
<1>2. seen \in [lost : BOOLEAN, lapsed : BOOLEAN, written : BOOLEAN] /\ proc \in [Members -> Ends]
  BY DEF Kept, TypeOK, Ends
<1>3. CASE Crash \/ CancelFails
  <2>1. task'.do = "idle"
    BY <1>3, Going DEF Crash, CancelFails
  <2>2. Placed'
    BY <2>1 DEF Placed
  <2>3. /\ seen'.lost = seen.lost /\ seen'.written = seen.written
        /\ seen.lapsed => seen'.lapsed
        /\ task.do = "launch" /\ group.status = "gate" => seen'.lapsed
    BY <1>2, <1>3 DEF Crash, CancelFails
  <2>4. \A k \in Members : proc'[k] = "live" => proc[k] = "live" \/ member[k].turn
    <3>1. CASE task.do = "start" /\ Crash
      <4>1. task.m \in Members /\ member[task.m].turn
        BY <3>1 DEF Kept, Placed
      <4>2. \A k \in Members \ {task.m} : proc'[k] = proc[k]
        BY <1>2, <3>1 DEF Crash
      <4> QED
        BY <4>1, <4>2
    <3>2. CASE proc' = proc
      BY <3>2
    <3> QED
      BY <1>3, <3>1, <3>2 DEF Crash, CancelFails
  <2> QED
    BY <1>1, <2>1, <2>2, <2>3, <2>4, OthersRest
<1>4. CASE CancelTurn
  <2>1. task' = task /\ seen' = seen /\ task.do = "cancel" /\ proc' = [proc EXCEPT ![Least(Alive)] = "stopped"]
    BY <1>4 DEF CancelTurn
  <2>2. Placed'
    BY <2>1 DEF Placed
  <2>3. \A k \in Members : proc'[k] = "live" => proc[k] = "live"
    BY <1>2, <2>1
  <2> QED
    BY <1>1, <2>1, <2>2, <2>3, OthersRest
<1> QED
  BY <1>3, <1>4

LEMMA KeptAtCancel ==
    ASSUME Kept, TypeOK', Cancelled
    PROVE  Kept'
<1>1. /\ task' = Idle /\ UNCHANGED <<proc, worktree, used, seen>> /\ Alive = {}
  BY DEF Cancelled
<1>2. group \in GroupType /\ member \in [Members -> MemberType]
  BY DEF Kept, TypeOK
<1>3. group'.at = "cancelled" /\ group'.pend = None /\ group'.hold = group.hold
      /\ group'.heldReason = group.heldReason /\ group'.round = group.round
  BY <1>2 DEF Cancelled, GroupType
<1>4. ASSUME NEW k \in Members
      PROVE  /\ ~member'[k].turn /\ member'[k].status # "running" /\ member'[k].status # "gate"
             /\ member'[k].status = "reported" => member[k].status = "reported"
             /\ member'[k].overridden = member[k].overridden /\ member'[k].round = member[k].round
  <2>1. member'[k] = [member[k] EXCEPT !.turn = FALSE,
                     !.status = IF @ \in {"running", "gate"} THEN "cancelled" ELSE @]
    BY DEF Cancelled
  <2> QED
    BY <1>2, <2>1 DEF MemberType
<1>5. Placed'
  BY <1>1, Going DEF Placed
<1>6. Document'
  BY <1>3 DEF Kept, Document, InGroup, Live
<1>7. Turns'
  <2>1. ASSUME NEW k \in Members PROVE TurnOf(k)'
    <3>1. TurnOf(k) /\ ~(member[k].turn /\ proc[k] = "live")
      BY <1>1 DEF Kept, Turns, Alive
    <3> QED
      BY <1>1, <1>3, <1>4, <3>1 DEF TurnOf
  <2> QED
    BY <2>1 DEF Turns
<1>8. Rests'
  BY <1>4 DEF Rests, NoneBusy
<1>9. Due'
  BY <1>3 DEF Due, FreshDue, Begun, InGroup
<1>10. Joins'
  BY <1>3 DEF Joins, Begun, InGroup
<1>11. seen'.lost \/ Checkpoints'
  BY <1>3 DEF Checkpoints, FreshDue, Begun, InGroup
<1>12. seen'.lapsed \/ Gates'
  BY <1>3 DEF Gates, InGroup
<1> QED
  BY <1>5, <1>6, <1>7, <1>8, <1>9, <1>10, <1>11, <1>12 DEF Kept

LEMMA KeptAtCLI ==
    ASSUME Kept, TypeOK', NEW k \in Members, ProcEnds(k) \/ Write(k)
    PROVE  Kept'
<1>1. UNCHANGED <<group, member, task>> /\ proc[k] = "live" /\ TurnOf(k)
  BY DEF Kept, Turns, ProcEnds, Write
<1>2. CASE ProcEnds(k)
  <2>1. proc \in [Members -> Ends]
    BY DEF Kept, TypeOK, Ends
  <2>2. /\ \A j \in Members \ {k} : proc'[j] = proc[j]
        /\ UNCHANGED <<worktree, seen>>
    BY <1>2, <2>1 DEF ProcEnds
  <2>3. used'.over = used.over
    BY <1>2, UsedTypes DEF ProcEnds, Kept
  <2>4. task.do = "start" => task.m # k
    BY <1>1 DEF Kept, Placed, None
  <2>5. Placed'
    BY <1>1, <2>2, <2>3, <2>4 DEF Kept, Placed, Live, InGroup, AllReported
  <2> QED
    BY <1>1, <2>2, <2>3, <2>5, OthersRest DEF Kept, Due
<1>3. CASE Write(k)
  <2>1. UNCHANGED proc /\ worktree' = [worktree EXCEPT !.dirty = TRUE]
        /\ seen' = [seen EXCEPT !.written = TRUE]
        /\ used' = [used EXCEPT !.writes = @ + 1]
    BY <1>3 DEF Write
  <2>2. /\ used'.over = used.over /\ seen'.lost = seen.lost /\ seen'.lapsed = seen.lapsed
        /\ worktree'.dirty /\ worktree'.head = worktree.head
    BY <2>1 DEF Kept, TypeOK
  <2>3. Placed'
    BY <1>1, <2>1, <2>2 DEF Kept, Placed, Live, InGroup, AllReported
  <2>4. Document'
    BY <1>1 DEF Kept, Document, InGroup, Live
  <2>5. Turns'
    BY <1>1, <2>1, <2>2 DEF Kept, Turns, TurnOf
  <2>6. Rests'
    BY <1>1, <2>2 DEF Kept, Rests, NoneBusy, Live
  <2>7. Due'
    BY <1>1 DEF Kept, Due, FreshDue, Begun, InGroup, Live
  <2>8. Joins'
    BY <1>1 DEF Kept, Joins, Begun, InGroup, AllReported, JoinVerdict, Asks, Passes
  <2>9. ASSUME ~seen.lost
        PROVE  /\ Live /\ ~FreshDue /\ group.end = -1
               /\ Begun => group.base # -1
               /\ InGroup => ~group.concl /\ group.reason # "verdict-fail"
    <3>1. member[k].turn /\ member[k].status = "running"
      BY <1>1, <2>9 DEF TurnOf
    <3>2. Live /\ ~FreshDue
      BY <3>1 DEF Kept, Rests, NoneBusy, Due
    <3>3. Begun
      BY <3>2 DEF Begun, FreshDue, Live, InGroup
    <3>4. group.end = -1
      BY <3>1, <3>3, NotJoined
    <3> QED
      BY <3>2, <3>3, <3>4 DEF Kept, Joins, Due, Live
  <2>10. ASSUME ~seen.lost PROVE Checkpoints'
    <3>1. Checkpoints
      BY <2>10 DEF Kept
    <3> QED
      BY <1>1, <2>2, <2>9, <2>10, <3>1 DEF Checkpoints, FreshDue, Begun, InGroup
  <2>11. seen'.lapsed \/ Gates'
    BY <1>1, <2>2, <2>9 DEF Kept, Gates, InGroup, AllReported, Passes, Live
  <2> QED
    BY <2>2, <2>3, <2>4, <2>5, <2>6, <2>7, <2>8, <2>10, <2>11 DEF Kept
<1> QED
  BY <1>2, <1>3

\* The stage before the group passes: the group is due, and held above the budget.
LEMMA KeptAtRepair ==
    ASSUME Kept, TypeOK', Repair
    PROVE  Kept'
<1>1. /\ task = Idle /\ group.at = "repair" /\ UNCHANGED <<member, proc, file>>
      /\ seen' = [seen EXCEPT !.written = FALSE]
  BY DEF Repair
<1>2. group \in GroupType /\ ~seen'.written /\ seen'.lost = seen.lost /\ seen'.lapsed = seen.lapsed
  BY <1>1 DEF Kept, TypeOK
<1>3. /\ group.run = "running" /\ group.status = "pending" /\ group.reason = None
      /\ group.hold = None /\ group.heldReason = None /\ group.pend = None
      /\ ~group.concl /\ ~group.overridden
      /\ \A k \in Members : member[k].status = "pending"
  BY <1>1 DEF Kept, Document, Due
<1>4. /\ group'.at = "group" /\ ~group'.concl /\ ~group'.overridden
      /\ group'.heldReason = None /\ group'.round = group.round
      /\ \/ /\ group'.run = "waiting" /\ group'.status = "gate" /\ group'.reason = "budget"
            /\ group'.hold = "fresh" /\ group'.pend = None /\ task'.do = "idle"
         \/ /\ group'.run = "running" /\ group'.status = "pending" /\ group'.reason = None
            /\ group'.hold = None /\ group'.pend = "fresh" /\ task'.do = "launch"
  <2>1. CASE used'.over
    <3>1. /\ group' = [group EXCEPT !.at = "group", !.run = "waiting", !.status = "gate",
                        !.reason = "budget", !.hold = "fresh", !.heldReason = None]
          /\ task' = Idle
      BY <2>1 DEF Repair
    <3> QED
      BY <1>2, <1>3, <3>1, Going DEF GroupType
  <2>2. CASE ~used'.over
    <3>1. group' = [group EXCEPT !.at = "group", !.pend = "fresh"] /\ task' = Do("launch")
      BY <2>2 DEF Repair
    <3> QED
      BY <1>2, <1>3, <3>1, Going DEF GroupType
  <2> QED
    BY <2>1, <2>2
<1>5. FreshDue' /\ ~Begun'
  BY <1>4 DEF FreshDue, Begun, InGroup
<1>6. Placed'
  BY <1>4 DEF Placed, InGroup, None
<1>7. Document'
  BY <1>4 DEF Document, InGroup, Live, None
<1>8. Turns'
  BY <1>1, <1>2, <1>4 DEF Kept, Turns, TurnOf
<1>9. Rests'
  BY <1>1, <1>3 DEF Rests, NoneBusy
<1>10. Due'
  BY <1>1, <1>3, <1>4, <1>5 DEF Due
<1>11. Joins'
  BY <1>4, <1>5 DEF Joins, None
<1>12. seen'.lost \/ Checkpoints'
  BY <1>2, <1>4, <1>5 DEF Checkpoints
<1>13. seen'.lapsed \/ Gates'
  BY <1>4 DEF Gates
<1> QED
  BY <1>6, <1>7, <1>8, <1>9, <1>10, <1>11, <1>12, <1>13 DEF Kept

\* The owner decides on a member: a parked group joins again.
LEMMA Reopens ==
    ASSUME Kept, TypeOK', UNCHANGED <<proc, worktree, seen>>, task.do = "idle",
           used'.over = used.over, InGroup, group' = Reopened,
           group.status = "running"
              \/ group.reason \in {"members-blocked", "usage", "verdict-fail"},
           NEW k \in Members, group.status = "running" => member[k].status # "reported",
           Turns', NoneBusy => NoneBusy',
           \/ task'.do = "progress"
           \/ /\ task'.do = "prepare" /\ task'.m = k /\ task'.back = "progress" /\ ~used.over
              /\ member'[k].queued # None /\ ~member'[k].turn
    PROVE  Kept'
<1>0. /\ group'.at = group.at /\ group'.pend = group.pend /\ group'.concl = group.concl
      /\ group'.hold = group.hold /\ group'.heldReason = group.heldReason
      /\ group'.round = group.round /\ group'.base = group.base
      /\ group'.overridden = group.overridden
      /\ group.status = "running" => group' = group
      /\ group.status # "running" => /\ group'.run = "running" /\ group'.status = "running"
                                     /\ group'.reason = None /\ group'.end = -1
  BY ReopenedGroup DEF Kept
<1>1. ~FreshDue /\ Begun
  BY DEF Kept, Due, FreshDue, Begun, InGroup, None
<1>2. /\ group.hold = None /\ group.heldReason = None /\ group.base # -1
      /\ ~group'.overridden
  BY <1>0, <1>1 DEF Kept, Document, Due, InGroup, Live
<1>3. group'.end = -1
  BY <1>0, <1>1, NotJoined
<1>4. /\ group'.status = "running" /\ group'.run = "running" /\ Live' /\ group'.reason = None
      /\ ~group'.concl
  BY <1>0, <1>1, <1>3 DEF Kept, Document, Joins, Live, InGroup
<1>5. ~FreshDue' /\ Begun'
  BY <1>0, <1>1 DEF FreshDue, Begun, InGroup
<1>6. Placed'
  BY <1>3, <1>4 DEF Placed, InGroup
<1>7. Document'
  BY <1>0, <1>2, <1>4 DEF Document, InGroup, None
<1>8. Rests'
  BY <1>0, <1>4 DEF Kept, Rests
<1>9. Due'
  BY <1>0, <1>2, <1>4, <1>5, Zenon DEF Due, InGroup
<1>10. Joins'
  BY <1>3, <1>4 DEF Joins, None
<1>11. seen'.lost \/ Checkpoints'
  BY <1>0, <1>1, <1>2, <1>3, <1>4, <1>5 DEF Kept, Checkpoints, None
<1>12. seen'.lapsed \/ Gates'
  BY <1>0, <1>4 DEF Gates, InGroup
<1> QED
  BY <1>6, <1>7, <1>8, <1>9, <1>10, <1>11, <1>12 DEF Kept

LEMMA KeptAtMember ==
    ASSUME Kept, TypeOK', NEW k \in Members, OnMember(k)
    PROVE  Kept'
<1>1. /\ UNCHANGED <<proc, worktree, seen>> /\ task.do = "idle" /\ used'.over = used.over
      /\ group' = Reopened /\ InGroup
      /\ group.status = "running"
            \/ group.reason \in {"members-blocked", "usage", "verdict-fail"}
  BY Going, UsedTypes DEF Kept, OnMember, Retry, Override, Feedback, Reconcile, Decide, Collecting,
     InGroup
<1>2. /\ member \in [Members -> MemberType] /\ member[k] \in MemberType /\ TurnOf(k)
      /\ group'.round = group.round
  BY <1>1, ReopenedGroup DEF Kept, TypeOK, Turns
<1>3. ASSUME NEW x \in MemberType, member'[k] = x,
             \A j \in Members \ {k} : member'[j] = member[j],
             member[k].status \notin {"running"}, x.status # "running", x.turn = member[k].turn,
             x.status = "gate" => x.reason = "verdict",
             x.status = "reported" => x.overridden \/ x.round = group.round,
             group.status = "running" => member[k].status # "reported",
             \/ task'.do = "progress"
             \/ /\ task'.do = "prepare" /\ task'.m = k /\ task'.back = "progress" /\ ~used.over
                /\ x.queued # None
      PROVE  Kept'
  <2>1. ~member[k].turn
    BY <1>2, <1>3 DEF TurnOf
  <2>2. Turns'
    <3>1. TurnOf(k)'
      BY <1>1, <1>2, <1>3, <2>1 DEF TurnOf
    <3>2. ASSUME NEW j \in Members \ {k} PROVE TurnOf(j)'
      BY <1>1, <1>2, <1>3 DEF Kept, Turns, TurnOf
    <3> QED
      BY <3>1, <3>2 DEF Turns
  <2>3. NoneBusy => NoneBusy'
    BY <1>3 DEF NoneBusy
  <2> QED
    BY <1>1, <1>3, <2>1, <2>2, <2>3, Reopens
<1>4. CASE Retry(k)
  <2>1. PICK x : x = [member[k] EXCEPT !.status = "pending", !.reason = None, !.queued = None]
    OBVIOUS
  <2>2. x \in MemberType /\ x.status = "pending" /\ x.turn = member[k].turn
    BY <1>2, <2>1 DEF MemberType
  <2>3. member'[k] = x /\ \A j \in Members \ {k} : member'[j] = member[j]
    BY <1>2, <1>4, <2>1 DEF Retry
  <2>4. member[k].status = "failed" /\ task'.do = "progress"
    BY <1>4, Going DEF Retry
  <2> QED
    BY <1>3, <2>2, <2>3, <2>4
<1>5. CASE Override(k)
  <2>1. PICK x : x = Overridden(member[k])
    OBVIOUS
  <2>2. x \in MemberType /\ x.status = "reported" /\ x.overridden /\ x.turn = member[k].turn
    BY <1>2, <2>1, MemberTypes, MemberFields
  <2>3. member'[k] = x /\ \A j \in Members \ {k} : member'[j] = member[j]
    BY <1>2, <1>5, <2>1 DEF Override
  <2>4. member[k].status \in {"failed", "gate"} /\ task'.do = "progress"
    BY <1>5, Going DEF Override, TurnFailed
  <2> QED
    BY <1>3, <2>2, <2>3, <2>4
<1>6. CASE Feedback(k)
  <2>1. PICK x : x = [member[k] EXCEPT !.queued = "feedback",
                                       !.status = IF used'.over THEN "pending" ELSE @]
    OBVIOUS
  <2>2. /\ x \in MemberType /\ x.queued # None /\ x.turn = member[k].turn
        /\ x.reason = member[k].reason /\ x.overridden = member[k].overridden
        /\ x.round = member[k].round
        /\ x.status = IF used'.over THEN "pending" ELSE member[k].status
    <3>1. PICK s : s = IF used'.over THEN "pending" ELSE member[k].status
      OBVIOUS
    <3>2. s \in {"pending", "running", "reported", "failed", "gate", "cancelled"}
      BY <1>2, <3>1 DEF MemberType
    <3>3. x = [member[k] EXCEPT !.queued = "feedback", !.status = s]
      BY <1>2, <2>1, <3>1 DEF MemberType
    <3> QED
      BY <1>2, <3>1, <3>2, <3>3 DEF MemberType, None
  <2>3. LaunchMember(k, member[k], "feedback", "progress")
    BY <1>6 DEF Feedback
  <2>4. member'[k] = x /\ \A j \in Members \ {k} : member'[j] = member[j]
    BY <1>2, <2>1, <2>3 DEF LaunchMember
  <2>5. /\ member[k].status \in {"reported", "gate"}
        /\ group.status = "running" => member[k].status # "reported"
    BY <1>6 DEF Feedback
  <2>6. \/ task'.do = "progress"
        \/ task'.do = "prepare" /\ task'.m = k /\ task'.back = "progress" /\ ~used.over
    BY <1>1, <2>3, Going DEF LaunchMember, After
  <2>7. x.status \in {"pending", member[k].status}
    BY <2>2
  <2> QED
    BY <1>2, <1>3, <2>2, <2>4, <2>5, <2>6, <2>7 DEF TurnOf
<1>7. CASE Reconcile(k)
  <2>1. PICK x : x = [member[k] EXCEPT !.status = "reported", !.verdict = file[k], !.reason = None]
    OBVIOUS
  <2>2. /\ x \in MemberType /\ x.status = "reported" /\ x.turn = member[k].turn
        /\ x.round = group.round
    BY <1>2, <1>7, <2>1 DEF Reconcile, TurnFailed, HasTurn, MemberType
  <2>3. member'[k] = x /\ \A j \in Members \ {k} : member'[j] = member[j]
    BY <1>2, <1>7, <2>1 DEF Reconcile
  <2>4. member[k].status = "failed" /\ task'.do = "progress"
    BY <1>7, Going DEF Reconcile, TurnFailed
  <2> QED
    BY <1>3, <2>2, <2>3, <2>4
<1> QED
  BY <1>4, <1>5, <1>6, <1>7 DEF OnMember

LEMMA KeptAtOwner ==
    ASSUME Kept, TypeOK', RetryGroup \/ OverrideMembers \/ PassGate \/ OwnerLoopBack
    PROVE  Kept'
<1>1. /\ task = Idle /\ task.do = "idle" /\ used'.over = used.over
      /\ InGroup /\ group.run = "waiting" /\ NoneBusy
      /\ UNCHANGED <<proc, worktree, seen>>
  BY Going, UsedTypes
     DEF Kept, RetryGroup, OverrideMembers, PassGate, OwnerLoopBack, Decide, Waiting, InGroup,
         Rests, Live
<1>2. CASE RetryGroup
  <2>1. group.reason \in {"session-error", "usage", "members-blocked"} /\ ~FreshDue
    BY <1>1, <1>2 DEF RetryGroup, Kept, Document, Due
  <2>2. Launch([group EXCEPT !.resets = FALSE], "resume") /\ UNCHANGED member
    BY <1>2 DEF RetryGroup
  <2>3. FALSE \in BOOLEAN /\ "resume" \in {"fresh", "resume"} /\ "resume" # "fresh"
    OBVIOUS
  <2>4. group.reason \in {None, "session-error", "usage", "members-blocked"}
    BY <2>1
  <2> QED
    BY <1>1, <2>1, <2>2, <2>3, <2>4, GroupLaunches
<1>3. CASE OverrideMembers
  <2>1. /\ group.reason = "members-blocked" /\ group.status # "running" /\ group' = Reopened
        /\ task'.do = "progress"
    BY <1>1, <1>3, Going DEF OverrideMembers, Kept, Document, Live, InGroup, None
  <2>2. group'.round = group.round
    BY <2>1, ReopenedGroup DEF Kept
  <2>3. ASSUME NEW k \in Members
        PROVE  TurnOf(k)' /\ member'[k].status # "running"
    <3>1. TurnOf(k) /\ member[k] \in MemberType /\ member[k].status # "running"
      BY <1>1 DEF Kept, Turns, TypeOK, NoneBusy
    <3>2. CASE k \in Blocked
      <4>1. member'[k] = Overridden(member[k])
        BY <1>3, <3>2 DEF OverrideMembers
      <4>2. /\ member'[k].status = "reported" /\ member'[k].overridden
            /\ member'[k].turn = member[k].turn
        BY <3>1, <4>1, MemberFields
      <4> QED
        BY <1>1, <3>1, <4>2 DEF TurnOf
    <3>3. CASE k \notin Blocked
      <4>1. member'[k] = member[k]
        BY <1>3, <3>3 DEF OverrideMembers
      <4> QED
        BY <1>1, <2>2, <3>1, <4>1 DEF TurnOf
    <3> QED
      BY <3>2, <3>3
  <2>4. Turns' /\ NoneBusy'
    BY <2>3 DEF Turns, NoneBusy
  <2> QED
    BY <1>1, <2>1, <2>4, Bounds, Reopens
<1>4. CASE PassGate
  <2>1. /\ group.reason \notin {"changed-files", "budget"} /\ group.status = "gate"
        /\ Pass([group EXCEPT !.overridden = TRUE]) /\ UNCHANGED member /\ task' = Idle
    BY <1>4 DEF PassGate
  <2>2. group.hold = None
    BY <1>1, <2>1 DEF Kept, Document
  <2>3. /\ group'.at = "beyond" /\ group'.pend = None /\ ~group'.concl
        /\ group'.hold = group.hold /\ group'.heldReason = group.heldReason
        /\ group'.round = group.round /\ group'.overridden
    BY <2>1, PassedGroup DEF Kept
  <2>4. ASSUME ~seen.lapsed PROVE AllReported /\ (seen.lost \/ ~seen.written)
    <3>1. group.reason = "verdict-fail"
      BY <1>1, <2>1, <2>4 DEF Kept, Gates
    <3>2. Begun /\ group.end # -1
      BY <1>1, <3>1 DEF Kept, Joins
    <3> QED
      BY <1>1, <3>1, <3>2 DEF Kept, Joins, Checkpoints
  <2> QED
    BY <1>1, <2>1, <2>2, <2>3, <2>4, GroupPasses
<1>5. CASE OwnerLoopBack
  <2>1. group.reason # "budget" /\ LoopBack /\ task' = Idle
    BY <1>1, <1>5 DEF OwnerLoopBack
  <2> QED
    BY <1>1, <2>1, GroupSentBack
<1> QED
  BY <1>2, <1>3, <1>4, <1>5

LEMMA KeptAtAccept ==
    ASSUME Kept, TypeOK', AcceptChanges
    PROVE  Kept'
<1>1. /\ used'.over = used.over /\ InGroup /\ group.run = "waiting" /\ NoneBusy
      /\ group.reason = "changed-files" /\ UNCHANGED <<member, proc, worktree>>
      /\ task'.do = "conclude" /\ seen' = [seen EXCEPT !.written = FALSE]
  BY Going, UsedTypes DEF Kept, AcceptChanges, Waiting, InGroup, Rests, Live
<1>2. /\ ~seen'.written /\ seen'.lost = seen.lost /\ seen'.lapsed = seen.lapsed
  BY <1>1 DEF Kept, TypeOK
<1>3. /\ Begun /\ ~FreshDue /\ group.end # -1 /\ AllReported /\ group.verdict = JoinVerdict
      /\ group.hold = None /\ group.heldReason = None /\ ~group.overridden
  BY <1>1 DEF Kept, Joins, Due, Document, None
<1>4. /\ group'.at = "group" /\ group'.run = "running" /\ group'.status = "running"
      /\ group'.reason = None /\ group'.base = group.end /\ group'.concl
      /\ group'.pend = group.pend /\ group'.hold = group.hold
      /\ group'.heldReason = group.heldReason /\ group'.round = group.round
      /\ group'.end = group.end /\ group'.verdict = group.verdict
      /\ group'.overridden = group.overridden
  BY <1>1 DEF Kept, TypeOK, GroupType, AcceptChanges, InGroup
<1>5. AllReported' /\ JoinVerdict' = JoinVerdict /\ NoneBusy'
  BY <1>1, <1>3 DEF AllReported, JoinVerdict, Asks, Passes, NoneBusy
<1>6. Live' /\ Begun' /\ ~FreshDue'
  BY <1>1, <1>3, <1>4 DEF Live, Begun, FreshDue, InGroup
<1>7. Placed'
  BY <1>1, <1>4, <1>5, <1>6 DEF Placed
<1>8. Document'
  BY <1>3, <1>4, <1>6 DEF Document, InGroup, None
<1>9. Turns'
  BY <1>1, <1>2, <1>4 DEF Kept, Turns, TurnOf
<1>10. Rests'
  BY <1>5 DEF Rests
<1>11. Due'
  BY <1>3, <1>4, <1>6 DEF Due
<1>12. Joins'
  BY <1>3, <1>4, <1>5, <1>6 DEF Joins, None
<1>13. ASSUME Checkpoints PROVE Checkpoints'
  <2>1. ~worktree'.dirty /\ worktree'.head = group'.end
    BY <1>1, <1>3, <1>4, <1>13 DEF Checkpoints
  <2>2. group'.base <= worktree'.head
    <3>1. PICK h \in Nat : h = worktree'.head
      BY DEF TypeOK
    <3> QED
      BY <1>4, <2>1, <3>1
  <2> QED
    BY <1>2, <1>4, <1>6, <2>1, <2>2 DEF Checkpoints
<1>14. seen'.lapsed \/ Gates'
  BY <1>4 DEF Gates
<1> QED
  BY <1>2, <1>7, <1>8, <1>9, <1>10, <1>11, <1>12, <1>13, <1>14 DEF Kept

\* The budget is raised: what it held is launched, or the group goes on.
LEMMA KeptAtRaise ==
    ASSUME Kept, TypeOK', RaiseBudget
    PROVE  Kept'
<1>1. /\ task.do = "idle" /\ UNCHANGED <<member, proc, worktree, seen>> /\ ~used'.over
  BY Going DEF RaiseBudget, Kept, TypeOK
<1>2. CASE group.at = "repair"
  <2>1. UNCHANGED <<group, task>>
    BY <1>2 DEF RaiseBudget
  <2>2. Placed' /\ Document'
    BY <1>1, <2>1 DEF Kept, Placed, Document, InGroup, Live
  <2>3. Turns' /\ Rests'
    BY <1>1, <2>1 DEF Kept, Turns, TurnOf, Rests, NoneBusy, Live
  <2>4. Due' /\ Joins'
    BY <1>1, <1>2, <2>1 DEF Kept, Due, Joins, FreshDue, Begun, InGroup
  <2>5. (seen'.lost \/ Checkpoints') /\ (seen'.lapsed \/ Gates')
    BY <1>2, <2>1 DEF Checkpoints, Gates, FreshDue, Begun, InGroup
  <2> QED
    BY <2>2, <2>3, <2>4, <2>5 DEF Kept
<1>3. CASE group.at # "repair"
  <2>1. /\ InGroup /\ group.run = "waiting" /\ group.reason = "budget" /\ NoneBusy
        /\ group.hold # None /\ group.pend = None /\ group.status = "gate"
        /\ group.hold \in {"fresh", "resume", "progress"} /\ ~group.concl /\ ~group.overridden
    <3>1. InGroup /\ group.run = "waiting" /\ group.reason = "budget" /\ NoneBusy
      BY <1>3 DEF RaiseBudget, Waiting, InGroup, Kept, Rests, Live
    <3>2. group.hold # None /\ group.pend = None /\ group.status = "gate" /\ ~group.overridden
      BY <3>1 DEF Kept, Document
    <3> QED
      BY <3>1, <3>2 DEF Kept, TypeOK, GroupType, Joins
  <2>2. PICK g : g = [group EXCEPT !.hold = None, !.reason = group.heldReason,
                                   !.heldReason = None]
    OBVIOUS
  <2>3. /\ g \in GroupType /\ g.at = group.at /\ g.run = group.run /\ g.status = group.status
        /\ g.reason = group.heldReason /\ g.hold = None /\ g.heldReason = None
        /\ g.pend = group.pend /\ g.concl = group.concl /\ g.round = group.round
        /\ g.base = group.base /\ g.end = group.end /\ g.verdict = group.verdict
        /\ g.overridden = group.overridden
    <3>1. group \in GroupType
      BY DEF Kept, TypeOK
    <3>2. \A r \in Reasons :
             [group EXCEPT !.hold = None, !.reason = r, !.heldReason = None] \in GroupType
      BY <3>1, ReasonTypes DEF GroupType
    <3> QED
      BY <2>2, <3>1, <3>2 DEF GroupType
  <2>4. CASE group.hold = "progress"
    <3>1. group' = [g EXCEPT !.status = "running", !.run = "running"] /\ task'.do = "progress"
      BY <1>3, <2>2, <2>4, Going DEF RaiseBudget
    <3>2. /\ group'.at = "group" /\ group'.run = "running" /\ group'.status = "running"
          /\ group'.reason = group.heldReason /\ group'.hold = None /\ group'.heldReason = None
          /\ group'.pend = None /\ ~group'.concl /\ group'.round = group.round
          /\ group'.base = group.base /\ group'.end = group.end
          /\ group'.verdict = group.verdict /\ ~group'.overridden
      BY <2>1, <2>3, <3>1 DEF GroupType, InGroup
    <3>3. /\ group'.reason = None /\ Live' /\ Begun' /\ Begun /\ ~FreshDue'
          /\ group'.base # -1
      BY <2>1, <2>4, <3>2 DEF Kept, Document, Due, Live, Begun, FreshDue, InGroup, None
    <3>4. Placed' /\ Document'
      BY <3>1, <3>2, <3>3 DEF Placed, Document, InGroup, None
    <3>5. Turns'
      BY <1>1, <3>2 DEF Kept, Turns, TurnOf
    <3>6. Rests'
      BY <1>1, <3>3 DEF Rests
    <3>7. Due'
      BY <3>2, <3>3 DEF Due
    <3>8. Joins'
      BY <1>1, <3>2, <3>3 DEF Kept, Joins, AllReported, JoinVerdict, Asks, Passes, None
    <3>9. seen'.lost \/ Checkpoints'
      BY <1>1, <3>2, <3>3 DEF Kept, Checkpoints, None
    <3>10. seen'.lapsed \/ Gates'
      BY <3>2 DEF Gates
    <3> QED
      BY <3>4, <3>5, <3>6, <3>7, <3>8, <3>9, <3>10 DEF Kept
  <2>5. CASE group.hold # "progress"
    <3>1. group' = [g EXCEPT !.pend = group.hold] /\ task'.do = "launch"
      BY <1>3, <2>2, <2>5, Going DEF RaiseBudget
    <3>2. /\ group'.at = "group" /\ group'.run = "waiting" /\ group'.status = "gate"
          /\ group'.reason = group.heldReason /\ group'.hold = None /\ group'.heldReason = None
          /\ group'.pend = group.hold /\ ~group'.concl /\ group'.round = group.round
          /\ group'.base = group.base /\ group'.end = group.end
          /\ group'.verdict = group.verdict /\ ~group'.overridden
      BY <2>1, <2>3, <3>1 DEF GroupType, InGroup
    <3>3. (FreshDue' <=> FreshDue) /\ (Begun' <=> Begun)
      BY <2>1, <3>2 DEF FreshDue, Begun, InGroup, None
    <3>4. group'.reason \in {None, "session-error", "usage", "members-blocked"}
      BY <3>2 DEF Kept, Document
    <3>5. Placed' /\ Document'
      BY <2>1, <3>1, <3>2, <3>4 DEF Placed, Document, InGroup, Live, None
    <3>6. Turns'
      BY <1>1, <3>2 DEF Kept, Turns, TurnOf
    <3>7. Rests'
      BY <1>1, <2>1 DEF Rests, NoneBusy
    <3>8. Due'
      BY <1>1, <2>1, <3>1, <3>2, <3>3 DEF Kept, Due, InGroup, Live, None
    <3>9. Joins'
      BY <1>1, <3>2, <3>3, <3>4
         DEF Kept, Joins, AllReported, JoinVerdict, Asks, Passes, None
    <3>10. seen'.lost \/ Checkpoints'
      BY <1>1, <3>2, <3>3, <3>4 DEF Kept, Checkpoints, None
    <3>11. seen'.lapsed \/ Gates'
      BY <3>1, <3>2 DEF Gates
    <3> QED
      BY <3>5, <3>6, <3>7, <3>8, <3>9, <3>10, <3>11 DEF Kept
  <2> QED
    BY <2>4, <2>5
<1> QED
  BY <1>2, <1>3

LEMMA KeptAtAbort ==
    ASSUME Kept, TypeOK', Abort
    PROVE  Kept'
<1>1. /\ UNCHANGED <<member, proc, worktree, seen>> /\ task.do = "idle"
      /\ task'.do = "cancel" /\ used'.over = used.over
  BY Going, UsedTypes DEF Abort, Decide, Kept
<1>2. /\ group'.at = group.at /\ group'.run = group.run /\ group'.status = group.status
      /\ group'.reason = group.reason /\ group'.heldReason = group.heldReason
      /\ group'.pend = group.pend /\ group'.hold = group.hold /\ group'.concl = group.concl
      /\ group'.round = group.round /\ group'.base = group.base /\ group'.end = group.end
      /\ group'.verdict = group.verdict /\ group'.overridden = group.overridden
  BY DEF Abort, Kept, TypeOK, GroupType
<1>3. Placed'
  BY <1>1 DEF Placed
<1>4. Document'
  BY <1>1, <1>2 DEF Kept, Document, InGroup, Live
<1>5. Turns'
  BY <1>1, <1>2 DEF Kept, Turns, TurnOf
<1>6. Rests'
  BY <1>1, <1>2 DEF Kept, Rests, NoneBusy, Live
<1>7. Due'
  BY <1>1, <1>2 DEF Kept, Due, FreshDue, Begun, InGroup, Live
<1>8. Joins'
  BY <1>1, <1>2 DEF Kept, Joins, Begun, InGroup, AllReported, JoinVerdict, Asks, Passes
<1>9. seen'.lost \/ Checkpoints'
  BY <1>1, <1>2 DEF Kept, Checkpoints, FreshDue, Begun, InGroup
<1>10. seen'.lapsed \/ Gates'
  BY <1>1, <1>2 DEF Kept, Gates, InGroup, AllReported, Passes
<1> QED
  BY <1>3, <1>4, <1>5, <1>6, <1>7, <1>8, <1>9, <1>10 DEF Kept

LEMMA InitKept == Init => Kept
<1> SUFFICES ASSUME Init PROVE Kept
  OBVIOUS
<1>1. TypeOK
  BY InitTypes
<1>2. /\ group.at = "repair" /\ group.run = "running" /\ group.status = "pending"
      /\ group.reason = None /\ group.pend = None /\ ~group.concl /\ group.hold = None
      /\ group.heldReason = None /\ ~group.overridden /\ task.do = "idle"
  BY Going DEF Init
<1>3. \A k \in Members : member[k].status = "pending" /\ ~member[k].turn /\ proc[k] = None
  BY DEF Init, Fresh
<1>4. Placed /\ Document
  BY <1>2 DEF Placed, Document, InGroup, Live
<1>5. Turns /\ Rests
  BY <1>3 DEF Turns, TurnOf, Rests, NoneBusy, None
<1>6. Due /\ Joins
  BY <1>2, <1>3 DEF Due, Joins, FreshDue, Begun, InGroup
<1>7. Checkpoints /\ Gates
  BY <1>2 DEF Checkpoints, Gates, FreshDue, Begun, InGroup
<1> QED
  BY <1>1, <1>4, <1>5, <1>6, <1>7 DEF Kept

LEMMA KeptStutter ==
    ASSUME Kept, UNCHANGED vars
    PROVE  Kept'
<1>1. TypeOK'
  BY DEF Kept, TypeOK, vars
<1>2. Placed' /\ Document'
  BY DEF Kept, Placed, Document, InGroup, Live, AllReported, vars
<1>3. Turns' /\ Rests'
  BY DEF Kept, Turns, TurnOf, Rests, NoneBusy, Live, vars
<1>4. Due' /\ Joins'
  BY DEF Kept, Due, Joins, FreshDue, Begun, InGroup, Live, AllReported, JoinVerdict, Asks, Passes,
         vars
<1>5. (seen'.lost \/ Checkpoints') /\ (seen'.lapsed \/ Gates')
  BY DEF Kept, Checkpoints, Gates, FreshDue, Begun, InGroup, AllReported, Passes, vars
<1> QED
  BY <1>1, <1>2, <1>3, <1>4, <1>5 DEF Kept

LEMMA KeptStep == Kept /\ [Next]_vars => Kept'
<1> SUFFICES ASSUME Kept, [Next]_vars PROVE Kept'
  OBVIOUS
<1>1. TypeOK'
  BY TypeStep DEF Kept
<1>2. CASE UNCHANGED vars
  BY <1>2, KeptStutter
<1>3. CASE Step
  BY <1>1, <1>3, KeptAtLaunch, KeptAtStart, KeptAtProgress, KeptAtJoin, KeptAtConclude,
     KeptAtSweep, KeptAtTimeout, KeptAtCrash, KeptAtCancel, Zenon DEF Step
<1>4. CASE OnGroup
  BY <1>1, <1>4, KeptAtOwner, KeptAtAccept, KeptAtRaise, KeptAtAbort, Zenon DEF OnGroup
<1>5. CASE Poll \/ Repair \/ Crash
  BY <1>1, <1>5, KeptAtPoll, KeptAtRepair, KeptAtCrash
<1>6. CASE \E k \in Members : OnMember(k) \/ ProcEnds(k) \/ Write(k)
  BY <1>1, <1>6, KeptAtMember, KeptAtCLI
<1> QED
  BY <1>2, <1>3, <1>4, <1>5, <1>6 DEF Next

-----------------------------------------------------------------------------
(* The theorems.                                                            *)

\* The stored group, its members, the CLIs, the worktree and the bounds keep their types,
\* for any number of members and any bounds.
THEOREM TypeCorrect == Spec => []TypeOK
<1>1. Init => Kept
  BY InitKept
<1>2. Kept /\ [Next]_vars => Kept'
  BY KeptStep
<1>3. Kept => TypeOK
  BY DEF Kept
<1> QED
  BY <1>1, <1>2, <1>3, PTL DEF Spec

\* The group's document, its members' turns and the operation under the lock fit together in
\* every state, whatever is interleaved, lost in a crash or decided by the owner.
THEOREM GroupKept == Spec => []Kept
<1>1. Init => Kept
  BY InitKept
<1>2. Kept /\ [Next]_vars => Kept'
  BY KeptStep
<1> QED
  BY <1>1, <1>2, PTL DEF Spec

\* settleGroup and the owner's decisions: a passed group was reviewed by all its members, or
\* the owner accepted what was not.
THEOREM ReviewedHolds == Spec => []Reviewed
<1>1. Kept => Reviewed
  <2> SUFFICES ASSUME Kept, group.at = "beyond", ~seen.lapsed, NEW k \in Members
               PROVE  /\ member[k].status = "reported"
                      /\ \/ member[k].overridden
                         \/ /\ member[k].round = group.round
                            /\ group.overridden \/ member[k].verdict = "pass"
    BY DEF Reviewed
  <2>1. member[k].status = "reported" /\ (group.overridden \/ Passes(k))
    BY DEF Kept, Gates, AllReported
  <2>2. TurnOf(k)
    BY DEF Kept, Turns
  <2> QED
    BY <2>1, <2>2 DEF TurnOf, Passes
<1> QED
  BY <1>1, GroupKept, PTL

\* The checkpoint and concludeStage: what the members wrote since the group started passes
\* only when the owner accepted it.
THEOREM ReadOnlyHolds == Spec => []ReadOnly
<1>1. Kept => ReadOnly
  BY DEF Kept, Gates, ReadOnly
<1> QED
  BY <1>1, GroupKept, PTL

\* settleGroup and cancelRun: a joined, passed or cancelled group leaves no CLI at work.
THEOREM QuietHolds == Spec => []Quiet
<1>1. Kept => Quiet
  <2> SUFFICES ASSUME Kept, ~seen.lost,
                      task.do \in {"joined", "conclude"} \/ group.at \in {"beyond", "cancelled"},
                      NEW k \in Members
               PROVE  proc[k] # "live"
    BY DEF Quiet
  <2>1. member[k].status # "running"
    <3>1. CASE task.do \in {"joined", "conclude"}
      BY <3>1 DEF Kept, Placed, AllReported
    <3>2. CASE group.at \in {"beyond", "cancelled"}
      BY <3>2 DEF Kept, Rests, NoneBusy, Live
    <3> QED
      BY <3>1, <3>2
  <2> QED
    BY <2>1 DEF Kept, Turns, TurnOf
<1> QED
  BY <1>1, GroupKept, PTL

\* The step of DecisionKept.
Stands ==
    group'.round = group.round /\ used'.owner = used.owner /\ {group.at, group'.at} = {"group"} =>
        \A k \in Members : member[k].queued = None =>
            /\ member[k].status = "reported" => member'[k].status = "reported"
            /\ member[k].status = "gate" /\ (task.do = "launch" => group.reason = "usage")
                  => member'[k].status = "gate"

\* A step on a member that neither reported nor waits for a decision, or is queued.
LEMMA StandsApart ==
    ASSUME Kept, NEW k \in Members,
           \A j \in Members \ {k} : member'[j] = member[j],
           member[k].status \in {"reported", "gate"} =>
              member[k].queued # None \/ member'[k].status = member[k].status
    PROVE  Stands
BY DEF Stands

\* The owner's actions count the decision.
LEMMA OwnerCounts ==
    ASSUME TypeOK, OnGroup \/ \E k \in Members : OnMember(k)
    PROVE  used'.owner # used.owner
<1>1. used.owner \in Nat
  BY DEF TypeOK
<1>2. CASE Decide
  BY <1>1, <1>2, UsedTypes
<1>3. CASE RaiseBudget
  <2>1. used' = [used EXCEPT !.owner = @ + 1, !.over = FALSE]
    BY <1>3 DEF RaiseBudget
  <2> QED
    BY <1>1, <2>1 DEF TypeOK
<1> QED
  BY <1>2, <1>3 DEF OnGroup, OnMember, RetryGroup, OverrideMembers, AcceptChanges, PassGate,
     OwnerLoopBack, Abort, Retry, Override, Feedback, Reconcile

\* A launch of this round leaves the reports, and after a usage limit the decisions.
LEMMA StandsAtLaunch ==
    ASSUME Kept, LaunchGroup \/ LaunchFails
    PROVE  Stands
<1>1. /\ task.do = "launch" /\ member' = [k \in Members |-> Launched(k)]
      /\ group \in GroupType
  BY DEF LaunchGroup, LaunchFails, Kept, TypeOK
<1>2. group'.round = Opened.round
  <2>1. PICK o : o = Opened
    OBVIOUS
  <2>2. o \in GroupType
    BY <2>1, GroupTypes DEF Kept
  <2>3. \/ group' = o
        \/ group' = [o EXCEPT !.base = worktree'.head]
        \/ group' = [o EXCEPT !.run = "waiting", !.status = "failed", !.reason = "session-error"]
    BY <2>1 DEF LaunchGroup, LaunchFails
  <2> QED
    BY <2>1, <2>2, <2>3 DEF GroupType
<1>3. CASE group.pend = "fresh"
  <2>1. Opened.round = group.round + 1
    BY <1>1, <1>3 DEF Opened, GroupType
  <2>2. group.round \in Nat
    BY <1>1 DEF GroupType
  <2>3. group'.round # group.round
    BY <1>2, <2>1, <2>2
  <2> QED
    BY <2>3 DEF Stands
<1>4. CASE group.pend # "fresh"
  <2>1. ASSUME NEW k \in Members
        PROVE  /\ member[k].status = "reported" => member'[k] = member[k]
               /\ member[k].status = "gate" /\ group.reason = "usage" => member'[k] = member[k]
    <3>1. member[k].status = "gate" => member[k].reason = "verdict"
      BY DEF Kept, Turns, TurnOf
    <3> QED
      BY <1>1, <1>4, <3>1 DEF Launched
  <2> QED
    BY <1>1, <2>1 DEF Stands
<1> QED
  BY <1>3, <1>4

\* A member's launch, start, sweep and end.
LEMMA StandsAtTurn ==
    ASSUME Kept, Prepare \/ PrepareFails \/ Start \/ StartFails \/ Sweep \/ SweepGivesUp
    PROVE  Stands
<1>1. PICK k : k = task.m
  OBVIOUS
<1>2. /\ task.do \in {"prepare", "start", "sweep"} /\ k \in Members
      /\ member \in [Members -> MemberType] /\ TurnOf(k)
  BY <1>1 DEF Kept, Placed, TypeOK, Turns, Prepare, PrepareFails, Start, StartFails, Sweep,
     SweepGivesUp
<1>3. ASSUME NEW x, member' = [member EXCEPT ![k] = x],
             member[k].status \in {"reported", "gate"} => member[k].queued # None
      PROVE  Stands
  BY <1>2, <1>3, StandsApart
<1>4. CASE Prepare \/ PrepareFails
  <2>1. member[k].queued # None
    BY <1>1, <1>4 DEF Prepare, PrepareFails, Kept, Placed
  <2>2. \E x : member' = [member EXCEPT ![k] = x]
    BY <1>1, <1>4 DEF Prepare, PrepareFails
  <2> QED
    BY <1>3, <2>1, <2>2
<1>5. CASE Start \/ StartFails
  <2>1. member[k].status = "running"
    BY <1>1, <1>5 DEF Start, StartFails, Kept, Placed
  <2>2. \A j \in Members \ {k} : member'[j] = member[j]
    BY <1>1, <1>2, <1>5 DEF Start, StartFails
  <2> QED
    BY <1>2, <2>1, <2>2, StandsApart
<1>6. CASE Sweep
  <2>1. \/ member' = member
        \/ member[k].status = "running" /\ \E x : member' = [member EXCEPT ![k] = x]
    <3>1. CASE ~member[k].turn \/ proc[k] \in {None, "live"}
      BY <1>1, <1>2, <1>6, <3>1 DEF Sweep, TurnOf
    <3>2. CASE ~(~member[k].turn \/ proc[k] \in {None, "live"})
      <4>1. PICK e : e = [member[k] EXCEPT !.turn = FALSE, !.attempt = "finished"]
        OBVIOUS
      <4>2. CASE Reports(k, e)
        <5>1. \E x : member' = [member EXCEPT ![k] = x]
          BY <4>2 DEF Reports, LaunchMember
        <5> QED
          BY <1>2, <3>2, <5>1 DEF TurnOf
      <4>3. CASE member' = [member EXCEPT ![k] =
                              Parked(e, IF proc[k] = "limit" THEN "usage" ELSE "session-error")]
        BY <1>2, <3>2, <4>3 DEF TurnOf
      <4> QED
        BY <1>1, <1>6, <3>2, <4>1, <4>2, <4>3 DEF Sweep
    <3> QED
      BY <3>1, <3>2
  <2> QED
    BY <1>2, <1>3, <2>1, StandsApart
<1>7. CASE SweepGivesUp
  <2>1. member[k].status = "running"
    BY <1>1, <1>2, <1>7 DEF SweepGivesUp, TurnOf
  <2>2. \E x : member' = [member EXCEPT ![k] = x]
    BY <1>1, <1>7 DEF SweepGivesUp
  <2> QED
    BY <1>3, <2>1, <2>2
<1> QED
  BY <1>4, <1>5, <1>6, <1>7

LEMMA StandsAtProgress ==
    ASSUME Kept, Progress
    PROVE  Stands
<1>1. member \in [Members -> MemberType]
  BY DEF Kept, TypeOK
<1>2. ASSUME NEW k \in Members, NEW kind, LaunchMember(k, member[k], kind, "progress"),
             member[k].status \in {"pending", "running"}
      PROVE  Stands
  <2>1. \A j \in Members \ {k} : member'[j] = member[j]
    BY <1>1, <1>2 DEF LaunchMember
  <2> QED
    BY <1>2, <2>1, StandsApart
<1>3. CASE Interrupted # {} /\ LaunchMember(Least(Interrupted), member[Least(Interrupted)],
                                            member[Least(Interrupted)].queued, "progress")
  <2>1. Least(Interrupted) \in Interrupted
    BY <1>3, LeastMember DEF Interrupted, Busy
  <2>2. PICK k \in Members : k = Least(Interrupted) /\ member[k].status = "running"
    BY <2>1 DEF Interrupted, Busy
  <2> QED
    BY <1>2, <1>3, <2>2
<1>4. CASE Pending # {} /\ LaunchMember(Least(Pending), member[Least(Pending)],
                                        KindOf(Least(Pending)), "progress")
  <2>1. Least(Pending) \in Pending
    BY <1>4, LeastMember DEF Pending
  <2>2. PICK k \in Members : k = Least(Pending) /\ member[k].status = "pending"
    BY <2>1 DEF Pending
  <2> QED
    BY <1>2, <1>4, <2>2
<1>5. CASE member' = member
  BY <1>5 DEF Stands
<1> QED
  BY <1>3, <1>4, <1>5 DEF Progress, Settle

\* launchGroup, prepareStage and the sweep: within a round a report stays, and so does a wait
\* for a decision through the resume after a usage limit.
THEOREM DecisionKeptHolds == Spec => DecisionKept
<1>1. Kept /\ [Next]_vars => [Stands]_vars
  <2> SUFFICES ASSUME Kept, Next PROVE Stands
    BY Zenon
  <2>1. CASE OnGroup \/ \E k \in Members : OnMember(k)
    <3>1. used'.owner # used.owner
      BY <2>1, OwnerCounts DEF Kept
    <3> QED
      BY <3>1 DEF Stands
  <2>2. CASE Conclude
    <3>1. member' = member \/ group'.at = "repair"
      BY <2>2, SentBack DEF Conclude, Kept
    <3> QED
      BY <3>1 DEF Stands
  <2>3. CASE Cancelled
    <3>1. group'.at = "cancelled"
      BY <2>3 DEF Cancelled, Kept, TypeOK, GroupType
    <3> QED
      BY <3>1 DEF Stands
  <2>4. CASE Join \/ JoinFails \/ Joined \/ CancelTurn \/ CancelFails \/ Poll \/ Repair \/ Crash
    <3>1. member' = member
      BY <2>4 DEF Join, JoinFails, Joined, CancelTurn, CancelFails, Poll, Repair, Crash
    <3> QED
      BY <3>1 DEF Stands
  <2>5. CASE \E k \in Members : ProcEnds(k) \/ Write(k)
    <3>1. member' = member
      BY <2>5 DEF ProcEnds, Write
    <3> QED
      BY <3>1 DEF Stands
  <2> QED
    BY <2>1, <2>2, <2>3, <2>4, <2>5, StandsAtLaunch, StandsAtTurn, StandsAtProgress DEF Next, Step
<1> QED
  BY <1>1, GroupKept, PTL DEF Spec, DecisionKept, Stands
=============================================================================
