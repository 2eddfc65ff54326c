-------------------------- MODULE TicketMergeProofs --------------------------
(***************************************************************************)
(* TicketMerge for any number of rounds, pushes, people's actions and      *)
(* mishaps: what a person disarmed is not armed again, what GitHub refused *)
(* is not tried again, a ticket that left the queue leaves nothing armed,  *)
(* and a review that requests changes stops the merge.                     *)
(*                                                                         *)
(* The four need what a step may still assume of the pull request while    *)
(* it acts on an old snapshot: that AgentPier alone arms in its own name   *)
(* (SnapshotHolds), that a head only grows (HeadsGrow), and that the one   *)
(* refusal on the record is the one of the head in sight (RefusalsHold).   *)
(***************************************************************************)
EXTENDS TicketMerge, TLAPS

Steps == {"fix", "merge", "disarmed", "armed"}
Calls == Heads \X {"merge", "arm"}
ItemRecord == [state : {"awaiting-merge", "needs-owner", "done", "removed", "left"},
               armed : BOOLEAN, armedHead : 0..MaxHeads,
               refused : SUBSET ((0..MaxHeads) \X {"merge", "arm"}),
               failed : 0..MaxRounds, lastSha : 0..MaxHeads, lastReview : 0..MaxHeads,
               unchecked : BOOLEAN]
SnapRecord == [head : 0..MaxHeads, checks : Checks, review : Reviews, arm : BOOLEAN,
               merge : {"ready", "armable", "other"}]
PullRecord == [state : {"open", "merged", "closed"}, head : Heads, checks : Checks,
               review : Reviews, arm : Arms]
OpRecord == [at : {"idle", "leave"} \cup Steps, snap : SnapRecord,
             to : {"none", "done", "removed"}]
UsedRecord == [people : 0..MaxPeople, mishaps : 0..MaxMishaps]
Records ==
    /\ repo \in {"queue", "auto", "plain"} /\ item \in ItemRecord /\ op \in OpRecord
    /\ pull \in PullRecord /\ used \in UsedRecord
    /\ off \subseteq Heads /\ saw \in BOOLEAN /\ denied \subseteq Calls

\* Which item a step works on, and that a round only begins before the last one.
StepsOf ==
    /\ op.at \in Steps => Awaiting /\ op.to = "none"
    /\ op.at = "leave" => item.state = "needs-owner" /\ op.to # "none"
    /\ Awaiting => item.failed < MaxRounds

\* What a step that works on a snapshot may still rely on.
SnapshotHolds ==
    /\ op.at \in Steps => (saw <=> snap.review = "changes")
    /\ op.at = "disarmed" => snap.review = "changes" /\ pull.arm # "us"
    /\ op.at = "armed" => snap.review # "changes"
    /\ op.at \in {"fix", "merge", "leave"} /\ ~snap.arm => pull.arm # "us"

\* The head that was armed last, the head a step read and the head there is now.
HeadsGrow ==
    /\ item.armedHead <= pull.head
    /\ item.lastSha <= pull.head
    /\ op.at \in Steps => /\ item.armedHead <= snap.head /\ item.lastSha <= snap.head
                        /\ 1 <= snap.head /\ snap.head <= pull.head
    /\ off \subseteq 1..pull.head
    /\ pull.head \in off => item.armedHead = pull.head \/ MayRequeue

\* What GitHub refused: of the head that the item sees, it is the refusal on the record.
Seen == IF op.at \in Steps THEN snap.head ELSE pull.head
RefusalsHold ==
    \A d \in denied :
        /\ d[1] <= Seen
        /\ Awaiting => d[2] = "arm" /\ (d[1] = Seen => item.refused = {d})

MergeInvariant == /\ Records /\ StepsOf /\ SnapshotHolds /\ HeadsGrow /\ RefusalsHold
                  /\ DoneUnarmed /\ ReviewStops

-----------------------------------------------------------------------------
LEMMA Bounds ==
    /\ MaxRounds \in Nat /\ MaxRounds >= 1 /\ MaxHeads \in Nat /\ MaxHeads >= 1
    /\ MaxPeople \in Nat /\ MaxMishaps \in Nat
  BY MergeAssumption

LEMMA RoundsRecord ==
    ASSUME MergeInvariant, op.at = "fix"
    PROVE  /\ Rounds \in ItemRecord
           /\ Rounds.state = item.state /\ Rounds.unchecked = item.unchecked
           /\ Rounds.armedHead = item.armedHead /\ Rounds.refused = item.refused
           /\ Rounds.lastSha = IF NewChecks THEN snap.head ELSE item.lastSha
           /\ ~(NewChecks /\ Rounds.failed >= MaxRounds) => Rounds.failed < MaxRounds
  <1> DEFINE f == IF NewChecks THEN item.failed + 1 ELSE item.failed
             sha == IF NewChecks THEN snap.head ELSE item.lastSha
             rev == IF NewReview THEN snap.head ELSE item.lastReview
  <1> USE DEF MergeInvariant, Records
  <1>1. item.failed \in Nat /\ item.failed < MaxRounds
    BY Bounds DEF StepsOf, Steps, Awaiting, ItemRecord
  <1>2. f \in 0..MaxRounds /\ (~(NewChecks /\ f >= MaxRounds) => f < MaxRounds)
    BY <1>1, Bounds
  <1>3. sha \in 0..MaxHeads /\ rev \in 0..MaxHeads
    BY DEF ItemRecord, OpRecord, SnapRecord, snap
  <1>4. Rounds = [item EXCEPT !.failed = f, !.lastSha = sha, !.lastReview = rev]
    BY DEF Rounds
  <1> HIDE DEF f, sha, rev
  <1>5. Rounds.failed = f /\ Rounds.lastSha = sha
    BY <1>4 DEF ItemRecord
  <1>6. sha = IF NewChecks THEN snap.head ELSE item.lastSha
    BY DEF sha
  <1> QED
    BY <1>2, <1>3, <1>4, <1>5, <1>6 DEF ItemRecord

LEMMA UnarmedRecord ==
    ASSUME item \in ItemRecord
    PROVE  /\ Unarmed \in ItemRecord /\ Unarmed.armedHead = 0
           /\ Unarmed.state = item.state /\ Unarmed.failed = item.failed
           /\ Unarmed.lastSha = item.lastSha /\ Unarmed.refused = item.refused
  <1>1. 0 \in 0..MaxHeads
    BY Bounds
  <1> QED
    BY <1>1 DEF Unarmed, ItemRecord

\* What a step that goes on to GitHub keeps of the record: an armed head is only
\* forgotten in a repository with a merge queue, once its checks failed.
LEMMA KeptRecord ==
    ASSUME MergeInvariant, GoesOn
    PROVE  /\ Kept \in ItemRecord
           /\ Kept.state = "awaiting-merge" /\ Kept.failed = item.failed
           /\ Kept.lastSha = item.lastSha /\ Kept.refused = item.refused
           /\ \/ Kept.armedHead = item.armedHead
              \/ Kept.armedHead = 0 /\ repo = "queue" /\ item.lastSha = snap.head
  <1> USE DEF MergeInvariant, Records
  <1>1. item \in ItemRecord /\ item.state = "awaiting-merge"
    BY DEF GoesOn, Undecided, Merging, StepsOf, Steps, Awaiting
  <1>2. Kept = item \/ (Kept = Unarmed /\ repo = "queue" /\ item.lastSha = snap.head)
    BY DEF GoesOn, Kept, Requeued
  <1> QED
    BY <1>1, <1>2, UnarmedRecord

LEMMA RefusedRecord ==
    ASSUME MergeInvariant, op.at = "merge", NEW rec \in ItemRecord
    PROVE  /\ <<snap.head, What>> \in Calls
           /\ [rec EXCEPT !.refused = {<<snap.head, What>>}] \in ItemRecord
  <1>1. snap.head \in 1..MaxHeads /\ What \in {"merge", "arm"}
    BY DEF MergeInvariant, Records, OpRecord, SnapRecord, snap, What, HeadsGrow, Steps
  <1>2. {<<snap.head, What>>} \in SUBSET ((0..MaxHeads) \X {"merge", "arm"})
    BY <1>1
  <1> QED
    BY <1>1, <1>2 DEF ItemRecord, Calls, Heads

\* A record that fits the pull request's head, where a person disarmed `gone'.
Fits(rec, gone) ==
    /\ rec.armedHead <= pull.head /\ rec.lastSha <= pull.head
    /\ pull.head \in gone => \/ rec.armedHead = pull.head
                             \/ repo = "queue" /\ rec.lastSha = pull.head

\* The item's record fits, with the rounds of this step and what it keeps of the arm.
LEMMA RecordsFit ==
    ASSUME MergeInvariant
    PROVE  /\ Fits(item, off)
           /\ op.at = "fix" => Fits(Rounds, off)
           /\ GoesOn => Fits(Kept, off)
  <1> USE DEF MergeInvariant, HeadsGrow
  <1>1. Fits(item, off)
    BY DEF Fits, MayRequeue
  <1>2. ASSUME op.at \in Steps
        PROVE  /\ {item.armedHead, item.lastSha, snap.head, pull.head} \subseteq Nat
               /\ item.armedHead <= snap.head /\ item.lastSha <= snap.head
               /\ snap.head <= pull.head
    BY <1>2, Bounds
    DEF Records, ItemRecord, OpRecord, SnapRecord, snap, PullRecord, Heads
  <1>3. ASSUME op.at = "fix" PROVE Fits(Rounds, off)
    BY <1>1, <1>2, <1>3, RoundsRecord DEF Fits, Steps
  <1>4. ASSUME GoesOn PROVE Fits(Kept, off)
    <2>1. op.at \in Steps
      BY <1>4 DEF GoesOn, Undecided, Merging, Steps
    <2>2. 0 <= pull.head
      BY <1>2, <2>1
    <2> QED
      BY <1>1, <1>2, <1>4, <2>1, <2>2, KeptRecord DEF Fits, MayRequeue, GoesOn, ArmedBefore, Kept
  <1> QED
    BY <1>1, <1>3, <1>4

\* No refusal is of a head that there was not yet.
LEMMA RefusedHeads ==
    ASSUME MergeInvariant
    PROVE  Seen \in Nat /\ Seen <= pull.head /\ \A d \in denied : d \in Calls /\ d[1] <= pull.head
  <1>1. Seen \in Nat /\ pull.head \in Nat /\ Seen <= pull.head
    BY Bounds DEF Seen, MergeInvariant, HeadsGrow, Records, OpRecord, SnapRecord, snap,
                  PullRecord, Heads
  <1>2. \A d \in denied : d \in Calls /\ d[1] \in Nat /\ d[1] <= Seen
    BY DEF MergeInvariant, Records, RefusalsHold, Calls, Heads
  <1> QED
    BY <1>1, <1>2

\* A step that ends with the same refusals on the record.
LEMMA RefusalsKept ==
    ASSUME MergeInvariant, op' = Idle, pull'.head = pull.head, denied' = denied,
           Awaiting' => Awaiting /\ item'.refused = item.refused
    PROVE  RefusalsHold'
  <1>1. Seen' = pull.head
    BY DEF Seen, Idle, Steps
  <1> SUFFICES ASSUME NEW d \in denied
               PROVE  /\ d[1] <= pull.head
                      /\ Awaiting' => d[2] = "arm" /\ (d[1] = pull.head => item.refused = {d})
    BY <1>1 DEF RefusalsHold
  <1>2. d[1] <= Seen /\ Seen <= pull.head /\ {d[1], Seen, pull.head} \subseteq Nat
    BY RefusedHeads DEF MergeInvariant, RefusalsHold, Records, PullRecord, Heads, Calls
  <1>3. d[1] = pull.head => d[1] = Seen
    BY <1>2
  <1> QED
    BY <1>2, <1>3 DEF MergeInvariant, RefusalsHold

LEMMA IdleRecord ==
    /\ Idle \in OpRecord /\ Idle.at = "idle"
    /\ Fresh \in ItemRecord /\ Fresh.failed < MaxRounds /\ Fresh.armedHead = 0
    /\ Fresh.state = "awaiting-merge" /\ Fresh.lastSha = 0
  <1>1. NoSnap \in SnapRecord
    BY Bounds DEF NoSnap, SnapRecord, Checks, Reviews
  <1> QED
    BY <1>1, Bounds DEF Idle, OpRecord, Fresh, ItemRecord

LEMMA MergeInit == Init => MergeInvariant
  <1> SUFFICES ASSUME Init PROVE MergeInvariant
    OBVIOUS
  <1>1. Records
    <2>1. pull \in PullRecord
      BY Bounds DEF Init, PullRecord, Heads, Checks, Reviews, Arms
    <2>2. used \in UsedRecord
      BY Bounds DEF Init, UsedRecord
    <2> QED
      BY <2>1, <2>2, IdleRecord DEF Init, Records
  <1>2. HeadsGrow /\ RefusalsHold
    BY IdleRecord DEF Init, HeadsGrow, RefusalsHold, Steps, Fresh, Heads
  <1> QED
    BY <1>1, <1>2, IdleRecord, Bounds
    DEF Init, MergeInvariant, StepsOf, SnapshotHolds, DoneUnarmed, ReviewStops,
        Steps, Awaiting, Fresh

\* A step that ends, or is lost, leaves the record and the pull request in one of few ways.
LEMMA EndKeeps ==
    ASSUME MergeInvariant, op' = Idle, item' \in ItemRecord, pull' \in PullRecord,
           used' \in UsedRecord, off' \subseteq off, saw' \in BOOLEAN, repo' = repo,
           denied' \subseteq Calls, RefusalsHold',
           Awaiting' => item'.failed < MaxRounds,
           pull'.head = pull.head, Fits(item', off'),
           DoneUnarmed', ReviewStops'
    PROVE  MergeInvariant'
  <1> USE DEF MergeInvariant
  <1>1. Records'
    BY IdleRecord DEF Records
  <1>2. StepsOf' /\ SnapshotHolds'
    BY IdleRecord DEF StepsOf, SnapshotHolds, Steps
  <1>3. HeadsGrow'
    BY IdleRecord DEF HeadsGrow, Steps, Fits, MayRequeue
  <1> QED
    BY <1>1, <1>2, <1>3

LEMMA PersonUsed == ASSUME Records, Person PROVE used' \in UsedRecord
  BY Bounds DEF Records, Person, UsedRecord
LEMMA MishapUsed == ASSUME Records, Mishap PROVE used' \in UsedRecord
  BY Bounds DEF Records, Mishap, UsedRecord

\* The step ends with the item parked, and whatever else its record says.
LEMMA ParkKeeps ==
    ASSUME MergeInvariant, NEW rec \in ItemRecord, Park(rec), pull' = pull, Fits(rec, off),
           used' \in UsedRecord, UNCHANGED <<repo, off, saw>>,
           denied' \subseteq Calls, \A d \in denied' : d[1] <= pull.head
    PROVE  MergeInvariant'
  <1>1. /\ item' \in ItemRecord /\ item'.state = "needs-owner"
        /\ item'.armedHead = rec.armedHead /\ item'.lastSha = rec.lastSha
    BY DEF Park, ItemRecord
  <1>2. Fits(item', off')
    BY <1>1 DEF Fits
  <1>3. RefusalsHold'
    BY <1>1 DEF RefusalsHold, Seen, Park, Idle, Steps, Awaiting
  <1>4. DoneUnarmed' /\ ReviewStops' /\ ~Awaiting'
    BY <1>1 DEF DoneUnarmed, ReviewStops, Awaiting
  <1>5. op' = Idle /\ pull' \in PullRecord /\ saw' \in BOOLEAN
    BY DEF Park, MergeInvariant, Records
  <1> QED
    BY <1>1, <1>2, <1>3, <1>4, <1>5, EndKeeps

\* The step ends, and the item goes on waiting for its merge.
LEMMA SaveKeeps ==
    ASSUME MergeInvariant, Awaiting, NEW rec \in ItemRecord, Save(rec),
           rec.state = "awaiting-merge", rec.failed < MaxRounds,
           pull' \in PullRecord, pull'.head = pull.head, Fits(rec, off'),
           off' \subseteq off, saw' \in BOOLEAN, used' \in UsedRecord, repo' = repo,
           denied' \subseteq Calls, (rec.refused = item.refused /\ denied' = denied) \/ RefusalsHold',
           saw' => pull'.arm # "us"
    PROVE  MergeInvariant'
  <1>1. item' = rec /\ op' = Idle
    BY DEF Save
  <1>2. DoneUnarmed' /\ ReviewStops'
    BY <1>1 DEF DoneUnarmed, ReviewStops
  <1>3. RefusalsHold'
    BY <1>1, RefusalsKept
  <1> QED
    BY <1>1, <1>2, <1>3, EndKeeps

-----------------------------------------------------------------------------
LEMMA WatchKeeps == ASSUME MergeInvariant, Watch PROVE MergeInvariant'
  <1> USE DEF MergeInvariant, Records
  <1>1. CASE ReadMerged
    <2> DEFINE rec == [item EXCEPT !.state = "done", !.armed = FALSE]
    <2>1. /\ rec \in ItemRecord /\ rec.state = "done"
          /\ rec.armedHead = item.armedHead /\ rec.lastSha = item.lastSha
      BY DEF ItemRecord
    <2>2. op' = Idle /\ item' = rec /\ UNCHANGED <<repo, pull, used, off, saw, denied>>
      BY <1>1 DEF ReadMerged, Save
    <2> HIDE DEF rec
    <2>3. Fits(item', off') /\ ~Awaiting'
      BY <2>1, <2>2, RecordsFit DEF Fits, Awaiting
    <2>4. DoneUnarmed' /\ ReviewStops' /\ RefusalsHold'
      BY <1>1, <2>1, <2>2, <2>3, RefusalsKept DEF ReadMerged, DoneUnarmed, ReviewStops
    <2> QED
      BY <2>1, <2>2, <2>3, <2>4, EndKeeps
  <1>2. CASE ReadClosed \/ Unreadable
    BY <1>2, ParkKeeps, MishapUsed, RecordsFit, RefusedHeads DEF ReadClosed, Unreadable
  <1>3. CASE Read
    <2>1. PICK merge \in MergeStates :
             op' = [Idle EXCEPT !.at = "fix", !.snap = Snapshot(merge)]
      BY <1>3 DEF Read
    <2>2. Snapshot(merge) \in SnapRecord
      BY <2>1 DEF Snapshot, SnapRecord, MergeStates, PullRecord, Heads
    <2>3. op' \in OpRecord /\ op'.at = "fix" /\ op'.snap = Snapshot(merge) /\ op'.to = "none"
      BY <2>1, <2>2, IdleRecord DEF OpRecord, Steps, Idle
    <2>4. Records'
      BY <1>3, <2>3 DEF Read, Records
    <2>5. StepsOf'
      BY <1>3, <2>3 DEF Read, StepsOf, Awaiting
    <2>6. SnapshotHolds'
      <3>1. /\ op'.snap.review = pull.review /\ (op'.snap.arm <=> pull.arm # "no")
            /\ saw' = (pull.review = "changes") /\ pull' = pull
        <4>1. Snapshot(merge).arm = (pull.arm # "no") /\ Snapshot(merge).review = pull.review
          BY Zenon DEF Snapshot
        <4> QED
          BY <1>3, <2>3, <4>1 DEF Read
      <3> QED
        BY <2>3, <3>1 DEF SnapshotHolds, snap
    <2>7. HeadsGrow' /\ RefusalsHold'
      <3>1. op'.snap.head = pull.head /\ UNCHANGED <<item, pull, off, denied, repo>>
        BY <1>3, <2>3 DEF Read, Snapshot
      <3>2. Seen = pull.head /\ Seen' = pull.head
        BY <1>3, <2>3, <3>1 DEF Read, Seen, Steps, snap
      <3> QED
        BY <2>3, <3>1, <3>2
        DEF HeadsGrow, RefusalsHold, Awaiting, MayRequeue, snap, PullRecord, Heads
    <2> QED
      BY <1>3, <2>3, <2>4, <2>5, <2>6, <2>7 DEF Read, DoneUnarmed, ReviewStops
  <1>4. CASE Fix
    <2>1. item' \in ItemRecord /\ item'.state = item.state /\ item'.unchecked = item.unchecked
          /\ item'.armedHead = item.armedHead /\ item'.failed < MaxRounds
      BY <1>4, RoundsRecord DEF Fix
    <2>2. op' \in OpRecord /\ op'.at = "merge" /\ op'.snap = op.snap /\ op'.to = op.to
      BY <1>4 DEF Fix, OpRecord, Steps
    <2>3. Records'
      BY <1>4, <2>1, <2>2 DEF Fix, NoMishap, Records
    <2>4. StepsOf' /\ SnapshotHolds'
      BY <1>4, <2>1, <2>2 DEF Fix, StepsOf, SnapshotHolds, Steps, Awaiting, snap
    <2>5. Fits(item', off') /\ item'.refused = item.refused /\ item'.lastSha <= snap.head
      <3>1. op.at = "fix" /\ item' = Rounds /\ UNCHANGED <<repo, pull, off, denied>>
        BY <1>4 DEF Fix
      <3>2. item.lastSha <= snap.head /\ snap.head \in Nat
        BY <3>1 DEF HeadsGrow, Steps, OpRecord, SnapRecord, snap
      <3> QED
        BY <3>1, <3>2, RecordsFit, RoundsRecord DEF Fits
    <2>6. HeadsGrow'
      BY <1>4, <2>1, <2>2, <2>5 DEF Fix, HeadsGrow, Fits, MayRequeue, Steps, snap
    <2>7. RefusalsHold'
      BY <1>4, <2>1, <2>2, <2>5 DEF Fix, RefusalsHold, Awaiting, Seen, Steps, snap
    <2> QED
      BY <1>4, <2>1, <2>2, <2>3, <2>4, <2>6, <2>7 DEF Fix, DoneUnarmed, ReviewStops
  <1>5. CASE FailedRounds
    BY <1>5, RoundsRecord, RecordsFit, RefusedHeads, ParkKeeps DEF FailedRounds, NoMishap
  <1>6. CASE FixFails
    <2>1. op.at = "fix" /\ Awaiting /\ used' \in UsedRecord
      BY <1>6, MishapUsed DEF FixFails, StepsOf, Steps
    <2>2. CASE (Park(item) \/ Park(Rounds)) /\ UNCHANGED saw
      BY <1>6, <2>1, <2>2, RoundsRecord, RecordsFit, RefusedHeads, ParkKeeps DEF FixFails
    <2>3. CASE Save(item) /\ saw' = FALSE
      BY <1>6, <2>1, <2>3, RecordsFit, SaveKeeps DEF FixFails, Awaiting, StepsOf
    <2> QED
      BY <1>6, <2>2, <2>3 DEF FixFails
  <1> QED
    BY <1>1, <1>2, <1>3, <1>4, <1>5, <1>6 DEF Watch

LEMMA MergeStepKeeps == ASSUME MergeInvariant, MergeStep PROVE MergeInvariant'
  <1> USE DEF MergeInvariant, Records
  <1>0. op.at \in {"merge", "disarmed", "armed"} /\ Awaiting /\ item.failed < MaxRounds
    BY DEF MergeStep, Disarm, Disarmed, DisarmFails, Record, StaysRed, MergeDisarmed, Waits,
           StillRefused, Arm, Armed, CallLost, Refused, Refusal, Call, GoesOn, Undecided, Merging,
           StepsOf, Steps
  <1>1. /\ item.armedHead <= snap.head /\ item.lastSha <= snap.head /\ snap.head <= pull.head
        /\ {item.armedHead, item.lastSha, snap.head, pull.head} \subseteq 0..MaxHeads
        /\ saw <=> snap.review = "changes"
    BY <1>0 DEF HeadsGrow, SnapshotHolds, Steps, ItemRecord, OpRecord, SnapRecord, snap,
                PullRecord, Heads
  \* Nothing that a step does to the pull request moves its head.
  <1>2. /\ [pull EXCEPT !.arm = "no"] \in PullRecord
        /\ [pull EXCEPT !.arm = "no"].head = pull.head
        /\ [pull EXCEPT !.arm = "no"].arm = "no"
        /\ [pull EXCEPT !.arm = "no"].state = pull.state
        /\ Lands \in PullRecord /\ Lands.head = pull.head
    BY DEF PullRecord, Arms, Lands
  <1>3. CASE Disarm
    <2>1. op' \in OpRecord /\ op'.at = "disarmed" /\ op'.snap = op.snap
      BY <1>3 DEF Disarm, OpRecord, Steps
    <2>2. pull' \in PullRecord /\ pull'.head = pull.head /\ pull'.arm # "us"
      BY <1>2, <1>3 DEF Disarm, SnapshotHolds, Merging
    <2>3. Records'
      BY <1>3, <2>1, <2>2 DEF Disarm, NoMishap
    <2>4. StepsOf' /\ SnapshotHolds' /\ HeadsGrow' /\ RefusalsHold'
      <3>1. op.at = "merge" /\ UNCHANGED <<repo, item, off, saw, denied>>
        BY <1>3 DEF Disarm, Merging
      <3>2. StepsOf' /\ SnapshotHolds'
        BY <1>0, <1>3, <2>1, <2>2, <3>1
        DEF Disarm, StepsOf, SnapshotHolds, Steps, Awaiting, snap
      <3>3. HeadsGrow' /\ RefusalsHold'
        BY <2>1, <2>2, <3>1
        DEF HeadsGrow, RefusalsHold, Seen, Steps, Awaiting, MayRequeue, snap
      <3> QED
        BY <3>2, <3>3
    <2> QED
      BY <1>0, <1>3, <2>1, <2>2, <2>3, <2>4 DEF Disarm, Awaiting, DoneUnarmed, ReviewStops
  <1>4. CASE Disarmed
    <2>1. /\ Unarmed \in ItemRecord /\ Unarmed.state = "awaiting-merge"
          /\ Unarmed.armedHead = 0 /\ Unarmed.failed = item.failed
          /\ Unarmed.lastSha = item.lastSha /\ Unarmed.refused = item.refused
      BY <1>0, UnarmedRecord DEF Awaiting
    <2>2. Save(Unarmed) /\ off' = {} /\ UNCHANGED <<repo, pull, used, saw, denied>>
      BY <1>4 DEF Disarmed
    <2>3. Fits(Unarmed, off')
      BY <1>1, <2>1, <2>2, RecordsFit DEF Fits
    <2>4. saw' => pull'.arm # "us"
      BY <1>4, <2>2 DEF Disarmed, SnapshotHolds
    <2> QED
      BY <1>0, <2>1, <2>2, <2>3, <2>4, SaveKeeps
  <1>5. CASE DisarmFails
    <2>1. pull' \in PullRecord /\ pull'.head = pull.head
      BY <1>2, <1>5 DEF DisarmFails
    <2>2. /\ Save(item) /\ saw' = FALSE /\ UNCHANGED <<repo, off, denied>>
          /\ used' \in UsedRecord
      BY <1>5, MishapUsed DEF DisarmFails, Save
    <2>3. item.state = "awaiting-merge" /\ Fits(item, off')
      BY <1>0, <2>2, RecordsFit DEF Awaiting
    <2> QED
      BY <1>0, <1>1, <2>1, <2>2, <2>3, SaveKeeps
  <1>6. CASE Record \/ Armed
    <2> DEFINE rec == [item EXCEPT !.armed = TRUE, !.armedHead = snap.head]
    <2>1. rec \in ItemRecord /\ rec.state = "awaiting-merge" /\ rec.armedHead = snap.head
          /\ rec.failed = item.failed /\ rec.lastSha = item.lastSha
          /\ rec.refused = item.refused
      BY <1>0, <1>1 DEF ItemRecord, Awaiting
    <2>2. ~saw
      BY <1>1, <1>6 DEF Record, Armed, SnapshotHolds
    <2>3. Save(rec) /\ UNCHANGED <<repo, pull, used, off, saw, denied>>
      BY <1>6 DEF Record, Armed
    <2> HIDE DEF rec
    <2>4. Fits(rec, off')
      BY <1>1, <2>1, <2>3, Bounds, RecordsFit DEF Fits
    <2> QED
      BY <1>0, <2>1, <2>2, <2>3, <2>4, SaveKeeps
  <1>7. CASE StaysRed
    BY <1>0, <1>1, <1>7, SaveKeeps, RecordsFit DEF StaysRed, Undecided, Save, Awaiting
  <1>8. CASE MergeDisarmed
    BY <1>8, ParkKeeps, RecordsFit, RefusedHeads DEF MergeDisarmed
  \* The four steps that go on to GitHub: what is kept of the record, and the answer.
  <1>9. ASSUME GoesOn
        PROVE  /\ Kept \in ItemRecord /\ Kept.state = "awaiting-merge"
               /\ Kept.failed < MaxRounds /\ Kept.refused = item.refused
               /\ Fits(Kept, off) /\ ~saw
    BY <1>0, <1>1, <1>9, KeptRecord, RecordsFit DEF GoesOn, Undecided
  <1>10. CASE Waits
    BY <1>0, <1>9, <1>10, SaveKeeps DEF Waits
  <1>11. CASE StillRefused
    BY <1>0, <1>9, <1>11, SaveKeeps, ParkKeeps, RefusedHeads DEF StillRefused
  <1>12. CASE Arm
    <2>1. GoesOn /\ op.at = "merge" /\ pull' = Lands /\ item' = Kept
      BY <1>12 DEF Arm, Call, GoesOn, Undecided, Merging
    <2>2. CASE How = "merge"
      <3>1. op' = Idle
        BY <1>12, <2>2, <1>0 DEF Arm, OpRecord, Idle, StepsOf, Steps
      <3> QED
        BY <1>0, <1>2, <1>9, <1>12, <2>1, <3>1, SaveKeeps DEF Arm, Save
    <2>3. CASE How # "merge"
      <3>1. op' \in OpRecord /\ op'.at = "armed" /\ op'.snap = op.snap
        BY <1>12, <2>3 DEF Arm, OpRecord, Steps
      <3>2. Records'
        BY <1>2, <1>9, <1>12, <2>1, <3>1 DEF Arm
      <3>3. StepsOf' /\ SnapshotHolds'
        BY <1>1, <1>2, <1>9, <1>12, <2>1, <3>1
        DEF Arm, Call, GoesOn, Undecided, StepsOf, SnapshotHolds, Steps, Awaiting, snap
      <3>4. UNCHANGED <<repo, off, denied>> /\ pull'.head = pull.head
        BY <1>2, <1>12, <2>1 DEF Arm
      <3>5. Kept.armedHead <= snap.head /\ Kept.lastSha <= snap.head
        <4>1. 0 <= snap.head
          BY <1>1
        <4> QED
          BY <1>1, <2>1, <4>1, KeptRecord
      <3>6. HeadsGrow'
        BY <1>9, <2>1, <3>1, <3>4, <3>5
        DEF HeadsGrow, Fits, MayRequeue, Steps, snap
      <3>7. RefusalsHold'
        BY <1>0, <1>9, <2>1, <3>1, <3>4 DEF RefusalsHold, Seen, Steps, Awaiting, snap
      <3> QED
        BY <1>9, <2>1, <3>1, <3>2, <3>3, <3>6, <3>7 DEF DoneUnarmed, ReviewStops
    <2> QED
      BY <2>2, <2>3
  <1>13. CASE CallLost
    <2>1. pull' \in PullRecord /\ pull'.head = pull.head
      BY <1>2, <1>13 DEF CallLost
    <2> QED
      BY <1>0, <1>9, <1>13, <2>1, MishapUsed, SaveKeeps DEF CallLost, Call
  <1>14. CASE Refused
    <2> DEFINE rec == [Kept EXCEPT !.refused = {<<snap.head, What>>}]
           call == <<snap.head, What>>
    <2>1. GoesOn /\ op.at = "merge" /\ used' \in UsedRecord
      BY <1>14, MishapUsed DEF Refused, Refusal, Call, GoesOn, Undecided, Merging, NoMishap
    <2>2. rec \in ItemRecord /\ call \in Calls
      BY <1>9, <2>1, RefusedRecord
    <2>3. /\ rec.state = "awaiting-merge" /\ rec.failed = Kept.failed
          /\ rec.armedHead = Kept.armedHead /\ rec.lastSha = Kept.lastSha
          /\ rec.refused = {call}
      BY <1>9, <2>1 DEF ItemRecord
    <2>4. UNCHANGED <<repo, pull, off, saw>> /\ denied' = denied \cup {call}
      BY <1>14 DEF Refused, Refusal
    <2>5. Fits(rec, off') /\ Fits(rec, off)
      BY <1>9, <2>1, <2>3, <2>4 DEF Fits
    <2>6. denied' \subseteq Calls /\ \A d \in denied' : d[1] <= pull.head
      BY <1>1, <2>2, <2>4, RefusedHeads
    <2>7. CASE Ready
      <3>1. Park(rec)
        BY <1>14, <2>7 DEF Refused
      <3> HIDE DEF rec
      <3> QED
        BY <2>1, <2>2, <2>4, <2>5, <2>6, <3>1, ParkKeeps
    <2>8. CASE ~Ready
      <3>1. Save(rec)
        BY <1>14, <2>8 DEF Refused
      <3>2. call[1] = snap.head /\ call[2] = "arm"
        BY <2>8 DEF Ready, What
      \* Another refusal of this head would be the one on the record, which is no new call.
      <3>3. \A d \in denied : d[2] = "arm" /\ d[1] # snap.head
        <4>1. ASSUME NEW d \in denied, d[1] = snap.head PROVE FALSE
          <5>1. item.refused = {d} /\ d[2] = "arm" /\ d \in Calls
            BY <1>0, <2>1, <4>1 DEF RefusalsHold, Seen, Steps
          <5>2. d = <<d[1], d[2]>>
            BY <5>1 DEF Calls
          <5>3. WasRefused
            BY <3>2, <4>1, <5>1, <5>2 DEF WasRefused
          <5> QED
            BY <1>14, <5>3 DEF Refused, Refusal, Call
        <4> QED
          BY <1>0, <4>1 DEF RefusalsHold
      <3>4. RefusalsHold'
        <4>1. op' = Idle /\ item'.refused = {call} /\ Seen' = pull.head
          BY <2>3, <2>4, <3>1 DEF Save, Seen, Idle, Steps
        <4>2. \A d \in denied : d[1] = pull.head => FALSE
          <5>1. \A d \in denied : d[1] <= snap.head /\ d[1] \in Nat
            BY <2>1 DEF RefusalsHold, Seen, Steps, Calls, Heads
          <5> QED
            BY <1>1, <3>3, <5>1
        <4> HIDE DEF call
        <4> QED
          BY <2>4, <2>6, <3>2, <3>3, <4>1, <4>2 DEF RefusalsHold
      <3> HIDE DEF rec
      <3> QED
        BY <1>0, <1>9, <2>1, <2>2, <2>3, <2>4, <2>5, <2>6, <3>1, <3>4, SaveKeeps
    <2> QED
      BY <2>7, <2>8
  <1> QED
    BY <1>3, <1>4, <1>5, <1>6, <1>7, <1>8, <1>10, <1>11, <1>12, <1>13, <1>14 DEF MergeStep

LEMMA OwnerKeeps == ASSUME MergeInvariant, Owner PROVE MergeInvariant'
  <1> USE DEF MergeInvariant, Records
  <1>1. used' \in UsedRecord
    BY PersonUsed, MishapUsed DEF Owner, Retry, Leave, LeaveDisarms, Left, LeaveFails
  \* Mark done and Remove end the item: nothing of AgentPier's is armed, or GitHub was
  \* not asked.
  <1>2. ASSUME NEW to \in {"done", "removed"}, NEW unchecked \in BOOLEAN,
               Finish(to, unchecked), UNCHANGED <<repo, pull, off, saw, denied>>,
               unchecked \/ pull.state # "open" \/ pull.arm # "us"
        PROVE  MergeInvariant'
    <2> DEFINE rec == [item EXCEPT !.state = to, !.unchecked = unchecked]
    <2>1. rec \in ItemRecord /\ rec.state = to /\ rec.unchecked = unchecked
          /\ rec.armedHead = item.armedHead /\ rec.lastSha = item.lastSha
      BY DEF ItemRecord
    <2>2. item' = rec /\ op' = Idle
      BY <1>2 DEF Finish, Save
    <2>3. DoneUnarmed' /\ ReviewStops'
      BY <1>2, <2>1, <2>2 DEF DoneUnarmed, ReviewStops
    <2> HIDE DEF rec
    <2>4. Fits(item', off') /\ ~Awaiting'
      BY <1>2, <2>1, <2>2, RecordsFit DEF Fits, Awaiting
    <2>5. RefusalsHold'
      BY <1>2, <2>2, <2>4, RefusalsKept
    <2> QED
      BY <1>1, <1>2, <2>1, <2>2, <2>3, <2>4, <2>5, EndKeeps
  <1>3. CASE Retry
    <2> DEFINE left == [item EXCEPT !.state = "left"]
    <2>1. /\ left \in ItemRecord /\ left.state = "left"
          /\ left.armedHead = item.armedHead /\ left.lastSha = item.lastSha
      BY DEF ItemRecord
    <2>2. /\ op' = Idle /\ item' \in {left, Fresh} /\ off' = {} /\ saw' = FALSE
          /\ denied' = {} /\ UNCHANGED <<repo, pull>>
      BY <1>3 DEF Retry, Save
    <2> HIDE DEF left
    <2>3. DoneUnarmed' /\ ReviewStops'
      BY <2>1, <2>2, IdleRecord DEF DoneUnarmed, ReviewStops
    <2>4. Fits(item', off') /\ item' \in ItemRecord
      BY <2>1, <2>2, IdleRecord, RecordsFit DEF Fits, PullRecord, Heads
    <2>5. Awaiting' => item'.failed < MaxRounds
      BY <2>1, <2>2, IdleRecord DEF Awaiting
    <2>6. RefusalsHold' /\ denied' \subseteq Calls
      BY <2>2 DEF RefusalsHold
    <2> QED
      BY <1>1, <2>2, <2>3, <2>4, <2>5, <2>6, EndKeeps
  <1>4. CASE Leave
    <2>1. PICK to \in {"done", "removed"} :
             IF MayBeArmed /\ pull.state = "open"
             THEN /\ op' = [at |-> "leave", snap |-> Snapshot("other"), to |-> to]
                  /\ UNCHANGED item
             ELSE Finish(to, FALSE)
      BY <1>4 DEF Leave
    <2>2. UNCHANGED <<repo, pull, off, saw, denied>> /\ item.state = "needs-owner"
      BY <1>4 DEF Leave
    <2>3. CASE pull.state # "open"
      BY <1>2, <2>1, <2>2, <2>3
    <2>4. CASE pull.state = "open"
      <3>1. op' = [at |-> "leave", snap |-> Snapshot("other"), to |-> to] /\ item' = item
        BY <2>1, <2>2, <2>4 DEF MayBeArmed
      <3>2. Snapshot("other") \in SnapRecord
        BY DEF Snapshot, SnapRecord, PullRecord, Heads
      <3>3. op' \in OpRecord /\ op'.at = "leave" /\ op'.to = to
        BY <3>1, <3>2 DEF OpRecord
      <3>4. op'.snap.arm = (pull.arm # "no")
        BY <3>1, Zenon DEF Snapshot
      <3>5. Records'
        BY <1>1, <2>2, <3>1, <3>3
      <3>6. StepsOf' /\ SnapshotHolds' /\ HeadsGrow' /\ RefusalsHold'
        <4>1. StepsOf' /\ SnapshotHolds'
          BY <2>2, <3>1, <3>3, <3>4 DEF StepsOf, SnapshotHolds, Steps, Awaiting, snap
        <4>2. HeadsGrow' /\ RefusalsHold'
          BY <2>2, <3>1, <3>3, RefusedHeads
          DEF HeadsGrow, RefusalsHold, Seen, MayRequeue, Steps, Awaiting
        <4> QED
          BY <4>1, <4>2
      <3> QED
        BY <2>2, <3>1, <3>3, <3>5, <3>6 DEF DoneUnarmed, ReviewStops
    <2> QED
      BY <2>3, <2>4
  <1>5. CASE LeaveDisarms
    <2>1. op' \in OpRecord /\ op'.at = "leave" /\ op'.to = op.to
      BY <1>5 DEF LeaveDisarms, OpRecord, SnapRecord
    <2>2. pull' \in PullRecord /\ pull'.head = pull.head /\ pull'.arm = "no"
      BY <1>5 DEF LeaveDisarms, PullRecord, Arms
    <2>3. UNCHANGED <<repo, item, used, off, saw, denied>> /\ item.state = "needs-owner"
          /\ op.to # "none"
      BY <1>5 DEF LeaveDisarms, StepsOf
    <2>4. Records'
      BY <2>1, <2>2, <2>3
    <2>5. StepsOf' /\ SnapshotHolds'
      BY <2>1, <2>2, <2>3 DEF StepsOf, SnapshotHolds, Steps, Awaiting
    <2>6. HeadsGrow' /\ RefusalsHold'
      BY <2>1, <2>2, <2>3, RefusedHeads
      DEF HeadsGrow, RefusalsHold, Seen, MayRequeue, Steps, Awaiting
    <2> QED
      BY <2>1, <2>2, <2>3, <2>4, <2>5, <2>6 DEF DoneUnarmed, ReviewStops
  <1>6. CASE Left
    <2>1. op.to \in {"done", "removed"} /\ pull.arm # "us"
      BY <1>6 DEF Left, StepsOf, SnapshotHolds, OpRecord
    <2> QED
      BY <1>2, <1>6, <2>1 DEF Left
  <1>7. CASE LeaveFails
    <2>1. op.to \in {"done", "removed"} /\ item.state = "needs-owner"
      BY <1>7 DEF LeaveFails, StepsOf, OpRecord
    <2>2. CASE op' = Idle /\ UNCHANGED item
      <3>1. UNCHANGED <<repo, pull, off, saw, denied>> /\ ~Awaiting' /\ Fits(item', off')
        BY <1>7, <2>1, <2>2, RecordsFit DEF LeaveFails, Awaiting, Fits
      <3>2. RefusalsHold' /\ DoneUnarmed' /\ ReviewStops'
        BY <2>1, <2>2, <3>1, RefusalsKept DEF DoneUnarmed, ReviewStops
      <3> QED
        BY <1>1, <2>2, <3>1, <3>2, EndKeeps
    <2>3. CASE Finish(op.to, TRUE)
      BY <1>2, <1>7, <2>1, <2>3 DEF LeaveFails
    <2> QED
      BY <1>7, <2>2, <2>3 DEF LeaveFails
  <1> QED
    BY <1>3, <1>4, <1>5, <1>6, <1>7 DEF Owner

\* People, checks and the merge queue change the pull request under a step, and never
\* arm it in AgentPier's name.
LEMMA GitHubKeeps == ASSUME MergeInvariant, GitHub PROVE MergeInvariant'
  <1> USE DEF MergeInvariant, Records
  <1>1. UNCHANGED <<repo, item, op, saw, denied>>
    BY DEF GitHub, World, Push, ChecksEnd, ChecksAgain, Review, PersonDisarms, QueueDrops,
           PersonArms, PullEnds, ArmMerges
  <1>2. used' \in UsedRecord
    BY PersonUsed, MishapUsed
    DEF GitHub, Push, ChecksEnd, ChecksAgain, Review, PersonDisarms, QueueDrops, PersonArms,
        PullEnds, ArmMerges
  \* What they do to the pull request, and to what a person disarmed.
  <1>3. /\ pull' \in PullRecord /\ pull.state = "open"
        /\ pull'.arm = "us" => pull.arm = "us"
        /\ off' \subseteq Heads
        /\ \/ pull'.head = pull.head /\ off' \subseteq off
           \/ pull'.head = pull.head + 1 /\ off' = off
           \/ /\ pull'.head = pull.head /\ off' = off \cup {pull.head}
              /\ item.armedHead = pull.head
    <2> USE DEF PullRecord, Heads, Checks, Reviews, Arms
    <2>1. CASE Push
      <3> DEFINE arm == IF repo = "queue" THEN "no" ELSE pull.arm
      <3>1. pull.head + 1 \in 1..MaxHeads /\ arm \in Arms /\ arm \in {"no", pull.arm}
        BY <2>1, Bounds DEF Push
      <3>2. /\ pull' = [pull EXCEPT !.head = pull.head + 1, !.checks = "pending", !.arm = arm]
            /\ pull.state = "open" /\ off' = off
        BY <2>1 DEF Push
      <3> HIDE DEF arm
      <3> QED
        BY <3>1, <3>2
    <2>2. CASE ChecksEnd
      BY <2>2 DEF ChecksEnd
    <2>3. CASE ChecksAgain
      BY <2>3 DEF ChecksAgain
    <2>4. CASE Review
      BY <2>4 DEF Review
    <2>5. CASE PersonDisarms
      BY <2>5 DEF PersonDisarms
    <2>6. CASE PersonArms
      BY <2>6 DEF PersonArms
    <2>7. CASE PullEnds
      BY <2>7 DEF PullEnds
    <2>8. CASE ArmMerges
      BY <2>8 DEF ArmMerges
    <2>9. CASE QueueDrops
      BY <2>9 DEF QueueDrops
    <2> QED
      BY <2>1, <2>2, <2>3, <2>4, <2>5, <2>6, <2>7, <2>8, <2>9 DEF GitHub
  <1>4. Records'
    BY <1>1, <1>2, <1>3
  <1>5. StepsOf' /\ SnapshotHolds'
    BY <1>1, <1>3 DEF StepsOf, SnapshotHolds, Awaiting, snap
  <1>6. HeadsGrow'
    <2>1. /\ {item.armedHead, item.lastSha, snap.head, pull.head} \subseteq Nat
          /\ off \subseteq 1..pull.head
      BY DEF ItemRecord, OpRecord, SnapRecord, PullRecord, Heads, HeadsGrow, snap
    <2>2. CASE pull'.head = pull.head /\ off' \subseteq off
      BY <1>1, <2>1, <2>2 DEF HeadsGrow, MayRequeue, snap
    <2>3. CASE pull'.head = pull.head + 1 /\ off' = off
      <3>1. pull'.head \notin off
        BY <2>1, <2>3
      <3>2. off' \subseteq 1..pull'.head
        BY <2>1, <2>3
      <3> QED
        BY <1>1, <2>1, <2>3, <3>1, <3>2 DEF HeadsGrow, snap
    <2>4. CASE /\ pull'.head = pull.head /\ off' = off \cup {pull.head}
               /\ item.armedHead = pull.head
      <3>1. off' \subseteq 1..pull'.head
        BY <1>3, <2>1, <2>4 DEF PullRecord, Heads
      <3> QED
        BY <1>1, <2>1, <2>4, <3>1 DEF HeadsGrow, snap
    <2> QED
      BY <1>3, <2>2, <2>3, <2>4
  \* A push is seen by the next step: no refusal is of the new head.
  <1>7. RefusalsHold'
    <2>1. op.at \in Steps => Seen' = Seen
      BY <1>1 DEF Seen, snap
    <2>2. op.at \notin Steps => Seen = pull.head /\ Seen' = pull'.head
      BY <1>1 DEF Seen
    <2>3. \A d \in denied : d[1] \in Nat /\ d[1] <= Seen /\ Seen \in Nat
      BY RefusedHeads DEF RefusalsHold, Calls, Heads
    <2>4. pull'.head = pull.head \/ pull'.head = pull.head + 1
      BY <1>3
    <2>5. \A d \in denied : d[1] <= Seen' /\ (d[1] = Seen' => d[1] = Seen)
      BY <2>1, <2>2, <2>3, <2>4
    <2> QED
      BY <1>1, <2>5 DEF RefusalsHold, Awaiting
  <1> QED
    BY <1>1, <1>3, <1>4, <1>5, <1>6, <1>7 DEF DoneUnarmed, ReviewStops

LEMMA CrashKeeps == ASSUME MergeInvariant, Crash PROVE MergeInvariant'
  <1>1. op' = Idle /\ saw' = FALSE /\ UNCHANGED <<repo, item, pull, off, denied>>
    BY DEF Crash
  <1>2. used' \in UsedRecord
    BY MishapUsed DEF Crash, MergeInvariant
  <1>3. Fits(item', off') /\ RefusalsHold'
    BY <1>1, RecordsFit, RefusalsKept DEF Fits, Awaiting
  <1>4. /\ item' \in ItemRecord /\ pull' \in PullRecord /\ denied' \subseteq Calls
        /\ saw' \in BOOLEAN /\ (Awaiting' => item'.failed < MaxRounds)
        /\ DoneUnarmed' /\ ReviewStops'
    BY <1>1 DEF MergeInvariant, Records, StepsOf, Awaiting, DoneUnarmed, ReviewStops
  <1> QED
    BY <1>1, <1>2, <1>3, <1>4, EndKeeps

LEMMA MergeInductive == Spec => []MergeInvariant
  <1>1. MergeInvariant /\ [Next]_vars => MergeInvariant'
    <2>1. ASSUME MergeInvariant, UNCHANGED vars PROVE MergeInvariant'
      BY <2>1 DEF vars, MergeInvariant, Records, StepsOf, SnapshotHolds, HeadsGrow,
                  RefusalsHold, Seen, MayRequeue, DoneUnarmed, ReviewStops, Awaiting, snap
    <2> QED
      BY <2>1, WatchKeeps, MergeStepKeeps, OwnerKeeps, GitHubKeeps, CrashKeeps DEF Next
  <1> QED
    BY <1>1, MergeInit, PTL DEF Spec

-----------------------------------------------------------------------------
(* The results.                                                             *)

\* Every step keeps the records well typed: a snapshot is one of a head there was, and no
\* more than MaxRounds rounds fail (sequence-engine.js: mergeStep, fixStep).
THEOREM TypeCorrect == Spec => []TypeOK
  <1>1. MergeInvariant => TypeOK
    BY DEF MergeInvariant, Records, ItemRecord, OpRecord, PullRecord, Steps, Calls, TypeOK
  <1> QED
    BY <1>1, MergeInductive, PTL

\* A ticket that was marked done or removed leaves nothing armed that AgentPier armed,
\* recorded or not (sequence-service.js: leave; pr-status.js: disarm).
THEOREM DoneLeavesNothingArmed == Spec => []DoneUnarmed
  BY MergeInductive, PTL DEF MergeInvariant

\* A review that requests changes stops the merge, whatever fix the same step began and
\* however often its disarming failed (sequence-engine.js: mergeStep).
THEOREM ReviewsStopMerges == Spec => []ReviewStops
  BY MergeInductive, PTL DEF MergeInvariant

\* What GitHub refused for a head is not tried again on it: the one refusal on the record
\* is enough, whatever a later head was refused (sequence-engine.js: mergeStep).
THEOREM RefusalsRest == Spec => []RefusedOnce
  <1>1. ASSUME MergeInvariant, Call, NEW d \in denied, d = <<snap.head, What>> PROVE FALSE
    <2>1. op.at \in Steps /\ Awaiting
      BY <1>1 DEF Call, GoesOn, Undecided, Merging, MergeInvariant, StepsOf, Steps
    <2>2. item.refused = {d}
      BY <1>1, <2>1 DEF MergeInvariant, RefusalsHold, Seen
    <2> QED
      BY <1>1, <2>2 DEF Call, WasRefused
  <1>2. MergeInvariant => RefusedOnce
    BY <1>1 DEF RefusedOnce
  <1> QED
    BY <1>2, MergeInductive, PTL

\* What a person disarmed stays disarmed, however old the snapshot is that a step decides
\* on; a merge queue gets a head again only after its checks failed (sequence-engine.js:
\* mergeStep; sequence-fixes.js).
THEOREM DisarmedStaysDisarmed == Spec => NotArmedAgain
  <1> DEFINE Lifts == /\ op' # op
                      /\ \/ pull.arm # "us" /\ pull'.arm = "us"
                         \/ pull.state = "open" /\ pull'.state = "merged"
             Fair == pull.head = snap.head /\ (pull.head \in off => MayRequeue)
  <1>1. ASSUME MergeInvariant, [Next]_vars, Lifts PROVE Fair
    <2> USE DEF MergeInvariant, Records
    <2>1. Arm \/ CallLost
      <3>1. ~GitHub /\ ~Crash /\ ~UNCHANGED vars
        BY <1>1 DEF vars, GitHub, World, Push, ChecksEnd, ChecksAgain, Review, PersonDisarms,
                    QueueDrops, PersonArms, PullEnds, ArmMerges, Crash
      <3>2. ~Owner
        BY <1>1 DEF Owner, Retry, Leave, LeaveDisarms, Left, LeaveFails, PullRecord
      <3>3. ~Watch
        BY <1>1 DEF Watch, ReadMerged, ReadClosed, Unreadable, Read, Fix, FailedRounds,
                    FixFails
      <3>4. ~Disarm /\ ~DisarmFails
        BY <1>1 DEF Disarm, DisarmFails, PullRecord
      <3> QED
        BY <1>1, <3>1, <3>2, <3>3, <3>4
        DEF Next, MergeStep, Disarmed, Record, StaysRed, MergeDisarmed, Waits, StillRefused,
            Armed, Refused, Refusal
    <2>2. GoesOn /\ CanLand
      BY <1>1, <2>1 DEF Arm, CallLost, Call
    <2>3. ASSUME pull.head \in off PROVE MayRequeue
      <3>1. CASE item.armedHead = pull.head
        BY <2>2, <3>1 DEF CanLand, GoesOn, ArmedBefore, Requeued, MayRequeue
      <3> QED
        BY <1>1, <2>3, <3>1 DEF HeadsGrow
    <2> QED
      BY <2>2, <2>3 DEF CanLand
  <1>2. MergeInvariant /\ [Next]_vars => [Lifts => Fair]_vars
    BY <1>1
  <1> QED
    BY <1>2, MergeInductive, PTL DEF Spec, NotArmedAgain
=============================================================================
