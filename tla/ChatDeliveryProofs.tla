------------------------- MODULE ChatDeliveryProofs -------------------------
(***************************************************************************)
(* Every state of the delivery has the right type, nothing is sent twice   *)
(* and nothing rejected was sent; what the CLI reports of a message        *)
(* reaches its receipt, and a held Enter finds its message, for every set  *)
(* of messages, images and drafts and any number of recoveries, crashes    *)
(* and new CLI processes.                                                  *)
(*                                                                         *)
(* JournalInvariant (ChatDelivery) is inductive. An action either leaves   *)
(* what it reads alone (Quiet), moves the transaction under the lock one   *)
(* step on (TxMoves), ends it (Fail, Settle), or gives and takes messages. *)
(*                                                                         *)
(* The second half builds on it. TextInvariant follows the text of a       *)
(* message: it is in the prompt box or in one submitted prompt, so once a  *)
(* prompt with it was accepted no Enter is sent for it any more. On that,  *)
(* EventsInvariant says that an acceptance waits in early or stands in the *)
(* receipt.                                                                *)
(***************************************************************************)
EXTENDS ChatDelivery, TLAPS

-----------------------------------------------------------------------------
(* Lemmas about the data.                                                   *)

LEMMA PieceTypes ==
    ASSUME NEW m \in Messages
    PROVE  /\ Full(m) \subseteq Pieces
           /\ Full(m) \in Box
           /\ \A intent : PieceOf(m, intent) \in Full(m)
  BY ChatDeliveryAssumption DEF Full, ImagesOf, Pieces, PieceOf, Box

LEMMA NoTxType == NoTx \in Tx /\ NewJob \in Job
  <1>1. (CHOOSE m \in Messages : TRUE) \in Messages
    BY ChatDeliveryAssumption
  <1>2. {} \in Box
    BY DEF Box
  <1> QED
    BY <1>1, <1>2 DEF NoTx, NewJob, Tx, Job, Intents, Modes

\* What remains of a queue when one message leaves it.
LEMMA WithoutRemoves ==
    ASSUME NEW q \in Seq(Messages), NEW m \in Messages,
           \E k \in 1..Len(q) : q[k] = m
    PROVE  /\ Without(q, m) \in Seq(Messages)
           /\ Len(Without(q, m)) = Len(q) - 1
           /\ \A k \in 1..(Len(q) - 1) : \E j \in 1..Len(q) : Without(q, m)[k] = q[j]
           /\ (\A j, k \in 1..Len(q) : q[j] = q[k] => j = k) =>
                /\ \A j, k \in 1..(Len(q) - 1) :
                      Without(q, m)[j] = Without(q, m)[k] => j = k
                /\ \A k \in 1..(Len(q) - 1) : Without(q, m)[k] # m
           /\ \A j \in 1..Len(q) : q[j] # m =>
                 \E k \in 1..(Len(q) - 1) : Without(q, m)[k] = q[j]
           /\ q[1] # m => Without(q, m)[1] = q[1] /\ Len(q) > 1
  <1> DEFINE i == CHOOSE k \in 1..Len(q) : q[k] = m
             w == [k \in 1..(Len(q) - 1) |-> q[IF k < i THEN k ELSE k + 1]]
  <1>1. i \in 1..Len(q) /\ q[i] = m
    OBVIOUS
  <1>2. Without(q, m) = w
    BY DEF Without
  <1> HIDE DEF i
  <1>3. Len(q) \in Nat /\ \A k \in 1..Len(q) : q[k] \in Messages
    OBVIOUS
  <1>4. w \in Seq(Messages) /\ Len(w) = Len(q) - 1
    <2>1. \A k \in 1..(Len(q) - 1) : (IF k < i THEN k ELSE k + 1) \in 1..Len(q)
      BY <1>1, <1>3
    <2>2. w \in [1..(Len(q) - 1) -> Messages] /\ Len(q) - 1 \in Nat
      BY <1>1, <1>3, <2>1
    <2> QED
      BY <2>2
  <1>5. \A k \in 1..(Len(q) - 1) : \E j \in 1..Len(q) : w[k] = q[j]
    BY <1>1, <1>3
  <1>6. ASSUME \A j, k \in 1..Len(q) : q[j] = q[k] => j = k
        PROVE  /\ \A j, k \in 1..(Len(q) - 1) : w[j] = w[k] => j = k
               /\ \A k \in 1..(Len(q) - 1) : w[k] # m
    BY <1>1, <1>3, <1>6
  <1>7. ASSUME NEW j \in 1..Len(q), q[j] # m
        PROVE  \E k \in 1..(Len(q) - 1) : w[k] = q[j]
    <2>1. CASE j < i
      BY <1>1, <1>3, <2>1
    <2>2. CASE j > i
      <3>1. j - 1 \in 1..(Len(q) - 1) /\ w[j - 1] = q[j]
        BY <1>1, <1>3, <2>2
      <3> QED
        BY <3>1
    <2> QED
      BY <1>1, <1>3, <1>7, <2>1, <2>2
  <1>8. q[1] # m => w[1] = q[1] /\ Len(q) > 1
    BY <1>1, <1>3
  <1> QED
    BY <1>2, <1>4, <1>5, <1>6, <1>7, <1>8

-----------------------------------------------------------------------------
(* Type correctness: the parts of TypeOK, each disturbed by few actions.    *)

DeliveryOK ==
    /\ receipt \in [Messages -> Receipt] /\ active \subseteq Messages
    /\ queue \in Seq(Messages) /\ ahead \in [Messages -> SUBSET Messages]
    /\ job \in [Messages -> Job]
    /\ worker \in {"rest", "lock"} /\ tx \in Tx
SessionOK ==
    /\ expecting \subseteq Messages
    /\ early \in [Messages -> {"none", "accepted", "dropped"}]
    /\ blocking \subseteq Messages \X Nat
TerminalOK ==
    /\ box \in Box /\ prompts \subseteq Box
    /\ dialog \in BOOLEAN /\ request \in BOOLEAN /\ generation \in Nat
HistoryOK ==
    /\ pasted \in [Pieces -> Nat] /\ entered \in [Messages -> Nat]
    /\ dropped \subseteq Messages /\ reported \subseteq Messages /\ crashes \in Nat

LEMMA TypeParts == TypeOK <=> DeliveryOK /\ SessionOK /\ TerminalOK /\ HistoryOK
  BY DEF TypeOK, DeliveryOK, SessionOK, TerminalOK, HistoryOK

LEMMA TypePartsNext ==
    TypeOK' <=> DeliveryOK' /\ SessionOK' /\ TerminalOK' /\ HistoryOK'
  BY DEF TypeOK, DeliveryOK, SessionOK, TerminalOK, HistoryOK

LEMMA TypeInit == Init => TypeOK
  <1>1. Init => DeliveryOK
    BY NoTxType DEF Init, DeliveryOK, Receipt, Statuses, Phases, Reasons
  <1>2. Init => SessionOK
    BY DEF Init, SessionOK
  <1>3. Init => TerminalOK
    <2>1. {} \in Box /\ {} \subseteq Box
      BY DEF Box
    <2>2. Init => dialog \in BOOLEAN /\ request \in BOOLEAN
      BY Zenon DEF Init
    <2> QED
      BY <2>1, <2>2 DEF Init, TerminalOK
  <1>4. Init => HistoryOK
    BY DEF Init, HistoryOK
  <1> QED
    BY <1>1, <1>2, <1>3, <1>4, TypeParts

LEMMA MarkedType ==
    ASSUME receipt \in [Messages -> Receipt], NEW m \in Messages,
           NEW status \in Statuses, NEW phase \in Phases, NEW waiting \in Reasons
    PROVE  LET marked == Marked(m, status, phase, waiting)
           IN  /\ marked \in [Messages -> Receipt]
               /\ \A n \in Messages \ {m} : marked[n] = receipt[n]
               /\ marked[m].status = status /\ marked[m].phase = phase
               /\ marked[m].attempt = receipt[m].attempt
  BY DEF Marked, Receipt

LEMMA ReleaseType ==
    ASSUME DeliveryOK, NEW m \in Messages, Release(m)
    PROVE  /\ active' \subseteq Messages /\ queue' \in Seq(Messages)
           /\ ahead' \in [Messages -> SUBSET Messages] /\ job' \in [Messages -> Job]
  BY NoTxType, WithoutRemoves DEF DeliveryOK, Release, Queued

LEMMA EndTxType ==
    ASSUME DeliveryOK, NEW by, EndTx(by)
    PROVE  tx' \in Tx /\ worker' \in {"rest", "lock"}
  BY NoTxType DEF DeliveryOK, EndTx

LEMMA SettleType ==
    ASSUME DeliveryOK, SessionOK, NEW m \in Messages, NEW by,
           NEW status \in Statuses, NEW phase \in Phases, Settle(m, by, status, phase)
    PROVE  DeliveryOK' /\ SessionOK'
  <1>1. receipt' \in [Messages -> Receipt]
    <2>1. receipt \in [Messages -> Receipt]
      BY DEF DeliveryOK
    <2>2. (IF (IF phase \in EnterMaySent THEN early[m] ELSE "none") = "accepted"
           THEN Confirmed(status) ELSE status) \in Statuses
      BY DEF Confirmed, Statuses
    <2> QED
      BY <2>1, <2>2, MarkedType DEF Settle, Reasons
  <1>2. SessionOK'
    <2>1. receipt[m].attempt \in Nat
      BY DEF DeliveryOK, Receipt
    <2> QED
      BY <2>1 DEF Settle, SessionOK
  <1> QED
    BY <1>1, <1>2, ReleaseType, EndTxType DEF Settle, DeliveryOK

LEMMA HoldType ==
    ASSUME DeliveryOK, SessionOK, NEW m \in Messages, NEW by,
           NEW why \in Reasons, NEW phase \in Holdable, Hold(m, by, why, phase)
    PROVE  DeliveryOK' /\ SessionOK'
  <1>1. receipt' \in [Messages -> Receipt]
    <2>1. receipt \in [Messages -> Receipt]
      BY DEF DeliveryOK
    <2>2. /\ (IF by = "recover" /\ phase = "reserved" THEN "pending"
               ELSE receipt[m].status) \in Statuses
          /\ phase \in Phases
      BY <2>1 DEF Statuses, Receipt, Phases, Holdable
    <2> QED
      BY <2>1, <2>2, MarkedType DEF Hold
  <1>2. HeldMode(phase) \in Modes
    BY DEF HeldMode, Holdable, Modes
  <1>3. job' \in [Messages -> Job]
    BY <1>2 DEF Hold, DeliveryOK, Job, Tx
  <1>4. queue' \in Seq(Messages)
    BY DEF Hold, DeliveryOK
  <1>5. SessionOK'
    BY DEF Hold, SessionOK
  <1> QED
    BY <1>1, <1>3, <1>4, <1>5, EndTxType DEF Hold, DeliveryOK

LEMMA FailType ==
    ASSUME DeliveryOK, SessionOK, NEW m \in Messages, NEW by,
           NEW why \in Reasons, NEW phase \in Phases, Fail(m, by, why, phase)
    PROVE  DeliveryOK' /\ SessionOK'
  <1>1. CASE Hold(m, by, why, phase) /\ phase \in Holdable
    BY <1>1, HoldType
  <1>2. CASE Settle(m, by, IF phase = "reserved" THEN "rejected" ELSE "uncertain", phase)
    BY <1>2, SettleType DEF Statuses
  <1> QED
    BY <1>1, <1>2 DEF Fail

\* A transaction that ends by a failure, with the journal as it is or as proven.
LEMMA FailTxType ==
    ASSUME DeliveryOK, SessionOK, NEW why \in Reasons, NEW phase \in Phases,
           FailTx(why, phase)
    PROVE  DeliveryOK' /\ SessionOK'
  <1>1. tx.m \in Messages
    BY DEF DeliveryOK, Tx
  <1> QED
    BY <1>1, FailType DEF FailTx

LEMMA OwnerType ==
    ASSUME TypeOK, NEW m \in Messages, Send(m) \/ Cancel(m) \/ Recover(m)
    PROVE  TypeOK'
  <1> USE DEF terminal, session, history, line
  <1>0. DeliveryOK /\ SessionOK /\ TerminalOK /\ HistoryOK
    BY TypeParts
  <1>1. CASE Send(m)
    <2>1. receipt' \in [Messages -> Receipt]
      BY <1>0, <1>1 DEF Send, DeliveryOK, Receipt, Statuses, Reasons
    <2>2. queue' \in Seq(Messages) /\ ahead' \in [Messages -> SUBSET Messages]
      BY <1>0, <1>1 DEF Send, DeliveryOK
    <2>3. DeliveryOK'
      BY <1>0, <1>1, <2>1, <2>2 DEF Send, DeliveryOK
    <2> QED
      BY <1>0, <1>1, <2>3, TypePartsNext DEF Send, SessionOK, TerminalOK, HistoryOK
  <1>2. CASE Cancel(m)
    <2>1. DeliveryOK'
      <3>1. CASE Running(m)
        BY <1>0, <1>2, <3>1 DEF Cancel, DeliveryOK, Job
      <3>2. CASE ~Running(m)
        <4>1. receipt' \in [Messages -> Receipt]
          <5>1. receipt \in [Messages -> Receipt] /\ receipt[m].phase \in Phases
            BY <1>0 DEF DeliveryOK, Receipt
          <5> QED
            BY <1>2, <3>2, <5>1, MarkedType DEF Cancel, Statuses, Reasons
        <4> QED
          BY <1>0, <1>2, <3>2, <4>1, ReleaseType DEF Cancel, DeliveryOK
      <3> QED
        BY <3>1, <3>2
    <2> QED
      BY <1>0, <1>2, <2>1, TypePartsNext DEF Cancel, SessionOK, TerminalOK, HistoryOK
  <1>3. CASE Recover(m)
    <2>1. PICK mode \in Modes : HoldRecovered(m, mode) \/ WriteRecovered(m, mode)
      BY <1>3 DEF Recover
    <2>2. active' \subseteq Messages /\ ahead' \in [Messages -> SUBSET Messages]
      BY <1>0, <1>3 DEF Recover, DeliveryOK
    <2>3. CASE HoldRecovered(m, mode)
      <3>1. receipt' \in [Messages -> Receipt]
        <4> DEFINE n == receipt[m].attempt + 1
                   r == [receipt EXCEPT ![m].attempt = n]
        <4>0. receipt \in [Messages -> Receipt] /\ n \in Nat
          BY <1>0 DEF DeliveryOK, Receipt
        <4>1. r \in [Messages -> Receipt]
          <5> HIDE DEF n
          <5> QED
            BY <4>0 DEF Receipt
        <4>2. receipt' = [r EXCEPT ![m].waiting =
                             IF queue # <<>> THEN "queue" ELSE "request"]
          BY <1>0, <2>3 DEF HoldRecovered, DeliveryOK
        <4> HIDE DEF r
        <4> QED
          BY <4>1, <4>2 DEF Receipt, Reasons
      <3>2. [NewJob EXCEPT !.mode = mode, !.started = TRUE] \in Job
        BY NoTxType DEF Job, NewJob
      <3>3. job' \in [Messages -> Job] /\ queue' \in Seq(Messages) /\ tx' = tx
        BY <1>0, <2>3, <3>2 DEF HoldRecovered, DeliveryOK
      <3> QED
        BY <1>0, <1>3, <2>2, <3>1, <3>3, TypePartsNext
        DEF Recover, DeliveryOK, SessionOK, TerminalOK, HistoryOK
    <2>4. CASE WriteRecovered(m, mode)
      <3>1. receipt' \in [Messages -> Receipt]
        <4> DEFINE n == receipt[m].attempt + 1
                   r == [receipt EXCEPT ![m].attempt = n]
        <4>0. receipt \in [Messages -> Receipt] /\ n \in Nat
          BY <1>0 DEF DeliveryOK, Receipt
        <4>1. r \in [Messages -> Receipt]
          <5> HIDE DEF n
          <5> QED
            BY <4>0 DEF Receipt
        <4>2. receipt' = [r EXCEPT ![m].status = "uncertain"]
          BY <1>0, <2>4 DEF WriteRecovered, DeliveryOK
        <4> HIDE DEF r
        <4> QED
          BY <4>1, <4>2 DEF Receipt, Statuses
      <3>2. tx' \in Tx
        <4>1. FirstIntent(mode) \in Intents
          BY DEF FirstIntent, Modes, Intents
        <4> QED
          BY <1>0, <2>4, <4>1, NoTxType DEF WriteRecovered, Tx, NoTx, TerminalOK
      <3>3. job' = job /\ queue' = queue
        BY <2>4 DEF WriteRecovered
      <3> QED
        BY <1>0, <1>3, <2>2, <3>1, <3>2, <3>3, TypePartsNext
        DEF Recover, DeliveryOK, SessionOK, TerminalOK, HistoryOK
    <2> QED
      BY <2>1, <2>3, <2>4
  <1> QED
    BY <1>1, <1>2, <1>3

LEMMA WorkerType ==
    ASSUME TypeOK, Worker \/ \E m \in Messages : PassDeadline(m)
    PROVE  TypeOK'
  <1> USE DEF terminal, session, history, line
  <1>0. DeliveryOK /\ SessionOK /\ TerminalOK /\ HistoryOK
    BY TypeParts
  <1>h. queue # <<>> => Head(queue) \in Messages
    BY <1>0 DEF DeliveryOK
  <1>1. ASSUME NEW m \in Messages, PassDeadline(m) PROVE TypeOK'
    <2>1. job' \in [Messages -> Job]
      BY <1>0, <1>1 DEF PassDeadline, DeliveryOK, Job
    <2> QED
      BY <1>0, <1>1, <2>1, TypePartsNext
      DEF PassDeadline, DeliveryOK, SessionOK, TerminalOK, HistoryOK
  <1>2. CASE Begin
    <2> DEFINE m == Head(queue)
    <2>1. receipt' \in [Messages -> Receipt]
      BY <1>0, <1>2, <1>h DEF Begin, DeliveryOK, Receipt, Reasons
    <2>2. job' \in [Messages -> Job]
      BY <1>0, <1>2, <1>h DEF Begin, DeliveryOK, Job
    <2> QED
      BY <1>0, <1>2, <2>1, <2>2, TypePartsNext
      DEF Begin, DeliveryOK, SessionOK, TerminalOK, HistoryOK
  <1>3. CASE Expire
    <2>1. receipt' \in [Messages -> Receipt]
      <3>1. receipt \in [Messages -> Receipt] /\ receipt[Head(queue)].phase \in Phases
        BY <1>0, <1>3, <1>h DEF Expire, DeliveryOK, Receipt
      <3> QED
        BY <1>3, <1>h, <3>1, MarkedType DEF Expire, Statuses, Reasons
    <2>2. DeliveryOK' /\ SessionOK'
      BY <1>0, <1>3, <1>h, <2>1, ReleaseType DEF Expire, DeliveryOK, SessionOK
    <2> QED
      BY <1>0, <1>3, <2>2, TypePartsNext DEF Expire, TerminalOK, HistoryOK
  <1>4. CASE Lock
    <2> DEFINE m == Head(queue)
    <2>0. m \in Messages /\ receipt[m].phase \in Phases
      BY <1>0, <1>4, <1>h DEF Lock, DeliveryOK, Receipt
    <2>1. CASE \E why \in {"none", "request"} : Fail(m, "attempt", why, receipt[m].phase)
      <3>1. DeliveryOK' /\ SessionOK'
        BY <1>0, <2>0, <2>1, FailType DEF Reasons
      <3> QED
        BY <1>0, <1>4, <3>1, TypePartsNext DEF Lock, TerminalOK, HistoryOK
    <2>2. CASE ~\E why \in {"none", "request"} : Fail(m, "attempt", why, receipt[m].phase)
      <3>1. receipt' \in [Messages -> Receipt]
        <4> DEFINE r == [receipt EXCEPT ![m].phase = "reserved"]
        <4>1. r \in [Messages -> Receipt]
          BY <1>0, <2>0 DEF DeliveryOK, Receipt, Phases
        <4>2. receipt' = receipt \/ receipt' = [r EXCEPT ![m].generation = generation]
          BY <1>0, <1>4, <2>2 DEF Lock, DeliveryOK
        <4> HIDE DEF r
        <4> QED
          BY <1>0, <4>1, <4>2 DEF Receipt, DeliveryOK, TerminalOK
      <3>2. tx' \in Tx
        <4>1. job[m].mode \in Modes /\ job[m].proof \in Box
          BY <1>0, <2>0 DEF DeliveryOK, Job
        <4>2. FirstIntent(job[m].mode) \in Intents
          BY <4>1 DEF FirstIntent, Modes, Intents
        <4>3. tx' = [NoTx EXCEPT !.by = "attempt", !.m = m, !.mode = job[m].mode,
                         !.step = IF job[m].mode # "send" THEN "intent" ELSE "prepare",
                         !.intent = FirstIntent(job[m].mode), !.generation = generation,
                         !.proof = job[m].proof]
          BY <1>4, <2>2 DEF Lock
        <4> QED
          BY <1>0, <2>0, <4>1, <4>2, <4>3, NoTxType DEF Tx, NoTx, TerminalOK
      <3> QED
        BY <1>0, <1>4, <2>2, <3>1, <3>2, TypePartsNext
        DEF Lock, DeliveryOK, SessionOK, TerminalOK, HistoryOK
    <2> QED
      BY <2>1, <2>2
  <1> QED
    BY <1>1, <1>2, <1>3, <1>4 DEF Worker

LEMMA WriterType ==
    ASSUME TypeOK, Writer PROVE TypeOK'
  <1> USE DEF terminal, session, history, line
  <1>0. DeliveryOK /\ SessionOK /\ TerminalOK /\ HistoryOK
    BY TypeParts
  <1>t. /\ tx.m \in Messages /\ tx.intent \in Intents /\ tx.generation \in Nat
        /\ receipt[tx.m].phase \in Phases
        /\ \A intent \in Intents : ProvenPhase(intent) \in Phases
        /\ Intents \subseteq Phases
    BY <1>0 DEF DeliveryOK, Receipt, Tx, ProvenPhase, Phases, Intents
  <1>f. ASSUME NEW why \in Reasons, NEW phase \in Phases, FailTx(why, phase)
        PROVE  DeliveryOK' /\ SessionOK'
    BY <1>0, <1>f, FailTxType
  <1>r. ASSUME NEW phase \in Phases,
               receipt' = [receipt EXCEPT ![tx.m].status = "uncertain",
                              ![tx.m].phase = phase, ![tx.m].generation = tx.generation]
        PROVE  receipt' \in [Messages -> Receipt]
    <2> DEFINE r1 == [receipt EXCEPT ![tx.m].status = "uncertain"]
               r2 == [r1 EXCEPT ![tx.m].phase = phase]
    <2>1. r1 \in [Messages -> Receipt]
      BY <1>0 DEF DeliveryOK, Receipt, Statuses
    <2>2. r2 \in [Messages -> Receipt]
      <3> HIDE DEF r1
      <3> QED
        BY <2>1 DEF Receipt
    <2>3. receipt' = [r2 EXCEPT ![tx.m].generation = tx.generation]
      BY <1>0, <1>r DEF DeliveryOK
    <2> HIDE DEF r2
    <2> QED
      BY <1>t, <2>2, <2>3 DEF Receipt
  <1>1. CASE Prepare
    <2>1. DeliveryOK' /\ SessionOK'
      <3>1. CASE \E why \in Reasons : FailTx(why, receipt[tx.m].phase)
        BY <1>t, <1>f, <3>1
      <3>2. CASE ~\E why \in Reasons : FailTx(why, receipt[tx.m].phase)
        <4>1. PICK rest \in {{}, box} :
                  tx' = [tx EXCEPT !.step = "intent", !.appended = rest # {}]
          BY <1>1, <3>2 DEF Prepare, Reasons
        <4>3. tx' \in Tx
          <5> DEFINE a == (rest # {})
          <5>1. tx' = [tx EXCEPT !.step = "intent", !.appended = a]
            BY <4>1
          <5>2. a \in BOOLEAN
            OBVIOUS
          <5> HIDE DEF a
          <5>3. [tx EXCEPT !.step = "intent"] \in Tx
            BY <1>0 DEF DeliveryOK, Tx
          <5> QED
            BY <1>0, <5>1, <5>2, <5>3 DEF DeliveryOK, Tx
        <4> QED
          BY <1>0, <1>1, <3>2, <4>3 DEF Prepare, Reasons, DeliveryOK, SessionOK
      <3> QED
        BY <3>1, <3>2
    <2>2. box' \in Box
      BY <1>0, <1>1 DEF Prepare, TerminalOK, Box
    <2> QED
      BY <1>0, <1>1, <2>1, <2>2, TypePartsNext DEF Prepare, TerminalOK, HistoryOK
  <1>2. CASE Intend
    <2>1. DeliveryOK' /\ SessionOK'
      <3>1. CASE \E why \in Reasons : FailTx(why, receipt[tx.m].phase)
        BY <1>t, <1>f, <3>1
      <3>2. CASE ~\E why \in Reasons : FailTx(why, receipt[tx.m].phase)
        <4>1. receipt' \in [Messages -> Receipt]
          BY <1>2, <1>t, <1>r, <3>2 DEF Intend, Reasons
        <4>2. tx' = [tx EXCEPT !.step = "guard"]
          BY <1>2, <3>2 DEF Intend, Reasons, GoOn
        <4>3. tx' \in Tx
          BY <1>0, <4>2 DEF DeliveryOK, Tx
        <4>4. SessionOK'
          BY <1>0, <1>2, <1>t, <3>2 DEF Intend, Reasons, SessionOK
        <4> QED
          BY <1>0, <1>2, <3>2, <4>1, <4>3, <4>4 DEF Intend, Reasons, DeliveryOK
      <3> QED
        BY <3>1, <3>2
    <2> QED
      BY <1>0, <1>2, <2>1, TypePartsNext DEF Intend, TerminalOK, HistoryOK
  <1>3. CASE Guard
    <2>1. DeliveryOK' /\ SessionOK'
      <3>1. CASE \E why \in Reasons : FailTx(why, ProvenPhase(tx.intent))
        BY <1>t, <1>f, <3>1
      <3>2. CASE ~\E why \in Reasons : FailTx(why, ProvenPhase(tx.intent))
        <4>1. PICK rest \in {{}, box} :
                tx' = [tx EXCEPT !.step = "bytes",
                          !.appended = IF tx.intent = "paste-intent"
                                       THEN rest # {} ELSE @,
                          !.proof = IF tx.intent = "text-intent" THEN box ELSE @]
          BY <1>3, <3>2 DEF Guard, Reasons
        <4>2. tx' \in Tx
          <5> DEFINE a == IF tx.intent = "paste-intent" THEN rest # {} ELSE tx.appended
                     b == IF tx.intent = "text-intent" THEN box ELSE tx.proof
                     t == [tx EXCEPT !.step = "bytes"]
                     u == [t EXCEPT !.appended = a]
          <5>1. tx' = [u EXCEPT !.proof = b]
            BY <1>0, <4>1 DEF DeliveryOK, Tx
          <5>2. a \in BOOLEAN
            <6>1. (rest # {}) \in BOOLEAN
              OBVIOUS
            <6>2. tx.appended \in BOOLEAN
              BY <1>0 DEF DeliveryOK, Tx
            <6> QED
              BY <6>1, <6>2
          <5>3. b \in Box
            BY <1>0 DEF DeliveryOK, Tx, TerminalOK
          <5>4. t \in Tx
            BY <1>0 DEF DeliveryOK, Tx
          <5> HIDE DEF a, b, t
          <5>5. u \in Tx
            BY <5>2, <5>4 DEF Tx
          <5> HIDE DEF u
          <5> QED
            BY <5>1, <5>3, <5>5 DEF Tx
        <4> QED
          BY <1>0, <1>3, <3>2, <4>2 DEF Guard, Reasons, DeliveryOK, SessionOK
      <3> QED
        BY <3>1, <3>2
    <2>2. box' \in Box
      <3>1. box \in Box /\ {} \in Box
        BY <1>0 DEF TerminalOK, Box
      <3>2. box' \in {{}, box}
        BY <1>3 DEF Guard
      <3> QED
        BY <3>1, <3>2
    <2> QED
      BY <1>0, <1>3, <2>1, <2>2, TypePartsNext DEF Guard, TerminalOK, HistoryOK
  <1>4. CASE Paste
    <2>1. DeliveryOK' /\ SessionOK'
      <3>1. CASE FailTx("none", tx.intent)
        BY <1>t, <1>f, <3>1 DEF Reasons
      <3>2. CASE ~FailTx("none", tx.intent)
        BY <1>0, <1>4, <3>2 DEF Paste, GoOn, DeliveryOK, SessionOK, Tx
      <3> QED
        BY <3>1, <3>2
    <2>2. PieceOf(tx.m, tx.intent) \in Pieces
      BY <1>t, PieceTypes
    <2>3. box' \in Box
      <3>1. box \in Box /\ box \cup {PieceOf(tx.m, tx.intent)} \in Box
        BY <1>0, <2>2 DEF TerminalOK, Box
      <3> QED
        BY <1>4, <3>1 DEF Paste
    <2>4. pasted' \in [Pieces -> Nat]
      BY <1>0, <1>4, <2>2 DEF Paste, HistoryOK
    <2> QED
      BY <1>0, <1>4, <2>1, <2>3, <2>4, TypePartsNext DEF Paste, TerminalOK, HistoryOK
  <1>5. CASE Enter
    <2>1. box' \in Box /\ prompts' \subseteq Box
      BY <1>0, <1>5 DEF Enter, TerminalOK, Box
    <2>2. dialog' \in BOOLEAN
      BY <1>0, <1>5, Zenon DEF Enter, TerminalOK
    <2>3. entered' \in [Messages -> Nat]
      BY <1>0, <1>5, <1>t DEF Enter, HistoryOK
    <2>4. DeliveryOK' /\ SessionOK'
      <3>1. CASE FailTx("none", tx.intent)
        BY <1>t, <1>f, <3>1 DEF Reasons
      <3>2. CASE ~FailTx("none", tx.intent)
        BY <1>0, <1>5, <3>2 DEF Enter, GoOn, DeliveryOK, SessionOK, Tx
      <3> QED
        BY <3>1, <3>2
    <2> QED
      BY <1>0, <1>5, <2>1, <2>2, <2>3, <2>4, TypePartsNext
      DEF Enter, TerminalOK, HistoryOK
  <1>6. CASE Journal
    <2> DEFINE phase == DonePhase(tx.m, tx.intent)
    <2>1. phase \in {"images-pasted", "pasted", "submitted"} /\ phase \in Phases
      BY DEF DonePhase, Phases
    <2>2. receipt' \in [Messages -> Receipt]
      BY <1>6, <1>r, <2>1 DEF Journal
    <2>3. tx' \in Tx
      <3>1. CASE phase = "images-pasted"
        <4>1. tx' = [tx EXCEPT !.step = "intent", !.intent = "text-intent"]
          BY <1>6, <3>1 DEF Journal
        <4>2. [tx EXCEPT !.step = "intent"] \in Tx
          BY <1>0 DEF DeliveryOK, Tx
        <4> QED
          BY <1>0, <4>1, <4>2 DEF DeliveryOK, Tx, Intents
      <3>2. CASE phase = "pasted"
        <4> DEFINE b == IF <<tx.m, "text">> \in box THEN box ELSE {}
                   t == [tx EXCEPT !.step = "intent"]
                   u == [t EXCEPT !.intent = "submit-intent"]
        <4>1. tx' = [u EXCEPT !.proof = b]
          BY <1>0, <1>6, <3>2 DEF Journal, DeliveryOK, Tx
        <4>2. t \in Tx
          BY <1>0 DEF DeliveryOK, Tx
        <4>3. b \in Box
          BY <1>0 DEF TerminalOK, Box
        <4> HIDE DEF t, b
        <4>4. u \in Tx
          BY <4>2 DEF Tx, Intents
        <4> HIDE DEF u
        <4> QED
          BY <4>1, <4>3, <4>4 DEF Tx
      <3>3. CASE phase = "submitted"
        <4>1. tx' = [tx EXCEPT !.step = "confirm"]
          BY <1>6, <3>3 DEF Journal
        <4> QED
          BY <1>0, <4>1 DEF DeliveryOK, Tx
      <3> QED
        BY <2>1, <3>1, <3>2, <3>3
    <2> QED
      BY <1>0, <1>6, <2>2, <2>3, TypePartsNext
      DEF Journal, DeliveryOK, SessionOK, TerminalOK, HistoryOK
  <1>7. CASE Confirm
    <2>1. DeliveryOK' /\ SessionOK'
      <3>1. CASE FailTx("none", "submitted")
        BY <1>f, <3>1 DEF Reasons, Phases
      <3>2. CASE Settle(tx.m, tx.by, "handed-off", "submitted")
        BY <1>0, <1>t, <3>2, SettleType DEF Statuses, Phases
      <3> QED
        BY <1>7, <3>1, <3>2 DEF Confirm
    <2> QED
      BY <1>0, <1>7, <2>1, TypePartsNext DEF Confirm, TerminalOK, HistoryOK
  <1> QED
    BY <1>1, <1>2, <1>3, <1>4, <1>5, <1>6, <1>7 DEF Writer

LEMMA EventType ==
    ASSUME TypeOK,
           \/ \E p \in prompts : Resolve(p, "accepted") \/ Resolve(p, "dropped")
           \/ \E m \in Messages : Block(m)
    PROVE  TypeOK'
  <1> USE DEF terminal, session, history, line
  <1>0. DeliveryOK /\ SessionOK /\ TerminalOK /\ HistoryOK
    BY TypeParts
  <1>1. ASSUME NEW p \in prompts, NEW kind \in {"accepted", "dropped"}, Resolve(p, kind)
        PROVE  TypeOK'
    <2>1. ASSUME NEW m \in Messages, Accept(m, kind)
          PROVE  /\ receipt' \in [Messages -> Receipt] /\ SessionOK'
                 /\ reported' \subseteq Messages
      <3>1. receipt[m].attempt \in Nat /\ Confirmed(receipt[m].status) \in Statuses
        BY <1>0 DEF DeliveryOK, Receipt, Confirmed, Statuses
      <3>2. receipt' \in [Messages -> Receipt]
        BY <1>0, <2>1, <3>1 DEF Accept, DeliveryOK, Receipt
      <3>3. SessionOK'
        BY <1>0, <2>1, <3>1 DEF Accept, SessionOK
      <3> QED
        BY <1>0, <2>1, <3>2, <3>3 DEF Accept, HistoryOK
    <2>2. /\ receipt' \in [Messages -> Receipt] /\ SessionOK'
          /\ reported' \subseteq Messages
      BY <1>0, <1>1, <2>1 DEF Resolve, DeliveryOK, SessionOK, HistoryOK
    <2>3. box' \in Box /\ prompts' \subseteq Box
      BY <1>0, <1>1 DEF Resolve, TerminalOK, Box
    <2>4. dropped' \subseteq Messages
      BY <1>0, <1>1 DEF Resolve, HistoryOK
    <2> QED
      BY <1>0, <1>1, <2>2, <2>3, <2>4, TypePartsNext
      DEF Resolve, DeliveryOK, TerminalOK, HistoryOK
  <1>2. ASSUME NEW m \in Messages, Block(m) PROVE TypeOK'
    <2>1. receipt' \in [Messages -> Receipt]
      <3>1. receipt \in [Messages -> Receipt] /\ receipt[m].phase \in Phases
        BY <1>0 DEF DeliveryOK, Receipt
      <3> QED
        BY <1>2, <3>1, MarkedType DEF Block, Statuses, Reasons
    <2>2. box' \in Box
      BY <1>0, <1>2 DEF Block, TerminalOK, Box
    <2>3. SessionOK'
      BY <1>0, <1>2 DEF Block, SessionOK
    <2> QED
      BY <1>0, <1>2, <2>1, <2>2, <2>3, TypePartsNext
      DEF Block, DeliveryOK, TerminalOK, HistoryOK
  <1> QED
    BY <1>1, <1>2

LEMMA EnvironmentType ==
    ASSUME TypeOK, Dialogs \/ Requests \/ OwnerInput \/ Relaunch \/ Crash
    PROVE  TypeOK'
  <1> USE DEF terminal, session, history, line
  <1>0. DeliveryOK /\ SessionOK /\ TerminalOK /\ HistoryOK
    BY TypeParts
  <1>1. CASE Dialogs \/ Requests
    <2>1. dialog' \in BOOLEAN /\ request' \in BOOLEAN
      BY <1>0, <1>1, Zenon DEF Dialogs, Requests, OnlyTerminal, TerminalOK
    <2> QED
      BY <1>0, <1>1, <2>1, TypePartsNext
      DEF Dialogs, Requests, OnlyTerminal, DeliveryOK, SessionOK, TerminalOK, HistoryOK
  <1>2. CASE OwnerInput
    <2>1. box' \in Box /\ prompts' \subseteq Box
      BY <1>0, <1>2 DEF OwnerInput, TerminalOK, Box
    <2> QED
      BY <1>0, <1>2, <2>1, TypePartsNext
      DEF OwnerInput, OnlyTerminal, DeliveryOK, SessionOK, TerminalOK, HistoryOK
  <1>3. CASE Relaunch
    <2>1. box' \in Box /\ prompts' \subseteq Box /\ generation' \in Nat
      BY <1>0, <1>3 DEF Relaunch, TerminalOK, Box
    <2>2. dialog' \in BOOLEAN
      BY <1>3, Zenon DEF Relaunch
    <2> QED
      BY <1>0, <1>3, <2>1, <2>2, TypePartsNext
      DEF Relaunch, OnlyTerminal, DeliveryOK, SessionOK, TerminalOK, HistoryOK
  <1>4. CASE Crash
    <2>1. DeliveryOK' /\ SessionOK'
      BY <1>0, <1>4, NoTxType DEF Crash, DeliveryOK, SessionOK
    <2> QED
      BY <1>0, <1>4, <2>1, TypePartsNext DEF Crash, TerminalOK, HistoryOK
  <1> QED
    BY <1>1, <1>2, <1>3, <1>4

LEMMA TypeStep == TypeOK /\ [Next]_vars => TypeOK'
  <1> SUFFICES ASSUME TypeOK, [Next]_vars PROVE TypeOK'
    OBVIOUS
  <1>1. CASE Owner
    BY <1>1, OwnerType DEF Owner
  <1>2. CASE Worker \/ \E m \in Messages : PassDeadline(m)
    BY <1>2, WorkerType
  <1>3. CASE Writer
    BY <1>3, WriterType
  <1>4. CASE \/ \E p \in prompts : Resolve(p, "accepted") \/ Resolve(p, "dropped")
             \/ \E m \in Messages : Block(m)
    BY <1>4, EventType
  <1>5. CASE Dialogs \/ Requests \/ OwnerInput \/ Relaunch \/ Crash
    BY <1>5, EnvironmentType
  <1>6. CASE UNCHANGED vars
    BY <1>6 DEF vars, terminal, session, history, line, TypeOK
  <1> QED
    BY <1>1, <1>2, <1>3, <1>4, <1>5, <1>6 DEF Next, Native

\* Every state of the delivery of chat messages has the right type (the variables of
\* ChatDelivery, DeliveryQueue and the terminal).
THEOREM TypeCorrect == Spec => []TypeOK
  <1> QED
    BY TypeInit, TypeStep, PTL DEF Spec

-----------------------------------------------------------------------------
(* The queue.                                                               *)

LEMMA ReleaseQueue ==
    ASSUME TypeOK, Distinct, NEW m \in Messages, Release(m)
    PROVE  /\ Distinct'
           /\ \A n \in Messages : Queued(n)' <=> Queued(n) /\ n # m
           /\ queue # <<>> /\ Head(queue) # m => queue' # <<>> /\ Head(queue') = Head(queue)
           /\ active' = active \ {m}
           /\ \A n \in Messages \ {m} : job'[n] = job[n]
           /\ job'[m] = NewJob
  <1>1. queue \in Seq(Messages) /\ job \in [Messages -> Job]
    BY DEF TypeOK
  <1>2. CASE Queued(m)
    <2> DEFINE w == Without(queue, m)
    <2>1. queue' = w
      BY <1>2 DEF Release
    <2>2. \E k \in 1..Len(queue) : queue[k] = m
      BY <1>2 DEF Queued
    <2>3. /\ w \in Seq(Messages) /\ Len(w) = Len(queue) - 1
          /\ \A k \in 1..(Len(queue) - 1) : \E j \in 1..Len(queue) : w[k] = queue[j]
          /\ \A j, k \in 1..(Len(queue) - 1) : w[j] = w[k] => j = k
          /\ \A k \in 1..(Len(queue) - 1) : w[k] # m
          /\ \A j \in 1..Len(queue) : queue[j] # m =>
                \E k \in 1..(Len(queue) - 1) : w[k] = queue[j]
          /\ queue[1] # m => w[1] = queue[1] /\ Len(queue) > 1
      BY <1>1, <2>2, WithoutRemoves DEF Distinct
    <2> HIDE DEF w
    <2>4. Distinct'
      BY <2>1, <2>3 DEF Distinct
    <2>5. ASSUME NEW n \in Messages PROVE Queued(n)' <=> Queued(n) /\ n # m
      <3>1. Queued(n)' <=> \E k \in 1..(Len(queue) - 1) : w[k] = n
        BY <2>1, <2>3 DEF Queued
      <3>2. Queued(n) <=> \E k \in 1..Len(queue) : queue[k] = n
        BY DEF Queued
      <3>3. ASSUME NEW k \in 1..(Len(queue) - 1), w[k] = n PROVE Queued(n) /\ n # m
        BY <2>3, <3>2, <3>3
      <3>4. ASSUME NEW j \in 1..Len(queue), queue[j] = n, n # m PROVE Queued(n)'
        BY <2>3, <3>1, <3>4
      <3> QED
        BY <3>1, <3>2, <3>3, <3>4
    <2>6. queue # <<>> /\ Head(queue) # m => queue' # <<>> /\ Head(queue') = Head(queue)
      BY <1>1, <2>1, <2>3
    <2> QED
      BY <1>1, <2>4, <2>5, <2>6 DEF Release
  <1>3. CASE ~Queued(m)
    <2>1. queue' = queue
      BY <1>3 DEF Release
    <2>2. Distinct' /\ \A n \in Messages : Queued(n)' <=> Queued(n)
      BY <2>1 DEF Distinct, Queued
    <2> QED
      BY <1>1, <1>3, <2>1, <2>2 DEF Release
  <1> QED
    BY <1>2, <1>3

LEMMA AppendQueue ==
    ASSUME TypeOK, Distinct, NEW m \in Messages, ~Queued(m), queue' = Append(queue, m)
    PROVE  /\ Distinct'
           /\ \A n \in Messages : Queued(n)' <=> Queued(n) \/ n = m
           /\ queue # <<>> => Head(queue') = Head(queue)
           /\ queue' # <<>>
  <1>1. queue \in Seq(Messages)
    BY DEF TypeOK
  <1>2. /\ queue' \in Seq(Messages) /\ Len(queue') = Len(queue) + 1
        /\ \A k \in 1..Len(queue) : queue'[k] = queue[k]
        /\ queue'[Len(queue) + 1] = m /\ Len(queue) \in Nat
    BY <1>1
  <1>3. \A k \in 1..Len(queue) : queue[k] # m
    BY DEF Queued
  <1>4. Distinct'
    BY <1>2, <1>3 DEF Distinct
  <1>5. ASSUME NEW n \in Messages PROVE Queued(n)' <=> Queued(n) \/ n = m
    <2>1. Queued(n)' <=> \E k \in 1..(Len(queue) + 1) : queue'[k] = n
      BY <1>2 DEF Queued
    <2>2. Queued(n) <=> \E k \in 1..Len(queue) : queue[k] = n
      BY DEF Queued
    <2>3. ASSUME NEW k \in 1..(Len(queue) + 1), queue'[k] = n PROVE Queued(n) \/ n = m
      BY <1>2, <2>2, <2>3
    <2>4. ASSUME NEW k \in 1..Len(queue), queue[k] = n PROVE Queued(n)'
      BY <1>2, <2>1, <2>4
    <2>5. n = m => Queued(n)'
      BY <1>2, <2>1
    <2> QED
      BY <2>1, <2>2, <2>3, <2>4, <2>5
  <1> QED
    BY <1>1, <1>2, <1>4, <1>5

-----------------------------------------------------------------------------
(* Actions that leave the journal, the queue and the transaction alone.     *)

Quiet ==
    /\ \A m \in Messages :
          /\ receipt'[m].phase = receipt[m].phase
          /\ receipt'[m].status = "absent" => receipt[m].status = "absent"
          /\ receipt'[m].status = "rejected" =>
                receipt[m].status = "rejected" \/ m \in dropped'
          /\ job'[m].mode = job[m].mode
          /\ ~Queued(m) => job'[m] = job[m]
          /\ early'[m] = "dropped" => m \in dropped'
    /\ active' = active /\ queue' = queue /\ tx' = tx
    /\ worker' = "lock" => worker = "lock" \/ (queue # <<>> /\ tx.by # "attempt")
    /\ entered' = entered /\ pasted' = pasted
    /\ dropped \subseteq dropped' /\ \A b \in blocking' : b[1] \in dropped'

LEMMA QuietKeeps ==
    ASSUME TypeOK, JournalInvariant, Quiet PROVE JournalInvariant'
  <1>0. tx.m \in Messages
    BY DEF TypeOK, Tx
  <1>1. AtMostOnce'
    BY DEF JournalInvariant, Quiet, AtMostOnce
  <1>2. JournalIsTrue'
    BY DEF JournalInvariant, Quiet, JournalIsTrue
  <1>3. TxFollowsJournal'
    BY <1>0 DEF JournalInvariant, Quiet, TxFollowsJournal, Free
  <1>4. JobFollowsJournal'
    <2>1. \A m \in Messages : Queued(m)' = Queued(m) /\ Attempted(m)' = Attempted(m)
      BY DEF Quiet, Queued, Attempted
    <2> QED
      BY <2>1 DEF JournalInvariant, Quiet, JobFollowsJournal
  <1>5. OneOwner'
    <2>1. Distinct' = Distinct /\ \A m \in Messages : Queued(m)' = Queued(m)
      BY DEF Quiet, Queued, Distinct
    <2> QED
      BY <1>0, <2>1 DEF JournalInvariant, Quiet, OneOwner
  <1>6. RejectedIsReserved'
    BY DEF JournalInvariant, Quiet, RejectedIsReserved
  <1> QED
    BY <1>1, <1>2, <1>3, <1>4, <1>5, <1>6 DEF JournalInvariant

LEMMA QuietActions ==
    ASSUME TypeOK, JournalInvariant,
           \/ Dialogs \/ Requests \/ OwnerInput \/ Relaunch \/ Begin
           \/ \E m \in Messages : PassDeadline(m) \/ Block(m) \/ (Running(m) /\ Cancel(m))
           \/ \E p \in prompts : Resolve(p, "accepted") \/ Resolve(p, "dropped")
           \/ UNCHANGED vars
    PROVE  Quiet
  <1> USE DEF terminal, session, history, line
  <1>0. /\ receipt \in [Messages -> Receipt] /\ job \in [Messages -> Job]
        /\ early \in [Messages -> {"none", "accepted", "dropped"}]
        /\ queue \in Seq(Messages)
        /\ \A b \in blocking : b[1] \in dropped
        /\ \A m \in Messages : early[m] = "dropped" => m \in dropped
    BY DEF TypeOK, JournalInvariant, RejectedIsReserved
  <1>1. CASE Dialogs \/ Requests \/ OwnerInput \/ Relaunch \/ UNCHANGED vars
    <2>1. OnlyTerminal
      BY <1>1 DEF Dialogs, Requests, OwnerInput, Relaunch, OnlyTerminal, vars
    <2> QED
      BY <1>0, <2>1 DEF OnlyTerminal, Quiet
  <1>2. CASE Begin
    <2> DEFINE m == Head(queue)
    <2>1. m \in Messages /\ Queued(m) /\ queue # <<>>
      BY <1>0, <1>2 DEF Begin, Queued
    <2>2. \A n \in Messages : /\ receipt'[n].phase = receipt[n].phase
                              /\ receipt'[n].status = receipt[n].status
      <3>1. receipt' = receipt \/ receipt' = [receipt EXCEPT ![m].waiting = "request"]
        BY <1>2 DEF Begin
      <3> HIDE DEF m
      <3>2. CASE receipt' = [receipt EXCEPT ![m].waiting = "request"]
        <4>1. receipt'[m].status = receipt[m].status /\ receipt'[m].phase = receipt[m].phase
          BY <1>0, <2>1, <3>2 DEF Receipt
        <4>2. \A n \in Messages \ {m} : receipt'[n] = receipt[n]
          BY <1>0, <2>1, <3>2
        <4> QED
          BY <2>1, <4>1, <4>2
      <3> QED
        BY <3>1, <3>2
    <2>3. \A n \in Messages : job'[n].mode = job[n].mode /\ (n # m => job'[n] = job[n])
      <3>1. \E deadline : job' = [job EXCEPT ![m].started = TRUE, ![m].deadline = deadline]
        BY <1>2 DEF Begin
      <3> QED
        BY <1>0, <2>1, <3>1 DEF Job
    <2>4. /\ UNCHANGED <<active, queue, tx, early, blocking, entered, pasted, dropped>>
          /\ tx.by # "attempt"
      BY <1>2 DEF Begin
    <2> HIDE DEF m
    <2> QED
      BY <1>0, <2>1, <2>2, <2>3, <2>4 DEF Quiet
  <1>3. ASSUME NEW m \in Messages, PassDeadline(m) \/ (Running(m) /\ Cancel(m)) PROVE Quiet
    <2>1. \A n \in Messages : job'[n].mode = job[n].mode /\ (n # m => job'[n] = job[n])
      <3>1. \/ job' = [job EXCEPT ![m].deadline = "passed"]
            \/ job' = [job EXCEPT ![m].cancelled = TRUE]
        BY <1>3 DEF PassDeadline, Cancel
      <3> QED
        BY <1>0, <3>1 DEF Job
    <2>2. /\ UNCHANGED <<receipt, active, queue, worker, tx, early, blocking>>
          /\ UNCHANGED <<entered, pasted, dropped>>
          /\ Queued(m)
      BY <1>3 DEF PassDeadline, Cancel
    <2> QED
      BY <1>0, <2>1, <2>2 DEF Quiet
  <1>4. ASSUME NEW m \in Messages, Block(m) PROVE Quiet
    <2>1. m \in dropped
      BY <1>0, <1>4 DEF Block
    <2>2. \A n \in Messages :
             /\ receipt'[n].phase = receipt[n].phase
             /\ receipt'[n].status = "absent" => receipt[n].status = "absent"
             /\ receipt'[n].status = "rejected" => receipt[n].status = "rejected" \/ n = m
      <3>1. receipt[m].phase \in Phases
        BY <1>0 DEF Receipt
      <3> QED
        BY <1>0, <1>4, <3>1, MarkedType DEF Block, Statuses, Reasons
    <2>3. /\ UNCHANGED <<active, queue, job, worker, tx, early, entered, pasted, dropped>>
          /\ blocking' \subseteq blocking
      BY <1>4 DEF Block
    <2> QED
      BY <1>0, <2>1, <2>2, <2>3 DEF Quiet
  <1>5. ASSUME NEW p \in prompts, NEW kind \in {"accepted", "dropped"}, Resolve(p, kind)
        PROVE  Quiet
    <2> DEFINE own == {m \in Messages : <<m, "text">> \in p}
    <2>1. dropped \subseteq dropped' /\ (kind = "dropped" => own \subseteq dropped')
      BY <1>5 DEF Resolve
    <2>2. /\ \A n \in Messages :
                /\ receipt'[n].phase = receipt[n].phase
                /\ receipt'[n].status = "absent" => receipt[n].status = "absent"
                /\ receipt'[n].status = "rejected" => receipt[n].status = "rejected"
                /\ early'[n] = "dropped" => n \in dropped'
          /\ \A b \in blocking' : b[1] \in dropped'
      <3>1. CASE UNCHANGED <<receipt, session>>
        BY <1>0, <2>1, <3>1
      <3>2. CASE \E m \in own : Accept(m, kind)
        <4>1. PICK m \in own : Accept(m, kind)
          BY <3>2
        <4>2. m \in Messages /\ (kind = "dropped" => m \in dropped')
          BY <2>1
        <4>3. \A n \in Messages :
                /\ receipt'[n].phase = receipt[n].phase
                /\ receipt'[n].status = "absent" => receipt[n].status = "absent"
                /\ receipt'[n].status = "rejected" => receipt[n].status = "rejected"
          <5> DEFINE c == Confirmed(receipt[m].status)
          <5>1. receipt' = receipt \/ receipt' = [receipt EXCEPT ![m].status = c]
            BY <4>1 DEF Accept
          <5>2. c = "accepted" \/ c = receipt[m].status
            BY DEF Confirmed
          <5> HIDE DEF c
          <5>3. CASE receipt' = receipt
            BY <5>3
          <5>4. CASE receipt' = [receipt EXCEPT ![m].status = c]
            <6>1. receipt'[m].status = c /\ receipt'[m].phase = receipt[m].phase
              BY <1>0, <4>2, <5>4 DEF Receipt
            <6>2. \A n \in Messages \ {m} : receipt'[n] = receipt[n]
              BY <1>0, <4>2, <5>4
            <6> QED
              BY <4>2, <5>2, <6>1, <6>2
          <5> QED
            BY <5>1, <5>3, <5>4
        <4>4. \A n \in Messages : early'[n] = "dropped" => n \in dropped'
          BY <1>0, <2>1, <4>1, <4>2 DEF Accept
        <4>5. \A b \in blocking' : b[1] \in dropped'
          BY <1>0, <2>1, <4>1, <4>2 DEF Accept
        <4> QED
          BY <4>3, <4>4, <4>5
      <3> QED
        BY <1>5, <3>1, <3>2 DEF Resolve
    <2>3. UNCHANGED <<active, queue, job, worker, tx, entered, pasted>>
      BY <1>5 DEF Resolve
    <2> QED
      BY <1>0, <2>1, <2>2, <2>3 DEF Quiet
  <1> QED
    BY <1>1, <1>2, <1>3, <1>4, <1>5

-----------------------------------------------------------------------------
(* Steps of the writer that do not end its transaction.                     *)

\* What was sent of a message n by another message's transaction: nothing.
Untouched(n) ==
    /\ receipt'[n] = receipt[n] /\ entered'[n] = entered[n]
    /\ \A p \in Full(n) : pasted'[p] = pasted[p]

LEMMA UntouchedProves ==
    ASSUME NEW n \in Messages, Untouched(n),
           Proves(n, receipt[n].phase, entered, pasted)
    PROVE  Proves(n, receipt'[n].phase, entered', pasted')
  <1>1. <<n, "text">> \in Full(n)
    BY DEF Full
  <1> QED
    BY <1>1 DEF Untouched, Proves, Unsent

TxMoves ==
    /\ ~Free /\ tx'.by = tx.by /\ tx'.m = tx.m
    /\ \A n \in Messages \ {tx.m} : Untouched(n)
    /\ \/ receipt'[tx.m].status = "uncertain"
       \/ receipt'[tx.m] = receipt[tx.m]
    /\ \A n \in Messages : early'[n] \in {early[n], "none"}
    /\ UNCHANGED <<active, queue, job, worker, blocking, dropped>>

LEMMA TxMovesKeeps ==
    ASSUME TypeOK, JournalInvariant, TxMoves, AtMostOnce', TxFollowsJournal',
           Proves(tx.m, receipt'[tx.m].phase, entered', pasted')
    PROVE  JournalInvariant'
  <1>0. tx.m \in Messages /\ tx.by # "none" /\ tx.by \in {"none", "attempt", "recover"}
    BY DEF TypeOK, Tx, TxMoves, Free
  <1>1. JournalIsTrue'
    BY UntouchedProves DEF JournalInvariant, TxMoves, JournalIsTrue
  <1>2. JobFollowsJournal'
    <2>1. \A m \in Messages : Queued(m)' = Queued(m) /\ Attempted(m)' = Attempted(m)
      BY DEF TxMoves, Queued, Attempted
    <2>2. ASSUME NEW m \in Messages, Queued(m), ~Attempted(m)
          PROVE  receipt'[m] = receipt[m]
      BY <1>0, <2>2 DEF JournalInvariant, OneOwner, TxMoves, Untouched, Attempted
    <2> QED
      BY <2>1, <2>2 DEF JournalInvariant, TxMoves, JobFollowsJournal
  <1>3. OneOwner'
    <2>1. Distinct' = Distinct /\ \A m \in Messages : Queued(m)' = Queued(m)
      BY DEF TxMoves, Queued, Distinct
    <2>2. \A m \in Messages : receipt'[m].status = "absent" => receipt'[m] = receipt[m]
      BY DEF TxMoves, Untouched
    <2> QED
      BY <1>0, <2>1, <2>2 DEF JournalInvariant, TxMoves, OneOwner
  <1>4. RejectedIsReserved'
    <2>1. \A m \in Messages : receipt'[m].status = "rejected" => receipt'[m] = receipt[m]
      BY DEF TxMoves, Untouched
    <2> QED
      BY <2>1 DEF JournalInvariant, TxMoves, RejectedIsReserved
  <1> QED
    BY <1>1, <1>2, <1>3, <1>4 DEF JournalInvariant

-----------------------------------------------------------------------------
(* Ends of attempts and recoveries.                                         *)

\* The worker or a recovery has the message in hand.
Owns(m, by) ==
    \/ /\ by = "attempt" /\ queue # <<>> /\ m = Head(queue)
       /\ tx.by \in {"none", "attempt"}
    \/ by = "recover" /\ tx.by = "recover" /\ m = tx.m

\* The history is the one phase proves for m, and nothing of the others was sent.
EndsTrue(m, phase) ==
    /\ AtMostOnce' /\ Proves(m, phase, entered', pasted')
    /\ \A n \in Messages \ {m} :
          entered'[n] = entered[n] /\ \A p \in Full(n) : pasted'[p] = pasted[p]
    /\ dropped' = dropped

LEMMA EndJournal ==
    ASSUME TypeOK, JournalInvariant, NEW m \in Messages, NEW status \in Statuses,
           NEW phase \in Phases, NEW why \in Reasons, EndsTrue(m, phase),
           receipt' = Marked(m, status, phase, why)
    PROVE  /\ JournalIsTrue'
           /\ \A n \in Messages \ {m} : receipt'[n] = receipt[n]
           /\ receipt'[m].status = status /\ receipt'[m].phase = phase
  <1>1. /\ \A n \in Messages \ {m} : receipt'[n] = receipt[n]
        /\ receipt'[m].status = status /\ receipt'[m].phase = phase
    BY MarkedType DEF TypeOK
  <1>2. ASSUME NEW n \in Messages
        PROVE  Proves(n, receipt'[n].phase, entered', pasted')
    <2>1. CASE n = m
      BY <1>1, <2>1 DEF EndsTrue
    <2>2. CASE n # m
      BY <1>1, <2>2, UntouchedProves
      DEF EndsTrue, Untouched, JournalInvariant, JournalIsTrue
    <2> QED
      BY <2>1, <2>2
  <1> QED
    BY <1>1, <1>2 DEF JournalIsTrue

LEMMA SettleKeeps ==
    ASSUME TypeOK, JournalInvariant, NEW m \in Messages, NEW by, Owns(m, by),
           NEW status \in Statuses \ {"absent"}, NEW phase \in Phases,
           status = "rejected" => phase = "reserved",
           EndsTrue(m, phase), Settle(m, by, status, phase)
    PROVE  JournalInvariant'
  <1> DEFINE outcome == IF phase \in EnterMaySent THEN early[m] ELSE "none"
             final == IF outcome = "accepted" THEN Confirmed(status) ELSE status
  <1>1. /\ receipt' = Marked(m, final, phase, "none")
        /\ Release(m) /\ EndTx(by)
        /\ blocking' = IF outcome = "dropped"
                       THEN blocking \cup {<<m, receipt[m].attempt>>} ELSE blocking
        /\ early' = [early EXCEPT ![m] = "none"]
    BY DEF Settle
  <1>2. /\ final \in Statuses /\ final # "absent"
        /\ final = "rejected" => phase = "reserved"
    BY DEF Confirmed, Statuses
  <1>3. /\ JournalIsTrue' /\ AtMostOnce'
        /\ \A n \in Messages \ {m} : receipt'[n] = receipt[n]
        /\ receipt'[m].status = final /\ receipt'[m].phase = phase
    <2> HIDE DEF final
    <2> QED
      BY <1>1, <1>2, EndJournal DEF Reasons, EndsTrue
  <1>4. /\ Distinct'
        /\ \A n \in Messages : Queued(n)' <=> Queued(n) /\ n # m
        /\ queue # <<>> /\ Head(queue) # m => queue' # <<>> /\ Head(queue') = Head(queue)
        /\ active' = active \ {m}
        /\ \A n \in Messages \ {m} : job'[n] = job[n]
        /\ job'[m] = NewJob
    BY <1>1, ReleaseQueue DEF JournalInvariant, OneOwner
  <1>5. tx' = NoTx /\ tx'.by = "none"
    BY <1>1 DEF EndTx, NoTx
  <1>6. TxFollowsJournal'
    BY <1>5 DEF TxFollowsJournal, Free
  <1>7. JobFollowsJournal'
    <2>1. ASSUME NEW n \in Messages, Queued(n)'
          PROVE  receipt'[n].phase \in Before(FirstIntent(job'[n].mode))
      <3>1. n # m /\ Queued(n) /\ ~Attempted(n)
        BY <1>4, <2>1 DEF JournalInvariant, OneOwner, Owns, Attempted
      <3> QED
        BY <1>3, <1>4, <3>1 DEF JournalInvariant, JobFollowsJournal
    <2> QED
      BY <1>4, <2>1 DEF JournalInvariant, JobFollowsJournal
  <1>8. OneOwner'
    <2>1. worker' = "lock" => queue' # <<>>
      <3>1. CASE by = "attempt"
        BY <1>1, <3>1 DEF EndTx
      <3>2. CASE by = "recover"
        <4>1. ~Queued(m) /\ worker' = worker
          BY <1>1, <3>2 DEF Owns, JournalInvariant, OneOwner, EndTx
        <4>2. queue # <<>> => Head(queue) # m
          BY <4>1 DEF Queued, TypeOK
        <4> QED
          BY <1>4, <4>1, <4>2 DEF JournalInvariant, OneOwner
      <3> QED
        BY <3>1, <3>2 DEF Owns
    <2>2. \A n \in Messages : Queued(n)' => n \in active'
      BY <1>4 DEF JournalInvariant, OneOwner
    <2>3. \A n \in Messages : receipt'[n].status = "absent" =>
             n \notin active' /\ receipt'[n].phase = "reserved"
      BY <1>2, <1>3, <1>4 DEF JournalInvariant, OneOwner
    <2> QED
      BY <1>4, <1>5, <2>1, <2>2, <2>3 DEF OneOwner
  <1>9. RejectedIsReserved'
    <2>1. \A n \in Messages : early'[n] = "dropped" => n \in dropped'
      BY <1>1 DEF JournalInvariant, RejectedIsReserved, EndsTrue, TypeOK
    <2>2. \A b \in blocking' : b[1] \in dropped'
      BY <1>1 DEF JournalInvariant, RejectedIsReserved, EndsTrue
    <2>3. \A n \in Messages \ dropped' :
             receipt'[n].status = "rejected" => receipt'[n].phase = "reserved"
      BY <1>2, <1>3 DEF JournalInvariant, RejectedIsReserved, EndsTrue
    <2> QED
      BY <2>1, <2>2, <2>3 DEF RejectedIsReserved
  <1> QED
    BY <1>3, <1>6, <1>7, <1>8, <1>9 DEF JournalInvariant

LEMMA HoldKeeps ==
    ASSUME TypeOK, JournalInvariant, NEW m \in Messages, NEW by, Owns(m, by),
           NEW why \in Reasons, NEW phase \in Holdable,
           \/ receipt[m].status # "rejected"
           \/ m \in dropped
           \/ phase = "reserved",
           EndsTrue(m, phase), Hold(m, by, why, phase)
    PROVE  JournalInvariant'
  <1> DEFINE status == IF by = "recover" /\ phase = "reserved" THEN "pending"
                       ELSE receipt[m].status
  <1>1. /\ receipt' = Marked(m, status, phase, why)
        /\ job' = [job EXCEPT ![m] = [@ EXCEPT !.mode = HeldMode(phase),
                                               !.started = TRUE, !.cancelled = FALSE,
                                               !.proof = tx.proof]]
        /\ queue' = IF by = "recover" THEN Append(queue, m) ELSE queue
        /\ early' = [early EXCEPT ![m] = "none"]
        /\ EndTx(by) /\ UNCHANGED <<active, blocking>>
    BY DEF Hold
  <1>2. m \in active
    BY DEF Owns, JournalInvariant, OneOwner, Queued, TypeOK
  <1>3. /\ status \in Statuses /\ status # "absent" /\ phase \in Phases
        /\ status = "rejected" => m \in dropped \/ phase = "reserved"
    BY <1>2 DEF JournalInvariant, OneOwner, TypeOK, Receipt, Statuses, Holdable, Phases
  <1>4. /\ JournalIsTrue' /\ AtMostOnce'
        /\ \A n \in Messages \ {m} : receipt'[n] = receipt[n]
        /\ receipt'[m].status = status /\ receipt'[m].phase = phase
    <2> HIDE DEF status
    <2> QED
      BY <1>1, <1>3, EndJournal DEF EndsTrue
  <1>5. /\ Distinct'
        /\ \A n \in Messages : Queued(n)' <=> Queued(n) \/ n = m
        /\ queue' # <<>>
    <2>1. CASE by = "recover"
      <3>1. ~Queued(m) /\ Distinct
        BY <2>1 DEF Owns, JournalInvariant, OneOwner
      <3> QED
        BY <1>1, <2>1, <3>1, AppendQueue
    <2>2. CASE by = "attempt"
      <3>1. queue' = queue /\ queue # <<>> /\ Queued(m) /\ Distinct
        BY <1>1, <2>2 DEF Owns, Queued, JournalInvariant, OneOwner, TypeOK
      <3> QED
        BY <3>1 DEF Distinct, Queued
    <2> QED
      BY <2>1, <2>2 DEF Owns
  <1>6. /\ \A n \in Messages \ {m} : job'[n] = job[n]
        /\ job'[m].mode = HeldMode(phase)
    BY <1>1 DEF TypeOK, Job
  <1>7. tx' = NoTx /\ tx'.by = "none" /\ worker' \in {worker, "rest"}
    BY <1>1 DEF EndTx, NoTx
  <1>8. TxFollowsJournal'
    BY <1>7 DEF TxFollowsJournal, Free
  <1>9. JobFollowsJournal'
    <2>1. phase \in Before(FirstIntent(HeldMode(phase)))
      BY DEF Holdable, HeldMode, FirstIntent, Before
    <2>2. ASSUME NEW n \in Messages, Queued(n)'
          PROVE  receipt'[n].phase \in Before(FirstIntent(job'[n].mode))
      <3>1. CASE n = m
        BY <1>4, <1>6, <2>1, <3>1
      <3>2. CASE n # m
        <4>1. Queued(n) /\ ~Attempted(n)
          BY <1>5, <2>2, <3>2 DEF JournalInvariant, OneOwner, Owns, Attempted
        <4> QED
          BY <1>4, <1>6, <3>2, <4>1 DEF JournalInvariant, JobFollowsJournal
      <3> QED
        BY <3>1, <3>2
    <2>3. \A n \in Messages : ~Queued(n)' => job'[n] = NewJob
      BY <1>5, <1>6 DEF JournalInvariant, JobFollowsJournal
    <2> QED
      BY <2>2, <2>3 DEF JobFollowsJournal
  <1>10. OneOwner'
    <2>1. \A n \in Messages : Queued(n)' => n \in active'
      BY <1>1, <1>2, <1>5 DEF JournalInvariant, OneOwner
    <2>2. \A n \in Messages : receipt'[n].status = "absent" =>
             n \notin active' /\ receipt'[n].phase = "reserved"
      BY <1>1, <1>3, <1>4 DEF JournalInvariant, OneOwner
    <2> QED
      BY <1>5, <1>7, <2>1, <2>2 DEF OneOwner
  <1>11. RejectedIsReserved'
    <2>1. \A n \in Messages : early'[n] = "dropped" => n \in dropped'
      BY <1>1 DEF JournalInvariant, RejectedIsReserved, EndsTrue, TypeOK
    <2>2. \A b \in blocking' : b[1] \in dropped'
      BY <1>1 DEF JournalInvariant, RejectedIsReserved, EndsTrue
    <2>3. \A n \in Messages \ dropped' :
             receipt'[n].status = "rejected" => receipt'[n].phase = "reserved"
      BY <1>3, <1>4 DEF JournalInvariant, RejectedIsReserved, EndsTrue
    <2> QED
      BY <2>1, <2>2, <2>3 DEF RejectedIsReserved
  <1> QED
    BY <1>4, <1>8, <1>9, <1>10, <1>11 DEF JournalInvariant

LEMMA FailKeeps ==
    ASSUME TypeOK, JournalInvariant, NEW m \in Messages, NEW by, Owns(m, by),
           NEW why \in Reasons, NEW phase \in Phases,
           \/ receipt[m].status # "rejected"
           \/ m \in dropped
           \/ phase = "reserved",
           EndsTrue(m, phase), Fail(m, by, why, phase)
    PROVE  JournalInvariant'
  <1>1. CASE Hold(m, by, why, phase) /\ phase \in Holdable
    BY <1>1, HoldKeeps
  <1>2. CASE Settle(m, by, IF phase = "reserved" THEN "rejected" ELSE "uncertain", phase)
    BY <1>2, SettleKeeps DEF Statuses
  <1> QED
    BY <1>1, <1>2 DEF Fail

\* The failure of a transaction with the phase of its journal, nothing being sent.
LEMMA FailTxKeeps ==
    ASSUME TypeOK, JournalInvariant, ~Free, NEW why \in Reasons, NEW phase \in Phases,
           phase = receipt[tx.m].phase \/ receipt[tx.m].phase = tx.intent,
           Proves(tx.m, phase, entered, pasted), FailTx(why, phase),
           UNCHANGED <<entered, pasted, dropped>>
    PROVE  JournalInvariant'
  <1>1. tx.m \in Messages /\ Owns(tx.m, tx.by)
    BY DEF TypeOK, Tx, Owns, JournalInvariant, OneOwner, Free
  <1>2. EndsTrue(tx.m, phase)
    BY DEF EndsTrue, JournalInvariant, AtMostOnce
  <1>3. \/ receipt[tx.m].status # "rejected"
        \/ tx.m \in dropped
        \/ phase = "reserved"
    <2>1. tx.intent # "reserved"
      BY DEF TypeOK, Tx, Intents
    <2> QED
      BY <1>1, <2>1 DEF JournalInvariant, RejectedIsReserved
  <1> QED
    BY <1>1, <1>2, <1>3, FailKeeps DEF FailTx

-----------------------------------------------------------------------------
(* The writer.                                                              *)

\* An update of the journal of the message in the transaction.
LEMMA Journaled ==
    ASSUME TypeOK, NEW phase \in Phases,
           receipt' = [receipt EXCEPT ![tx.m].status = "uncertain",
                          ![tx.m].phase = phase, ![tx.m].generation = tx.generation]
    PROVE  /\ \A n \in Messages \ {tx.m} : receipt'[n] = receipt[n]
           /\ receipt'[tx.m].status = "uncertain" /\ receipt'[tx.m].phase = phase
  BY DEF TypeOK, Receipt, Tx

LEMMA PrepareKeeps ==
    ASSUME TypeOK, JournalInvariant, Prepare PROVE JournalInvariant'
  <1> USE DEF terminal, session, history, line
  <1>1. ~Free /\ tx.m \in Messages /\ receipt[tx.m].phase \in Phases
    BY DEF Prepare, At, Free, TypeOK, Tx, Receipt
  <1>2. CASE \E why \in Reasons : FailTx(why, receipt[tx.m].phase)
    <2>1. Proves(tx.m, receipt[tx.m].phase, entered, pasted)
      BY <1>1 DEF JournalInvariant, JournalIsTrue
    <2> QED
      BY <1>1, <1>2, <2>1, FailTxKeeps DEF Prepare
  <1>3. CASE ~\E why \in Reasons : FailTx(why, receipt[tx.m].phase)
    <2>1. /\ \E a : tx' = [tx EXCEPT !.step = "intent", !.appended = a]
          /\ UNCHANGED <<receipt, active, line, job, worker, session>>
      BY <1>3 DEF Prepare, Reasons
    <2>2. tx'.by = tx.by /\ tx'.m = tx.m /\ tx'.step = "intent" /\ tx'.intent = tx.intent
      BY <2>1 DEF TypeOK, Tx
    <2>3. TxMoves
      BY <1>1, <2>1, <2>2 DEF TxMoves, Prepare, Untouched
    <2>4. TxFollowsJournal' /\ AtMostOnce'
      BY <1>1, <2>1, <2>2 DEF Prepare, At, JournalInvariant, TxFollowsJournal, AtMostOnce
    <2>5. Proves(tx.m, receipt'[tx.m].phase, entered', pasted')
      BY <1>1, <2>1 DEF Prepare, JournalInvariant, JournalIsTrue
    <2> QED
      BY <2>3, <2>4, <2>5, TxMovesKeeps
  <1> QED
    BY <1>2, <1>3

LEMMA IntendKeeps ==
    ASSUME TypeOK, JournalInvariant, Intend PROVE JournalInvariant'
  <1> USE DEF terminal, session, history, line
  <1>1. /\ ~Free /\ tx.m \in Messages /\ receipt[tx.m].phase \in Phases
        /\ tx.intent \in Intents /\ tx.intent \in Phases
    BY DEF Intend, At, Free, TypeOK, Tx, Receipt, Intents, Phases
  <1>2. CASE \E why \in Reasons : FailTx(why, receipt[tx.m].phase)
    <2>1. Proves(tx.m, receipt[tx.m].phase, entered, pasted)
      BY <1>1 DEF JournalInvariant, JournalIsTrue
    <2> QED
      BY <1>1, <1>2, <2>1, FailTxKeeps DEF Intend
  <1>3. CASE ~\E why \in Reasons : FailTx(why, receipt[tx.m].phase)
    <2>1. /\ receipt' = [receipt EXCEPT ![tx.m].status = "uncertain",
                            ![tx.m].phase = tx.intent, ![tx.m].generation = tx.generation]
          /\ tx' = [tx EXCEPT !.step = "guard"]
          /\ early' = early \/ early' = [early EXCEPT ![tx.m] = "none"]
          /\ UNCHANGED <<active, line, job, worker, blocking, entered, pasted, dropped>>
      BY <1>3 DEF Intend, Reasons, GoOn
    <2>2. /\ \A n \in Messages \ {tx.m} : receipt'[n] = receipt[n]
          /\ receipt'[tx.m].status = "uncertain" /\ receipt'[tx.m].phase = tx.intent
      BY <1>1, <2>1, Journaled
    <2>3. tx'.by = tx.by /\ tx'.m = tx.m /\ tx'.step = "guard" /\ tx'.intent = tx.intent
      BY <2>1 DEF TypeOK, Tx
    <2>4. \A n \in Messages : early'[n] \in {early[n], "none"}
      BY <2>1 DEF TypeOK
    <2>5. TxMoves
      BY <1>1, <2>1, <2>2, <2>3, <2>4 DEF TxMoves, Untouched
    <2>6. Unsent(tx.m, tx.intent, entered, pasted)
      <3>1. receipt[tx.m].phase \in Before(tx.intent)
        BY <1>1 DEF Intend, At, JournalInvariant, TxFollowsJournal
      <3>2. Proves(tx.m, receipt[tx.m].phase, entered, pasted)
        BY <1>1 DEF JournalInvariant, JournalIsTrue
      <3> QED
        BY <1>1, <3>1, <3>2 DEF Before, Proves, Intents
    <2>7. Proves(tx.m, receipt'[tx.m].phase, entered', pasted')
      BY <1>1, <2>1, <2>2, <2>6 DEF Proves, Unsent, Intents
    <2>8. TxFollowsJournal'
      <3>1. Unsent(tx'.m, tx'.intent, entered', pasted')
        BY <2>1, <2>3, <2>6
      <3> QED
        BY <2>2, <2>3, <3>1 DEF TxFollowsJournal
    <2>9. AtMostOnce'
      BY <2>1 DEF JournalInvariant, AtMostOnce
    <2> QED
      BY <2>5, <2>7, <2>8, <2>9, TxMovesKeeps
  <1> QED
    BY <1>2, <1>3

LEMMA GuardKeeps ==
    ASSUME TypeOK, JournalInvariant, Guard PROVE JournalInvariant'
  <1> USE DEF terminal, session, history, line
  <1>1. /\ ~Free /\ tx.m \in Messages /\ tx.intent \in Intents
        /\ receipt[tx.m].phase = tx.intent
        /\ Unsent(tx.m, tx.intent, entered, pasted)
    BY DEF Guard, At, Free, TypeOK, Tx, JournalInvariant, TxFollowsJournal
  <1>2. CASE \E why \in Reasons : FailTx(why, ProvenPhase(tx.intent))
    <2>1. /\ ProvenPhase(tx.intent) \in Phases
          /\ Proves(tx.m, ProvenPhase(tx.intent), entered, pasted)
      BY <1>1 DEF ProvenPhase, Phases, Intents, Proves
    <2> QED
      BY <1>1, <1>2, <2>1, FailTxKeeps DEF Guard
  <1>3. CASE ~\E why \in Reasons : FailTx(why, ProvenPhase(tx.intent))
    <2>1. /\ \E a, b : tx' = [tx EXCEPT !.step = "bytes", !.appended = a, !.proof = b]
          /\ UNCHANGED <<receipt, active, line, job, worker, session>>
          /\ UNCHANGED <<entered, pasted, dropped>>
      BY <1>3 DEF Guard, Reasons
    <2>2. tx'.by = tx.by /\ tx'.m = tx.m /\ tx'.step = "bytes" /\ tx'.intent = tx.intent
      BY <2>1 DEF TypeOK, Tx
    <2>3. TxMoves
      BY <1>1, <2>1, <2>2 DEF TxMoves, Untouched
    <2>4. TxFollowsJournal' /\ AtMostOnce'
      <3>1. Unsent(tx'.m, tx'.intent, entered', pasted')
        BY <1>1, <2>1, <2>2
      <3> QED
        BY <1>1, <2>1, <2>2, <3>1 DEF JournalInvariant, TxFollowsJournal, AtMostOnce
    <2>5. Proves(tx.m, receipt'[tx.m].phase, entered', pasted')
      BY <1>1, <2>1 DEF JournalInvariant, JournalIsTrue
    <2> QED
      BY <2>3, <2>4, <2>5, TxMovesKeeps
  <1> QED
    BY <1>2, <1>3

LEMMA PasteKeeps ==
    ASSUME TypeOK, JournalInvariant, Paste PROVE JournalInvariant'
  <1> USE DEF terminal, session, history, line
  <1> DEFINE m == tx.m
             piece == PieceOf(m, tx.intent)
  <1>1. /\ ~Free /\ m \in Messages /\ tx.intent \in {"paste-intent", "text-intent"}
        /\ receipt[m].phase = tx.intent
        /\ Unsent(m, tx.intent, entered, pasted)
    BY DEF Paste, At, Free, TypeOK, Tx, Intents, JournalInvariant, TxFollowsJournal
  <1>2. piece \in Full(m) /\ piece \in Pieces /\ piece[1] = m
    BY <1>1, PieceTypes DEF PieceOf
  <1>3. \A n \in Messages \ {m} : piece \notin Full(n)
    BY <1>2 DEF Full, ImagesOf
  <1>4. pasted[piece] = 0
    BY <1>1, <1>2 DEF Unsent, PieceOf
  <1>5. pasted' = [pasted EXCEPT ![piece] = @ + 1] \/ pasted' = pasted
    BY DEF Paste
  <1>6. /\ entered' = entered /\ dropped' = dropped
        /\ \A q \in Pieces : q # piece => pasted'[q] = pasted[q]
        /\ pasted'[piece] \in {0, 1}
    BY <1>2, <1>4, <1>5 DEF Paste, TypeOK
  <1>7. AtMostOnce'
    BY <1>6 DEF JournalInvariant, AtMostOnce
  <1>8. \A n \in Messages \ {m} : \A q \in Full(n) : pasted'[q] = pasted[q]
    BY <1>3, <1>6, PieceTypes
  <1>9. Proves(m, tx.intent, entered', pasted')
    <2>1. tx.intent = "paste-intent" /\ m \in Images => pasted'[<<m, "text">>] = 0
      <3>1. <<m, "text">> \in Pieces
        BY <1>1 DEF Pieces
      <3>2. tx.intent = "paste-intent" /\ m \in Images => piece # <<m, "text">>
        BY DEF PieceOf
      <3> QED
        BY <1>1, <1>6, <3>1, <3>2 DEF Unsent
    <2> QED
      BY <1>1, <1>6, <2>1 DEF Proves, Unsent
  <1>10. CASE FailTx("none", tx.intent)
    <2>1. EndsTrue(m, tx.intent)
      BY <1>6, <1>7, <1>8, <1>9 DEF EndsTrue
    <2>2. Owns(m, tx.by)
      BY <1>1 DEF TypeOK, Tx, Owns, JournalInvariant, OneOwner, Free
    <2>3. receipt[m].status # "rejected" \/ m \in dropped
      BY <1>1 DEF JournalInvariant, RejectedIsReserved
    <2> QED
      BY <1>1, <1>10, <2>1, <2>2, <2>3, FailKeeps DEF FailTx, Reasons, Phases, Intents
  <1>11. CASE ~FailTx("none", tx.intent)
    <2>1. /\ tx' = [tx EXCEPT !.step = "written"]
          /\ UNCHANGED <<receipt, active, line, job, worker, session>>
      BY <1>11 DEF Paste, GoOn
    <2>2. tx'.by = tx.by /\ tx'.m = m /\ tx'.step = "written" /\ tx'.intent = tx.intent
      BY <2>1 DEF TypeOK, Tx
    <2>3. TxMoves
      BY <1>1, <1>6, <1>8, <2>1, <2>2 DEF TxMoves, Untouched
    <2>4. TxFollowsJournal'
      BY <1>1, <2>1, <2>2 DEF TxFollowsJournal
    <2> QED
      BY <1>1, <1>7, <1>9, <2>1, <2>3, <2>4, TxMovesKeeps
  <1> QED
    BY <1>10, <1>11

LEMMA EnterKeeps ==
    ASSUME TypeOK, JournalInvariant, Enter PROVE JournalInvariant'
  <1> USE DEF terminal, session, history, line
  <1> DEFINE m == tx.m
  <1>1. /\ ~Free /\ m \in Messages /\ tx.intent = "submit-intent"
        /\ receipt[m].phase = "submit-intent" /\ entered[m] = 0
    BY DEF Enter, At, Free, TypeOK, Tx, JournalInvariant, TxFollowsJournal, Unsent
  <1>2. /\ entered' = [entered EXCEPT ![m] = @ + 1] \/ entered' = entered
        /\ pasted' = pasted /\ dropped' = dropped
    BY DEF Enter
  <1>3. entered'[m] \in {0, 1} /\ \A n \in Messages \ {m} : entered'[n] = entered[n]
    BY <1>1, <1>2 DEF TypeOK
  <1>4. AtMostOnce'
    BY <1>2, <1>3 DEF JournalInvariant, AtMostOnce
  <1>5. Proves(m, "submit-intent", entered', pasted')
    BY DEF Proves
  <1>6. CASE FailTx("none", tx.intent)
    <2>1. EndsTrue(m, "submit-intent")
      BY <1>2, <1>3, <1>4, <1>5 DEF EndsTrue
    <2>2. Owns(m, tx.by)
      BY <1>1 DEF TypeOK, Tx, Owns, JournalInvariant, OneOwner, Free
    <2>3. receipt[m].status # "rejected" \/ m \in dropped
      BY <1>1 DEF JournalInvariant, RejectedIsReserved
    <2> QED
      BY <1>1, <1>6, <2>1, <2>2, <2>3, FailKeeps DEF FailTx, Reasons, Phases, Intents
  <1>7. CASE ~FailTx("none", tx.intent)
    <2>1. /\ tx' = [tx EXCEPT !.step = "written"]
          /\ UNCHANGED <<receipt, active, line, job, worker, session>>
      BY <1>7 DEF Enter, GoOn
    <2>2. tx'.by = tx.by /\ tx'.m = m /\ tx'.step = "written" /\ tx'.intent = tx.intent
      BY <2>1 DEF TypeOK, Tx
    <2>3. TxMoves
      BY <1>1, <1>2, <1>3, <2>1, <2>2 DEF TxMoves, Untouched
    <2>4. TxFollowsJournal'
      BY <1>1, <2>1, <2>2 DEF TxFollowsJournal
    <2> QED
      BY <1>1, <1>4, <1>5, <2>1, <2>3, <2>4, TxMovesKeeps
  <1> QED
    BY <1>6, <1>7

LEMMA JournalKeeps ==
    ASSUME TypeOK, JournalInvariant, Journal PROVE JournalInvariant'
  <1> USE DEF terminal, session, history, line
  <1> DEFINE m == tx.m
             phase == DonePhase(m, tx.intent)
  <1>1. /\ ~Free /\ m \in Messages /\ tx.intent \in Intents
        /\ receipt[m].phase = tx.intent
        /\ Proves(m, tx.intent, entered, pasted)
    BY DEF Journal, At, Free, TypeOK, Tx, JournalInvariant, TxFollowsJournal, JournalIsTrue
  <1>2. /\ phase \in {"images-pasted", "pasted", "submitted"} /\ phase \in Phases
        /\ Proves(m, phase, entered, pasted)
    BY <1>1 DEF DonePhase, Phases, Proves, Unsent, Intents
  <1>3. /\ receipt' = [receipt EXCEPT ![m].status = "uncertain", ![m].phase = phase,
                                      ![m].generation = tx.generation]
        /\ UNCHANGED <<active, line, job, worker, session, entered, pasted, dropped>>
    BY DEF Journal
  <1>4. /\ \A n \in Messages \ {m} : receipt'[n] = receipt[n]
        /\ receipt'[m].status = "uncertain" /\ receipt'[m].phase = phase
    <2> HIDE DEF phase
    <2> QED
      BY <1>2, <1>3, Journaled
  <1>5. /\ tx'.by = tx.by /\ tx'.m = m
        /\ \/ tx'.step = "intent" /\ phase \in Before(tx'.intent)
           \/ tx'.step = "confirm"
    <2>1. CASE phase = "images-pasted"
      BY <2>1 DEF Journal, TypeOK, Tx, Before
    <2>2. CASE phase = "pasted"
      <3>1. \E b : tx' = [tx EXCEPT !.step = "intent", !.intent = "submit-intent",
                              !.proof = b]
        BY <2>2 DEF Journal
      <3> QED
        BY <2>2, <3>1 DEF TypeOK, Tx, Before
    <2>3. CASE phase = "submitted"
      BY <2>3 DEF Journal, TypeOK, Tx
    <2> QED
      BY <1>2, <2>1, <2>2, <2>3
  <1>6. TxMoves
    BY <1>1, <1>3, <1>4, <1>5 DEF TxMoves, Untouched
  <1>7. TxFollowsJournal' /\ AtMostOnce'
    BY <1>3, <1>4, <1>5 DEF TxFollowsJournal, JournalInvariant, AtMostOnce
  <1>8. Proves(m, receipt'[m].phase, entered', pasted')
    BY <1>2, <1>3, <1>4
  <1> QED
    BY <1>6, <1>7, <1>8, TxMovesKeeps

LEMMA ConfirmKeeps ==
    ASSUME TypeOK, JournalInvariant, Confirm PROVE JournalInvariant'
  <1> USE DEF terminal, history
  <1>1. /\ tx.m \in Messages /\ Owns(tx.m, tx.by)
        /\ EndsTrue(tx.m, "submitted")
    BY DEF Confirm, At, TypeOK, Tx, Owns, EndsTrue, JournalInvariant, OneOwner, Proves,
           AtMostOnce
  <1>2. CASE Settle(tx.m, tx.by, "handed-off", "submitted")
    BY <1>1, <1>2, SettleKeeps DEF Statuses, Phases
  <1>3. CASE FailTx("none", "submitted")
    <2>1. Settle(tx.m, tx.by, "uncertain", "submitted")
      BY <1>3 DEF FailTx, Fail
    <2> QED
      BY <1>1, <2>1, SettleKeeps DEF Statuses, Phases
  <1> QED
    BY <1>2, <1>3 DEF Confirm

-----------------------------------------------------------------------------
(* The worker, the owner and the process.                                   *)

LEMMA LockKeeps ==
    ASSUME TypeOK, JournalInvariant, Lock PROVE JournalInvariant'
  <1> USE DEF terminal, session, history, line
  <1> DEFINE m == Head(queue)
             mode == job[m].mode
  <1>1. /\ queue # <<>> /\ m \in Messages /\ Queued(m) /\ Owns(m, "attempt") /\ Free
        /\ receipt[m].phase \in Phases /\ mode \in Modes
    <2>1. queue \in Seq(Messages) /\ queue # <<>> /\ Free
      BY DEF Lock, TypeOK
    <2>2. m = queue[1] /\ 1 \in 1..Len(queue) /\ m \in Messages
      BY <2>1
    <2>3. Queued(m) /\ Owns(m, "attempt")
      BY <2>1, <2>2 DEF Queued, Owns, Free
    <2> HIDE DEF m
    <2>4. receipt[m].phase \in Phases /\ job[m].mode \in Modes
      BY <2>2 DEF TypeOK, Receipt, Job
    <2> QED
      BY <2>1, <2>2, <2>3, <2>4
  <1>2. receipt[m].phase \in Before(FirstIntent(mode))
    BY <1>1 DEF JournalInvariant, JobFollowsJournal, Attempted, Free
  <1>3. Proves(m, receipt[m].phase, entered, pasted)
    BY <1>1 DEF JournalInvariant, JournalIsTrue
  <1>4. CASE \E why \in {"none", "request"} : Fail(m, "attempt", why, receipt[m].phase)
    <2>1. EndsTrue(m, receipt[m].phase)
      BY <1>3 DEF Lock, EndsTrue, JournalInvariant, AtMostOnce
    <2>2. receipt[m].status # "rejected" \/ m \in dropped \/ receipt[m].phase = "reserved"
      BY <1>1 DEF JournalInvariant, RejectedIsReserved
    <2> QED
      BY <1>1, <1>4, <2>1, <2>2, FailKeeps DEF Reasons
  <1>5. CASE ~\E why \in {"none", "request"} : Fail(m, "attempt", why, receipt[m].phase)
    <2>1. /\ receipt' = IF mode # "send" THEN receipt
                        ELSE [receipt EXCEPT ![m].phase = "reserved",
                                             ![m].generation = generation]
          /\ tx' = [NoTx EXCEPT !.by = "attempt", !.m = m, !.mode = mode,
                        !.step = IF mode # "send" THEN "intent" ELSE "prepare",
                        !.intent = FirstIntent(mode), !.generation = generation,
                        !.proof = job[m].proof]
          /\ worker' = "rest"
          /\ UNCHANGED <<active, line, job, session, entered, pasted, dropped>>
      BY <1>5 DEF Lock
    <2>2. /\ tx'.by = "attempt" /\ tx'.m = m /\ tx'.intent = FirstIntent(mode)
          /\ tx'.step = IF mode # "send" THEN "intent" ELSE "prepare"
      BY <2>1 DEF NoTx
    <2>3. \A n \in Messages : /\ receipt'[n].phase = receipt[n].phase
                              /\ receipt'[n].status = receipt[n].status
      <3>1. CASE mode # "send"
        BY <2>1, <3>1
      <3>2. CASE mode = "send"
        <4>1. receipt[m].phase = "reserved"
          BY <1>2, <3>2 DEF FirstIntent, Before
        <4>2. /\ receipt'[m].phase = "reserved" /\ receipt'[m].status = receipt[m].status
              /\ \A n \in Messages \ {m} : receipt'[n] = receipt[n]
          BY <1>1, <2>1, <3>2 DEF TypeOK, Receipt
        <4> QED
          BY <4>1, <4>2
      <3> QED
        BY <3>1, <3>2
    <2>4. AtMostOnce' /\ JournalIsTrue'
      BY <2>1, <2>3 DEF JournalInvariant, AtMostOnce, JournalIsTrue
    <2>5. TxFollowsJournal'
      <3>1. mode = "send" => FirstIntent(mode) = "paste-intent"
        BY DEF FirstIntent
      <3> QED
        BY <1>1, <1>2, <2>2, <2>3, <3>1 DEF TxFollowsJournal
    <2>6. /\ \A n \in Messages : Queued(n)' = Queued(n)
          /\ Distinct' = Distinct
      BY <2>1 DEF Queued, Distinct
    <2>7. JobFollowsJournal'
      <3>1. \A n \in Messages : ~Attempted(n)
        BY <1>1 DEF Attempted, Free
      <3> QED
        BY <2>1, <2>3, <2>6, <3>1 DEF JournalInvariant, JobFollowsJournal
    <2>8. OneOwner'
      BY <1>1, <2>1, <2>2, <2>3, <2>6 DEF JournalInvariant, OneOwner
    <2>9. RejectedIsReserved'
      BY <2>1, <2>3 DEF JournalInvariant, RejectedIsReserved
    <2> QED
      BY <2>4, <2>5, <2>7, <2>8, <2>9 DEF JournalInvariant
  <1> QED
    BY <1>4, <1>5

\* A message leaves the queue without a transaction: it is cancelled or expires.
LEMMA LeaveKeeps ==
    ASSUME TypeOK, JournalInvariant, NEW m \in Messages, Queued(m),
           \/ m # Head(queue)
           \/ worker = "rest" /\ tx.by # "attempt",
           NEW status \in {"rejected", "uncertain"},
           status = "rejected" => receipt[m].phase = "reserved",
           receipt' = Marked(m, status, receipt[m].phase, "none"), Release(m),
           \A n \in Messages : early'[n] \in {early[n], "none"},
           UNCHANGED <<worker, tx, blocking, entered, pasted, dropped>>
    PROVE  JournalInvariant'
  <1>1. /\ \A n \in Messages \ {m} : receipt'[n] = receipt[n]
        /\ receipt'[m].status = status /\ receipt'[m].phase = receipt[m].phase
    <2>1. receipt \in [Messages -> Receipt] /\ receipt[m].phase \in Phases
      BY DEF TypeOK, Receipt
    <2>2. status \in Statuses /\ "none" \in Reasons
      BY DEF Statuses, Reasons
    <2> QED
      BY <2>1, <2>2, MarkedType
  <1>2. /\ Distinct'
        /\ \A n \in Messages : Queued(n)' <=> Queued(n) /\ n # m
        /\ queue # <<>> /\ Head(queue) # m => queue' # <<>> /\ Head(queue') = Head(queue)
        /\ active' = active \ {m}
        /\ \A n \in Messages \ {m} : job'[n] = job[n]
        /\ job'[m] = NewJob
    BY ReleaseQueue DEF JournalInvariant, OneOwner
  <1>3. queue # <<>>
    BY DEF Queued, TypeOK
  <1>4. ~Free => tx.m \in Messages \ {m}
    <2>1. tx.m \in Messages /\ tx.by \in {"none", "attempt", "recover"}
      BY DEF TypeOK, Tx
    <2> QED
      BY <2>1 DEF JournalInvariant, OneOwner, Free
  <1>5. JournalIsTrue' /\ AtMostOnce'
    BY <1>1 DEF JournalInvariant, JournalIsTrue, AtMostOnce
  <1>6. TxFollowsJournal'
    BY <1>1, <1>4 DEF JournalInvariant, TxFollowsJournal, Free
  <1>7. JobFollowsJournal'
    <2>1. \A n \in Messages : Attempted(n)' = Attempted(n)
      BY DEF Attempted
    <2> QED
      BY <1>1, <1>2, <2>1 DEF JournalInvariant, JobFollowsJournal
  <1>8. OneOwner'
    <2>1. worker' = "lock" => queue' # <<>> /\ tx'.by # "attempt"
      BY <1>2, <1>3 DEF JournalInvariant, OneOwner
    <2>2. tx'.by = "attempt" => queue' # <<>> /\ tx'.m = Head(queue')
      BY <1>2, <1>3 DEF JournalInvariant, OneOwner
    <2>3. (tx.by = "recover" => tx.m \in active /\ ~Queued(tx.m))'
      <3>1. ASSUME tx.by = "recover"
            PROVE  tx.m \in active' /\ ~\E k \in 1..Len(queue') : queue'[k] = tx.m
        BY <1>2, <1>4, <3>1 DEF JournalInvariant, OneOwner, Free, Queued
      <3> QED
        BY <3>1 DEF Queued
    <2>4. \A n \in Messages : Queued(n)' => n \in active'
      BY <1>2 DEF JournalInvariant, OneOwner
    <2>5. \A n \in Messages : receipt'[n].status = "absent" =>
             n \notin active' /\ receipt'[n].phase = "reserved"
      BY <1>1, <1>2 DEF JournalInvariant, OneOwner
    <2> QED
      BY <1>2, <2>1, <2>2, <2>3, <2>4, <2>5 DEF OneOwner
  <1>9. RejectedIsReserved'
    BY <1>1 DEF JournalInvariant, RejectedIsReserved
  <1> QED
    BY <1>5, <1>6, <1>7, <1>8, <1>9 DEF JournalInvariant

LEMMA ExpireKeeps ==
    ASSUME TypeOK, JournalInvariant, Expire PROVE JournalInvariant'
  <1> USE DEF terminal, session, history, line
  <1> DEFINE m == Head(queue)
             status == IF job[m].mode = "send" THEN "rejected" ELSE "uncertain"
  <1>1. /\ m \in Messages /\ Queued(m) /\ worker = "rest" /\ tx.by # "attempt"
    <2>1. queue \in Seq(Messages) /\ queue # <<>> /\ worker = "rest" /\ tx.by # "attempt"
      BY DEF Expire, TypeOK
    <2>2. m = queue[1] /\ 1 \in 1..Len(queue) /\ m \in Messages
      BY <2>1
    <2> QED
      BY <2>1, <2>2 DEF Queued
  <1>2. status = "rejected" => receipt[m].phase = "reserved"
    BY <1>1 DEF JournalInvariant, JobFollowsJournal, Attempted, FirstIntent, Before
  <1>3. /\ receipt' = Marked(m, status, receipt[m].phase, "none") /\ Release(m)
        /\ early' = [early EXCEPT ![m] = "none"]
        /\ UNCHANGED <<worker, tx, blocking, entered, pasted, dropped>>
    BY DEF Expire
  <1>4. \A n \in Messages : early'[n] \in {early[n], "none"}
    BY <1>1, <1>3 DEF TypeOK
  <1>5. status \in {"rejected", "uncertain"}
    OBVIOUS
  <1> HIDE DEF m, status
  <1> QED
    BY <1>1, <1>2, <1>3, <1>4, <1>5, LeaveKeeps

LEMMA CancelKeeps ==
    ASSUME TypeOK, JournalInvariant, NEW m \in Messages, Cancel(m), ~Running(m)
    PROVE  JournalInvariant'
  <1> USE DEF terminal, session, history, line
  <1>1. /\ Queued(m) /\ receipt[m].phase = "reserved"
        /\ receipt' = Marked(m, "rejected", receipt[m].phase, "none") /\ Release(m)
        /\ UNCHANGED <<worker, tx, early, blocking, entered, pasted, dropped>>
    BY DEF Cancel
  <1>2. m # Head(queue) \/ (worker = "rest" /\ tx.by # "attempt")
    <2>1. queue # <<>> /\ worker \in {"rest", "lock"}
      BY <1>1 DEF Queued, TypeOK
    <2> QED
      BY <2>1 DEF Running
  <1>3. \A n \in Messages : early'[n] \in {early[n], "none"}
    BY <1>1
  <1> QED
    BY <1>1, <1>2, <1>3, LeaveKeeps

\* A message that nobody has in hand joins the queue.
LEMMA JoinKeeps ==
    ASSUME TypeOK, JournalInvariant, NEW m \in Messages, m \notin active,
           \A n \in Messages \ {m} : receipt'[n] = receipt[n] /\ job'[n] = job[n],
           receipt'[m].phase = receipt[m].phase,
           receipt'[m].status \in {receipt[m].status, "pending"} \ {"absent"},
           receipt[m].phase \in Before(FirstIntent(job'[m].mode)),
           queue' = Append(queue, m), active' = active \cup {m},
           UNCHANGED <<worker, tx, early, blocking, entered, pasted, dropped>>
    PROVE  JournalInvariant'
  <1>1. ~Queued(m) /\ Distinct
    BY DEF JournalInvariant, OneOwner
  <1>2. /\ Distinct'
        /\ \A n \in Messages : Queued(n)' <=> Queued(n) \/ n = m
        /\ queue # <<>> => Head(queue') = Head(queue)
        /\ queue' # <<>>
    BY <1>1, AppendQueue
  <1>3. ~Free => tx.m \in Messages \ {m}
    <2>1. tx.m \in Messages /\ tx.by \in {"none", "attempt", "recover"}
      BY DEF TypeOK, Tx
    <2>2. queue # <<>> => Queued(Head(queue))
      BY DEF TypeOK, Queued
    <2> QED
      BY <1>1, <2>1, <2>2 DEF JournalInvariant, OneOwner, Free
  <1>4. JournalIsTrue' /\ AtMostOnce'
    BY DEF JournalInvariant, JournalIsTrue, AtMostOnce
  <1>5. TxFollowsJournal'
    BY <1>3 DEF JournalInvariant, TxFollowsJournal, Free
  <1>6. JobFollowsJournal'
    <2>1. \A n \in Messages : Attempted(n)' = Attempted(n)
      BY DEF Attempted
    <2> QED
      BY <1>2, <2>1 DEF JournalInvariant, JobFollowsJournal
  <1>7. OneOwner'
    <2>1. (tx.by = "recover" => tx.m \in active /\ ~Queued(tx.m))'
      <3>1. ASSUME tx.by = "recover"
            PROVE  tx.m \in active' /\ ~\E k \in 1..Len(queue') : queue'[k] = tx.m
        BY <1>2, <1>3, <3>1 DEF JournalInvariant, OneOwner, Free, Queued
      <3> QED
        BY <3>1 DEF Queued
    <2>2. /\ (worker = "lock" => queue # <<>> /\ tx.by # "attempt")'
          /\ (tx.by = "attempt" => queue # <<>> /\ tx.m = Head(queue))'
      BY <1>2 DEF JournalInvariant, OneOwner
    <2>3. \A n \in Messages : Queued(n)' => n \in active'
      BY <1>2 DEF JournalInvariant, OneOwner
    <2>4. \A n \in Messages : receipt'[n].status = "absent" =>
             n \notin active' /\ receipt'[n].phase = "reserved"
      BY DEF JournalInvariant, OneOwner
    <2> QED
      BY <1>2, <2>1, <2>2, <2>3, <2>4 DEF OneOwner
  <1>8. RejectedIsReserved'
    BY DEF JournalInvariant, RejectedIsReserved
  <1> QED
    BY <1>4, <1>5, <1>6, <1>7, <1>8 DEF JournalInvariant

LEMMA SendKeeps ==
    ASSUME TypeOK, JournalInvariant, NEW m \in Messages, Send(m)
    PROVE  JournalInvariant'
  <1> USE DEF terminal, session, history, line
  <1>1. m \notin active /\ receipt[m].phase = "reserved" /\ ~Queued(m)
    BY DEF Send, JournalInvariant, OneOwner
  <1>2. job' = job /\ job[m].mode = "send"
    BY <1>1 DEF Send, JournalInvariant, JobFollowsJournal, NewJob
  <1>3. /\ \A n \in Messages \ {m} : receipt'[n] = receipt[n]
        /\ receipt'[m].phase = receipt[m].phase /\ receipt'[m].status = "pending"
    <2>1. \E why : receipt' = [receipt EXCEPT ![m].status = "pending", ![m].waiting = why]
      BY DEF Send
    <2> QED
      BY <2>1 DEF TypeOK, Receipt
  <1>4. receipt[m].phase \in Before(FirstIntent(job'[m].mode))
    BY <1>1, <1>2 DEF FirstIntent, Before
  <1>5. /\ queue' = Append(queue, m) /\ active' = active \cup {m}
        /\ UNCHANGED <<worker, tx, early, blocking, entered, pasted, dropped>>
    BY DEF Send
  <1> QED
    BY <1>1, <1>2, <1>3, <1>4, <1>5, JoinKeeps

LEMMA RecoverKeeps ==
    ASSUME TypeOK, JournalInvariant, NEW m \in Messages, Recover(m)
    PROVE  JournalInvariant'
  <1> USE DEF terminal, session, history, line
  <1>1. /\ Free /\ m \notin active /\ receipt[m].status # "absent"
        /\ active' = active \cup {m}
        /\ UNCHANGED <<worker, early, blocking, entered, pasted, dropped>>
    BY DEF Recover
  <1>2. PICK mode \in Modes : /\ Plan(m, mode)
                              /\ HoldRecovered(m, mode) \/ WriteRecovered(m, mode)
    BY DEF Recover
  <1>3. receipt[m].phase \in Before(FirstIntent(mode))
    BY <1>2 DEF Plan, FirstIntent, Before
  <1>4. CASE HoldRecovered(m, mode)
    <2>1. /\ \A n \in Messages \ {m} : receipt'[n] = receipt[n]
          /\ receipt'[m].phase = receipt[m].phase
          /\ receipt'[m].status = receipt[m].status
      <3>1. \E why : receipt' = [receipt EXCEPT ![m].attempt = @ + 1, ![m].waiting = why]
        BY <1>4 DEF HoldRecovered
      <3> QED
        BY <3>1 DEF TypeOK, Receipt
    <2>2. job'[m].mode = mode /\ \A n \in Messages \ {m} : job'[n] = job[n]
      <3> DEFINE new == [NewJob EXCEPT !.mode = mode, !.started = TRUE]
      <3>1. job' = [job EXCEPT ![m] = new]
        BY <1>4 DEF HoldRecovered
      <3>2. new.mode = mode
        BY DEF NewJob
      <3> HIDE DEF new
      <3> QED
        BY <3>1, <3>2 DEF TypeOK
    <2> QED
      BY <1>1, <1>3, <1>4, <2>1, <2>2, JoinKeeps DEF HoldRecovered
  <1>5. CASE WriteRecovered(m, mode)
    <2>1. /\ \A n \in Messages \ {m} : receipt'[n] = receipt[n]
          /\ receipt'[m].phase = receipt[m].phase /\ receipt'[m].status = "uncertain"
      BY <1>5 DEF WriteRecovered, TypeOK, Receipt
    <2>2. /\ tx'.by = "recover" /\ tx'.m = m /\ tx'.intent = FirstIntent(mode)
          /\ tx'.step = IF mode = "send" THEN "prepare" ELSE "intent"
      BY <1>5 DEF WriteRecovered, NoTx
    <2>3. queue = <<>> /\ queue' = queue /\ job' = job
      BY <1>5 DEF WriteRecovered
    <2>4. \A n \in Messages : ~Queued(n) /\ ~Queued(n)'
      BY <2>3 DEF Queued
    <2>5. JournalIsTrue' /\ AtMostOnce'
      BY <1>1, <2>1 DEF JournalInvariant, JournalIsTrue, AtMostOnce
    <2>6. TxFollowsJournal'
      BY <1>3, <2>1, <2>2 DEF TxFollowsJournal, FirstIntent
    <2>7. JobFollowsJournal'
      BY <2>3, <2>4 DEF JournalInvariant, JobFollowsJournal
    <2>8. OneOwner'
      <3>1. Distinct'
        BY <2>3 DEF Distinct
      <3>2. worker' # "lock"
        BY <1>1, <2>3 DEF JournalInvariant, OneOwner
      <3>3. tx'.m \in active' /\ ~\E k \in 1..Len(queue') : queue'[k] = tx'.m
        BY <1>1, <2>2, <2>3
      <3>4. (tx.by = "recover" => tx.m \in active /\ ~Queued(tx.m))'
        BY <3>3 DEF Queued
      <3>5. \A n \in Messages : receipt'[n].status = "absent" =>
               n \notin active' /\ receipt'[n].phase = "reserved"
        BY <1>1, <2>1 DEF JournalInvariant, OneOwner
      <3> QED
        BY <2>2, <2>4, <3>1, <3>2, <3>4, <3>5 DEF OneOwner
    <2>9. RejectedIsReserved'
      BY <1>1, <2>1 DEF JournalInvariant, RejectedIsReserved
    <2> QED
      BY <2>5, <2>6, <2>7, <2>8, <2>9 DEF JournalInvariant
  <1> QED
    BY <1>2, <1>4, <1>5

LEMMA CrashKeeps ==
    ASSUME TypeOK, JournalInvariant, Crash PROVE JournalInvariant'
  <1> USE DEF terminal
  <1>1. /\ active' = {} /\ queue' = <<>> /\ job' = [m \in Messages |-> NewJob]
        /\ worker' = "rest" /\ tx' = NoTx /\ early' = [m \in Messages |-> "none"]
        /\ blocking' = {} /\ UNCHANGED <<receipt, entered, pasted, dropped>>
    BY DEF Crash
  <1>2. \A m \in Messages : ~Queued(m)'
    BY <1>1 DEF Queued
  <1>3. tx'.by = "none"
    BY <1>1 DEF NoTx
  <1>4. JournalIsTrue' /\ AtMostOnce' /\ TxFollowsJournal'
    BY <1>1, <1>3 DEF JournalInvariant, JournalIsTrue, AtMostOnce, TxFollowsJournal, Free
  <1>5. JobFollowsJournal'
    BY <1>1, <1>2 DEF JobFollowsJournal
  <1>6. OneOwner'
    BY <1>1, <1>2, <1>3 DEF JournalInvariant, OneOwner, Distinct
  <1>7. RejectedIsReserved'
    BY <1>1 DEF JournalInvariant, RejectedIsReserved
  <1> QED
    BY <1>4, <1>5, <1>6, <1>7 DEF JournalInvariant

-----------------------------------------------------------------------------
(* The theorems.                                                            *)

LEMMA JournalInit == Init => JournalInvariant
  <1> SUFFICES ASSUME Init PROVE JournalInvariant
    OBVIOUS
  <1>1. /\ receipt = [m \in Messages |-> [status |-> "absent", phase |-> "reserved",
                         generation |-> 0, attempt |-> 0, waiting |-> "none"]]
        /\ active = {} /\ queue = <<>> /\ job = [m \in Messages |-> NewJob]
        /\ worker = "rest" /\ tx = NoTx /\ early = [m \in Messages |-> "none"]
        /\ blocking = {}
        /\ pasted = [p \in Pieces |-> 0] /\ entered = [m \in Messages |-> 0]
    BY DEF Init
  <1>2. \A m \in Messages : ~Queued(m) /\ Full(m) \subseteq Pieces
    BY <1>1, PieceTypes DEF Queued
  <1>3. tx.by = "none"
    BY <1>1 DEF NoTx
  <1>4. AtMostOnce /\ TxFollowsJournal
    BY <1>1, <1>3 DEF AtMostOnce, TxFollowsJournal, Free
  <1>5. JournalIsTrue
    <2>1. \A m \in Messages : receipt[m].phase = "reserved"
      BY <1>1
    <2>2. \A m \in Messages : Unsent(m, "paste-intent", entered, pasted)
      <3>1. \A m \in Messages : <<m, "text">> \in Full(m)
        BY DEF Full
      <3> QED
        BY <1>1, <1>2, <3>1 DEF Unsent
    <2> QED
      BY <2>1, <2>2 DEF JournalIsTrue, Proves
  <1>6. JobFollowsJournal
    BY <1>1, <1>2 DEF JobFollowsJournal
  <1>7. OneOwner
    BY <1>1, <1>2, <1>3 DEF OneOwner, Distinct
  <1>8. RejectedIsReserved
    BY <1>1 DEF RejectedIsReserved
  <1> QED
    BY <1>4, <1>5, <1>6, <1>7, <1>8 DEF JournalInvariant

LEMMA JournalStep == TypeOK /\ JournalInvariant /\ [Next]_vars => JournalInvariant'
  <1> SUFFICES ASSUME TypeOK, JournalInvariant, [Next]_vars PROVE JournalInvariant'
    OBVIOUS
  <1>1. CASE Owner
    <2>1. PICK m \in Messages : Send(m) \/ Cancel(m) \/ Recover(m)
      BY <1>1 DEF Owner
    <2>2. CASE Cancel(m) /\ Running(m)
      BY <2>2, QuietActions, QuietKeeps
    <2>3. CASE Cancel(m) /\ ~Running(m)
      BY <2>3, CancelKeeps
    <2> QED
      BY <2>1, <2>2, <2>3, SendKeeps, RecoverKeeps
  <1>2. CASE Worker
    <2>1. CASE Begin
      BY <2>1, QuietActions, QuietKeeps
    <2> QED
      BY <1>2, <2>1, ExpireKeeps, LockKeeps DEF Worker
  <1>3. CASE Writer
    BY <1>3, PrepareKeeps, IntendKeeps, GuardKeeps, PasteKeeps, EnterKeeps, JournalKeeps,
       ConfirmKeeps DEF Writer
  <1>4. CASE Native \/ (\E m \in Messages : PassDeadline(m) \/ Block(m)) \/ UNCHANGED vars
    <2>1. Quiet
      BY <1>4, QuietActions DEF Native
    <2> QED
      BY <2>1, QuietKeeps
  <1>5. CASE Crash
    BY <1>5, CrashKeeps
  <1> QED
    BY <1>1, <1>2, <1>3, <1>4, <1>5 DEF Next

\* The journal, the jobs and the transaction always agree with what was sent.
THEOREM JournalCorrect == Spec => []JournalInvariant
  <1>1. Init => TypeOK /\ JournalInvariant
    BY TypeInit, JournalInit
  <1>2. TypeOK /\ JournalInvariant /\ [Next]_vars => (TypeOK /\ JournalInvariant)'
    BY TypeStep, JournalStep
  <1> QED
    BY <1>1, <1>2, PTL DEF Spec

\* No part of a message is pasted twice, and Enter is sent for it at most once: the
\* receipts written around each step, and the guards of a retry, are enough for it.
THEOREM SentAtMostOnce == Spec => []AtMostOnce
  <1>1. JournalInvariant => AtMostOnce
    BY DEF JournalInvariant
  <1> QED
    BY <1>1, JournalCorrect, PTL

\* A rejected message that no hook dropped left nothing in the terminal.
THEOREM RejectedSentNothing == Spec => []RejectedLeftNothing
  <1>1. JournalInvariant => RejectedLeftNothing
    <2> SUFFICES ASSUME JournalInvariant, NEW m \in Messages \ dropped,
                        receipt[m].status = "rejected"
                 PROVE  entered[m] = 0 /\ \A p \in Full(m) : pasted[p] = 0
      BY DEF RejectedLeftNothing
    <2>1. receipt[m].phase = "reserved"
      BY DEF JournalInvariant, RejectedIsReserved
    <2> QED
      BY <2>1 DEF JournalInvariant, JournalIsTrue, Proves, Unsent
  <1> QED
    BY <1>1, JournalCorrect, PTL

-----------------------------------------------------------------------------
(* Where the text of a message is.                                         *)

Text(m) == <<m, "text">>
Sent(m) == \E p \in prompts : Text(m) \in p

\* Pasted at most once, the text is in one place; accepted, it is gone.
InOnePlace(m) ==
    /\ Text(m) \in box \/ Sent(m) \/ m \in reported => pasted[Text(m)] > 0
    /\ Text(m) \in box => ~Sent(m)
    /\ \A p, q \in prompts : Text(m) \in p /\ Text(m) \in q => p = q
    /\ m \in reported => Text(m) \notin box /\ ~Sent(m)

\* The transaction is about to send Enter after a paste of its own, or just pasted.
EnterAhead ==
    /\ ~Free
    /\ \/ tx.intent = "submit-intent" /\ tx.mode # "submit" /\ tx.step \in {"intent", "guard"}
       \/ tx.intent = "submit-intent" /\ tx.step = "bytes"
       \/ tx.intent # "submit-intent" /\ tx.step = "written"

\* The text before an Enter was not submitted yet, and a resumed Enter finds it in the
\* box, unless a new CLI process emptied that.
BeforeEnter ==
    /\ EnterAhead => tx.m \notin reported /\ ~Sent(tx.m)
    /\ ~Free /\ tx.mode = "submit" => tx.intent = "submit-intent"
    /\ ~Free /\ tx.mode = "submit" /\ tx.step = "bytes" =>
          \/ Text(tx.m) \in box
          \/ box = {} /\ prompts = {}

\* The box a message was held with shows its text, or nothing was seen.
Shows(m, proof) == proof = {} \/ Text(m) \in proof
JobsShow == \A m \in Messages : job[m].mode = "submit" => Shows(m, job[m].proof)
ProofsShow ==
    /\ Free => tx.proof = {}
    /\ ~Free /\ tx.intent = "submit-intent" => Shows(tx.m, tx.proof)
    /\ JobsShow

TextInvariant == (\A m \in Messages : InOnePlace(m)) /\ BeforeEnter /\ ProofsShow

LEMMA TextType ==
    ASSUME NEW m \in Messages
    PROVE  /\ Text(m) \in Pieces /\ Text(m) \notin Drafts
           /\ \A n : Text(m) = Text(n) => m = n
  BY DraftAssumption DEF Text, Pieces

LEMMA TextInit == TypeOK /\ Init => TextInvariant
  <1> SUFFICES ASSUME TypeOK, Init PROVE TextInvariant
    OBVIOUS
  <1>1. box = {} /\ prompts = {} /\ reported = {} /\ tx = NoTx
        /\ job = [m \in Messages |-> NewJob]
    BY DEF Init
  <1>2. \A m \in Messages : InOnePlace(m)
    BY <1>1 DEF InOnePlace, Sent
  <1>3. tx.by = "none" /\ tx.proof = {}
    BY <1>1 DEF NoTx
  <1>4. BeforeEnter
    BY <1>3 DEF BeforeEnter, EnterAhead, Free
  <1>5. ProofsShow
    BY <1>1, <1>3 DEF ProofsShow, JobsShow, Free, NewJob
  <1> QED
    BY <1>2, <1>4, <1>5 DEF TextInvariant

-----------------------------------------------------------------------------
(* How the text moves.                                                      *)

\* No text comes into the box, none is submitted and nothing is reported.
NoText ==
    /\ \A m \in Messages : Text(m) \in box' => Text(m) \in box
    /\ prompts' \subseteq prompts /\ reported' \subseteq reported
    /\ \A m \in Messages : pasted'[Text(m)] >= pasted[Text(m)]

LEMMA NoTextKeeps ==
    ASSUME TypeOK, TypeOK', NoText, \A m \in Messages : InOnePlace(m)
    PROVE  \A m \in Messages : InOnePlace(m)'
  <1> SUFFICES ASSUME NEW m \in Messages PROVE InOnePlace(m)'
    OBVIOUS
  <1>1. pasted[Text(m)] \in Nat /\ pasted'[Text(m)] \in Nat
        /\ pasted'[Text(m)] >= pasted[Text(m)]
    BY TextType DEF TypeOK, NoText
  <1>2. /\ Text(m) \in box' => Text(m) \in box
        /\ Sent(m)' => Sent(m)
        /\ m \in reported' => m \in reported
        /\ prompts' \subseteq prompts
    BY DEF NoText, Sent
  <1>3. InOnePlace(m)
    OBVIOUS
  <1> QED
    BY <1>1, <1>2, <1>3 DEF InOnePlace

\* Enter: what is in the box becomes a prompt.
LEMMA SubmitKeeps ==
    ASSUME TypeOK, \A m \in Messages : InOnePlace(m),
           box' = {}, prompts' = prompts \cup ({box} \ {{}}),
           UNCHANGED <<reported, pasted>>
    PROVE  \A m \in Messages : InOnePlace(m)'
  <1> SUFFICES ASSUME NEW m \in Messages PROVE InOnePlace(m)'
    OBVIOUS
  <1>1. InOnePlace(m)
    OBVIOUS
  <1>2. Sent(m)' <=> Sent(m) \/ Text(m) \in box
    BY DEF Sent
  <1>3. ASSUME NEW p \in prompts', NEW q \in prompts', Text(m) \in p, Text(m) \in q
        PROVE  p = q
    <2>1. CASE Text(m) \in box
      <3>1. \A r \in prompts : Text(m) \notin r
        BY <1>1, <2>1 DEF InOnePlace, Sent
      <3> QED
        BY <1>3, <3>1
    <2>2. CASE Text(m) \notin box
      BY <1>1, <1>3, <2>2 DEF InOnePlace
    <2> QED
      BY <2>1, <2>2
  <1> QED
    BY <1>1, <1>2, <1>3 DEF InOnePlace

\* The CLI takes a prompt, or drops it and gives its text back.
LEMMA ResolveText ==
    ASSUME TypeOK, \A m \in Messages : InOnePlace(m),
           NEW p \in prompts, NEW kind \in {"accepted", "dropped"}, Resolve(p, kind)
    PROVE  \A m \in Messages : InOnePlace(m)'
  <1> SUFFICES ASSUME NEW m \in Messages PROVE InOnePlace(m)'
    OBVIOUS
  <1>1. InOnePlace(m)
    OBVIOUS
  <1>2. prompts' = prompts \ {p} /\ pasted' = pasted
    BY DEF Resolve
  <1>3. /\ m \in reported' => m \in reported \/ (kind = "accepted" /\ Text(m) \in p)
        /\ kind = "dropped" => reported' = reported
    <2>1. \/ UNCHANGED reported
          \/ \E n \in Messages : Text(n) \in p /\ Accept(n, kind)
      BY DEF Resolve, Text
    <2> QED
      BY <2>1 DEF Accept
  <1>4. /\ Text(m) \in box' => Text(m) \in box \/ (kind = "dropped" /\ Text(m) \in p)
        /\ kind = "accepted" => box' = box
    BY DEF Resolve
  <1>5. Sent(m)' => Sent(m) /\ Text(m) \notin p
    <2>1. Sent(m)' => \E q \in prompts : Text(m) \in q /\ q # p
      BY <1>2 DEF Sent
    <2> QED
      BY <1>1, <2>1 DEF InOnePlace, Sent
  <1>6. Text(m) \in p => Sent(m)
    BY DEF Sent
  <1>7. \A q, r \in prompts' : Text(m) \in q /\ Text(m) \in r => q = r
    BY <1>1, <1>2 DEF InOnePlace
  <1> QED
    BY <1>1, <1>2, <1>3, <1>4, <1>5, <1>6, <1>7 DEF InOnePlace

\* A paste puts a piece into the box that was never pasted before.
LEMMA PasteText ==
    ASSUME TypeOK, TypeOK', JournalInvariant, \A m \in Messages : InOnePlace(m), Paste
    PROVE  \A m \in Messages : InOnePlace(m)'
  <1> SUFFICES ASSUME NEW m \in Messages PROVE InOnePlace(m)'
    OBVIOUS
  <1> USE DEF terminal, session, history, line
  <1> DEFINE piece == PieceOf(tx.m, tx.intent)
  <1>1. /\ InOnePlace(m) /\ tx.m \in Messages /\ ~Free
        /\ tx.intent \in {"paste-intent", "text-intent"}
        /\ Unsent(tx.m, tx.intent, entered, pasted)
    BY DEF Paste, At, Free, TypeOK, Tx, Intents, JournalInvariant, TxFollowsJournal
  <1>2. piece \in Pieces /\ pasted[piece] = 0
    BY <1>1, PieceTypes DEF Unsent, PieceOf
  <1>3. prompts' = prompts /\ reported' = reported
    BY DEF Paste
  <1>4. Sent(m)' <=> Sent(m)
    BY <1>3 DEF Sent
  <1>5. CASE pasted' = pasted /\ box' = box
    BY <1>1, <1>3, <1>4, <1>5 DEF InOnePlace
  <1>6. CASE /\ pasted' = [pasted EXCEPT ![piece] = @ + 1]
             /\ box' = box \/ box' = box \cup {piece}
    <2>1. pasted[Text(m)] \in Nat /\ pasted'[Text(m)] \in Nat
      BY TextType DEF TypeOK
    <2>2. CASE piece = Text(m)
      <3>1. ~Sent(m) /\ m \notin reported /\ pasted'[Text(m)] = 1
        BY <1>1, <1>2, <1>6, <2>2 DEF InOnePlace, TypeOK
      <3> QED
        BY <1>1, <1>3, <1>4, <3>1 DEF InOnePlace
    <2>3. CASE piece # Text(m)
      <3>1. pasted'[Text(m)] = pasted[Text(m)] /\ (Text(m) \in box' <=> Text(m) \in box)
        BY <1>2, <1>6, <2>3, TextType DEF TypeOK
      <3> QED
        BY <1>1, <1>3, <1>4, <3>1 DEF InOnePlace
    <2> QED
      BY <2>2, <2>3
  <1> QED
    BY <1>5, <1>6 DEF Paste

-----------------------------------------------------------------------------
(* The transaction and what it saw.                                         *)

LEMMA NoTxText ==
    ASSUME tx' = NoTx, JobsShow' PROVE BeforeEnter' /\ ProofsShow'
  <1>1. tx'.by = "none" /\ tx'.proof = {}
    BY DEF NoTx
  <1> QED
    BY <1>1 DEF BeforeEnter, EnterAhead, ProofsShow, Free

LEMMA ReleaseJobs ==
    ASSUME TypeOK, JobsShow, NEW m \in Messages, Release(m) PROVE JobsShow'
  <1>1. job' = [job EXCEPT ![m] = NewJob] /\ job \in [Messages -> Job]
    BY DEF Release, TypeOK
  <1>2. \A n \in Messages : job'[n] = job[n] \/ job'[n].mode = "send"
    BY <1>1 DEF NewJob
  <1> QED
    BY <1>2 DEF JobsShow

\* A message is held for its Enter alone only when its box was seen to show it.
LEMMA FailText ==
    ASSUME TypeOK, ProofsShow, NEW m \in Messages, NEW by, NEW why, NEW phase,
           Fail(m, by, why, phase),
           why = "none" \/ phase # "pasted" \/ Shows(m, tx.proof)
    PROVE  BeforeEnter' /\ ProofsShow'
  <1>1. tx' = NoTx
    BY DEF Fail, Hold, Settle, EndTx
  <1>2. CASE Settle(m, by, IF phase = "reserved" THEN "rejected" ELSE "uncertain", phase)
    BY <1>1, <1>2, ReleaseJobs, NoTxText DEF Settle, ProofsShow
  <1>3. CASE why # "none" /\ phase \in Holdable /\ Hold(m, by, why, phase)
    <2>1. /\ job' = [job EXCEPT ![m] = [@ EXCEPT !.mode = HeldMode(phase),
                                                 !.started = TRUE, !.cancelled = FALSE,
                                                 !.proof = tx.proof]]
          /\ job \in [Messages -> Job]
      BY <1>3 DEF Hold, TypeOK
    <2>2. /\ \A n \in Messages \ {m} : job'[n] = job[n]
          /\ job'[m].mode = HeldMode(phase) /\ job'[m].proof = tx.proof
      BY <2>1 DEF Job
    <2>3. HeldMode(phase) = "submit" => phase = "pasted"
      BY <1>3 DEF HeldMode, Holdable
    <2>4. JobsShow'
      BY <1>3, <2>2, <2>3 DEF JobsShow, ProofsShow
    <2> QED
      BY <1>1, <2>4, NoTxText
  <1> QED
    BY <1>2, <1>3 DEF Fail

\* Nothing of the jobs changes but when they are due and whether they are cancelled.
SameWork ==
    /\ tx' = tx
    /\ \A m \in Messages : job'[m].mode = "submit" =>
          job[m].mode = "submit" /\ job'[m].proof = job[m].proof

LEMMA SameWorkShows ==
    ASSUME ProofsShow, SameWork PROVE ProofsShow'
  BY DEF SameWork, ProofsShow, JobsShow, Free

\* Steps of the owner, the CLI and the queue beside a transaction.
LEMMA AroundTx ==
    ASSUME TypeOK, TextInvariant, SameWork, reported' = reported, prompts' \subseteq prompts,
           \/ box' = box
           \/ Free
           \/ box' = {} /\ prompts' = {}
    PROVE  BeforeEnter' /\ ProofsShow'
  <1>1. tx' = tx /\ BeforeEnter
    BY DEF SameWork, TextInvariant
  <1>2. \A m : Sent(m)' => Sent(m)
    BY DEF Sent
  <1>3. BeforeEnter'
    BY <1>1, <1>2 DEF BeforeEnter, EnterAhead, Free
  <1> QED
    BY <1>3, SameWorkShows DEF TextInvariant

LEMMA ResolveBeforeEnter ==
    ASSUME TypeOK, TextInvariant, NEW p \in prompts,
           NEW kind \in {"accepted", "dropped"}, Resolve(p, kind)
    PROVE  BeforeEnter' /\ ProofsShow'
  <1>1. /\ tx' = tx /\ job' = job /\ prompts' = prompts \ {p} /\ box \subseteq box'
    BY DEF Resolve
  <1>2. \/ UNCHANGED reported
        \/ \E n \in Messages : Text(n) \in p /\ Accept(n, kind)
    BY DEF Resolve, Text
  <1>3. \A m \in reported' \ reported : Sent(m)
    BY <1>2 DEF Accept, Sent
  <1>4. \A m : Sent(m)' => Sent(m)
    BY <1>1 DEF Sent
  <1>5. BeforeEnter'
    BY <1>1, <1>3, <1>4 DEF TextInvariant, BeforeEnter, EnterAhead, Free
  <1> QED
    BY <1>1, <1>5, SameWorkShows DEF TextInvariant, SameWork

-----------------------------------------------------------------------------
(* The steps of a transaction.                                              *)

LEMMA PrepareText ==
    ASSUME TypeOK, JournalInvariant, TextInvariant, Prepare
    PROVE  BeforeEnter' /\ ProofsShow'
  <1> USE DEF terminal, session, history, line
  <1>1. /\ ~Free /\ tx.m \in Messages /\ tx.step = "prepare" /\ tx.intent = "paste-intent"
        /\ receipt[tx.m].phase = "reserved"
    BY DEF Prepare, At, Free, TypeOK, Tx, JournalInvariant, TxFollowsJournal, Before
  <1>2. CASE \E why : FailTx(why, receipt[tx.m].phase)
    BY <1>1, <1>2, FailText DEF FailTx, TextInvariant
  <1>3. CASE ~\E why : FailTx(why, receipt[tx.m].phase)
    <2>1. /\ \E a : tx' = [tx EXCEPT !.step = "intent", !.appended = a]
          /\ job' = job /\ prompts' = prompts /\ reported' = reported
      BY <1>3 DEF Prepare
    <2>2. /\ tx'.by = tx.by /\ tx'.m = tx.m /\ tx'.step = "intent"
          /\ tx'.intent = "paste-intent" /\ tx'.mode = tx.mode /\ tx'.proof = tx.proof
      BY <1>1, <2>1 DEF TypeOK, Tx
    <2>3. ~Free'
      BY <1>1, <2>2 DEF Free
    <2>4. BeforeEnter'
      BY <1>1, <2>2, <2>3 DEF TextInvariant, BeforeEnter, EnterAhead
    <2> QED
      BY <2>1, <2>2, <2>3, <2>4 DEF TextInvariant, ProofsShow, JobsShow
  <1> QED
    BY <1>2, <1>3

LEMMA IntendText ==
    ASSUME TypeOK, JournalInvariant, TextInvariant, Intend
    PROVE  BeforeEnter' /\ ProofsShow'
  <1> USE DEF terminal, session, history, line
  <1>1. /\ ~Free /\ tx.m \in Messages /\ tx.step = "intent" /\ tx.intent \in Intents
        /\ receipt[tx.m].phase \in Before(tx.intent)
    BY DEF Intend, At, Free, TypeOK, Tx, JournalInvariant, TxFollowsJournal
  <1>2. CASE \E why : FailTx(why, receipt[tx.m].phase)
    <2>1. receipt[tx.m].phase = "pasted" => Shows(tx.m, tx.proof)
      BY <1>1 DEF Before, Intents, TextInvariant, ProofsShow
    <2> QED
      BY <1>1, <1>2, <2>1, FailText DEF FailTx, TextInvariant
  <1>3. CASE ~\E why : FailTx(why, receipt[tx.m].phase)
    <2>1. /\ tx' = [tx EXCEPT !.step = "guard"]
          /\ UNCHANGED <<job, prompts, reported, box>>
      BY <1>3 DEF Intend, GoOn
    <2>2. /\ tx'.by = tx.by /\ tx'.m = tx.m /\ tx'.step = "guard"
          /\ tx'.intent = tx.intent /\ tx'.mode = tx.mode /\ tx'.proof = tx.proof
      BY <2>1 DEF TypeOK, Tx
    <2>3. ~Free' /\ (Sent(tx.m)' <=> Sent(tx.m))
      BY <1>1, <2>1, <2>2 DEF Free, Sent
    <2>4. EnterAhead' => EnterAhead
      BY <1>1, <2>2, <2>3 DEF EnterAhead
    <2>5. BeforeEnter'
      BY <1>1, <2>1, <2>2, <2>3, <2>4 DEF TextInvariant, BeforeEnter, Sent
    <2> QED
      BY <1>1, <2>1, <2>2, <2>3, <2>5 DEF TextInvariant, ProofsShow, JobsShow
  <1> QED
    BY <1>2, <1>3

LEMMA GuardText ==
    ASSUME TypeOK, JournalInvariant, TextInvariant, Guard
    PROVE  BeforeEnter' /\ ProofsShow'
  <1> USE DEF terminal, session, history, line
  <1>1. /\ ~Free /\ tx.m \in Messages /\ tx.step = "guard" /\ tx.intent \in Intents
        /\ InOnePlace(tx.m)
    BY DEF Guard, At, Free, TypeOK, Tx, TextInvariant
  <1>2. CASE \E why : FailTx(why, ProvenPhase(tx.intent))
    <2>1. ProvenPhase(tx.intent) = "pasted" => Shows(tx.m, tx.proof)
      BY <1>1 DEF ProvenPhase, Intents, TextInvariant, ProofsShow
    <2> QED
      BY <1>1, <1>2, <2>1, FailText DEF FailTx, TextInvariant
  <1>3. CASE ~\E why : FailTx(why, ProvenPhase(tx.intent))
    <2>1. /\ \E a : tx' = [tx EXCEPT !.step = "bytes", !.appended = a,
                               !.proof = IF tx.intent = "text-intent" THEN box ELSE @]
          /\ BoxFits /\ UNCHANGED <<job, prompts, reported>>
          /\ tx.intent # "paste-intent" => box' = box
      BY <1>3 DEF Guard
    <2>2. /\ tx'.by = tx.by /\ tx'.m = tx.m /\ tx'.step = "bytes"
          /\ tx'.intent = tx.intent /\ tx'.mode = tx.mode
          /\ tx.intent = "submit-intent" => tx'.proof = tx.proof
      BY <2>1 DEF TypeOK, Tx
    <2>3. ~Free' /\ (Sent(tx.m)' <=> Sent(tx.m))
      BY <1>1, <2>1, <2>2 DEF Free, Sent
    <2>4. ASSUME tx.mode = "submit"
          PROVE  tx.intent = "submit-intent" /\ Text(tx.m) \in box
      <3>1. tx.intent = "submit-intent" /\ Shows(tx.m, tx.proof)
        BY <1>1, <2>4 DEF TextInvariant, BeforeEnter, ProofsShow
      <3>2. box = (IF tx.proof # {} THEN tx.proof ELSE Full(tx.m))
        BY <2>1, <2>4 DEF BoxFits
      <3> QED
        BY <3>1, <3>2 DEF Shows, Full, Text
    <2>5. EnterAhead' => tx.m \notin reported /\ ~Sent(tx.m)
      <3>1. CASE tx.mode = "submit"
        BY <1>1, <2>4, <3>1 DEF InOnePlace
      <3>2. CASE tx.mode # "submit"
        BY <1>1, <2>2, <2>3, <3>2 DEF EnterAhead, TextInvariant, BeforeEnter
      <3> QED
        BY <3>1, <3>2
    <2>6. BeforeEnter'
      BY <2>1, <2>2, <2>3, <2>4, <2>5 DEF BeforeEnter
    <2> QED
      BY <1>1, <2>1, <2>2, <2>3, <2>6 DEF TextInvariant, ProofsShow, JobsShow
  <1> QED
    BY <1>2, <1>3

LEMMA PasteBeforeEnter ==
    ASSUME TypeOK, JournalInvariant, TextInvariant, Paste
    PROVE  BeforeEnter' /\ ProofsShow'
  <1> USE DEF terminal, session, history, line
  <1>1. /\ ~Free /\ tx.m \in Messages /\ tx.step = "bytes" /\ InOnePlace(tx.m)
        /\ tx.intent \in {"paste-intent", "text-intent"}
        /\ Unsent(tx.m, tx.intent, entered, pasted)
    BY DEF Paste, At, Free, TypeOK, Tx, Intents, JournalInvariant, TxFollowsJournal,
           TextInvariant
  <1>2. CASE FailTx("none", tx.intent)
    BY <1>1, <1>2, FailText DEF FailTx, TextInvariant
  <1>3. CASE ~FailTx("none", tx.intent)
    <2>1. tx' = [tx EXCEPT !.step = "written"] /\ UNCHANGED <<job, prompts, reported>>
      BY <1>3 DEF Paste, GoOn
    <2>2. /\ tx'.by = tx.by /\ tx'.m = tx.m /\ tx'.step = "written"
          /\ tx'.intent = tx.intent /\ tx'.mode = tx.mode /\ tx'.proof = tx.proof
      BY <2>1 DEF TypeOK, Tx
    <2>3. ~Free' /\ (Sent(tx.m)' <=> Sent(tx.m))
      BY <1>1, <2>1, <2>2 DEF Free, Sent
    <2>4. tx.m \notin reported /\ ~Sent(tx.m)
      BY <1>1 DEF InOnePlace, Unsent, Text
    <2>5. BeforeEnter'
      BY <1>1, <2>1, <2>2, <2>3, <2>4 DEF BeforeEnter, TextInvariant
    <2> QED
      BY <1>1, <2>1, <2>2, <2>3, <2>5 DEF TextInvariant, ProofsShow, JobsShow
  <1> QED
    BY <1>2, <1>3

LEMMA EnterText ==
    ASSUME TypeOK, JournalInvariant, TextInvariant, Enter
    PROVE  BeforeEnter' /\ ProofsShow'
  <1> USE DEF terminal, session, history, line
  <1>1. ~Free /\ tx.m \in Messages /\ tx.intent = "submit-intent"
    BY DEF Enter, At, Free, TypeOK, Tx
  <1>2. CASE FailTx("none", tx.intent)
    BY <1>1, <1>2, FailText DEF FailTx, TextInvariant
  <1>3. CASE ~FailTx("none", tx.intent)
    <2>1. tx' = [tx EXCEPT !.step = "written"] /\ job' = job
      BY <1>3 DEF Enter, GoOn
    <2>2. /\ tx'.by = tx.by /\ tx'.m = tx.m /\ tx'.step = "written"
          /\ tx'.intent = tx.intent /\ tx'.mode = tx.mode /\ tx'.proof = tx.proof
      BY <2>1 DEF TypeOK, Tx
    <2>3. ~Free'
      BY <1>1, <2>2 DEF Free
    <2>4. BeforeEnter'
      BY <1>1, <2>2, <2>3 DEF BeforeEnter, EnterAhead, TextInvariant
    <2> QED
      BY <1>1, <2>1, <2>2, <2>3, <2>4 DEF TextInvariant, ProofsShow, JobsShow
  <1> QED
    BY <1>2, <1>3

LEMMA JournalText ==
    ASSUME TypeOK, JournalInvariant, TextInvariant, Journal
    PROVE  BeforeEnter' /\ ProofsShow'
  <1> USE DEF terminal, session, history, line
  <1> DEFINE phase == DonePhase(tx.m, tx.intent)
             seen == IF <<tx.m, "text">> \in box THEN box ELSE {}
  <1>1. /\ ~Free /\ tx.m \in Messages /\ tx.step = "written" /\ tx.intent \in Intents
        /\ UNCHANGED <<job, prompts, reported, box>>
    BY DEF Journal, At, Free, TypeOK, Tx
  <1>2. Shows(tx.m, seen)
    BY DEF Shows, Text
  <1>3. /\ tx'.by = tx.by /\ tx'.m = tx.m /\ tx'.mode = tx.mode
        /\ \/ /\ tx.intent # "submit-intent" /\ tx'.step = "intent"
              /\ tx'.intent = "text-intent"
           \/ /\ tx.intent # "submit-intent" /\ tx'.step = "intent"
              /\ tx'.intent = "submit-intent" /\ tx'.proof = seen
           \/ /\ tx.intent = "submit-intent" /\ tx'.step = "confirm"
              /\ tx'.intent = tx.intent /\ tx'.proof = tx.proof
    <2>1. CASE phase = "images-pasted"
      BY <2>1 DEF Journal, TypeOK, Tx, DonePhase
    <2>2. CASE phase = "pasted"
      <3>1. tx' = [tx EXCEPT !.step = "intent", !.intent = "submit-intent", !.proof = seen]
        BY <2>2 DEF Journal
      <3> HIDE DEF seen
      <3> QED
        BY <2>2, <3>1 DEF TypeOK, Tx, DonePhase
    <2>3. CASE phase = "submitted"
      <3>1. tx.intent = "submit-intent"
        BY <2>3 DEF DonePhase
      <3> QED
        BY <2>3, <3>1 DEF Journal, TypeOK, Tx
    <2> QED
      BY <2>1, <2>2, <2>3 DEF DonePhase
  <1> HIDE DEF seen, phase
  <1>4. ~Free' /\ (Sent(tx.m)' <=> Sent(tx.m))
    BY <1>1, <1>3 DEF Free, Sent
  <1>5. tx.intent # "submit-intent" => /\ tx.mode # "submit"
                                       /\ tx.m \notin reported /\ ~Sent(tx.m)
    BY <1>1 DEF TextInvariant, BeforeEnter, EnterAhead
  <1>6. BeforeEnter'
    BY <1>1, <1>3, <1>4, <1>5 DEF BeforeEnter, EnterAhead
  <1> QED
    BY <1>1, <1>2, <1>3, <1>4, <1>6 DEF TextInvariant, ProofsShow, JobsShow

LEMMA ConfirmText ==
    ASSUME TypeOK, TextInvariant, Confirm PROVE BeforeEnter' /\ ProofsShow'
  <1>1. tx.m \in Messages
    BY DEF TypeOK, Tx
  <1>2. CASE Settle(tx.m, tx.by, "handed-off", "submitted")
    BY <1>1, <1>2, ReleaseJobs, NoTxText DEF Settle, EndTx, TextInvariant, ProofsShow
  <1>3. CASE FailTx("none", "submitted")
    BY <1>1, <1>3, FailText DEF FailTx, TextInvariant
  <1> QED
    BY <1>2, <1>3 DEF Confirm

LEMMA LockText ==
    ASSUME TypeOK, TextInvariant, Lock PROVE BeforeEnter' /\ ProofsShow'
  <1> USE DEF terminal, session, history, line
  <1> DEFINE m == Head(queue)
             mode == job[m].mode
  <1>1. m \in Messages /\ Free /\ tx.proof = {}
    BY DEF Lock, TypeOK, TextInvariant, ProofsShow
  <1>2. CASE \E why : Fail(m, "attempt", why, receipt[m].phase)
    <2>1. Shows(m, tx.proof)
      BY <1>1 DEF Shows
    <2> HIDE DEF m
    <2> QED
      BY <1>1, <1>2, <2>1, FailText DEF TextInvariant
  <1>3. CASE ~\E why : Fail(m, "attempt", why, receipt[m].phase)
    <2>1. /\ tx' = [NoTx EXCEPT !.by = "attempt", !.m = m, !.mode = mode,
                        !.step = IF mode # "send" THEN "intent" ELSE "prepare",
                        !.intent = FirstIntent(mode), !.generation = generation,
                        !.proof = job[m].proof]
          /\ job' = job
      BY <1>3 DEF Lock
    <2>2. /\ tx'.by = "attempt" /\ tx'.m = m /\ tx'.intent = FirstIntent(mode)
          /\ tx'.mode = mode /\ tx'.proof = job[m].proof
          /\ tx'.step \in {"intent", "prepare"}
      BY <2>1 DEF NoTx
    <2>3. mode \in Modes
      BY <1>1 DEF TypeOK, Job
    <2>4. FirstIntent(mode) = "submit-intent" <=> mode = "submit"
      BY <2>3 DEF FirstIntent, Modes
    <2> HIDE DEF mode
    <2>5. ~Free' /\ BeforeEnter'
      BY <2>2, <2>4 DEF BeforeEnter, EnterAhead, Free
    <2>6. FirstIntent(mode) = "submit-intent" => Shows(m, job[m].proof)
      BY <1>1, <2>4 DEF TextInvariant, ProofsShow, JobsShow, mode
    <2> HIDE DEF m
    <2> QED
      BY <2>1, <2>2, <2>5, <2>6 DEF TextInvariant, ProofsShow, JobsShow
  <1> QED
    BY <1>2, <1>3

LEMMA RecoverText ==
    ASSUME TypeOK, TextInvariant, NEW m \in Messages, Recover(m)
    PROVE  BeforeEnter' /\ ProofsShow'
  <1> USE DEF terminal, session, history, line
  <1>1. Free
    BY DEF Recover
  <1>2. PICK mode \in Modes : HoldRecovered(m, mode) \/ WriteRecovered(m, mode)
    BY DEF Recover
  <1>3. CASE HoldRecovered(m, mode)
    <2>1. job' = [job EXCEPT ![m] = [NewJob EXCEPT !.mode = mode, !.started = TRUE]]
          /\ tx' = tx
      BY <1>3 DEF HoldRecovered
    <2>2. \A n \in Messages : job'[n] = job[n] \/ job'[n].proof = {}
      BY <2>1 DEF TypeOK, NewJob
    <2> QED
      BY <1>1, <2>1, <2>2
      DEF TextInvariant, BeforeEnter, EnterAhead, Free, ProofsShow, JobsShow, Shows
  <1>4. CASE WriteRecovered(m, mode)
    <2>1. /\ tx'.by = "recover" /\ tx'.m = m /\ tx'.mode = mode /\ tx'.proof = {}
          /\ tx'.step \in {"prepare", "intent"} /\ tx'.intent = FirstIntent(mode)
          /\ job' = job
      BY <1>4 DEF WriteRecovered, NoTx
    <2>2. FirstIntent(mode) = "submit-intent" <=> mode = "submit"
      BY DEF FirstIntent, Modes
    <2>3. BeforeEnter'
      BY <2>1, <2>2 DEF BeforeEnter, EnterAhead
    <2> QED
      BY <2>1, <2>3 DEF TextInvariant, ProofsShow, JobsShow, Shows, Free
  <1> QED
    BY <1>2, <1>3, <1>4

\* A queued message leaves, or its job is changed, beside the transactions.
LEMMA QueueText ==
    ASSUME TypeOK, TextInvariant,
           \/ Begin \/ Expire
           \/ \E m \in Messages : Send(m) \/ Cancel(m) \/ PassDeadline(m)
    PROVE  BeforeEnter' /\ ProofsShow'
  <1> USE DEF terminal, session, history, line
  <1>0. job \in [Messages -> Job]
    BY DEF TypeOK
  <1>1. ASSUME NEW m \in Messages, Release(m)
        PROVE  \A n \in Messages : job'[n].mode = "submit" =>
                  job[n].mode = "submit" /\ job'[n].proof = job[n].proof
    <2>1. \A n \in Messages : job'[n] = job[n] \/ job'[n] = NewJob
      BY <1>1 DEF Release, TypeOK
    <2> QED
      BY <2>1 DEF NewJob
  <1>2. SameWork
    <2>1. CASE Begin
      <3> DEFINE m == Head(queue)
      <3>1. \E d : job' = [job EXCEPT ![m].started = TRUE, ![m].deadline = d]
        BY <2>1 DEF Begin
      <3>2. \A n \in Messages : job'[n].mode = job[n].mode /\ job'[n].proof = job[n].proof
        BY <1>0, <3>1 DEF Job
      <3> QED
        BY <2>1, <3>2 DEF Begin, SameWork
    <2>2. CASE Expire
      <3>1. Head(queue) \in Messages /\ Release(Head(queue)) /\ tx' = tx
        BY <2>2 DEF Expire, TypeOK
      <3> QED
        BY <1>1, <3>1 DEF SameWork
    <2>3. ASSUME NEW m \in Messages, Send(m) \/ Cancel(m) \/ PassDeadline(m)
          PROVE  SameWork
      <3>1. CASE Release(m)
        BY <1>1, <2>3, <3>1 DEF SameWork, Send, Cancel, PassDeadline
      <3>2. CASE ~Release(m)
        <4>1. \/ job' = job
              \/ job' = [job EXCEPT ![m].cancelled = TRUE]
              \/ job' = [job EXCEPT ![m].deadline = "passed"]
          BY <2>3, <3>2 DEF Send, Cancel, PassDeadline
        <4>2. \A n \in Messages :
                 job'[n].mode = job[n].mode /\ job'[n].proof = job[n].proof
          BY <1>0, <4>1 DEF Job
        <4> QED
          BY <2>3, <4>2 DEF SameWork, Send, Cancel, PassDeadline
      <3> QED
        BY <3>1, <3>2
    <2> QED
      BY <2>1, <2>2, <2>3
  <1>3. UNCHANGED <<box, prompts, reported>>
    BY DEF Begin, Expire, Send, Cancel, PassDeadline
  <1> QED
    BY <1>2, <1>3, AroundTx

LEMMA TerminalText ==
    ASSUME TypeOK, TextInvariant,
           \/ Dialogs \/ Requests \/ OwnerInput \/ Relaunch \/ UNCHANGED vars
           \/ \E m \in Messages : Block(m)
    PROVE  BeforeEnter' /\ ProofsShow'
  <1> USE DEF terminal, session, history, line
  <1>1. SameWork /\ reported' = reported
    BY DEF SameWork, Dialogs, Requests, OwnerInput, Relaunch, OnlyTerminal, vars, Block
  <1>2. CASE ~OwnerInput
    <2>1. /\ prompts' \subseteq prompts
          /\ box' = box \/ Free \/ (box' = {} /\ prompts' = {})
      BY <1>2 DEF Dialogs, Requests, Relaunch, vars, Block
    <2> QED
      BY <1>1, <2>1, AroundTx
  <1>3. CASE OwnerInput
    <2>1. Free /\ tx' = tx
      BY <1>3 DEF OwnerInput, OnlyTerminal
    <2>2. BeforeEnter'
      BY <2>1 DEF BeforeEnter, EnterAhead, Free
    <2> QED
      BY <1>1, <2>2, SameWorkShows DEF TextInvariant
  <1> QED
    BY <1>2, <1>3

\* Every step but a paste, an Enter and what the CLI does with a prompt.
LEMMA ElsewhereNoText ==
    ASSUME TypeOK,
           \/ Owner \/ Worker \/ Prepare \/ Intend \/ Guard \/ Journal \/ Confirm
           \/ Dialogs \/ Requests \/ Relaunch \/ Crash \/ UNCHANGED vars
           \/ \E m \in Messages : PassDeadline(m) \/ Block(m)
    PROVE  NoText
  <1> USE DEF terminal, session, history, line
  <1>0. \A m \in Messages : pasted[Text(m)] \in Nat
    BY TextType DEF TypeOK
  <1>1. /\ box' = box \/ box' = {}
        /\ prompts' = prompts \/ prompts' = {}
        /\ reported' \subseteq reported /\ pasted' = pasted
    <2>1. CASE Owner
      BY <2>1 DEF Owner, Send, Cancel, Recover
    <2>2. CASE Worker
      BY <2>2 DEF Worker, Begin, Expire, Lock
    <2>3. CASE Prepare
      BY <2>3 DEF Prepare
    <2>4. CASE Intend
      BY <2>4 DEF Intend
    <2>5. CASE Guard
      BY <2>5 DEF Guard
    <2>6. CASE Journal \/ Confirm
      BY <2>6 DEF Journal, Confirm
    <2>7. CASE Dialogs \/ Requests \/ Relaunch \/ UNCHANGED vars
      BY <2>7 DEF Dialogs, Requests, Relaunch, OnlyTerminal, vars
    <2>8. CASE Crash
      BY <2>8 DEF Crash
    <2>9. CASE \E m \in Messages : PassDeadline(m) \/ Block(m)
      BY <2>9 DEF PassDeadline, Block
    <2> QED
      BY <2>1, <2>2, <2>3, <2>4, <2>5, <2>6, <2>7, <2>8, <2>9
  <1> QED
    BY <1>0, <1>1 DEF NoText

LEMMA TextStep ==
    ASSUME TypeOK, TypeOK', JournalInvariant, TextInvariant, [Next]_vars
    PROVE  TextInvariant'
  <1> USE DEF terminal, session, history, line
  <1>0. \A m \in Messages : InOnePlace(m)
    BY DEF TextInvariant
  <1>1. \A m \in Messages : InOnePlace(m)'
    <2>1. CASE Paste
      BY <1>0, <2>1, PasteText
    <2>2. CASE Enter
      <3>1. CASE box' = {} /\ prompts' = prompts \cup ({box} \ {{}})
        BY <1>0, <2>2, <3>1, SubmitKeeps DEF Enter
      <3>2. CASE UNCHANGED <<box, prompts>>
        BY <1>0, <2>2, <3>2 DEF Enter, InOnePlace, Sent
      <3> QED
        BY <2>2, <3>1, <3>2 DEF Enter
    <2>3. ASSUME NEW p \in prompts, NEW kind \in {"accepted", "dropped"}, Resolve(p, kind)
          PROVE  \A m \in Messages : InOnePlace(m)'
      BY <1>0, <2>3, ResolveText
    <2>4. CASE OwnerInput
      <3>1. CASE box' = {} /\ prompts' = prompts \cup {box} /\ box # {}
        <4>1. prompts' = prompts \cup ({box} \ {{}})
          BY <3>1
        <4> QED
          BY <1>0, <2>4, <3>1, <4>1, SubmitKeeps DEF OwnerInput, OnlyTerminal
      <3>2. CASE /\ prompts' = prompts
                 /\ box' = {} \/ \E d \in Drafts : box' = box \cup {d}
        <4>1. \A m \in Messages : pasted[Text(m)] \in Nat
          BY TextType DEF TypeOK
        <4>2. UNCHANGED <<reported, pasted>>
          BY <2>4 DEF OwnerInput, OnlyTerminal
        <4>3. ASSUME NEW m \in Messages, Text(m) \in box' PROVE Text(m) \in box
          <5>1. Text(m) \notin Drafts
            BY TextType
          <5> QED
            BY <3>2, <4>3, <5>1
        <4> QED
          BY <1>0, <3>2, <4>1, <4>2, <4>3, NoTextKeeps DEF NoText
      <3> QED
        BY <2>4, <3>1, <3>2 DEF OwnerInput
    <2>5. CASE \/ Owner \/ Worker \/ Prepare \/ Intend \/ Guard \/ Journal \/ Confirm
               \/ Dialogs \/ Requests \/ Relaunch \/ Crash \/ UNCHANGED vars
               \/ \E m \in Messages : PassDeadline(m) \/ Block(m)
      BY <1>0, <2>5, ElsewhereNoText, NoTextKeeps
    <2> QED
      BY <2>1, <2>2, <2>3, <2>4, <2>5 DEF Next, Native, Writer
  <1>2. BeforeEnter' /\ ProofsShow'
    <2>1. CASE \E m \in Messages : Recover(m)
      BY <2>1, RecoverText
    <2>2. CASE Begin \/ Expire \/ \E m \in Messages : Send(m) \/ Cancel(m) \/ PassDeadline(m)
      BY <2>2, QueueText
    <2>3. CASE Lock
      BY <2>3, LockText
    <2>4. CASE Writer
      BY <2>4, PrepareText, IntendText, GuardText, PasteBeforeEnter, EnterText,
         JournalText, ConfirmText DEF Writer
    <2>5. CASE \E p \in prompts : Resolve(p, "accepted") \/ Resolve(p, "dropped")
      BY <2>5, ResolveBeforeEnter
    <2>6. CASE \/ Dialogs \/ Requests \/ OwnerInput \/ Relaunch \/ UNCHANGED vars
               \/ \E m \in Messages : Block(m)
      BY <2>6, TerminalText
    <2>7. CASE Crash
      <3>1. tx' = NoTx /\ job' = [m \in Messages |-> NewJob]
        BY <2>7 DEF Crash
      <3>2. JobsShow'
        BY <3>1 DEF JobsShow, NewJob
      <3> QED
        BY <3>1, <3>2, NoTxText
    <2> QED
      BY <2>1, <2>2, <2>3, <2>4, <2>5, <2>6, <2>7 DEF Next, Native, Owner, Worker
  <1> QED
    BY <1>1, <1>2 DEF TextInvariant

THEOREM TextCorrect == Spec => []TextInvariant
  <1>1. Init => TextInvariant
    BY TypeInit, TextInit
  <1>2. TypeOK /\ TypeOK' /\ JournalInvariant /\ TextInvariant /\ [Next]_vars
           => TextInvariant'
    BY TextStep
  <1> QED
    BY <1>1, <1>2, TypeCorrect, JournalCorrect, PTL DEF Spec

\* A resumed Enter goes to a prompt that holds the message, or to the empty one of a new
\* CLI process, for every message, draft, dialog and recovery.
THEOREM EnterFindsMessage == Spec => EnterSubmitsMessage
  <1>1. TypeOK /\ TextInvariant /\ [Next]_vars =>
           [\A m \in Messages : entered'[m] > entered[m] /\ tx.mode = "submit" =>
               box = {} \/ <<m, "text">> \in box]_vars
    <2> SUFFICES ASSUME TypeOK, TextInvariant, [Next]_vars, NEW m \in Messages,
                        entered'[m] > entered[m], tx.mode = "submit"
                 PROVE  box = {} \/ <<m, "text">> \in box
      OBVIOUS
    <2> USE DEF terminal, session, history, line
    <2>0. entered[m] \in Nat
      BY DEF TypeOK
    <2>1. entered' # entered
      BY <2>0
    <2>2. Enter
      BY <2>1 DEF Next, Owner, Send, Cancel, Recover, Worker, Begin, Expire, Lock, Writer,
                  Prepare, Intend, Guard, Paste, Journal, Confirm, Native, Resolve,
                  Dialogs, Requests, OwnerInput, Relaunch, OnlyTerminal, Crash,
                  PassDeadline, Block, vars
    <2>3. ~Free /\ tx.step = "bytes" /\ tx.m = m
      <3>1. ~Free /\ tx.step = "bytes" /\ entered' = [entered EXCEPT ![tx.m] = @ + 1]
        BY <2>1, <2>2 DEF Enter, At, Free
      <3>2. tx.m # m => entered'[m] = entered[m]
        BY <3>1 DEF TypeOK
      <3> QED
        BY <2>0, <3>1, <3>2
    <2> QED
      BY <2>3 DEF TextInvariant, BeforeEnter, Text
  <1> QED
    BY <1>1, TypeCorrect, TextCorrect, PTL DEF Spec, EnterSubmitsMessage

-----------------------------------------------------------------------------
(* Acceptances.                                                             *)

\* An event is expected from the intent of the Enter to its outcome; an acceptance
\* stands in early while the delivery runs, in the receipt after it; and a drop that
\* block() is about is no longer expected.
EventsOK(m) ==
    /\ m \in expecting => /\ receipt[m].phase \in EnterMaySent
                          /\ receipt[m].status \in Confirmable \cup {"accepted"}
                          /\ early[m] = "none"
    /\ receipt[m].status = "accepted" => /\ m \notin active
                                         /\ receipt[m].phase \in EnterMaySent
    /\ \A a : <<m, a>> \in blocking =>
          /\ receipt[m].status # "absent" /\ a <= receipt[m].attempt
          /\ a = receipt[m].attempt => m \notin expecting /\ m \notin active
    /\ m \in reported /\ entered[m] > 0 =>
          IF m \in active THEN early[m] = "accepted" ELSE receipt[m].status = "accepted"

EventsInvariant == \A m \in Messages : EventsOK(m)

\* A step that is not about m.
Unaffected(m) ==
    /\ receipt'[m].status = receipt[m].status /\ receipt'[m].phase = receipt[m].phase
    /\ receipt'[m].attempt = receipt[m].attempt
    /\ m \in active' <=> m \in active
    /\ m \in expecting' => m \in expecting
    /\ m \in reported' => m \in reported
    /\ early'[m] = early[m] /\ entered'[m] = entered[m]
    /\ \A a : <<m, a>> \in blocking' => <<m, a>> \in blocking

LEMMA UnaffectedKeeps ==
    ASSUME NEW m, EventsOK(m), Unaffected(m) PROVE EventsOK(m)'
  BY DEF EventsOK, Unaffected

\* What is in hand is active, and nothing was entered below the intent of an Enter.
LEMMA InHand ==
    ASSUME TypeOK, JournalInvariant
    PROVE  /\ \A m \in Messages : entered[m] > 0 => receipt[m].phase \in EnterMaySent
           /\ ~Free => tx.m \in Messages /\ tx.m \in active
           /\ queue # <<>> => Head(queue) \in Messages /\ Head(queue) \in active
  <1>1. ASSUME NEW m \in Messages, entered[m] > 0
        PROVE  receipt[m].phase \in EnterMaySent
    <2>1. Proves(m, receipt[m].phase, entered, pasted) /\ receipt[m].phase \in Phases
      BY DEF JournalInvariant, JournalIsTrue, TypeOK, Receipt
    <2> QED
      BY <1>1, <2>1 DEF Proves, Unsent, Phases, Intents, EnterMaySent
  <1>2. ASSUME queue # <<>> PROVE Head(queue) \in Messages /\ Head(queue) \in active
    <2>1. Head(queue) \in Messages /\ Queued(Head(queue))
      BY <1>2 DEF TypeOK, Queued
    <2> QED
      BY <2>1 DEF JournalInvariant, OneOwner
  <1>3. ASSUME ~Free PROVE tx.m \in Messages /\ tx.m \in active
    BY <1>2, <1>3 DEF TypeOK, Tx, Free, JournalInvariant, OneOwner
  <1> QED
    BY <1>1, <1>2, <1>3

LEMMA NothingEntered ==
    ASSUME TypeOK', JournalInvariant', NEW m \in Messages, entered'[m] > 0
    PROVE  receipt'[m].phase \in EnterMaySent
  <1>1. Proves(m, receipt'[m].phase, entered', pasted') /\ receipt'[m].phase \in Phases
    BY DEF JournalInvariant, JournalIsTrue, TypeOK, Receipt
  <1> QED
    BY <1>1 DEF Proves, Unsent, Phases, Intents, EnterMaySent

\* The outcome of a delivery keeps an acceptance that came before it.
LEMMA SettleEvents ==
    ASSUME TypeOK, TypeOK', JournalInvariant', EventsInvariant,
           NEW m \in Messages, NEW by,
           NEW status \in {"rejected", "uncertain", "handed-off"}, NEW phase \in Phases,
           status = "rejected" => phase = "reserved", m \in active,
           Settle(m, by, status, phase),
           m \in reported /\ entered'[m] > 0 => early[m] = "accepted",
           reported' = reported, \A n \in Messages \ {m} : entered'[n] = entered[n]
    PROVE  EventsInvariant'
  <1> DEFINE outcome == IF phase \in EnterMaySent THEN early[m] ELSE "none"
             final == IF outcome = "accepted" THEN Confirmed(status) ELSE status
  <1>1. /\ receipt' = Marked(m, final, phase, "none")
        /\ active' = active \ {m}
        /\ blocking' = IF outcome = "dropped"
                       THEN blocking \cup {<<m, receipt[m].attempt>>} ELSE blocking
        /\ early' = [early EXCEPT ![m] = "none"]
        /\ expecting' = IF phase \in EnterMaySent THEN expecting ELSE expecting \ {m}
    BY DEF Settle, Release
  <1>2. /\ final \in Statuses /\ final # "absent"
        /\ final = "rejected" => phase = "reserved"
        /\ final = "accepted" => phase \in EnterMaySent
        /\ outcome = "accepted" => final = "accepted"
    BY DEF Confirmed, Confirmable, Statuses, EnterMaySent
  <1>3. /\ \A n \in Messages \ {m} : receipt'[n] = receipt[n]
        /\ receipt'[m].status = final /\ receipt'[m].phase = phase
        /\ receipt'[m].attempt = receipt[m].attempt /\ receipt[m].attempt \in Nat
    <2> HIDE DEF final
    <2>1. receipt \in [Messages -> Receipt]
      BY DEF TypeOK
    <2> QED
      BY <1>1, <1>2, <2>1, MarkedType DEF Reasons, Receipt
  <1>4. early'[m] = "none" /\ \A n \in Messages \ {m} : early'[n] = early[n]
    BY <1>1 DEF TypeOK
  <1>5. ASSUME NEW n \in Messages \ {m} PROVE EventsOK(n)'
    <2>1. \A a : <<n, a>> \in blocking' => <<n, a>> \in blocking
      BY <1>1
    <2>2. Unaffected(n)
      BY <1>1, <1>3, <1>4, <2>1 DEF Unaffected
    <2> QED
      BY <2>2, UnaffectedKeeps DEF EventsInvariant
  <1>6. EventsOK(m)
    BY DEF EventsInvariant
  <1>7. m \in expecting' => phase \in EnterMaySent /\ m \in expecting
    BY <1>1
  <1>8. ASSUME NEW a, <<m, a>> \in blocking'
        PROVE  a <= receipt[m].attempt /\ (a = receipt[m].attempt => m \notin expecting)
    <2>1. CASE <<m, a>> \in blocking
      BY <1>6, <2>1 DEF EventsOK
    <2>2. CASE <<m, a>> \notin blocking
      <3>1. outcome = "dropped" /\ a = receipt[m].attempt
        BY <1>1, <1>8, <2>2
      <3>2. early[m] = "dropped"
        BY <3>1
      <3> HIDE DEF outcome
      <3> QED
        BY <1>3, <1>6, <3>1, <3>2 DEF EventsOK
    <2> QED
      BY <2>1, <2>2
  <1>9. m \in reported /\ entered'[m] > 0 => final = "accepted"
    <2>1. entered'[m] > 0 => phase \in EnterMaySent
      BY <1>3, NothingEntered
    <2> QED
      BY <1>2, <2>1
  <1>10. phase \in EnterMaySent => final \in Confirmable \cup {"accepted"}
    BY DEF Confirmed, Confirmable, EnterMaySent
  <1> HIDE DEF outcome, final
  <1>11. EventsOK(m)'
    BY <1>1, <1>2, <1>3, <1>4, <1>7, <1>8, <1>9, <1>10 DEF EventsOK
  <1> QED
    BY <1>5, <1>11 DEF EventsInvariant

\* A message is held only before its Enter.
LEMMA HoldEvents ==
    ASSUME TypeOK, TypeOK', JournalInvariant', EventsInvariant,
           NEW m \in Messages, NEW by, NEW why \in Reasons, NEW phase \in Holdable,
           m \in active, receipt[m].status # "absent", Hold(m, by, why, phase),
           reported' = reported, \A n \in Messages \ {m} : entered'[n] = entered[n]
    PROVE  EventsInvariant'
  <1> DEFINE status == IF by = "recover" /\ phase = "reserved" THEN "pending"
                       ELSE receipt[m].status
  <1>1. /\ receipt' = Marked(m, status, phase, why) /\ UNCHANGED <<active, blocking>>
        /\ early' = [early EXCEPT ![m] = "none"] /\ expecting' = expecting \ {m}
    BY DEF Hold
  <1>2. EventsOK(m) /\ receipt[m].attempt \in Nat /\ receipt[m].status \in Statuses
    BY DEF EventsInvariant, TypeOK, Receipt
  <1>3. status \in Statuses /\ status \notin {"absent", "accepted"} /\ phase \in Phases
    BY <1>2 DEF Statuses, Phases, Holdable, EventsOK
  <1>4. /\ \A n \in Messages \ {m} : receipt'[n] = receipt[n]
        /\ receipt'[m].status = status /\ receipt'[m].phase = phase
        /\ receipt'[m].attempt = receipt[m].attempt
    <2> HIDE DEF status
    <2>1. receipt \in [Messages -> Receipt]
      BY DEF TypeOK
    <2> QED
      BY <1>1, <1>3, <2>1, MarkedType
  <1>5. early'[m] = "none" /\ \A n \in Messages \ {m} : early'[n] = early[n]
    BY <1>1 DEF TypeOK
  <1>6. ASSUME NEW n \in Messages \ {m} PROVE EventsOK(n)'
    <2>1. Unaffected(n)
      BY <1>1, <1>4, <1>5 DEF Unaffected
    <2> QED
      BY <2>1, UnaffectedKeeps DEF EventsInvariant
  <1>7. ~(entered'[m] > 0)
    BY <1>4, NothingEntered DEF EnterMaySent, Holdable
  <1> HIDE DEF status
  <1>8. EventsOK(m)'
    BY <1>1, <1>2, <1>3, <1>4, <1>5, <1>7 DEF EventsOK
  <1> QED
    BY <1>6, <1>8 DEF EventsInvariant

LEMMA FailEvents ==
    ASSUME TypeOK, TypeOK', JournalInvariant, JournalInvariant', EventsInvariant,
           NEW m \in Messages, NEW by, NEW why \in Reasons, NEW phase \in Phases,
           m \in active, Fail(m, by, why, phase),
           m \in reported /\ entered'[m] > 0 => early[m] = "accepted",
           reported' = reported, \A n \in Messages \ {m} : entered'[n] = entered[n]
    PROVE  EventsInvariant'
  <1>1. CASE Settle(m, by, IF phase = "reserved" THEN "rejected" ELSE "uncertain", phase)
    BY <1>1, SettleEvents
  <1>2. CASE phase \in Holdable /\ Hold(m, by, why, phase)
    <2>1. receipt[m].status # "absent"
      BY DEF JournalInvariant, OneOwner
    <2> QED
      BY <1>2, <2>1, HoldEvents
  <1> QED
    BY <1>1, <1>2 DEF Fail

\* A failure of the transaction before its Enter, or of an Enter that was not sent.
LEMMA FailTxEvents ==
    ASSUME TypeOK, TypeOK', JournalInvariant, JournalInvariant', EventsInvariant, ~Free,
           NEW why \in Reasons, NEW phase \in Phases, FailTx(why, phase),
           UNCHANGED <<reported, entered>>
    PROVE  EventsInvariant'
  <1>1. tx.m \in Messages /\ tx.m \in active
    BY InHand
  <1>2. tx.m \in reported /\ entered'[tx.m] > 0 => early[tx.m] = "accepted"
    BY <1>1 DEF EventsInvariant, EventsOK
  <1> QED
    BY <1>1, <1>2, FailEvents DEF FailTx

\* A step in which no message's status, journal, events or ownership change.
Uneventful ==
    /\ \A m \in Messages : /\ receipt'[m].status = receipt[m].status
                           /\ receipt'[m].phase = receipt[m].phase
                           /\ receipt'[m].attempt = receipt[m].attempt
    /\ UNCHANGED <<active, expecting, early, entered, blocking>>
    /\ reported' \subseteq reported

LEMMA UneventfulKeeps ==
    ASSUME EventsInvariant, Uneventful PROVE EventsInvariant'
  <1>1. \A m \in Messages : Unaffected(m)
    BY DEF Uneventful, Unaffected
  <1> QED
    BY <1>1, UnaffectedKeeps DEF EventsInvariant

LEMMA TerminalEvents ==
    ASSUME TypeOK, EventsInvariant,
           \/ Dialogs \/ Requests \/ OwnerInput \/ Relaunch \/ Begin \/ UNCHANGED vars
           \/ \E m \in Messages : PassDeadline(m) \/ (Running(m) /\ Cancel(m))
    PROVE  EventsInvariant'
  <1> USE DEF terminal, session, history, line
  <1>0. receipt \in [Messages -> Receipt]
    BY DEF TypeOK
  <1>1. CASE Begin
    <2> DEFINE m == Head(queue)
    <2>1. receipt' = receipt \/ receipt' = [receipt EXCEPT ![m].waiting = "request"]
      BY <1>1 DEF Begin
    <2> HIDE DEF m
    <2>2. \A n \in Messages : /\ receipt'[n].status = receipt[n].status
                              /\ receipt'[n].phase = receipt[n].phase
                              /\ receipt'[n].attempt = receipt[n].attempt
      BY <1>0, <2>1 DEF Receipt
    <2>3. UNCHANGED <<active, expecting, early, entered, blocking, reported>>
      BY <1>1 DEF Begin
    <2> QED
      BY <2>2, <2>3, UneventfulKeeps DEF Uneventful
  <1>2. CASE ~Begin
    <2>1. UNCHANGED <<receipt, active, expecting, early, entered, blocking, reported>>
      BY <1>2 DEF Dialogs, Requests, OwnerInput, Relaunch, OnlyTerminal, vars, PassDeadline,
                  Cancel
    <2> QED
      BY <2>1, UneventfulKeeps DEF Uneventful
  <1> QED
    BY <1>1, <1>2

LEMMA SendEvents ==
    ASSUME TypeOK, JournalInvariant, EventsInvariant, NEW m \in Messages, Send(m)
    PROVE  EventsInvariant'
  <1> USE DEF terminal, session, history, line
  <1>1. /\ receipt[m].status = "absent" /\ receipt[m].phase = "reserved"
        /\ \E why : receipt' = [receipt EXCEPT ![m].status = "pending", ![m].waiting = why]
        /\ active' = active \cup {m}
        /\ UNCHANGED <<expecting, early, entered, blocking, reported>>
    BY DEF Send, JournalInvariant, OneOwner
  <1>2. /\ receipt'[m].status = "pending" /\ receipt'[m].phase = "reserved"
        /\ \A n \in Messages \ {m} : receipt'[n] = receipt[n]
    BY <1>1 DEF TypeOK, Receipt
  <1>3. ASSUME NEW n \in Messages \ {m} PROVE EventsOK(n)'
    <2>1. Unaffected(n)
      BY <1>1, <1>2 DEF Unaffected
    <2> QED
      BY <2>1, UnaffectedKeeps DEF EventsInvariant
  <1>4. ~(entered[m] > 0)
    BY <1>1, InHand DEF EnterMaySent
  <1>5. EventsOK(m)
    BY DEF EventsInvariant
  <1>6. EventsOK(m)'
    BY <1>1, <1>2, <1>4, <1>5 DEF EventsOK, Confirmable
  <1> QED
    BY <1>3, <1>6 DEF EventsInvariant

\* A message that is not being attempted leaves the queue.
LEMMA LeaveEvents ==
    ASSUME TypeOK, JournalInvariant, EventsInvariant, NEW m \in Messages,
           Queued(m), ~Attempted(m), NEW status \in {"rejected", "uncertain"},
           receipt' = Marked(m, status, receipt[m].phase, "none"), Release(m),
           \A n \in Messages \ {m} : early'[n] = early[n],
           UNCHANGED <<expecting, entered, blocking, reported>>
    PROVE  EventsInvariant'
  <1>1. /\ \A n \in Messages \ {m} : receipt'[n] = receipt[n]
        /\ receipt'[m].status = status /\ receipt'[m].phase = receipt[m].phase
        /\ receipt'[m].attempt = receipt[m].attempt
    <2>1. receipt \in [Messages -> Receipt] /\ receipt[m].phase \in Phases
      BY DEF TypeOK, Receipt
    <2> QED
      BY <2>1, MarkedType DEF Statuses, Reasons
  <1>2. active' = active \ {m}
    BY DEF Release
  <1>3. receipt[m].phase \notin EnterMaySent
    <2>1. job[m].mode \in Modes
      BY DEF TypeOK, Job
    <2>2. receipt[m].phase \in Before(FirstIntent(job[m].mode))
      BY DEF JournalInvariant, JobFollowsJournal
    <2> QED
      BY <2>1, <2>2 DEF FirstIntent, Before, Modes, EnterMaySent
  <1>4. ~(entered[m] > 0) /\ EventsOK(m)
    BY <1>3, InHand DEF EventsInvariant
  <1>5. ASSUME NEW n \in Messages \ {m} PROVE EventsOK(n)'
    <2>1. Unaffected(n)
      BY <1>1, <1>2 DEF Unaffected
    <2> QED
      BY <2>1, UnaffectedKeeps DEF EventsInvariant
  <1>6. EventsOK(m)'
    BY <1>1, <1>2, <1>3, <1>4 DEF EventsOK
  <1> QED
    BY <1>5, <1>6 DEF EventsInvariant

LEMMA CancelEvents ==
    ASSUME TypeOK, JournalInvariant, EventsInvariant, NEW m \in Messages, Cancel(m)
    PROVE  EventsInvariant'
  <1> USE DEF session, history
  <1>1. CASE Running(m)
    BY <1>1, TerminalEvents
  <1>2. CASE ~Running(m)
    <2>1. ~Attempted(m)
      BY <1>2 DEF Running, Attempted, JournalInvariant, OneOwner
    <2> QED
      BY <1>2, <2>1, LeaveEvents DEF Cancel
  <1> QED
    BY <1>1, <1>2

LEMMA ExpireEvents ==
    ASSUME TypeOK, JournalInvariant, EventsInvariant, Expire PROVE EventsInvariant'
  <1> USE DEF session, history
  <1> DEFINE m == Head(queue)
  <1>1. m \in Messages /\ Queued(m) /\ ~Attempted(m)
    BY DEF Expire, TypeOK, Queued, Attempted
  <1>2. PICK status \in {"rejected", "uncertain"} :
            receipt' = Marked(m, status, receipt[m].phase, "none")
    BY DEF Expire
  <1>3. /\ Release(m) /\ early' = [early EXCEPT ![m] = "none"]
        /\ UNCHANGED <<expecting, entered, blocking, reported>>
    BY DEF Expire
  <1> HIDE DEF m
  <1>4. \A n \in Messages \ {m} : early'[n] = early[n]
    BY <1>3 DEF TypeOK
  <1> QED
    BY <1>1, <1>2, <1>3, <1>4, LeaveEvents

LEMMA RecoverEvents ==
    ASSUME TypeOK, JournalInvariant, EventsInvariant, NEW m \in Messages, Recover(m)
    PROVE  EventsInvariant'
  <1> USE DEF terminal, session, history, line
  <1>1. PICK mode \in Modes :
            Plan(m, mode) /\ (HoldRecovered(m, mode) \/ WriteRecovered(m, mode))
    BY DEF Recover
  <1>2. /\ receipt[m].phase \notin EnterMaySent /\ receipt[m].status # "absent"
        /\ active' = active \cup {m}
        /\ UNCHANGED <<expecting, early, entered, blocking, reported>>
    BY <1>1 DEF Recover, Plan, EnterMaySent
  <1> DEFINE next == receipt[m].attempt + 1
  <1>3. next \in Nat /\ receipt[m].attempt \in Nat /\ receipt[m].attempt < next
    BY DEF TypeOK, Receipt
  <1>4. \/ \E why : receipt' = [receipt EXCEPT ![m].attempt = next, ![m].waiting = why]
        \/ receipt' = [receipt EXCEPT ![m].attempt = next, ![m].status = "uncertain"]
    BY <1>1 DEF HoldRecovered, WriteRecovered, TypeOK
  <1> HIDE DEF next
  <1>5. /\ receipt'[m].attempt = next /\ receipt'[m].phase = receipt[m].phase
        /\ receipt'[m].status \in {receipt[m].status, "uncertain"}
        /\ \A n \in Messages \ {m} : receipt'[n] = receipt[n]
    BY <1>4 DEF TypeOK, Receipt
  <1>6. ASSUME NEW n \in Messages \ {m} PROVE EventsOK(n)'
    <2>1. Unaffected(n)
      BY <1>2, <1>5 DEF Unaffected
    <2> QED
      BY <2>1, UnaffectedKeeps DEF EventsInvariant
  <1>7. EventsOK(m) /\ ~(entered[m] > 0)
    BY <1>2, InHand DEF EventsInvariant
  <1>8. ASSUME NEW a, <<m, a>> \in blocking'
        PROVE  a <= next /\ a # next
    <2>1. <<m, a>> \in blocking /\ a \in Nat
      BY <1>2, <1>8 DEF TypeOK
    <2>2. a <= receipt[m].attempt
      BY <1>7, <2>1 DEF EventsOK
    <2> QED
      BY <1>3, <2>1, <2>2
  <1>9. EventsOK(m)'
    BY <1>2, <1>5, <1>7, <1>8 DEF EventsOK
  <1> QED
    BY <1>6, <1>9 DEF EventsInvariant

-----------------------------------------------------------------------------
(* The worker and the writer.                                               *)

LEMMA LockEvents ==
    ASSUME TypeOK, TypeOK', JournalInvariant, JournalInvariant', EventsInvariant, Lock
    PROVE  EventsInvariant'
  <1> USE DEF terminal, session, history, line
  <1> DEFINE m == Head(queue)
             mode == job[m].mode
  <1>1. m \in Messages /\ m \in active /\ Free /\ receipt[m].phase \in Phases
    BY InHand DEF Lock, TypeOK, Receipt
  <1>2. CASE \E why \in {"none", "request"} : Fail(m, "attempt", why, receipt[m].phase)
    <2>1. UNCHANGED <<reported, entered>>
      BY DEF Lock
    <2>2. m \in reported /\ entered'[m] > 0 => early[m] = "accepted"
      BY <1>1, <2>1 DEF EventsInvariant, EventsOK
    <2> HIDE DEF m
    <2> QED
      BY <1>1, <1>2, <2>1, <2>2, FailEvents DEF Reasons
  <1>3. CASE ~\E why \in {"none", "request"} : Fail(m, "attempt", why, receipt[m].phase)
    <2>1. /\ receipt' = IF mode # "send" THEN receipt
                        ELSE [receipt EXCEPT ![m].phase = "reserved",
                                             ![m].generation = generation]
          /\ UNCHANGED <<active, expecting, early, entered, blocking, reported>>
      BY <1>3 DEF Lock
    <2>2. mode = "send" => receipt[m].phase = "reserved"
      <3>1. Queued(m) /\ ~Attempted(m)
        <4>1. queue \in Seq(Messages) /\ queue # <<>>
          BY DEF Lock, TypeOK
        <4>2. m = queue[1] /\ 1 \in 1..Len(queue)
          BY <4>1
        <4> QED
          BY <1>1, <4>2 DEF Queued, Attempted, Free
      <3> QED
        BY <1>1, <3>1
        DEF JournalInvariant, JobFollowsJournal, FirstIntent, Before
    <2> HIDE DEF m, mode
    <2>3. \A n \in Messages : /\ receipt'[n].status = receipt[n].status
                              /\ receipt'[n].phase = receipt[n].phase
                              /\ receipt'[n].attempt = receipt[n].attempt
      BY <1>1, <2>1, <2>2 DEF TypeOK, Receipt
    <2> QED
      BY <2>1, <2>3, UneventfulKeeps DEF Uneventful
  <1> QED
    BY <1>2, <1>3

LEMMA IntendEvents ==
    ASSUME TypeOK, TypeOK', JournalInvariant, JournalInvariant', EventsInvariant, Intend
    PROVE  EventsInvariant'
  <1> USE DEF terminal, session, history, line
  <1>0. ~Free /\ tx.m \in Messages
    BY InHand DEF Intend, At, Free
  <1>m. PICK m \in Messages : m = tx.m
    BY <1>0
  <1>1. /\ ~Free /\ m \in Messages /\ m \in active /\ tx.intent \in Intents
        /\ receipt[m].phase \in Before(tx.intent) /\ receipt[m].phase \in Phases
    BY <1>0, <1>m, InHand DEF Intend, At, TypeOK, Tx, Receipt, JournalInvariant, TxFollowsJournal
  <1>2. CASE \E why \in Reasons : FailTx(why, receipt[m].phase)
    BY <1>m, <1>1, <1>2, FailTxEvents DEF Intend
  <1>3. CASE ~\E why \in Reasons : FailTx(why, receipt[m].phase)
    <2>1. /\ receipt' = [receipt EXCEPT ![m].status = "uncertain", ![m].phase = tx.intent,
                                        ![m].generation = tx.generation]
          /\ \/ /\ tx.intent = "submit-intent"
                /\ expecting' \in {expecting, expecting \cup {m}}
                /\ early' = [early EXCEPT ![m] = "none"]
             \/ tx.intent # "submit-intent" /\ UNCHANGED <<expecting, early>>
          /\ UNCHANGED <<active, blocking, entered, reported>>
      BY <1>m, <1>3 DEF Intend, Reasons
    <2>2. /\ \A n \in Messages \ {m} : receipt'[n] = receipt[n]
          /\ receipt'[m].status = "uncertain" /\ receipt'[m].phase = tx.intent
          /\ receipt'[m].attempt = receipt[m].attempt
      <3>1. tx.intent \in Phases
        BY <1>1 DEF Phases
      <3>2. receipt \in [Messages -> Receipt]
        BY DEF TypeOK
      <3> QED
        BY <1>1, <2>1, <3>1, <3>2 DEF Receipt
    <2>3. ASSUME NEW n \in Messages \ {m} PROVE EventsOK(n)'
      <3>1. Unaffected(n)
        BY <2>1, <2>2 DEF Unaffected, TypeOK
      <3> QED
        BY <3>1, UnaffectedKeeps DEF EventsInvariant
    <2>4. receipt[m].phase \notin EnterMaySent /\ ~(entered[m] > 0)
      BY <1>1, InHand DEF Before, Intents, EnterMaySent
    <2>5. EventsOK(m) /\ m \notin expecting
      BY <1>1, <2>4 DEF EventsInvariant, EventsOK
    <2>6. m \in expecting' => tx.intent = "submit-intent" /\ early'[m] = "none"
      BY <1>1, <2>1, <2>5 DEF TypeOK
    <2>7. \A a : <<m, a>> \in blocking' => a <= receipt[m].attempt /\ a # receipt[m].attempt
      BY <1>1, <2>1, <2>5 DEF EventsOK
    <2>8. EventsOK(m)'
      BY <1>1, <2>1, <2>2, <2>4, <2>6, <2>7 DEF EventsOK, EnterMaySent, Confirmable
    <2> QED
      BY <2>3, <2>8 DEF EventsInvariant
  <1> QED
    BY <1>2, <1>3

\* The steps of the writer beside its intents, the Enter and the confirmation.
LEMMA WriterEvents ==
    ASSUME TypeOK, TypeOK', JournalInvariant, JournalInvariant', EventsInvariant,
           Prepare \/ Guard \/ Paste
    PROVE  EventsInvariant'
  <1> USE DEF terminal, session, history, line
  <1>1. /\ ~Free /\ receipt[tx.m].phase \in Phases /\ tx.intent \in Phases
        /\ ProvenPhase(tx.intent) \in Phases
    BY DEF Prepare, Guard, Paste, At, Free, TypeOK, Tx, Receipt, Phases, Intents, ProvenPhase
  <1>2. UNCHANGED <<reported, entered>>
    BY DEF Prepare, Guard, Paste
  <1>3. CASE \E why \in Reasons, phase \in Phases : FailTx(why, phase)
    BY <1>1, <1>2, <1>3, FailTxEvents
  <1>4. CASE ~\E why \in Reasons, phase \in Phases : FailTx(why, phase)
    <2>1. UNCHANGED <<receipt, active, session>>
      BY <1>1, <1>4 DEF Prepare, Guard, Paste, Reasons
    <2> QED
      BY <1>2, <2>1, UneventfulKeeps DEF Uneventful
  <1> QED
    BY <1>3, <1>4

LEMMA EnterEvents ==
    ASSUME TypeOK, TypeOK', JournalInvariant, JournalInvariant', TextInvariant,
           EventsInvariant, Enter
    PROVE  EventsInvariant'
  <1> USE DEF terminal, session, history, line
  <1>1. /\ ~Free /\ tx.m \in Messages /\ tx.m \in active
        /\ tx.m \notin reported
    BY InHand DEF Enter, At, Free, TextInvariant, BeforeEnter, EnterAhead
  <1>2. /\ reported' = reported
        /\ \A n \in Messages \ {tx.m} : entered'[n] = entered[n]
    BY DEF Enter, TypeOK
  <1>3. CASE FailTx("none", tx.intent)
    <2>1. tx.intent \in Phases
      BY DEF TypeOK, Tx, Phases
    <2> QED
      BY <1>1, <1>2, <1>3, <2>1, FailEvents DEF FailTx, Reasons
  <1>4. CASE ~FailTx("none", tx.intent)
    <2>1. UNCHANGED <<receipt, active, session>>
      BY <1>4 DEF Enter
    <2>2. ASSUME NEW n \in Messages \ {tx.m} PROVE EventsOK(n)'
      <3>1. Unaffected(n)
        BY <1>2, <2>1 DEF Unaffected
      <3> QED
        BY <3>1, UnaffectedKeeps DEF EventsInvariant
    <2>3. EventsOK(tx.m)
      BY <1>1 DEF EventsInvariant
    <2>4. ASSUME NEW m \in Messages, m = tx.m PROVE EventsOK(m)'
      BY <1>1, <1>2, <2>1, <2>3, <2>4 DEF EventsOK
    <2> QED
      BY <2>2, <2>4 DEF EventsInvariant
  <1> QED
    BY <1>3, <1>4

LEMMA JournalEvents ==
    ASSUME TypeOK, JournalInvariant, EventsInvariant, Journal PROVE EventsInvariant'
  <1> USE DEF terminal, session, history, line
  <1>0. ~Free /\ tx.m \in Messages
    BY InHand DEF Journal, At, Free
  <1>m. PICK m \in Messages : m = tx.m
    BY <1>0
  <1> DEFINE phase == DonePhase(m, tx.intent)
  <1>1. /\ m \in active /\ receipt[m].phase = tx.intent /\ tx.intent \in Intents
        /\ phase \in Phases /\ (tx.intent \in EnterMaySent => phase \in EnterMaySent)
    BY <1>0, <1>m, InHand
    DEF Journal, At, TypeOK, Tx, JournalInvariant, TxFollowsJournal, DonePhase, Phases,
        Intents, EnterMaySent
  <1>2. /\ receipt' = [receipt EXCEPT ![m].status = "uncertain", ![m].phase = phase,
                                      ![m].generation = tx.generation]
        /\ UNCHANGED <<active, session, entered, reported>>
    BY <1>m DEF Journal
  <1>3. /\ \A n \in Messages \ {m} : receipt'[n] = receipt[n]
        /\ receipt'[m].status = "uncertain" /\ receipt'[m].phase = phase
        /\ receipt'[m].attempt = receipt[m].attempt
    <2> HIDE DEF phase
    <2> QED
      BY <1>2 DEF TypeOK, Receipt
  <1>4. ASSUME NEW n \in Messages \ {m} PROVE EventsOK(n)'
    <2>1. Unaffected(n)
      BY <1>2, <1>3 DEF Unaffected
    <2> QED
      BY <2>1, UnaffectedKeeps DEF EventsInvariant
  <1>5. EventsOK(m)
    BY DEF EventsInvariant
  <1> HIDE DEF phase
  <1>6. EventsOK(m)'
    BY <1>1, <1>2, <1>3, <1>5 DEF EventsOK, Confirmable
  <1> QED
    BY <1>4, <1>6 DEF EventsInvariant

LEMMA ConfirmEvents ==
    ASSUME TypeOK, TypeOK', JournalInvariant, JournalInvariant', EventsInvariant, Confirm
    PROVE  EventsInvariant'
  <1> USE DEF history
  <1>1. /\ ~Free /\ tx.m \in Messages /\ tx.m \in active
        /\ UNCHANGED <<reported, entered>>
    BY InHand DEF Confirm, At, Free
  <1>2. CASE Settle(tx.m, tx.by, "handed-off", "submitted")
    <2>1. tx.m \in reported /\ entered'[tx.m] > 0 => early[tx.m] = "accepted"
      BY <1>1 DEF EventsInvariant, EventsOK
    <2> QED
      BY <1>1, <1>2, <2>1, SettleEvents DEF Phases
  <1>3. CASE FailTx("none", "submitted")
    BY <1>1, <1>3, FailTxEvents DEF Reasons, Phases
  <1> QED
    BY <1>2, <1>3 DEF Confirm

-----------------------------------------------------------------------------
(* The CLI and the process.                                                 *)

LEMMA AcceptEvents ==
    ASSUME TypeOK, EventsInvariant, NEW m \in expecting,
           NEW kind \in {"accepted", "dropped"}, Accept(m, kind),
           UNCHANGED <<active, entered>>
    PROVE  EventsInvariant'
  <1>1. m \in Messages
    BY DEF TypeOK
  <1>2. /\ receipt[m].phase \in EnterMaySent
        /\ receipt[m].status \in Confirmable \cup {"accepted"} /\ early[m] = "none"
        /\ EventsOK(m)
    BY <1>1 DEF EventsInvariant, EventsOK
  <1>3. /\ expecting' = expecting \ {m}
        /\ reported' = IF kind = "accepted" THEN reported \cup {m} ELSE reported
    BY DEF Accept
  <1>4. CASE m \in active
    <2>1. early' = [early EXCEPT ![m] = kind] /\ UNCHANGED <<receipt, blocking>>
      BY <1>4 DEF Accept
    <2>2. early'[m] = kind /\ \A n \in Messages \ {m} : early'[n] = early[n]
      BY <1>1, <2>1 DEF TypeOK
    <2>3. ASSUME NEW n \in Messages \ {m} PROVE EventsOK(n)'
      <3>1. Unaffected(n)
        BY <1>3, <2>1, <2>2 DEF Unaffected
      <3> QED
        BY <3>1, UnaffectedKeeps DEF EventsInvariant
    <2>4. EventsOK(m)'
      BY <1>2, <1>3, <1>4, <2>1, <2>2 DEF EventsOK
    <2> QED
      BY <2>3, <2>4 DEF EventsInvariant
  <1>5. CASE m \notin active /\ kind = "accepted"
    <2>1. /\ receipt' = [receipt EXCEPT ![m].status = Confirmed(@)]
          /\ UNCHANGED <<early, blocking>>
      BY <1>5 DEF Accept
    <2>2. Confirmed(receipt[m].status) = "accepted"
      BY <1>2 DEF Confirmed
    <2>3. receipt' = [receipt EXCEPT ![m].status = "accepted"]
      BY <1>1, <2>1, <2>2 DEF TypeOK
    <2>4. /\ receipt'[m].status = "accepted" /\ receipt'[m].phase = receipt[m].phase
          /\ receipt'[m].attempt = receipt[m].attempt
          /\ \A n \in Messages \ {m} : receipt'[n] = receipt[n]
      BY <1>1, <2>3 DEF TypeOK, Receipt
    <2>5. ASSUME NEW n \in Messages \ {m} PROVE EventsOK(n)'
      <3>1. Unaffected(n)
        BY <1>3, <2>1, <2>4 DEF Unaffected
      <3> QED
        BY <3>1, UnaffectedKeeps DEF EventsInvariant
    <2>6. EventsOK(m)'
      BY <1>2, <1>3, <1>5, <2>1, <2>4 DEF EventsOK
    <2> QED
      BY <2>5, <2>6 DEF EventsInvariant
  <1>6. CASE m \notin active /\ kind = "dropped"
    <2>1. /\ UNCHANGED <<receipt, early>>
          /\ blocking' = IF receipt[m].status \in Confirmable
                         THEN blocking \cup {<<m, receipt[m].attempt>>} ELSE blocking
      BY <1>6 DEF Accept
    <2>2. ASSUME NEW n \in Messages \ {m} PROVE EventsOK(n)'
      <3>1. Unaffected(n)
        BY <1>3, <1>6, <2>1 DEF Unaffected
      <3> QED
        BY <3>1, UnaffectedKeeps DEF EventsInvariant
    <2>3. receipt[m].attempt \in Nat
      BY <1>1 DEF TypeOK, Receipt
    <2>4. \A a : <<m, a>> \in blocking' =>
             receipt[m].status # "absent" /\ a <= receipt[m].attempt
      BY <1>2, <2>1, <2>3 DEF EventsOK, Confirmable
    <2>5. EventsOK(m)'
      BY <1>2, <1>3, <1>6, <2>1, <2>4 DEF EventsOK
    <2> QED
      BY <2>2, <2>5 DEF EventsInvariant
  <1> QED
    BY <1>4, <1>5, <1>6 DEF Accept

LEMMA ResolveEvents ==
    ASSUME TypeOK, EventsInvariant, NEW p \in prompts,
           NEW kind \in {"accepted", "dropped"}, Resolve(p, kind)
    PROVE  EventsInvariant'
  <1> USE DEF session
  <1>1. UNCHANGED <<active, entered>>
    BY DEF Resolve
  <1>2. CASE UNCHANGED <<receipt, session, reported>>
    BY <1>1, <1>2, UneventfulKeeps DEF Uneventful
  <1>3. CASE \E m \in expecting : Accept(m, kind)
    BY <1>1, <1>3, AcceptEvents
  <1> QED
    BY <1>2, <1>3 DEF Resolve

LEMMA BlockEvents ==
    ASSUME TypeOK, EventsInvariant, NEW m \in Messages, Block(m)
    PROVE  EventsInvariant'
  <1> USE DEF history
  <1>1. /\ UNCHANGED <<active, expecting, early, entered, reported>>
        /\ blocking' = {b \in blocking : b[1] # m}
    BY DEF Block
  <1>2. CASE receipt' = receipt
    <2>1. \A n \in Messages : Unaffected(n)
      BY <1>1, <1>2 DEF Unaffected
    <2> QED
      BY <2>1, UnaffectedKeeps DEF EventsInvariant
  <1>3. CASE /\ receipt[m].status \in Confirmable /\ <<m, receipt[m].attempt>> \in blocking
             /\ receipt' = Marked(m, "rejected", receipt[m].phase, "none")
    <2>1. /\ \A n \in Messages \ {m} : receipt'[n] = receipt[n]
          /\ receipt'[m].status = "rejected" /\ receipt'[m].phase = receipt[m].phase
          /\ receipt'[m].attempt = receipt[m].attempt
      <3>1. receipt \in [Messages -> Receipt] /\ receipt[m].phase \in Phases
        BY DEF TypeOK, Receipt
      <3> QED
        BY <1>3, <3>1, MarkedType DEF Statuses, Reasons
    <2>2. ASSUME NEW n \in Messages \ {m} PROVE EventsOK(n)'
      <3>1. Unaffected(n)
        BY <1>1, <2>1 DEF Unaffected
      <3> QED
        BY <3>1, UnaffectedKeeps DEF EventsInvariant
    <2>3. EventsOK(m) /\ \A a : <<m, a>> \notin blocking'
      BY <1>1 DEF EventsInvariant
    <2>4. m \notin expecting /\ m \notin active
      BY <1>3, <2>3 DEF EventsOK
    <2>5. ~(m \in reported /\ entered[m] > 0)
      BY <1>3, <2>3, <2>4 DEF EventsOK, Confirmable
    <2>6. EventsOK(m)'
      BY <1>1, <2>1, <2>3, <2>4, <2>5 DEF EventsOK
    <2> QED
      BY <2>2, <2>6 DEF EventsInvariant
  <1> QED
    BY <1>2, <1>3 DEF Block

LEMMA CrashEvents ==
    ASSUME EventsInvariant, Crash PROVE EventsInvariant'
  <1>1. /\ active' = {} /\ expecting' = {} /\ blocking' = {}
        /\ reported' = reported \ active /\ UNCHANGED <<receipt, entered>>
    BY DEF Crash, terminal
  <1> SUFFICES ASSUME NEW m \in Messages PROVE EventsOK(m)'
    BY DEF EventsInvariant
  <1>2. EventsOK(m)
    BY DEF EventsInvariant
  <1> QED
    BY <1>1, <1>2 DEF EventsOK

LEMMA EventsStep ==
    ASSUME TypeOK, TypeOK', JournalInvariant, JournalInvariant', TextInvariant,
           EventsInvariant, [Next]_vars
    PROVE  EventsInvariant'
  <1>1. CASE Owner
    BY <1>1, SendEvents, CancelEvents, RecoverEvents DEF Owner
  <1>2. CASE Worker
    BY <1>2, TerminalEvents, ExpireEvents, LockEvents DEF Worker
  <1>3. CASE Writer
    BY <1>3, WriterEvents, IntendEvents, EnterEvents, JournalEvents, ConfirmEvents
    DEF Writer
  <1>4. CASE Native
    BY <1>4, ResolveEvents, TerminalEvents DEF Native
  <1>5. CASE Crash
    BY <1>5, CrashEvents
  <1>6. CASE \E m \in Messages : PassDeadline(m) \/ Block(m)
    BY <1>6, TerminalEvents, BlockEvents
  <1>7. CASE UNCHANGED vars
    BY <1>7, TerminalEvents
  <1> QED
    BY <1>1, <1>2, <1>3, <1>4, <1>5, <1>6, <1>7 DEF Next

\* An acceptance that the CLI reports of an entered message is in its receipt as soon as
\* the delivery is over, however early, late or often it is interrupted.
THEOREM AcceptanceNeverLost == Spec => []AcceptanceKept
  <1>1. Init => EventsInvariant
    <2> SUFFICES ASSUME Init, NEW m \in Messages PROVE EventsOK(m)
      BY DEF EventsInvariant
    <2>1. /\ expecting = {} /\ blocking = {} /\ reported = {}
          /\ receipt[m].status = "absent"
      BY DEF Init
    <2> QED
      BY <2>1 DEF EventsOK
  <1>2. TypeOK /\ TypeOK' /\ JournalInvariant /\ JournalInvariant' /\ TextInvariant
           /\ EventsInvariant /\ [Next]_vars => EventsInvariant'
    BY EventsStep
  <1>3. TypeOK /\ EventsInvariant => AcceptanceKept
    BY DEF TypeOK, EventsInvariant, EventsOK, AcceptanceKept
  <1> QED
    BY <1>1, <1>2, <1>3, TypeCorrect, JournalCorrect, TextCorrect, PTL DEF Spec

-----------------------------------------------------------------------------
(* The order in which messages were sent. A recovery that is held joins the *)
(* queue behind messages that were sent while it wrote, so the order is one *)
(* of deliveries without recoveries.                                        *)

\* Whatever was under way when a queued message was sent stands before it.
InLine ==
    \A k \in 1..Len(queue) : \A n \in ahead[queue[k]] : \E j \in 1..(k - 1) : queue[j] = n
OrderInvariant == InLine /\ (\A m \in active : Queued(m)) /\ tx.by # "recover"

LEMMA ReleaseOrder ==
    ASSUME TypeOK, Distinct, InLine, NEW m \in Messages, Release(m), Queued(m)
    PROVE  InLine'
  <1> DEFINE i == CHOOSE k \in 1..Len(queue) : queue[k] = m
             old(k) == IF k < i THEN k ELSE k + 1
  <1>1. queue \in Seq(Messages) /\ Len(queue) \in Nat
    BY DEF TypeOK
  <1>2. i \in 1..Len(queue) /\ queue[i] = m
    BY DEF Queued
  <1>3. queue' = [k \in 1..(Len(queue) - 1) |-> queue[old(k)]]
    BY DEF Release, Without
  <1> HIDE DEF i
  <1>4. Len(queue') = Len(queue) - 1
    BY <1>1, <1>2, <1>3
  <1>5. \A n \in Messages : ahead'[n] = ahead[n] \ {m}
    BY DEF Release
  <1> SUFFICES ASSUME NEW k \in 1..Len(queue'), NEW n \in ahead'[queue'[k]]
               PROVE  \E j \in 1..(k - 1) : queue'[j] = n
    BY DEF InLine
  <1>6. old(k) \in 1..Len(queue) /\ queue'[k] = queue[old(k)] /\ queue[old(k)] \in Messages
    BY <1>1, <1>2, <1>3, <1>4
  <1>7. n \in ahead[queue[old(k)]] /\ n # m
    BY <1>5, <1>6
  <1>8. PICK j \in 1..(old(k) - 1) : queue[j] = n
    BY <1>6, <1>7 DEF InLine
  <1>9. j # i
    BY <1>2, <1>7, <1>8
  <1> DEFINE new == IF j < i THEN j ELSE j - 1
  <1>10. new \in 1..(k - 1) /\ new \in 1..(Len(queue) - 1) /\ old(new) = j
    BY <1>1, <1>2, <1>4, <1>6, <1>8, <1>9
  <1>11. queue'[new] = n
    BY <1>3, <1>8, <1>10
  <1> QED
    BY <1>10, <1>11

LEMMA LeaveOrder ==
    ASSUME TypeOK, JournalInvariant, OrderInvariant, NEW m \in active, Release(m),
           tx'.by # "recover"
    PROVE  OrderInvariant'
  <1>1. m \in Messages /\ Queued(m) /\ Distinct
    BY DEF TypeOK, OrderInvariant, JournalInvariant, OneOwner
  <1>2. InLine'
    BY <1>1, ReleaseOrder DEF OrderInvariant
  <1>3. /\ \A n \in Messages : Queued(n)' <=> Queued(n) /\ n # m
        /\ active' = active \ {m}
    BY <1>1, ReleaseQueue
  <1> QED
    BY <1>2, <1>3 DEF OrderInvariant, TypeOK

LEMMA FailOrder ==
    ASSUME TypeOK, JournalInvariant, OrderInvariant, NEW m \in active, NEW why, NEW phase,
           Fail(m, "attempt", why, phase)
    PROVE  OrderInvariant'
  <1>1. tx'.by # "recover"
    BY DEF Fail, Hold, Settle, EndTx, NoTx
  <1>2. CASE Release(m)
    BY <1>1, <1>2, LeaveOrder
  <1>3. CASE UNCHANGED <<queue, active, ahead>>
    BY <1>1, <1>3 DEF OrderInvariant, InLine, Queued
  <1> QED
    BY <1>2, <1>3 DEF Fail, Hold, Settle

LEMMA OrderStep ==
    ASSUME MaxRecoveries = 0, TypeOK, JournalInvariant, OrderInvariant, [Next]_vars
    PROVE  OrderInvariant'
  <1> USE DEF terminal, session, history, line
  <1>1. ~Free => tx.by = "attempt" /\ tx.m \in active
    BY InHand DEF Free, OrderInvariant, TypeOK, Tx
  <1>2. CASE UNCHANGED <<queue, active, ahead>> /\ tx'.by \in {tx.by, "attempt"}
    BY <1>2 DEF OrderInvariant, InLine, Queued
  <1>3. ASSUME NEW why, NEW phase, FailTx(why, phase), ~Free PROVE OrderInvariant'
    BY <1>1, <1>3, FailOrder DEF FailTx
  <1>4. ASSUME NEW m \in Messages, Send(m) PROVE OrderInvariant'
    <2>1. /\ queue' = Append(queue, m) /\ active' = active \cup {m} /\ tx' = tx
          /\ ahead' = [ahead EXCEPT ![m] = active]
      BY <1>4 DEF Send
    <2>2. queue \in Seq(Messages) /\ Len(queue) \in Nat
      BY DEF TypeOK
    <2>3. /\ Len(queue') = Len(queue) + 1 /\ queue'[Len(queue) + 1] = m
          /\ \A k \in 1..Len(queue) : queue'[k] = queue[k]
      BY <2>1, <2>2
    <2>4. ~Queued(m) /\ Distinct
      BY <1>4 DEF Send, JournalInvariant, OneOwner
    <2>5. \A n \in Messages : Queued(n)' <=> Queued(n) \/ n = m
      BY <2>1, <2>4, AppendQueue
    <2>6. ASSUME NEW k \in 1..Len(queue'), NEW n \in ahead'[queue'[k]]
          PROVE  \E j \in 1..(k - 1) : queue'[j] = n
      <3>1. CASE k = Len(queue) + 1
        <4>1. n \in active
          BY <2>1, <2>3, <2>6, <3>1 DEF TypeOK
        <4>2. Queued(n)
          BY <4>1 DEF OrderInvariant
        <4>3. PICK j \in 1..Len(queue) : queue[j] = n
          BY <4>2 DEF Queued
        <4> QED
          BY <2>2, <2>3, <3>1, <4>3
      <3>2. CASE k # Len(queue) + 1
        <4>1. k \in 1..Len(queue) /\ queue'[k] = queue[k] /\ queue[k] # m
          BY <2>2, <2>3, <2>4, <3>2 DEF Queued
        <4>2. n \in ahead[queue[k]]
          BY <2>1, <2>6, <4>1 DEF TypeOK
        <4>3. PICK j \in 1..(k - 1) : queue[j] = n
          BY <4>1, <4>2 DEF OrderInvariant, InLine
        <4> QED
          BY <2>2, <2>3, <4>1, <4>3
      <3> QED
        BY <3>1, <3>2
    <2>7. InLine'
      BY <2>6 DEF InLine
    <2> QED
      BY <2>1, <2>5, <2>7 DEF OrderInvariant, TypeOK
  <1>5. ASSUME NEW m \in Messages, Cancel(m) PROVE OrderInvariant'
    <2>1. Queued(m) /\ m \in active /\ tx' = tx
      BY <1>5 DEF Cancel, JournalInvariant, OneOwner
    <2>2. CASE Release(m)
      BY <2>1, <2>2, LeaveOrder DEF OrderInvariant
    <2> QED
      BY <1>2, <1>5, <2>1, <2>2 DEF Cancel
  <1>6. ASSUME NEW m \in Messages, Recover(m) PROVE FALSE
    BY <1>6 DEF Recover, TypeOK, Receipt
  <1>7. CASE Expire
    <2>1. Head(queue) \in active /\ Release(Head(queue)) /\ tx' = tx
      BY <1>7, InHand DEF Expire
    <2> QED
      BY <2>1, LeaveOrder DEF OrderInvariant
  <1>8. CASE Lock
    <2> DEFINE m == Head(queue)
               mode == job[m].mode
    <2>1. Head(queue) \in active
      BY <1>8, InHand DEF Lock
    <2>2. CASE \E why, phase : Fail(Head(queue), "attempt", why, phase)
      BY <2>1, <2>2, FailOrder
    <2>3. CASE ~\E why, phase : Fail(Head(queue), "attempt", why, phase)
      <3>1. /\ UNCHANGED <<queue, active, ahead>>
            /\ tx' = [NoTx EXCEPT !.by = "attempt", !.m = m, !.mode = mode,
                          !.step = IF mode # "send" THEN "intent" ELSE "prepare",
                          !.intent = FirstIntent(mode), !.generation = generation,
                          !.proof = job[m].proof]
        BY <1>8, <2>3 DEF Lock
      <3>2. tx'.by = "attempt"
        BY <3>1 DEF NoTx
      <3> QED
        BY <1>2, <3>1, <3>2
    <2> QED
      BY <2>2, <2>3
  <1>9. CASE Writer
    <2>0. ~Free
      BY <1>9 DEF Writer, Prepare, Intend, Guard, Paste, Enter, Journal, Confirm, At, Free
    <2>1. CASE \E why, phase : FailTx(why, phase)
      BY <1>3, <2>0, <2>1
    <2>2. CASE ~\E why, phase : FailTx(why, phase)
      <3>1. CASE Confirm
        <4>1. Release(tx.m) /\ tx' = NoTx
          BY <2>2, <3>1 DEF Confirm, Settle, EndTx
        <4> QED
          BY <1>1, <2>0, <4>1, LeaveOrder DEF NoTx
      <3>2. CASE Prepare \/ Intend \/ Guard \/ Paste \/ Enter \/ Journal
        <4>1. UNCHANGED <<queue, active, ahead>>
          BY <2>2, <3>2 DEF Prepare, Intend, Guard, Paste, Enter, Journal
        <4>0. tx \in Tx
          BY DEF TypeOK
        <4>a. ASSUME Prepare PROVE tx'.by = tx.by
          <5>1. \E a : tx' = [tx EXCEPT !.step = "intent", !.appended = a]
            BY <2>2, <4>a DEF Prepare
          <5> QED
            BY <4>0, <5>1 DEF Tx
        <4>b. ASSUME Guard PROVE tx'.by = tx.by
          <5>1. \E a, b : tx' = [tx EXCEPT !.step = "bytes", !.appended = a, !.proof = b]
            BY <2>2, <4>b DEF Guard
          <5> QED
            BY <4>0, <5>1 DEF Tx
        <4>c. ASSUME Intend \/ Paste \/ Enter PROVE tx'.by = tx.by
          <5>1. \E step : tx' = [tx EXCEPT !.step = step]
            BY <2>2, <4>c DEF Intend, Paste, Enter, GoOn
          <5> QED
            BY <4>0, <5>1 DEF Tx
        <4>d. ASSUME Journal PROVE tx'.by = tx.by
          <5> DEFINE phase == DonePhase(tx.m, tx.intent)
          <5>1. phase \in {"images-pasted", "pasted", "submitted"}
            BY DEF DonePhase
          <5>2. \/ tx' = [tx EXCEPT !.step = "intent", !.intent = "text-intent"]
                \/ \E b : tx' = [tx EXCEPT !.step = "intent", !.intent = "submit-intent",
                                     !.proof = b]
                \/ tx' = [tx EXCEPT !.step = "confirm"]
            BY <4>d, <5>1 DEF Journal
          <5> QED
            BY <4>0, <5>2 DEF Tx
        <4>2. tx'.by = tx.by
          BY <3>2, <4>a, <4>b, <4>c, <4>d
        <4> QED
          BY <1>2, <4>1, <4>2
      <3> QED
        BY <1>9, <3>1, <3>2 DEF Writer
    <2> QED
      BY <2>1, <2>2
  <1>10. CASE Crash
    BY <1>10 DEF Crash, OrderInvariant, InLine, NoTx
  <1>11. CASE Begin \/ Native \/ UNCHANGED vars \/ \E m \in Messages : PassDeadline(m) \/ Block(m)
    <2>1. UNCHANGED <<queue, active, ahead, tx>>
      BY <1>11 DEF Begin, Native, Resolve, Dialogs, Requests, OwnerInput, Relaunch,
                   OnlyTerminal, PassDeadline, Block, vars
    <2> QED
      BY <1>2, <2>1
  <1> QED
    BY <1>4, <1>5, <1>6, <1>7, <1>8, <1>9, <1>10, <1>11 DEF Next, Owner, Worker

\* Without recoveries nothing of a message is written while one that was under way when
\* it was sent is not over, for any number of messages, holds, cancels and crashes.
THEOREM OrderKept ==
    ASSUME MaxRecoveries = 0 PROVE Spec => []InOrder
  <1>1. Init => OrderInvariant
    BY DEF Init, OrderInvariant, InLine, NoTx
  <1>2. TypeOK /\ JournalInvariant /\ OrderInvariant /\ [Next]_vars => OrderInvariant'
    BY OrderStep
  <1>3. TypeOK /\ JournalInvariant /\ OrderInvariant => InOrder
    <2> SUFFICES ASSUME TypeOK, JournalInvariant, OrderInvariant, tx.by = "attempt"
                 PROVE  ahead[tx.m] = {}
      BY DEF InOrder
    <2>1. queue \in Seq(Messages) /\ queue # <<>> /\ tx.m = queue[1] /\ 1 \in 1..Len(queue)
      BY DEF TypeOK, JournalInvariant, OneOwner
    <2> QED
      BY <2>1 DEF OrderInvariant, InLine, TypeOK
  <1> QED
    BY <1>1, <1>2, <1>3, TypeCorrect, JournalCorrect, PTL DEF Spec
=============================================================================
