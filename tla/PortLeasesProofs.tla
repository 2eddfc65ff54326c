-------------------------- MODULE PortLeasesProofs --------------------------
(***************************************************************************)
(* PortLeases for every set of runs and nodes, every range of blocks and   *)
(* any number of restarts: no block is held twice, no ended turn keeps     *)
(* one, and none is lost.                                                  *)
(*                                                                         *)
(* Exclusive alone is not inductive: it needs that a launch at its probe   *)
(* has reserved a block and saved none, and that one that starts its CLI   *)
(* has saved the block it reserved (OwnBlock).                             *)
(***************************************************************************)
EXTENDS PortLeases, SequenceTheorems, FiniteSetTheorems, WellFoundedInduction, TLAPS

LaunchRecord == [at : {"idle", "probe", "start", "refused"}, node : Nodes \cup {None},
                 order : Seq(BlockSet)]

BlocksOK == {active, last, reserved} \subseteq [Turns -> BlockSet \cup {None}]
LaunchOK ==
    /\ launch \in [Runs -> LaunchRecord]
    /\ \A r \in Runs : launch[r].at # "idle" => launch[r].node \in Nodes
    /\ crashes \in 0..MaxCrashes
\* What a launch reserved and saved at each of its places, and nobody else reserves.
OwnBlock ==
    \A r \in Runs, n \in Nodes :
        /\ (reserved[<<r, n>>] # None) <=> Launching(r, n)
        /\ launch[r].node = n /\ launch[r].at \in {"probe", "refused"}
              => active[<<r, n>>] = None
        /\ launch[r].node = n /\ launch[r].at = "start"
              => active[<<r, n>>] = reserved[<<r, n>>]
PortInvariant == BlocksOK /\ LaunchOK /\ OwnBlock /\ Exclusive

-----------------------------------------------------------------------------
(* The order of the blocks, and the choice of the next one.                 *)

LEMMA BlockTypes ==
    /\ BlockSet \subseteq Nat /\ None \notin BlockSet /\ Blocks \in Seq(BlockSet)
    /\ DOMAIN Blocks = 1..Len(Blocks) /\ Len(Blocks) \in Nat
  BY PortAssumption DEF BlockSet

\* Every block is tried, whichever is preferred.
LEMMA OrderHasAll ==
    ASSUME NEW prefer
    PROVE  /\ Order(prefer) \in Seq(BlockSet)
           /\ \A b \in BlockSet : \E i \in DOMAIN Order(prefer) : Order(prefer)[i] = b
  <1>1. CASE prefer \notin BlockSet
    BY <1>1, BlockTypes DEF Order, BlockSet
  <1>2. CASE prefer \in BlockSet
    <2> DEFINE p == Place(prefer)
               o == [i \in DOMAIN Blocks |->
                        IF i = 1 THEN prefer
                        ELSE IF i <= p THEN Blocks[i - 1] ELSE Blocks[i]]
    <2>1. p \in DOMAIN Blocks /\ Blocks[p] = prefer
      BY <1>2 DEF Place, BlockSet
    <2>2. Order(prefer) = o
      BY <1>2 DEF Order
    <2> HIDE DEF p
    <2>3. ASSUME NEW i \in DOMAIN Blocks PROVE o[i] \in BlockSet
      <3>1. i \in 1..Len(Blocks) /\ (i # 1 => i - 1 \in DOMAIN Blocks)
        BY BlockTypes
      <3> QED
        BY <1>2, <3>1 DEF BlockSet
    <2>4. o \in Seq(BlockSet)
      <3>1. o \in [1..Len(Blocks) -> BlockSet]
        BY <2>3, BlockTypes
      <3> QED
        BY <3>1, BlockTypes
    <2>5. ASSUME NEW b \in BlockSet PROVE \E i \in DOMAIN o : o[i] = b
      <3>1. PICK k \in DOMAIN Blocks : Blocks[k] = b
        BY DEF BlockSet
      <3>2. CASE k = p
        <4>1. 1 \in DOMAIN o /\ o[1] = b
          BY <2>1, <3>1, <3>2, BlockTypes
        <4> QED
          BY <4>1
      <3>3. CASE k < p
        <4>1. k + 1 \in DOMAIN o /\ o[k + 1] = b
          BY <2>1, <3>1, <3>3, BlockTypes
        <4> QED
          BY <4>1
      <3>4. CASE k > p
        <4>1. k \in DOMAIN o /\ o[k] = b
          BY <2>1, <3>1, <3>4, BlockTypes
        <4> QED
          BY <4>1
      <3> QED
        BY <2>1, <3>1, <3>2, <3>3, <3>4, BlockTypes
    <2> QED
      BY <2>2, <2>4, <2>5
  <1> QED
    BY <1>1, <1>2

\* A set of natural numbers has a least one, from the library's fact that < is well-founded.
LEMMA LeastNatural ==
    ASSUME NEW S \in SUBSET Nat, S # {}
    PROVE  \E k \in S : \A j \in S : k <= j
  <1> DEFINE R == OpToRel(<, Nat)
  <1>1. IsWellFoundedOn(R, Nat)
    BY NatLessThanWellFounded, Zenon
  <1>2. \A j, k \in Nat : j < k => <<j, k>> \in R
    <2>1. R = {ss \in Nat \X Nat : ss[1] < ss[2]}
      BY Zenon DEF OpToRel
    <2> HIDE DEF R
    <2> QED
      BY <2>1, SMT
  <1> HIDE DEF R
  <1>3. PICK k \in S : \A j \in S : ~ (<<j, k>> \in R)
    BY <1>1, WFMin, Zenon
  <1>4. ASSUME NEW j \in S PROVE k <= j
    <2>1. ~ (<<j, k>> \in R)
      BY <1>3
    <2>2. j \in Nat /\ k \in Nat
      OBVIOUS
    <2>3. ~ (j < k)
      BY <1>2, <2>1, <2>2, Zenon
    <2> QED
      BY <2>2, <2>3
  <1> QED
    BY <1>4

\* A launch goes on with a block that is not leased, or it tried all that are left.
LEMMA TryMoves ==
    ASSUME NEW r \in Runs, NEW n \in Nodes, NEW order \in Seq(BlockSet),
           Try(r, n, order, Leased(<<r, n>>))
    PROVE  \/ /\ \A i \in DOMAIN order : order[i] \in Leased(<<r, n>>)
              /\ launch' = [launch EXCEPT ![r] = [at |-> "refused", node |-> n, order |-> <<>>]]
              /\ reserved' = [reserved EXCEPT ![<<r, n>>] = None]
           \/ \E b \in BlockSet \ Leased(<<r, n>>), rest \in Seq(BlockSet) :
              /\ launch' = [launch EXCEPT ![r] = [at |-> "probe", node |-> n, order |-> rest]]
              /\ reserved' = [reserved EXCEPT ![<<r, n>>] = b]
  <1> DEFINE leased == Leased(<<r, n>>)
             free == Free(order, leased)
             i == First(free)
             rest == SubSeq(order, i + 1, Len(order))
  <1>0. Try(r, n, order, leased)
    OBVIOUS
  <1> HIDE DEF leased
  <1>1. CASE free = {}
    BY <1>0, <1>1 DEF Try, Free, leased
  <1>2. CASE free # {}
    <2>1. free \subseteq 1..Len(order) /\ Len(order) \in Nat
      BY DEF Free
    <2>2. \E k \in free : \A j \in free : k <= j
      BY <1>2, <2>1, LeastNatural
    <2>3. i \in free
      BY <2>2 DEF First
    <2>4. order[i] \in BlockSet \ leased
      BY <2>1, <2>3 DEF Free
    <2>5. rest \in Seq(BlockSet)
      <3>1. i + 1 \in Int /\ Len(order) \in Int /\ i \in 1..Len(order)
        BY <2>1, <2>3
      <3>2. \A k \in (i + 1)..Len(order) : order[k] \in BlockSet
        BY <3>1
      <3> QED
        BY <3>1, <3>2, SubSeqProperties
    <2>6. /\ launch' = [launch EXCEPT ![r] = [at |-> "probe", node |-> n, order |-> rest]]
          /\ reserved' = [reserved EXCEPT ![<<r, n>>] = order[i]]
      BY <1>0, <1>2 DEF Try
    <2> HIDE DEF i, rest
    <2> QED
      BY <2>4, <2>5, <2>6 DEF leased
  <1> QED
    BY <1>1, <1>2
-----------------------------------------------------------------------------
(* The invariant.                                                           *)

LEMMA TurnPairs ==
    /\ \A r \in Runs, n \in Nodes : <<r, n>> \in Turns
    /\ \A t \in Turns : t[1] \in Runs /\ t[2] \in Nodes /\ t = <<t[1], t[2]>>
  BY DEF Turns

\* A step of one run's launch of one node leaves every other turn as it was.
LEMMA OwnBlockMoves ==
    ASSUME OwnBlock, NEW r \in Runs, NEW n \in Nodes,
           launch[r].at = "idle" \/ launch[r].node = n,
           launch'[r].at = "idle" \/ launch'[r].node = n,
           \A q \in Runs : q # r => launch'[q] = launch[q],
           \A t \in Turns : t # <<r, n>> =>
              reserved'[t] = reserved[t] /\ active'[t] = active[t],
           (reserved'[<<r, n>>] # None) <=> launch'[r].at \in {"probe", "start"},
           launch'[r].at \in {"probe", "refused"} => active'[<<r, n>>] = None,
           launch'[r].at = "start" => active'[<<r, n>>] = reserved'[<<r, n>>]
    PROVE  OwnBlock'
  <1> SUFFICES ASSUME NEW q \in Runs, NEW m \in Nodes
      PROVE /\ (reserved'[<<q, m>>] # None) <=> Launching(q, m)'
            /\ launch'[q].node = m /\ launch'[q].at \in {"probe", "refused"}
                  => active'[<<q, m>>] = None
            /\ launch'[q].node = m /\ launch'[q].at = "start"
                  => active'[<<q, m>>] = reserved'[<<q, m>>]
    BY DEF OwnBlock
  <1>1. CASE <<q, m>> = <<r, n>>
    BY <1>1 DEF Launching
  <1>2. CASE <<q, m>> # <<r, n>>
    <2>1. <<q, m>> \in Turns /\ (q # r \/ m # n)
      BY <1>2 DEF Turns
    <2>2. reserved'[<<q, m>>] = reserved[<<q, m>>] /\ active'[<<q, m>>] = active[<<q, m>>]
      BY <1>2, <2>1
    <2>3. CASE q # r
      BY <2>2, <2>3 DEF OwnBlock, Launching
    <2>4. CASE q = r
      BY <2>1, <2>2, <2>4 DEF OwnBlock, Launching
    <2> QED
      BY <2>3, <2>4
  <1> QED
    BY <1>1, <1>2

LEMMA PortInit == Init => PortInvariant
  <1> SUFFICES ASSUME Init PROVE PortInvariant
    OBVIOUS
  <1>1. BlocksOK
    BY DEF Init, BlocksOK
  <1>2. LaunchOK
    BY PortAssumption DEF Init, LaunchOK, LaunchRecord, Idle
  <1>3. OwnBlock
    BY TurnPairs DEF Init, OwnBlock, Launching, Idle
  <1>4. Exclusive
    BY DEF Init, Exclusive
  <1> QED
    BY <1>1, <1>2, <1>3, <1>4 DEF PortInvariant

\* A launch of a turn that holds no block goes on: with a block nobody holds, or refused.
LEMMA TryKeeps ==
    ASSUME PortInvariant, NEW r \in Runs, NEW n \in Nodes, NEW order \in Seq(BlockSet),
           Try(r, n, order, Leased(<<r, n>>)), active[<<r, n>>] = None,
           launch[r].at = "idle" \/ launch[r].node = n,
           UNCHANGED <<active, last, crashes>>
    PROVE  PortInvariant'
  <1> DEFINE t == <<r, n>>
  <1>1. t \in Turns
    BY TurnPairs
  <1> USE DEF PortInvariant
  <1>2. ASSUME launch' = [launch EXCEPT ![r] = [at |-> "refused", node |-> n, order |-> <<>>]],
               reserved' = [reserved EXCEPT ![t] = None]
        PROVE  PortInvariant'
    <2>1. BlocksOK'
      BY <1>1, <1>2 DEF BlocksOK
    <2>2. LaunchOK'
      BY <1>2 DEF LaunchOK, LaunchRecord
    <2>3. OwnBlock'
      BY <1>1, <1>2, OwnBlockMoves DEF BlocksOK, LaunchOK
    <2>4. Exclusive'
      BY <1>1, <1>2 DEF Exclusive, BlocksOK
    <2> QED
      BY <2>1, <2>2, <2>3, <2>4
  <1>3. ASSUME NEW b \in BlockSet \ Leased(t), NEW rest \in Seq(BlockSet),
               launch' = [launch EXCEPT ![r] = [at |-> "probe", node |-> n, order |-> rest]],
               reserved' = [reserved EXCEPT ![t] = b]
        PROVE  PortInvariant'
    <2>1. BlocksOK'
      BY <1>1, <1>3 DEF BlocksOK
    <2>2. LaunchOK'
      BY <1>3 DEF LaunchOK, LaunchRecord
    <2>3. OwnBlock'
      BY <1>1, <1>3, OwnBlockMoves, BlockTypes DEF BlocksOK, LaunchOK
    <2>4. \A u \in Turns : b # active[u] /\ (u # t => b # reserved[u])
      BY <1>3, BlockTypes DEF Leased
    <2>5. Exclusive'
      BY <1>1, <1>3, <2>4 DEF Exclusive, BlocksOK
    <2> QED
      BY <2>1, <2>2, <2>3, <2>5
  <1>4. \/ /\ launch' = [launch EXCEPT ![r] = [at |-> "refused", node |-> n, order |-> <<>>]]
           /\ reserved' = [reserved EXCEPT ![t] = None]
        \/ \E b \in BlockSet \ Leased(t), rest \in Seq(BlockSet) :
           /\ launch' = [launch EXCEPT ![r] = [at |-> "probe", node |-> n, order |-> rest]]
           /\ reserved' = [reserved EXCEPT ![t] = b]
    BY TryMoves
  <1> QED
    BY <1>2, <1>3, <1>4, Zenon

LEMMA LeaseKeeps ==
    ASSUME PortInvariant, NEW r \in Runs, NEW n \in Nodes, Lease(r, n)
    PROVE  PortInvariant'
  BY OrderHasAll, TryKeeps DEF Lease, Idle

LEMMA ProbeFailsKeeps ==
    ASSUME PortInvariant, NEW r \in Runs, ProbeFails(r) PROVE PortInvariant'
  <1>1. /\ launch[r].node \in Nodes /\ launch[r].order \in Seq(BlockSet)
        /\ active[<<r, launch[r].node>>] = None
    BY DEF PortInvariant, LaunchOK, LaunchRecord, OwnBlock, ProbeFails
  <1> QED
    BY <1>1, TryKeeps DEF ProbeFails

LEMMA SaveKeeps ==
    ASSUME PortInvariant, NEW r \in Runs, Save(r) PROVE PortInvariant'
  <1> DEFINE n == launch[r].node
             t == <<r, n>>
  <1> USE DEF PortInvariant
  <1>1. t \in Turns /\ n \in Nodes /\ launch[r].at = "probe"
    BY TurnPairs DEF Save, LaunchOK
  <1>2. /\ active' = [active EXCEPT ![t] = reserved[t]]
        /\ last' = [last EXCEPT ![t] = reserved[t]]
        /\ launch' = [launch EXCEPT ![r].at = "start"] /\ UNCHANGED <<reserved, crashes>>
    BY DEF Save
  <1>3. BlocksOK'
    BY <1>1, <1>2 DEF BlocksOK
  <1>4. LaunchOK'
    BY <1>1, <1>2 DEF LaunchOK, LaunchRecord
  <1>5. OwnBlock'
    <2>1. /\ launch'[r].at = "start" /\ launch'[r].node = n
          /\ \A q \in Runs : q # r => launch'[q] = launch[q]
      BY <1>1, <1>2 DEF LaunchOK, LaunchRecord
    <2>2. /\ reserved'[t] = reserved[t] /\ reserved[t] # None /\ active'[t] = reserved[t]
          /\ \A u \in Turns : u # t => active'[u] = active[u]
      BY <1>1, <1>2 DEF BlocksOK, OwnBlock, Launching
    <2> QED
      BY <1>1, <1>2, <2>1, <2>2, OwnBlockMoves
  <1>6. Exclusive'
    BY <1>1, <1>2 DEF Exclusive, BlocksOK
  <1> QED
    BY <1>3, <1>4, <1>5, <1>6

\* A launch is settled: its reservation goes, and what it saved stays or goes.
LEMMA SettleKeeps ==
    ASSUME PortInvariant, NEW r \in Runs, launch[r].at # "idle", NEW n \in Nodes,
           n = launch[r].node, launch' = [launch EXCEPT ![r] = Idle],
           reserved' = [reserved EXCEPT ![<<r, n>>] = None],
           active' = active \/ active' = [active EXCEPT ![<<r, n>>] = None],
           UNCHANGED <<last, crashes>>
    PROVE  PortInvariant'
  <1> USE DEF PortInvariant
  <1>1. <<r, n>> \in Turns
    BY TurnPairs
  <1>2. BlocksOK'
    BY <1>1 DEF BlocksOK
  <1>3. LaunchOK'
    BY EmptySeq DEF LaunchOK, LaunchRecord, Idle
  <1>4. OwnBlock'
    BY <1>1, OwnBlockMoves DEF BlocksOK, LaunchOK, Idle
  <1>5. Exclusive'
    BY <1>1 DEF Exclusive, BlocksOK
  <1> QED
    BY <1>2, <1>3, <1>4, <1>5

\* Turns end while no launch of their run is under way.
LEMMA ReleaseKeeps ==
    ASSUME PortInvariant, NEW r \in Runs, launch[r] = Idle,
           active' \in [Turns -> BlockSet \cup {None}],
           \A t \in Turns : active'[t] = active[t] \/ (t[1] = r /\ active'[t] = None),
           UNCHANGED <<last, reserved, launch, crashes>>
    PROVE  PortInvariant'
  <1> USE DEF PortInvariant
  <1>1. BlocksOK'
    BY DEF BlocksOK
  <1>2. LaunchOK'
    BY DEF LaunchOK
  <1>3. OwnBlock'
    <2>1. ASSUME NEW q \in Runs, NEW n \in Nodes, q # r
          PROVE  active'[<<q, n>>] = active[<<q, n>>]
      BY <2>1, TurnPairs DEF Turns
    <2>2. launch[r].at = "idle"
      BY DEF Idle
    <2>3. ASSUME NEW q \in Runs, NEW n \in Nodes
          PROVE  /\ (reserved[<<q, n>>] # None) <=> Launching(q, n)
                 /\ launch[q].node = n /\ launch[q].at \in {"probe", "refused"}
                       => active'[<<q, n>>] = None
                 /\ launch[q].node = n /\ launch[q].at = "start"
                       => active'[<<q, n>>] = reserved[<<q, n>>]
      BY <2>1, <2>2 DEF OwnBlock
    <2> QED
      BY <2>3 DEF OwnBlock, Launching
  <1>4. Exclusive'
    BY DEF Exclusive
  <1> QED
    BY <1>1, <1>2, <1>3, <1>4

LEMMA CrashKeeps == ASSUME PortInvariant, Crash PROVE PortInvariant'
  <1> USE DEF PortInvariant
  <1>1. BlocksOK'
    BY DEF BlocksOK, Crash
  <1>2. LaunchOK'
    BY PortAssumption, EmptySeq DEF LaunchOK, LaunchRecord, Idle, Crash
  <1>3. OwnBlock'
    BY TurnPairs DEF OwnBlock, Launching, Idle, Crash
  <1>4. Exclusive'
    BY DEF Exclusive, Crash
  <1> QED
    BY <1>1, <1>2, <1>3, <1>4

LEMMA PortStep == ASSUME PortInvariant, [Next]_vars PROVE PortInvariant'
  <1>1. ASSUME NEW r \in Runs, SaveFails(r) \/ Started(r) \/ StartFails(r)
        PROVE  PortInvariant'
    <2>1. launch[r].at # "idle" /\ launch[r].node \in Nodes
      BY <1>1 DEF SaveFails, Started, StartFails, PortInvariant, LaunchOK
    <2> QED
      BY <1>1, <2>1, SettleKeeps DEF SaveFails, Started, StartFails
  <1>2. ASSUME NEW r \in Runs, NEW n \in Nodes, TurnEnds(r, n) PROVE PortInvariant'
    <2>1. <<r, n>> \in Turns /\ active \in [Turns -> BlockSet \cup {None}]
      BY TurnPairs DEF PortInvariant, BlocksOK
    <2>2. /\ active' \in [Turns -> BlockSet \cup {None}]
          /\ \A t \in Turns : active'[t] = active[t] \/ (t[1] = r /\ active'[t] = None)
      BY <1>2, <2>1 DEF TurnEnds
    <2> QED
      BY <1>2, <2>2, ReleaseKeeps DEF TurnEnds
  <1>3. ASSUME NEW r \in Runs, RunEnds(r) PROVE PortInvariant'
    <2>1. active \in [Turns -> BlockSet \cup {None}]
      BY DEF PortInvariant, BlocksOK
    <2> QED
      BY <1>3, <2>1, ReleaseKeeps DEF RunEnds
  <1>4. CASE UNCHANGED vars
    BY <1>4 DEF vars, PortInvariant, BlocksOK, LaunchOK, OwnBlock, Launching, Exclusive
  <1> QED
    BY <1>1, <1>2, <1>3, <1>4, LeaseKeeps, ProbeFailsKeeps, SaveKeeps, CrashKeeps DEF Next

LEMMA PortInductive == Spec => []PortInvariant
  BY PortInit, PortStep, PTL DEF Spec
-----------------------------------------------------------------------------
(* The results.                                                             *)

\* Every step keeps the leases well typed, and only a launch under way reserves a block
\* (run-ports.js: reserved; execution-stage.js: the `finally' of launchStage).
THEOREM TypeCorrect == Spec => []TypeOK
  <1>1. PortInvariant => TypeOK
    BY DEF PortInvariant, BlocksOK, LaunchOK, LaunchRecord, OwnBlock, TypeOK
  <1> QED
    BY <1>1, PortInductive, PTL

\* No block is held by two turns, for any number of runs that launch at once, any answers
\* of the probes and any number of restarts (run-ports.js: leased, lease).
THEOREM NeverHeldTwice == Spec => []Exclusive
  BY PortInductive, PTL DEF PortInvariant

-----------------------------------------------------------------------------
(* A launch is refused only beside as many holders as there are blocks.     *)

\* A turn's block is the stored one, or the one its launch reserved.
Held == [t \in Turns |-> IF active[t] # None THEN active[t] ELSE reserved[t]]
\* The turns that hold a block; Exclusive makes Held one-to-one there, so that they are no
\* more than the blocks, however many runs there are.
Holders == {t \in Turns : active[t] # None \/ Launching(t[1], t[2])}

LEMMA HoldersHold ==
    ASSUME PortInvariant
    PROVE  /\ \A t \in Turns : t \in Holders <=> Held[t] # None
           /\ \A t \in Turns : reserved[t] # None => Held[t] = reserved[t]
           /\ \A t \in Holders : Held[t] \in BlockSet
           /\ \A t, u \in Holders : Held[t] = Held[u] => t = u
  <1> USE DEF PortInvariant
  <1>1. \A t \in Turns : Held[t] = IF active[t] # None THEN active[t] ELSE reserved[t]
    BY DEF Held
  <1>2. ASSUME NEW t \in Turns
        PROVE  /\ (reserved[t] # None) <=> Launching(t[1], t[2])
               /\ active[t] # None /\ reserved[t] # None => active[t] = reserved[t]
    <2>1. t[1] \in Runs /\ t[2] \in Nodes /\ t = <<t[1], t[2]>>
      BY TurnPairs
    <2> QED
      BY <2>1 DEF OwnBlock, Launching
  <1>3. \A t \in Turns : t \in Holders <=> Held[t] # None
    BY <1>1, <1>2 DEF Holders
  <1>4. \A t \in Turns : reserved[t] # None => Held[t] = reserved[t]
    BY <1>1, <1>2
  <1>5. \A t \in Turns : Held[t] \in BlockSet \cup {None}
    BY <1>1 DEF BlocksOK
  <1>6. ASSUME NEW t \in Holders, NEW u \in Holders, Held[t] = Held[u] PROVE t = u
    <2>1. t \in Turns /\ u \in Turns /\ Held[t] # None
      BY <1>3 DEF Holders
    <2> QED
      BY <1>1, <1>6, <2>1 DEF Exclusive
  <1>7. Holders \subseteq Turns
    BY DEF Holders
  <1> QED
    BY <1>3, <1>4, <1>5, <1>6, <1>7

LEMMA BlocksCounted == IsFiniteSet(BlockSet) /\ Cardinality(BlockSet) = Len(Blocks)
  <1>1. Blocks \in [1..Len(Blocks) -> BlockSet] /\ Len(Blocks) \in Nat
    BY BlockTypes
  <1>2. Blocks \in Injection(1..Len(Blocks), BlockSet)
    BY <1>1, PortAssumption DEF Injection, IsInjective
  <1>3. Blocks \in Surjection(1..Len(Blocks), BlockSet)
    BY <1>1 DEF Surjection, BlockSet
  <1>4. IsFiniteSet(1..Len(Blocks)) /\ Cardinality(1..Len(Blocks)) = Len(Blocks)
    <2>1. PICK n \in Nat : n = Len(Blocks)
      BY <1>1
    <2>2. 1 \in Int /\ n \in Int
      BY <2>1
    <2>3. IsFiniteSet(1..n)
      BY <2>2, FS_Interval
    <2>4. Cardinality(1..n) = IF 1 > n THEN 0 ELSE n - 1 + 1
      BY <2>2, FS_Interval
    <2>5. (IF 1 > n THEN 0 ELSE n - 1 + 1) = n
      BY <2>1
    <2> QED
      BY <2>1, <2>3, <2>4, <2>5
  <1>5. IsFiniteSet(BlockSet)
    BY <1>3, <1>4, FS_Surjection
  <1> QED
    BY <1>2, <1>3, <1>4, <1>5, FS_Injection

\* Only a lease refuses a run that was idle; what it could not take, other turns hold.
LEMMA RefusedByLease ==
    ASSUME PortInvariant, Next, NEW r \in Runs, launch[r] = Idle, launch'[r].at = "refused"
    PROVE  \E n \in Nodes : Lease(r, n)
  <1> USE DEF PortInvariant
  <1>0. launch \in [Runs -> LaunchRecord] /\ launch[r].at = "idle"
    BY DEF LaunchOK, Idle
  <1>1. launch' # launch
    BY <1>0
  <1>2. ASSUME NEW q \in Runs, q # r PROVE ~(\E x : launch' = [launch EXCEPT ![q] = x])
    BY <1>0, <1>2
  <1>3. ASSUME NEW q \in Runs, NEW n \in Nodes, Lease(q, n) PROVE q = r
    BY <1>2, <1>3, TryMoves, OrderHasAll DEF Lease
  <1>4. ASSUME NEW q \in Runs, ProbeFails(q) PROVE FALSE
    <2>1. /\ q # r /\ launch[q].node \in Nodes /\ launch[q].order \in Seq(BlockSet)
          /\ Try(q, launch[q].node, launch[q].order, Leased(<<q, launch[q].node>>))
      BY <1>0, <1>4 DEF ProbeFails, LaunchOK, LaunchRecord
    <2> QED
      BY <1>2, <2>1, TryMoves
  <1>5. ASSUME NEW q \in Runs, Save(q) \/ SaveFails(q) \/ Started(q) \/ StartFails(q) PROVE FALSE
    <2>1. q # r
      BY <1>0, <1>5 DEF Save, SaveFails, Started, StartFails
    <2>2. launch'[r] = launch[r]
      BY <1>0, <1>5, <2>1 DEF Save, SaveFails, Started, StartFails
    <2> QED
      BY <1>0, <2>2
  <1>6. ~Crash
    BY <1>0 DEF Crash, Idle
  <1> QED
    BY <1>1, <1>3, <1>4, <1>5, <1>6 DEF Next, TurnEnds, RunEnds

LEMMA RefusedAllHeld ==
    ASSUME PortInvariant, NEW r \in Runs, NEW n \in Nodes, Lease(r, n), launch'[r].at = "refused"
    PROVE  \A b \in BlockSet : \E t \in Holders : Held[t] = b
  <1> USE DEF PortInvariant
  <1>1. PICK order \in Seq(BlockSet) :
           /\ \A b \in BlockSet : \E i \in DOMAIN order : order[i] = b
           /\ Try(r, n, order, Leased(<<r, n>>))
    BY OrderHasAll DEF Lease
  <1>2. \A i \in DOMAIN order : order[i] \in Leased(<<r, n>>)
    <2>1. ~\E b, rest : launch' = [launch EXCEPT ![r] = [at |-> "probe", node |-> n, order |-> rest]]
      BY DEF LaunchOK
    <2> QED
      BY <1>1, <2>1, TryMoves
  <1>3. ASSUME NEW b \in BlockSet PROVE \E t \in Holders : Held[t] = b
    <2>1. b \in Leased(<<r, n>>) /\ b # None
      BY <1>1, <1>2, BlockTypes
    <2>2. PICK t \in Turns : active[t] = b \/ reserved[t] = b
      BY <2>1 DEF Leased
    <2>3. Held[t] = b
      BY <2>1, <2>2, HoldersHold DEF Held
    <2> QED
      BY <2>1, <2>3, HoldersHold
  <1> QED
    BY <1>3

\* A launch whose probes found no block in use is refused only when as many other turns hold
\* a block as there are blocks: none is lost to a turn that ended or a launch that failed
\* (run-ports.js: lease; clearTurn; the `finally' of launchStage).
THEOREM NoBlockIsLost == Spec => EnoughBlocks
  <1>1. ASSUME PortInvariant, Next, NEW r \in Runs, launch[r] = Idle, launch'[r].at = "refused"
        PROVE  Cardinality(Holders) >= Len(Blocks)
    <2>1. PICK n \in Nodes : Lease(r, n)
      BY <1>1, RefusedByLease
    <2>2. \A b \in BlockSet : \E t \in Holders : Held[t] = b
      BY <1>1, <2>1, RefusedAllHeld
    <2> DEFINE h == [t \in Holders |-> Held[t]]
    <2>3. h \in Injection(Holders, BlockSet)
      BY <1>1, HoldersHold DEF Injection, IsInjective
    <2>4. h \in Surjection(Holders, BlockSet)
      BY <2>2, <2>3 DEF Injection, Surjection
    <2> HIDE DEF h
    <2>5. Cardinality(Holders) = Len(Blocks)
      BY <2>3, <2>4, BlocksCounted, FS_Injection
    <2> QED
      BY <2>5, BlockTypes
  <1>2. PortInvariant /\ [Next]_vars =>
           [\A r \in Runs :
               launch[r] = Idle /\ launch'[r].at = "refused"
               => Cardinality({t \in Turns : active[t] # None \/ Launching(t[1], t[2])})
                     >= Len(Blocks)]_vars
    BY <1>1 DEF Holders
  <1> QED
    BY <1>2, PortInductive, PTL DEF Spec, EnoughBlocks
=============================================================================
