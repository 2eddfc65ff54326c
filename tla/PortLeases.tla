----------------------------- MODULE PortLeases -----------------------------
(***************************************************************************)
(* The port blocks of active turns: PortLeases in run-ports.js, with what  *)
(* prepareStage (execution-stage.js) does between a lease and its          *)
(* settlement.  Launches of one run follow each other under its lock,      *)
(* launches of several runs interleave at every await: the probe of a      *)
(* block and the start of the CLI.  What listens on the host is not known: *)
(* a probe may answer either way.                                          *)
(***************************************************************************)
EXTENDS Integers, Sequences, FiniteSets

CONSTANTS
    Runs,
    Nodes,    \* the stages of a run, and the members of its groups
    Blocks,   \* blocks() as a sequence: the range without the host's own port
    None,
    MaxCrashes

ASSUME PortAssumption ==
    /\ Blocks \in Seq(Nat) /\ None \notin Nat
    /\ \A i, j \in DOMAIN Blocks : Blocks[i] = Blocks[j] => i = j
    /\ MaxCrashes \in Nat

VARIABLES
    active,   \* stored: the block of a node's active turn
    last,     \* stored: the block of the node's newest turn in the execution log
    reserved, \* in memory: the block granted to a node's turn that is not settled
    launch,   \* the launch that holds a run's lock
    crashes

vars == <<active, last, reserved, launch, crashes>>

Turns == Runs \X Nodes
BlockSet == {Blocks[i] : i \in DOMAIN Blocks}
Idle == [at |-> "idle", node |-> None, order |-> <<>>]

\* leased: what other launches were granted and have not saved yet, and what the active
\* turns of all runs hold.  A launch has given its own block back when it asks.
\* Mutant: a grant counts only once it is saved.
LeasedSaved(t) == {active[u] : u \in Turns} \ {None}
Leased(t) == ({reserved[u] : u \in Turns \ {t}} \cup {active[u] : u \in Turns}) \ {None}

Place(b) == CHOOSE i \in DOMAIN Blocks : Blocks[i] = b
\* The blocks to try, the preferred one first.
Order(prefer) ==
    IF prefer \in BlockSet
    THEN [i \in DOMAIN Blocks |->
             IF i = 1 THEN prefer
             ELSE IF i <= Place(prefer) THEN Blocks[i - 1] ELSE Blocks[i]]
    ELSE Blocks

\* The first block to try that is not leased, and what is left to try behind it.
Free(order, leased) == {i \in DOMAIN order : order[i] \notin leased}
First(S) == CHOOSE i \in S : \A j \in S : i <= j

\* lease goes on: it reserves the next free block before it probes it, or refuses.
Try(r, n, order, leased) ==
    LET free == Free(order, leased)
    IN  IF free = {} THEN
            /\ launch' = [launch EXCEPT ![r] = [at |-> "refused", node |-> n, order |-> <<>>]]
            /\ reserved' = [reserved EXCEPT ![<<r, n>>] = None]
        ELSE
            /\ reserved' = [reserved EXCEPT ![<<r, n>>] = order[First(free)]]
            /\ launch' = [launch EXCEPT ![r] =
                   [at |-> "probe", node |-> n,
                    order |-> SubSeq(order, First(free) + 1, Len(order))]]
Lease(r, n) ==
    /\ launch[r] = Idle /\ active[<<r, n>>] = None
    /\ Try(r, n, Order(last[<<r, n>>]), Leased(<<r, n>>))
    /\ UNCHANGED <<active, last, crashes>>

\* The probe finds the block in use: the next one, among what is leased by now.
ProbeFails(r) ==
    /\ launch[r].at = "probe"
    /\ Try(r, launch[r].node, launch[r].order, Leased(<<r, launch[r].node>>))
    /\ UNCHANGED <<active, last, crashes>>

\* The block is granted and saved with the turn, before its CLI starts.
Save(r) ==
    LET t == <<r, launch[r].node>>
    IN  /\ launch[r].at = "probe"
        /\ active' = [active EXCEPT ![t] = reserved[t]]
        /\ last' = [last EXCEPT ![t] = reserved[t]]
        /\ launch' = [launch EXCEPT ![r].at = "start"]
        /\ UNCHANGED <<reserved, crashes>>
\* Mutant: nothing settles a launch that failed.
SaveFailsLeaks(r) ==
    /\ launch[r].at \in {"probe", "refused"}
    /\ launch' = [launch EXCEPT ![r] = Idle]
    /\ UNCHANGED <<active, last, reserved, crashes>>
\* The launch stops before that save, refused or failed: `finally' settles it.
SaveFails(r) ==
    /\ launch[r].at \in {"probe", "refused"}
    /\ reserved' = [reserved EXCEPT ![<<r, launch[r].node>>] = None]
    /\ launch' = [launch EXCEPT ![r] = Idle]
    /\ UNCHANGED <<active, last, crashes>>
\* The CLI started, or it did not and the turn is parked; either way it is settled.
Started(r) ==
    /\ launch[r].at = "start"
    /\ reserved' = [reserved EXCEPT ![<<r, launch[r].node>>] = None]
    /\ launch' = [launch EXCEPT ![r] = Idle]
    /\ UNCHANGED <<active, last, crashes>>
StartFails(r) ==
    /\ launch[r].at = "start"
    /\ reserved' = [reserved EXCEPT ![<<r, launch[r].node>>] = None]
    /\ active' = [active EXCEPT ![<<r, launch[r].node>>] = None]
    /\ launch' = [launch EXCEPT ![r] = Idle]
    /\ UNCHANGED <<last, crashes>>

\* clearTurn: the turn ended, failed, timed out or was lost.
TurnEnds(r, n) ==
    /\ launch[r] = Idle /\ active[<<r, n>>] # None
    /\ active' = [active EXCEPT ![<<r, n>>] = None]
    /\ UNCHANGED <<last, reserved, launch, crashes>>
\* The run was cancelled.
RunEnds(r) ==
    /\ launch[r] = Idle
    /\ active' = [t \in Turns |-> IF t[1] = r THEN None ELSE active[t]]
    /\ UNCHANGED <<last, reserved, launch, crashes>>

\* A restart rebuilds every lease from the stored runs.
Crash ==
    /\ crashes < MaxCrashes /\ crashes' = crashes + 1
    /\ launch' = [r \in Runs |-> Idle] /\ reserved' = [t \in Turns |-> None]
    /\ UNCHANGED <<active, last>>

Init ==
    /\ active = [t \in Turns |-> None] /\ last = [t \in Turns |-> None]
    /\ reserved = [t \in Turns |-> None]
    /\ launch = [r \in Runs |-> Idle] /\ crashes = 0

Next ==
    \/ \E r \in Runs :
          \/ \E n \in Nodes : Lease(r, n) \/ TurnEnds(r, n)
          \/ ProbeFails(r) \/ Save(r) \/ SaveFails(r) \/ Started(r) \/ StartFails(r)
          \/ RunEnds(r)
    \/ Crash

Spec == Init /\ [][Next]_vars

-----------------------------------------------------------------------------
(* Properties.                                                              *)

Launching(r, n) == launch[r].at \in {"probe", "start"} /\ launch[r].node = n

\* Types; a launch reserves a block for its own turn, and only a launch does: no failed
\* launch leaves a block reserved.
TypeOK ==
    /\ {active, last, reserved} \subseteq [Turns -> BlockSet \cup {None}]
    /\ \A r \in Runs : launch[r].at \in {"idle", "probe", "start", "refused"}
    /\ \A r \in Runs, n \in Nodes :
          (reserved[<<r, n>>] # None) <=> Launching(r, n)
    /\ crashes \in 0..MaxCrashes

\* Two turns, of one run or of two, never hold the same block, however their launches
\* and probes interleave and whatever a restart loses.
Exclusive ==
    \A t, u \in Turns : t # u =>
        /\ active[t] # None => active[t] \notin {active[u], reserved[u]}
        /\ reserved[t] # None => reserved[t] # reserved[u]

\* A launch whose probes found no block in use is refused only when as many other turns
\* hold a block as there are blocks: no ended or failed turn keeps one.
EnoughBlocks ==
    [][\A r \in Runs :
          launch[r] = Idle /\ launch'[r].at = "refused"
          => Cardinality({t \in Turns : active[t] # None \/ Launching(t[1], t[2])})
                >= Len(Blocks)]_vars
=============================================================================
