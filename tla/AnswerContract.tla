--------------------------- MODULE AnswerContract ---------------------------
(***************************************************************************)
(* What RequestBroker promises to those who answer a request of a CLI: the  *)
(* CLI takes one answer at most, who answered is told so only if it was     *)
(* theirs, and an answer reported as stale is never taken afterwards.       *)
(***************************************************************************)
EXTENDS Naturals

CONSTANTS Keys, MaxAnswers

VARIABLES
    winner, \* the answer the CLI took for a request, 0 for none
    answer  \* an answer: its request, and what the one who gave it knows

vars == <<winner, answer>>
Answers == 1..MaxAnswers

Give(a, k) ==
    /\ answer[a].end = "none"
    /\ answer' = [answer EXCEPT ![a] = [key |-> k, end |-> "sent"]] /\ UNCHANGED winner

\* The CLI takes an answer that is on its way, or that was given up as uncertain.
Take(a) ==
    /\ answer[a].end \in {"sent", "unknown"} /\ winner[answer[a].key] = 0
    /\ winner' = [winner EXCEPT ![answer[a].key] = a] /\ UNCHANGED answer

Report(a, end) ==
    /\ answer[a].end = "sent" /\ end \in {"answered", "stale"}
    /\ (end = "answered") <=> (winner[answer[a].key] = a)
    /\ answer' = [answer EXCEPT ![a].end = end] /\ UNCHANGED winner

\* Connections and servers fail: any number of answers become uncertain at once.
Lapse(A) ==
    /\ \A a \in A : answer[a].end = "sent"
    /\ answer' = [a \in Answers |-> IF a \in A THEN [answer[a] EXCEPT !.end = "unknown"]
                                    ELSE answer[a]]
    /\ UNCHANGED winner

Init ==
    /\ winner = [k \in Keys |-> 0]
    /\ \E k \in Keys : answer = [a \in Answers |-> [key |-> k, end |-> "none"]]

Next ==
    \/ \E a \in Answers : \/ \E k \in Keys : Give(a, k)
                          \/ Take(a)
                          \/ \E end \in {"answered", "stale"} : Report(a, end)
    \/ \E A \in SUBSET Answers : Lapse(A)

Spec == Init /\ [][Next]_vars
=============================================================================
