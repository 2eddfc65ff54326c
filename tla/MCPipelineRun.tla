--------------------------- MODULE MCPipelineRun ---------------------------
(* A small pipeline for TLC: an implementation stage that is verified and whose failing *)
(* verdict ends the run, then a review that sends failures back once and, when it      *)
(* passes, asks for approval and opens a pull request.                                 *)
EXTENDS PipelineRun

CONSTANTS implement, review, end, noedge

TwoStages == {implement, review}
Forwards == [s \in TwoStages |-> IF s = implement THEN review ELSE end]
Fails == [s \in TwoStages |-> IF s = review THEN implement ELSE end]
OneLoop == [s \in TwoStages |-> IF s = review THEN 1 ELSE 0]
SameSession == [s \in TwoStages |-> s = review]
SideEffects == [s \in TwoStages |->
    [c \in {"pass", "fail"} |-> IF c = "fail" THEN {}
                                ELSE IF s = implement THEN {"verify"} ELSE {"gate", "pr"}]]
AnyVerdict == {"pass", "fail"}
EveryVerdict == AnyVerdict \cup {"low", "human"}
=============================================================================
