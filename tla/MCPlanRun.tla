------------------------------- MODULE MCPlanRun -------------------------------
(* TLC instances of PlanRun: two or three calls, one of them with a fallback, *)
(* carried out by one or two workers.                                         *)
EXTENDS PlanRun, TLC

CONSTANTS v, w

Quiet == [stream |-> "events", mode |-> "parallel", chain |-> <<2, 1>>, parallel |-> 2,
          keep |-> FALSE, env |-> {}]

\* Siblings of a failing call, one with a fallback, on a store that may fail.
MCParallel == {[Quiet EXCEPT !.env = {"storefails"}]}
\* A queue that fills up: one worker is ahead of the stream.
MCNarrow == {[Quiet EXCEPT !.chain = <<1, 2>>, !.parallel = 1, !.env = {"removals"}]}
MCSequential == {[Quiet EXCEPT !.mode = "sequential",
                               !.env = {"closes", "storefails", "drops", "removals"}]}
MCStubborn == {[Quiet EXCEPT !.chain = <<1, 1>>, !.env = {"swallows", "closes", "storefails"}]}
MCResults == {[Quiet EXCEPT !.stream = "results", !.chain = <<1, 1, 1>>, !.keep = k,
                            !.env = {"closes"}] : k \in BOOLEAN}
             \cup {[Quiet EXCEPT !.stream = "results", !.chain = <<1, 1, 1>>, !.parallel = 1]}

MCPass == MCParallel \cup MCNarrow \cup MCSequential \cup MCStubborn \cup MCResults
MCDrops == {[Quiet EXCEPT !.chain = <<1, 1>>, !.env = {"drops"}]}
MCSwallows == {[Quiet EXCEPT !.stream = "results", !.chain = <<1, 1, 1>>, !.parallel = 1, !.env = {"swallows"}]}
MCRemovals == {[Quiet EXCEPT !.env = {"removals"}]}
=============================================================================
