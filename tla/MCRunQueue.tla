----------------------------- MODULE MCRunQueue -----------------------------
(* Constants of the runs that model-check RunQueue.                        *)
EXTENDS RunQueue, TLC

CONSTANTS r1, r2, p1, p2

TwoRuns == {r1, r2}
OneRun == {r1}
OneWorkspace == [r \in Run |-> "ws"]
CloudOnly == [r \in Run |-> "cloud"]
OneRaiseEach == [r \in Run |-> 1]
OneRaiseOfR2 == [r \in Run |-> IF r = r2 THEN 1 ELSE 0]
LocalAndCloud == [r \in Run |-> IF r = r1 THEN "local" ELSE "cloud"]

\* The dispatchers are interchangeable; the runs are not (AnyRun).
SameDispatchers == Permutations(Proc)
=============================================================================
