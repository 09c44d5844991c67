----------------------------- MODULE MCRoutines -----------------------------
(* Constants of the runs that model-check Routines.                        *)
EXTENDS Routines

CONSTANTS n1, n2, c1

\* The CLI runs on the machine of the second node.
TwoHosts == [a \in Actor |-> IF a = n1 THEN "host1" ELSE "host2"]

Schedule(kind, missed, backend, flaky) ==
  [kind |-> kind, missed |-> missed, backend |-> backend, flaky |-> flaky]
AllWorlds == {Schedule("cron", "coalesce", "postgres", TRUE),
              Schedule("cron", "run_each", "postgres", FALSE),
              Schedule("daily", "skip", "postgres", FALSE),
              Schedule("daily", "run_each", "sqlite", TRUE)}
=============================================================================
