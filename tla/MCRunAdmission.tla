--------------------------- MODULE MCRunAdmission ---------------------------
(* Constants of the runs that model-check RunAdmission.                    *)
EXTENDS RunAdmission

CONSTANTS q1, q2, c1, k1

Deploy(m, f, t) == [mode |-> m, flaky |-> f, teams |-> t]

Sound == {Deploy("inline", FALSE, TRUE), Deploy("inline", TRUE, FALSE),
      Deploy("dispatch", FALSE, FALSE), Deploy("dispatch", TRUE, FALSE)}
=============================================================================
