----------------------------- MODULE MCGraphRun -----------------------------
(* Constants of the runs that model-check GraphRun.                        *)
EXTENDS GraphRun

Deploy(m, c, r) == [mode |-> m, cancels |-> c, reaps |-> r]

AllDeployments ==
    {Deploy("inline", c, FALSE) : c \in BOOLEAN}
        \cup {Deploy("dispatch", c, r) : c \in BOOLEAN, r \in BOOLEAN}
Cancelled == {Deploy("inline", TRUE, FALSE)}
=============================================================================
