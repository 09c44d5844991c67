---------------------------- MODULE MCAgentLoop ----------------------------
(* Constants of the runs that model-check AgentLoop.                       *)
EXTENDS AgentLoop

Install(m, h, l, s, a) ==
    [manager |-> m, hitl |-> h, local |-> l, schema |-> s, ambiguous |-> a]

\* Both managers, with and without hitl, both kinds of writing tools, with and
\* without a structured reply.
Dependable ==
    {Install(m, h, l, s, FALSE) :
        m \in {"calls", "round_trip"}, h \in BOOLEAN, l \in BOOLEAN, s \in BOOLEAN}
AmbiguousUpstream == {Install("calls", FALSE, FALSE, FALSE, TRUE)}
=============================================================================
