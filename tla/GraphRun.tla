------------------------------ MODULE GraphRun ------------------------------
(***************************************************************************)
(* An orchestration run that is a pipeline of members: a workflow, or a    *)
(* team of kind "graph".  _execute_orchestration_run and                   *)
(* _resume_orchestration_in_background drive CompiledStateGraph.invoke     *)
(* over the graph checkpoint store; a member that calls a gated tool       *)
(* pauses the graph, and the run with it, until somebody decides.          *)
(*                                                                         *)
(* One run is modelled.  Its nodes are 1..N, one per superstep, and a      *)
(* graph checkpoint is its frontier (N + 1 once it is empty) with the      *)
(* member checkpoint it is paused on.  What a member says is left out; how *)
(* often it has done its work is counted.                                  *)
(***************************************************************************)
EXTENDS Naturals, FiniteSets

CONSTANTS
    N,               \* members of the pipeline
    MaxGraphs,       \* bound on the times the run is executed
    MaxPauses,       \* bound on the pauses
    MaxCrashes,      \* bound on crashes
    Worlds           \* the deployments considered, see World

\* mode:    who drives the run, as in RunAdmission.
\* cancels: the run may outlast run_timeout_seconds, or be cancelled by the
\*          shutdown of the server.
\* reaps:   an approval may take longer than the lease of the run, and the
\*          reaper may find the resumed run.
World == [mode : {"inline", "dispatch"}, cancels : BOOLEAN, reaps : BOOLEAN]

\* An execution is due to the creation of the run, to a crash, to a resume
\* that is reaped, or to a retry: the bound never keeps a queued run waiting.
ASSUME GraphAssumption ==
    /\ N \in Nat \ {0} /\ MaxGraphs \in Nat
    /\ MaxPauses \in Nat /\ MaxCrashes \in Nat
    /\ MaxGraphs > MaxPauses + MaxCrashes
    /\ Worlds \subseteq World

Node == 1..N
Graph == 1..MaxGraphs            \* ids of graph checkpoints; 0 is none
Pause == 1..MaxPauses            \* ids of member checkpoints; 0 is none
Driver == {"execute", "resume"}

VARIABLES
    world,           \* the deployment, fixed for ever
    run,             \* the run record
    graph,           \* the graph checkpoint store
    member,          \* the member checkpoint store
    drv,             \* the driver that executes and the one that resumes
    graphs,          \* graph checkpoint ids given out
    pauses,          \* member checkpoint ids given out
    up,              \* the process runs
    crashes,         \* crashes so far
    done             \* how often each member has done its work (history)
storeVars == <<run, graph, member>>
envVars == <<world, up, crashes>>
vars == <<storeVars, drv, graphs, pauses, envVars, done>>

NoGraph == [status |-> "absent", at |-> 1, pause |-> 0]
GraphCheckpoint ==
    [status : {"absent", "running", "interrupted", "completed"},
     at : 1..(N + 1), pause : Pause \cup {0}]
Off == [pc |-> "off", id |-> 0, at |-> 1, pause |-> 0]
InLoop == {"loop", "ran", "paused"}
InSplice == {"claim", "tool", "repaused", "splice"}
Outcome == {"completed", "interrupted", "failed"}

RunStatus == {"QUEUED", "RUNNING", "AWAITING_APPROVAL", "RESOLVING",
              "SUCCEEDED", "FAILED"}
Moving == {"QUEUED", "RUNNING", "RESOLVING"}

TypeOK ==
    /\ world \in Worlds
    /\ run \in [status : RunStatus, graph : Graph \cup {0}]
    /\ graph \in [Graph -> GraphCheckpoint]
    /\ member \in [Pause -> {"absent", "awaiting", "resolving", "resolved"}]
    /\ drv \in [Driver -> [pc : {"off", "policy"} \cup InLoop \cup InSplice \cup Outcome,
                           id : Graph \cup {0}, at : 1..(N + 1),
                           pause : Pause \cup {0}]]
    /\ graphs \in 0..MaxGraphs /\ pauses \in 0..MaxPauses
    /\ up \in BOOLEAN /\ crashes \in 0..MaxCrashes
    /\ done \in [Node -> Nat]

Init ==
    /\ world \in Worlds
    /\ run = [status |-> "QUEUED", graph |-> 0]
    /\ graph = [g \in Graph |-> NoGraph]
    /\ member = [p \in Pause |-> "absent"]
    /\ drv = [d \in Driver |-> Off]
    /\ graphs = 0 /\ pauses = 0
    /\ up = TRUE /\ crashes = 0
    /\ done = [n \in Node |-> 0]

-----------------------------------------------------------------------------
(* Helpers.                                                                *)

Dispatch == world.mode = "dispatch"
SaveStatus(s) == run' = [run EXCEPT !.status = s]
Goto(d, label) == drv' = [drv EXCEPT ![d].pc = label]

\* GraphCheckpointStore.save of the copy that a driver works on.
SaveGraph(id, status, at, pause) ==
    graph' = [graph EXCEPT ![id] = [status |-> status, at |-> at,
                                    pause |-> pause]]

-----------------------------------------------------------------------------
(* A fresh invoke: the background task of an inline run, or the worker of  *)
(* the dispatcher.                                                         *)

\* No caller of create_orchestration_run passes graph_resume_id, so every
\* execution begins a graph of its own at the entry point.
Execute ==
    /\ up /\ run.status = "QUEUED" /\ drv["execute"].pc = "off"
    /\ graphs < MaxGraphs
    /\ graphs' = graphs + 1
    /\ SaveStatus("RUNNING")
    /\ drv' = [drv EXCEPT !["execute"] =
                 [pc |-> "loop", id |-> graphs + 1, at |-> 1, pause |-> 0]]
    /\ UNCHANGED <<graph, member, pauses, envVars, done>>

-----------------------------------------------------------------------------
(* _run_loop, one node per superstep.                                      *)

\* The node of the frontier runs to its end ...
RunNode(d) ==
    /\ up /\ drv[d].pc = "loop" /\ drv[d].at \in Node
    /\ done' = [done EXCEPT ![drv[d].at] = @ + 1]
    /\ Goto(d, "ran")
    /\ UNCHANGED <<storeVars, graphs, pauses, envVars>>

\* ... or fails ...
FailNode(d) ==
    /\ up /\ drv[d].pc = "loop" /\ drv[d].at \in Node
    /\ Goto(d, "failed")
    /\ UNCHANGED <<storeVars, graphs, pauses, envVars, done>>

\* ... or its member saves a checkpoint for a gated tool (NodeInterrupt).
PauseNode(d) ==
    /\ up /\ drv[d].pc = "loop" /\ drv[d].at \in Node
    /\ pauses < MaxPauses
    /\ pauses' = pauses + 1
    /\ member' = [member EXCEPT ![pauses + 1] = "awaiting"]
    /\ drv' = [drv EXCEPT ![d].pc = "paused", ![d].pause = pauses + 1]
    /\ UNCHANGED <<run, graph, graphs, envVars, done>>

\* The pause is saved with the node still in the frontier.
SaveInterrupt(d) ==
    /\ up /\ drv[d].pc \in {"paused", "repaused"}
    /\ SaveGraph(drv[d].id, "interrupted", drv[d].at, drv[d].pause)
    /\ Goto(d, "interrupted")
    /\ UNCHANGED <<run, member, graphs, pauses, envVars, done>>

\* The superstep is saved with the next frontier.
SaveSuperstep(d) ==
    /\ up /\ drv[d].pc = "ran"
    /\ SaveGraph(drv[d].id, "running", drv[d].at + 1, 0)
    /\ drv' = [drv EXCEPT ![d].pc = "loop", ![d].at = @ + 1]
    /\ UNCHANGED <<run, member, graphs, pauses, envVars, done>>

\* Mutant: the loop ends before the last node.
FrontierAtLast(d) == drv[d].at >= N

FrontierEmpty(d) == drv[d].at = N + 1

SaveCompleted(d) ==
    /\ up /\ drv[d].pc = "loop" /\ FrontierEmpty(d)
    /\ SaveGraph(drv[d].id, "completed", drv[d].at, 0)
    /\ Goto(d, "completed")
    /\ UNCHANGED <<run, member, graphs, pauses, envVars, done>>

\* invoke catches the cancellation that a timeout of the run, or the drain
\* at shutdown, throws into the loop: it saves the graph as interrupted and
\* returns, as if nothing had been cancelled.
CancelLoop(d) ==
    /\ up /\ world.cancels /\ drv[d].pc \in InLoop \cup {"completed"}
    /\ SaveGraph(drv[d].id, "interrupted", drv[d].at, 0)
    /\ drv' = [drv EXCEPT ![d].pc = "interrupted", ![d].pause = 0]
    /\ UNCHANGED <<run, member, graphs, pauses, envVars, done>>

\* Outside of the loop the cancellation reaches the driver.
CancelSplice ==
    /\ up /\ world.cancels /\ drv["resume"].pc \in InSplice
    /\ Goto("resume", "failed")
    /\ UNCHANGED <<storeVars, graphs, pauses, envVars, done>>

-----------------------------------------------------------------------------
(* The outcome of invoke and what the driver makes of it.                  *)

\* Mutant: the id of the paused graph is not stamped on the run again.
OutcomeRunStaleId(d) ==
    CASE drv[d].pc = "failed" -> [run EXCEPT !.status = "FAILED"]
      [] drv[d].pc = "interrupted" /\ drv[d].pause # 0 ->
           [run EXCEPT !.status = "AWAITING_APPROVAL",
                       !.graph = IF @ = 0 THEN drv[d].id ELSE @]
      [] OTHER -> [run EXCEPT !.status = "SUCCEEDED"]

\* _project_graph_result with _apply_orchestration_outcome: an interrupt with
\* a member is a pause; one without is no failure.
OutcomeRun(d) ==
    CASE drv[d].pc = "failed" -> [run EXCEPT !.status = "FAILED"]
      [] drv[d].pc = "interrupted" /\ drv[d].pause # 0 ->
           [run EXCEPT !.status = "AWAITING_APPROVAL", !.graph = drv[d].id]
      [] OTHER -> [run EXCEPT !.status = "SUCCEEDED"]

ApplyOutcome(d) ==
    /\ up /\ drv[d].pc \in Outcome
    /\ run' = OutcomeRun(d)
    /\ drv' = [drv EXCEPT ![d] = IF d = "execute" /\ Dispatch
                                 THEN [Off EXCEPT !.pc = "policy"] ELSE Off]
    /\ UNCHANGED <<graph, member, graphs, pauses, envVars, done>>

\* apply_retry_policy, after the worker's drive: a failed run is put back
\* in the queue, or left as it is.
RoomToRetry ==
    graphs + (MaxCrashes - crashes) + (MaxPauses - pauses) + 1 < MaxGraphs

ApplyRetryPolicy ==
    /\ up /\ drv["execute"].pc = "policy"
    /\ \/ run.status = "FAILED" /\ RoomToRetry /\ SaveStatus("QUEUED")
       \/ UNCHANGED run
    /\ Goto("execute", "off")
    /\ UNCHANGED <<graph, member, graphs, pauses, envVars, done>>

-----------------------------------------------------------------------------
(* resume_run and the splice of the decided member.                        *)

\* claim_run_for_resume
Claimable == run.status = "AWAITING_APPROVAL"

ClaimRun ==
    /\ up /\ Claimable /\ drv["resume"].pc = "off"
    /\ SaveStatus("RESOLVING")
    /\ UNCHANGED <<graph, member, drv, graphs, pauses, envVars, done>>

\* _resume_orchestration marks the run RUNNING and launches the task, which
\* loads the graph.  After a restart reconcile_resolving_runs comes here too.
LaunchResume ==
    /\ up /\ run.status = "RESOLVING" /\ drv["resume"].pc = "off"
    /\ SaveStatus("RUNNING")
    /\ drv' = [drv EXCEPT !["resume"] =
                 [pc |-> "claim", id |-> run.graph,
                  at |-> graph[run.graph].at,
                  pause |-> graph[run.graph].pause]]
    /\ UNCHANGED <<graph, member, graphs, pauses, envVars, done>>

\* resume_agent_loop claims the member checkpoint.  A member that is resolved
\* already either is advanced past with what it recorded, if the stored graph
\* is still paused on it, or means that another resume won.
ClaimMember ==
    /\ up /\ drv["resume"].pc = "claim"
    /\ LET c == drv["resume"].pause
           g == drv["resume"].id
       IN  \/ /\ c # 0 /\ member[c] \in {"awaiting", "resolving"}
              /\ member' = [member EXCEPT ![c] = "resolving"]
              /\ Goto("resume", "tool")
           \/ /\ c # 0 /\ member[c] = "resolved"
              /\ IF graph[g].pause = c THEN Goto("resume", "splice")
                                       ELSE drv' = [drv EXCEPT !["resume"] = Off]
              /\ UNCHANGED member
           \/ /\ c = 0 /\ Goto("resume", "loop") /\ UNCHANGED member
    /\ UNCHANGED <<run, graph, graphs, pauses, envVars, done>>

\* The decision is applied, the checkpoint resolved, and the member ends ...
FinishMember ==
    /\ up /\ drv["resume"].pc = "tool"
    /\ member' = [member EXCEPT ![drv["resume"].pause] = "resolved"]
    /\ done' = [done EXCEPT ![drv["resume"].at] = @ + 1]
    /\ Goto("resume", "splice")
    /\ UNCHANGED <<run, graph, graphs, pauses, envVars>>

\* ... or pauses again: the graph is stamped with the new checkpoint.
PauseMember ==
    /\ up /\ drv["resume"].pc = "tool" /\ pauses < MaxPauses
    /\ pauses' = pauses + 1
    /\ member' = [member EXCEPT ![drv["resume"].pause] = "resolved",
                                ![pauses + 1] = "awaiting"]
    /\ drv' = [drv EXCEPT !["resume"].pc = "repaused",
                          !["resume"].pause = pauses + 1]
    /\ UNCHANGED <<run, graph, graphs, envVars, done>>

FailMember ==
    /\ up /\ drv["resume"].pc = "tool"
    /\ Goto("resume", "failed")
    /\ UNCHANGED <<storeVars, graphs, pauses, envVars, done>>

\* Mutants: the resumed node stays in the frontier; it is completed twice.
SpliceInPlace == drv["resume"].at
SpliceTwice == drv["resume"].at + 2

\* _splice_member_resume: the paused node is completed once.
SpliceNext == drv["resume"].at + 1

Splice ==
    /\ up /\ drv["resume"].pc = "splice"
    /\ SaveGraph(drv["resume"].id, "running", SpliceNext, 0)
    /\ drv' = [drv EXCEPT !["resume"].pc = "loop", !["resume"].at = SpliceNext,
                          !["resume"].pause = 0]
    /\ UNCHANGED <<run, member, graphs, pauses, envVars, done>>

-----------------------------------------------------------------------------
(* The reaper, crashes and the start of the process.                       *)

\* requeue_expired_leases: a run whose driver is dead; and, where reaps is
\* set, a resumed run, whose lease nobody renews.
Requeue ==
    /\ up /\ Dispatch /\ run.status = "RUNNING"
    /\ drv["execute"].pc = "off"
    /\ drv["resume"].pc # "off" => world.reaps
    /\ SaveStatus("QUEUED")
    /\ UNCHANGED <<graph, member, drv, graphs, pauses, envVars, done>>

Crash ==
    /\ up /\ crashes < MaxCrashes
    /\ up' = FALSE /\ crashes' = crashes + 1
    /\ drv' = [d \in Driver |-> Off]
    /\ UNCHANGED <<storeVars, graphs, pauses, world, done>>

\* Mutant: the sweep looks for runs that have not started.
SweptStatusQueuedOnly ==
    IF ~Dispatch /\ run.status = "QUEUED" THEN "FAILED" ELSE run.status

\* sweep_stuck_runs; with the dispatcher the reaper finds the run (Requeue).
SweptStatus ==
    IF ~Dispatch /\ run.status \in {"QUEUED", "RUNNING"}
    THEN "FAILED" ELSE run.status

Restart ==
    /\ ~up /\ up' = TRUE
    /\ SaveStatus(SweptStatus)
    /\ UNCHANGED <<graph, member, drv, graphs, pauses, world, crashes, done>>

-----------------------------------------------------------------------------

DriverStep(d) ==
    \/ RunNode(d) \/ FailNode(d) \/ PauseNode(d)
    \/ SaveInterrupt(d) \/ SaveSuperstep(d) \/ SaveCompleted(d)
    \/ CancelLoop(d) \/ ApplyOutcome(d)

SpliceStep ==
    ClaimMember \/ FinishMember \/ PauseMember \/ FailMember \/ Splice
    \/ CancelSplice

Next ==
    \/ Execute \/ ApplyRetryPolicy \/ ClaimRun \/ LaunchResume
    \/ \E d \in Driver : DriverStep(d)
    \/ SpliceStep
    \/ Requeue \/ Crash \/ Restart

\* The drivers, the dispatcher and the reaper run while the process does,
\* and a dead server is started again.  Nobody has to decide a pause.
Fairness ==
    /\ WF_vars(Execute) /\ WF_vars(ApplyRetryPolicy)
    /\ WF_vars(LaunchResume) /\ WF_vars(SpliceStep)
    /\ \A d \in Driver : WF_vars(DriverStep(d))
    /\ WF_vars(Requeue /\ drv["resume"].pc = "off") /\ WF_vars(Restart)

Spec == Init /\ [][Next]_vars /\ Fairness

-----------------------------------------------------------------------------
(* Properties.                                                             *)

\* A run is recorded as SUCCEEDED only when a graph of it has completed, so
\* every member has done its work, through pauses, resumes and crashes.
SucceededMeansComplete ==
    run.status = "SUCCEEDED" =>
        /\ \A n \in Node : done[n] > 0
        /\ \E g \in Graph : graph[g].status = "completed"

\* The same where nothing cancels a driver.
SucceededIfUncancelled == ~world.cancels => SucceededMeansComplete

\* A member of an inline run does its work at most once, whichever step a
\* crash or a cancellation falls between: no resume runs a completed node
\* again.  (The dispatcher begins the graph anew, so only one graph's worth
\* of work per execution can be said of it.)
MemberWorksOnce ==
    \A n \in Node : done[n] <= IF Dispatch THEN graphs ELSE 1

\* While a run waits for an approval, its record leads to a graph that is
\* paused on a member checkpoint that waits as well, even if the reaper has
\* put a second driver beside a resume: the decision can be carried out.
PauseIsResumable ==
    run.status = "AWAITING_APPROVAL" =>
        /\ run.graph # 0
        /\ graph[run.graph].status = "interrupted"
        /\ graph[run.graph].pause # 0
        /\ member[graph[run.graph].pause] = "awaiting"

\* A stored graph never goes back to an earlier node, and leaves a pause only
\* for a later node or for a later pause of the same member.
GraphAdvances ==
    [][\A g \in Graph :
         /\ graph'[g].at >= graph[g].at
         /\ (graph[g].pause # 0 /\ graph'[g].pause # graph[g].pause) =>
              \/ graph'[g].at > graph[g].at
              \/ graph'[g].pause > graph[g].pause]_vars

\* A run that is queued, driven or being resumed comes to an end or to a
\* pause.
EventuallyRests ==
    (run.status \in Moving) ~> (run.status \notin Moving)
=============================================================================
