----------------------------- MODULE HitlResume -----------------------------
(***************************************************************************)
(* Human approval of a paused run: the pause on an approval-gated tool, the *)
(* two-level claim (run row, then agent checkpoint), the per-tool ledger    *)
(* that makes the gated side effect happen once, and the start-up recovery  *)
(* of a resume that died (himmy/application/run_drive.py resume_run and     *)
(* _resume_in_background, himmy/runtime/resume.py, himmy/runtime/           *)
(* checkpoint.py, himmy/application/run_recovery.py).                       *)
(*                                                                         *)
(* One run of the durable store, under dispatch.  Requests are the resumes: *)
(* an approve/reject call of a human, or a re-drive by start-up recovery,   *)
(* and the background task it launches.  Each holds the RunRecord it read   *)
(* and writes the whole record back.  The /v1 service builds a fresh        *)
(* runtime for every resume, so the runtime's resume lock never spans two.  *)
(***************************************************************************)
EXTENDS Integers, FiniteSets

CONSTANTS
    Req,           \* resume requests in flight
    Proc,          \* server processes, in incarnations
    NoProc,        \* the process of an idle request
    MaxPauses,     \* bound on the checkpoints the run writes
    MaxCalls,      \* pending gated calls on a checkpoint
    EffectCap,     \* bound on the executions of one call that are counted
    StartAlone,    \* processes start one at a time and with no resume in flight
    LeaseHolds,    \* a lease never runs out under a live driver or resume
    PromptClaim,   \* a request that read a pause claims it before the next pause
    CrashInClaim,  \* a process may die between its claim and its decision
    Restarts       \* a process that ends is followed by the start of another

ASSUME ProcAssumption == NoProc \notin Proc

ASSUME BoundAssumption ==
    /\ MaxPauses \in Nat \ {0} /\ MaxCalls \in Nat \ {0} /\ EffectCap \in Nat \ {0}

ASSUME ModeAssumption ==
    /\ StartAlone \in BOOLEAN /\ LeaseHolds \in BOOLEAN
    /\ PromptClaim \in BOOLEAN /\ CrashInClaim \in BOOLEAN /\ Restarts \in BOOLEAN

Ckpt == 1..MaxPauses
Call == 1..MaxCalls
Answer == {"approved", "rejected"}

\* The run row: `ckpt` is metadata['checkpoint_id'] and `decision` is
\* metadata['resume_decision']; the lease is what its timestamp says now.
RunRecord ==
    [status : {"QUEUED", "RUNNING", "AWAITING_APPROVAL", "RESOLVING",
               "SUCCEEDED", "FAILED"},
     lease : {"none", "live", "expired"},
     ckpt : 0..MaxPauses,
     decision : Answer \cup {"none"}]

\* The stored AgentCheckpoint: its status and its executed_tool_results.
Checkpoint ==
    [status : {"absent", "awaiting_approval", "resolving", "approved", "rejected"},
     ledger : SUBSET Call]

NoRun == [status |-> "QUEUED", lease |-> "none", ckpt |-> 0, decision |-> "none"]
NoCheckpoint == [status |-> "absent", ledger |-> {}]

(* Where a resume stands.  Recovery: "reopen" (listed the RESOLVING run),   *)
(* "reread".  Request: "validated" (about to claim the run), "claimed",     *)
(* "decided" (decision saved).  Background task: "waiting" (semaphore),     *)
(* "ready" (holds a fresh copy of the run), "loading" (checkpoint claimed), *)
(* "calls" (about to look the next call up), "executing", "recording",      *)
(* "continuing" (checkpoint resolved, the loop goes on), "pausing" (the     *)
(* next checkpoint is saved, the run not yet).                              *)
InHandler == {"reopen", "reread", "validated", "claimed", "decided"}
InLoop == {"ready", "loading", "calls", "executing", "recording", "continuing"}
InTask == InLoop \cup {"pausing"}
ReqPc == {"idle", "waiting"} \cup InHandler \cup InTask
Claimed == {"claimed", "decided", "waiting"} \cup InTask

VARIABLES
    run,       \* the row of the runs table
    ck,        \* the agent_checkpoints table
    mode,      \* life cycle of a process
    driver,    \* whether a dispatcher worker of the process drives the run
    draft,     \* the RunRecord that worker holds
    pc, at, answer, target, copy, snap, call,   \* per request
    effects,   \* executions of each gated call (history)
    granted    \* checkpoints a human's winning request approved (history)

reqVars == <<pc, at, answer, target, copy, snap, call>>
driveVars == <<driver, draft>>
history == <<effects, granted>>
vars == <<run, ck, mode, driveVars, reqVars, history>>

TypeOK ==
    /\ run \in RunRecord
    /\ ck \in [Ckpt -> Checkpoint]
    /\ mode \in [Proc -> {"new", "recovering", "up", "stopping", "down"}]
    /\ driver \in [Proc -> BOOLEAN]
    /\ draft \in [Proc -> RunRecord]
    /\ pc \in [Req -> ReqPc]
    /\ at \in [Req -> Proc \cup {NoProc}]
    /\ answer \in [Req -> Answer]
    /\ target \in [Req -> 0..MaxPauses]
    /\ copy \in [Req -> RunRecord]
    /\ snap \in [Req -> Checkpoint]
    /\ call \in [Req -> 1..(MaxCalls + 1)]
    /\ effects \in [Ckpt -> [Call -> 0..EffectCap]]
    /\ granted \subseteq Ckpt

Init ==
    /\ run = NoRun
    /\ ck = [c \in Ckpt |-> NoCheckpoint]
    /\ mode = [p \in Proc |-> "new"]
    /\ driver = [p \in Proc |-> FALSE]
    /\ draft = [p \in Proc |-> NoRun]
    /\ pc = [q \in Req |-> "idle"]
    /\ at = [q \in Req |-> NoProc]
    /\ answer = [q \in Req |-> "rejected"]
    /\ target = [q \in Req |-> 0]
    /\ copy = [q \in Req |-> NoRun]
    /\ snap = [q \in Req |-> NoCheckpoint]
    /\ call = [q \in Req |-> 1]
    /\ effects = [c \in Ckpt |-> [k \in Call |-> 0]]
    /\ granted = {}

-----------------------------------------------------------------------------
Resuming == {q \in Req : pc[q] # "idle"}

Goto(q, label) == pc' = [pc EXCEPT ![q] = label]

\* save_run: the whole record, unconditionally.
SaveRun(rec) == run' = rec

\* The requests of Q end (answered, failed, or dead with their process).
Drop(Q) ==
    /\ pc' = [q \in Req |-> IF q \in Q THEN "idle" ELSE pc[q]]
    /\ at' = [q \in Req |-> IF q \in Q THEN NoProc ELSE at[q]]
    /\ answer' = [q \in Req |-> IF q \in Q THEN "rejected" ELSE answer[q]]
    /\ target' = [q \in Req |-> IF q \in Q THEN 0 ELSE target[q]]
    /\ copy' = [q \in Req |-> IF q \in Q THEN NoRun ELSE copy[q]]
    /\ snap' = [q \in Req |-> IF q \in Q THEN NoCheckpoint ELSE snap[q]]
    /\ call' = [q \in Req |-> IF q \in Q THEN 1 ELSE call[q]]

\* save_checkpoint of a pause: a fresh id, awaiting_approval, empty ledger.
NewCheckpoint(c) ==
    /\ ck[c].status = "absent" /\ \A d \in Ckpt : d < c => ck[d].status # "absent"
    /\ ck' = [ck EXCEPT ![c] = [status |-> "awaiting_approval", ledger |-> {}]]

\* With PromptClaim a run is not paused again under a request that has read an
\* earlier pause and not yet claimed it.
Announceable == PromptClaim => \A q \in Req : pc[q] # "validated"

-----------------------------------------------------------------------------
(* The dispatcher, as far as the paused run is concerned (see RunQueue).    *)

\* claim_next_queued_run and the spawn of a worker.
DriveRun(p) ==
    /\ mode[p] = "up" /\ ~driver[p]
    /\ run.status = "QUEUED"
    /\ LET claimed == [run EXCEPT !.status = "RUNNING", !.lease = "live"]
       IN  /\ SaveRun(claimed)
           /\ draft' = [draft EXCEPT ![p] = claimed]
    /\ driver' = [driver EXCEPT ![p] = TRUE]
    /\ UNCHANGED <<ck, mode, reqVars, history>>

\* The loop of the drive pauses on a gated tool: its checkpoint is saved, and
\* the worker's record points to it.
PauseDrive(p, c) ==
    /\ driver[p] /\ draft[p].status = "RUNNING"
    /\ NewCheckpoint(c)
    /\ draft' = [draft EXCEPT ![p].status = "AWAITING_APPROVAL", ![p].ckpt = c]
    /\ UNCHANGED <<run, mode, driver, reqVars, history>>

\* _drive_hitl_run and _apply_loop_outcome save the run: paused, succeeded or
\* failed.  A drive stands for all the attempts that the retry policy grants a
\* transient failure (RunQueue has them one by one).  The row gets the lease of
\* claim time back, good or run out by now.
EndDrive(p) ==
    /\ driver[p]
    /\ \E lease \in {"live"} \cup (IF LeaseHolds THEN {} ELSE {"expired"}) :
          \/ /\ draft[p].status = "AWAITING_APPROVAL" /\ Announceable
             /\ SaveRun([draft[p] EXCEPT !.lease = lease])
          \/ /\ draft[p].status = "RUNNING"
             /\ \E s \in {"SUCCEEDED", "FAILED"} :
                   SaveRun([draft[p] EXCEPT !.status = s, !.lease = lease])
    /\ driver' = [driver EXCEPT ![p] = FALSE]
    /\ draft' = [draft EXCEPT ![p] = NoRun]
    /\ UNCHANGED <<ck, mode, reqVars, history>>

\* Mutant: the reaper looks for rows without a lease.
RequeuedNoLease ==
    IF run.status = "RUNNING" /\ run.lease = "none"
    THEN [run EXCEPT !.status = "QUEUED"] ELSE run

\* requeue_expired_leases.
Requeued ==
    IF run.status = "RUNNING" /\ run.lease = "expired"
    THEN [run EXCEPT !.status = "QUEUED", !.lease = "none"] ELSE run

Reap(p) ==
    /\ mode[p] = "up"
    /\ Requeued # run
    /\ SaveRun(Requeued)
    /\ UNCHANGED <<ck, mode, driveVars, reqVars, history>>

\* Time passes: the lease runs out, in the row and in every copy of it.  Only
\* a driving worker renews it; nothing renews it for a resume.
Outdated(rec) == IF rec.lease = "live" THEN [rec EXCEPT !.lease = "expired"] ELSE rec
LeaseRunsOut ==
    /\ run.lease = "live"
    /\ \A p \in Proc : ~driver[p]
    /\ LeaseHolds => run.status = "RUNNING" /\ \A q \in Req : pc[q] \notin Claimed
    /\ SaveRun(Outdated(run))
    /\ copy' = [q \in Req |-> Outdated(copy[q])]
    /\ UNCHANGED <<ck, mode, driveVars, pc, at, answer, target, snap, call, history>>

-----------------------------------------------------------------------------
(* resume_run: the approve or reject call.                                 *)

\* get_run and the checks that answer 404/409 before anything is claimed.
Receive(q, p, a) ==
    /\ pc[q] = "idle" /\ mode[p] = "up"
    /\ StartAlone => \A r \in Proc : mode[r] # "recovering"
    /\ run.status = "AWAITING_APPROVAL"
    /\ Goto(q, "validated")
    /\ at' = [at EXCEPT ![q] = p]
    /\ answer' = [answer EXCEPT ![q] = a]
    /\ target' = [target EXCEPT ![q] = run.ckpt]
    /\ copy' = [copy EXCEPT ![q] = run]
    /\ UNCHANGED <<run, ck, mode, driveVars, snap, call, history>>

\* Mutants: the claim also takes a run that is being resolved already, or
\* has no status condition at all.
ClaimableForResumeResolving == run.status \in {"AWAITING_APPROVAL", "RESOLVING"}
ClaimableForResumeAny == TRUE

ClaimableForResume == run.status = "AWAITING_APPROVAL"

\* claim_run_for_resume: the compare-and-set; the loser gets a 409.
ClaimRun(q) ==
    /\ pc[q] = "validated"
    /\ \/ /\ ClaimableForResume
          /\ SaveRun([run EXCEPT !.status = "RESOLVING"])
          /\ granted' = IF answer[q] = "approved" /\ mode[at[q]] # "recovering"
                        THEN granted \cup {target[q]} ELSE granted
          /\ Goto(q, "claimed")
          /\ UNCHANGED <<at, answer, target, copy, snap, call>>
       \/ /\ ~ClaimableForResume
          /\ Drop({q})
          /\ UNCHANGED <<run, granted>>
    /\ UNCHANGED <<ck, mode, driveVars, effects>>

\* The decision is saved with the RESOLVING record.
RecordDecision(q) ==
    LET rec == [copy[q] EXCEPT !.status = "RESOLVING", !.decision = answer[q]]
    IN  /\ pc[q] = "claimed"
        /\ SaveRun(rec)
        /\ copy' = [copy EXCEPT ![q] = rec]
        /\ Goto(q, "decided")
        /\ UNCHANGED <<ck, mode, driveVars, at, answer, target, snap, call, history>>

\* RESOLVING -> RUNNING "up front", and the background task is launched.
LaunchTask(q) ==
    /\ pc[q] = "decided"
    /\ SaveRun([copy[q] EXCEPT !.status = "RUNNING"])
    /\ Goto(q, "waiting")
    /\ UNCHANGED <<ck, mode, driveVars, at, answer, target, copy, snap, call, history>>

-----------------------------------------------------------------------------
(* _resume_in_background and resume_agent_loop_locked.                      *)

\* The semaphore is acquired and the run is read again.
BeginTask(q) ==
    /\ pc[q] = "waiting"
    /\ copy' = [copy EXCEPT ![q] = run]
    /\ Goto(q, "ready")
    /\ UNCHANGED <<run, ck, mode, driveVars, at, answer, target, snap, call, history>>

\* The runtime cannot be rebuilt, the resume times out, fails or is cancelled
\* by a drain: FAILED is written on the copy.
FailTask(q) ==
    /\ pc[q] \in InLoop
    /\ SaveRun([copy[q] EXCEPT !.status = "FAILED"])
    /\ Drop({q})
    /\ UNCHANGED <<ck, mode, driveVars, history>>

\* A HimmyError from inside the loop is taken for a lost claim: the task ends
\* and the run stays as it is.
AbandonTask(q) ==
    /\ pc[q] \in {"loading", "calls", "continuing"}
    /\ Drop({q})
    /\ UNCHANGED <<run, ck, mode, driveVars, history>>

ClaimableCheckpoint(c) == ck[c].status \in {"awaiting_approval", "resolving"}

\* The checkpoint claim; the loser leaves the run as it is.
ClaimCheckpoint(q) ==
    LET c == target[q]
    IN  /\ pc[q] = "ready"
        /\ \/ /\ ClaimableCheckpoint(c)
              /\ ck' = [ck EXCEPT ![c].status = "resolving"]
              /\ Goto(q, "loading")
              /\ UNCHANGED <<at, answer, target, copy, snap, call>>
           \/ /\ ~ClaimableCheckpoint(c)
              /\ Drop({q})
              /\ UNCHANGED ck
        /\ UNCHANGED <<run, mode, driveVars, history>>

\* Mutant: the pending calls are run whatever the answer.
LoadCheckpointAnyAnswer(q) ==
    /\ pc[q] = "loading"
    /\ snap' = [snap EXCEPT ![q] = ck[target[q]]]
    /\ call' = [call EXCEPT ![q] = 1]
    /\ Goto(q, "calls")
    /\ UNCHANGED <<run, ck, mode, driveVars, at, answer, target, copy, history>>

\* The claimed checkpoint is loaded; a rejection runs no tool.
LoadCheckpoint(q) ==
    /\ pc[q] = "loading"
    /\ snap' = [snap EXCEPT ![q] = ck[target[q]]]
    /\ call' = [call EXCEPT ![q] = IF answer[q] = "approved" THEN 1 ELSE MaxCalls + 1]
    /\ Goto(q, "calls")
    /\ UNCHANGED <<run, ck, mode, driveVars, at, answer, target, copy, history>>

\* The idempotency store's get: the durable ledger, then the loaded one.
Recorded(q) == call[q] \in ck[target[q]].ledger \cup snap[q].ledger

\* Mutant: the loop over the pending calls runs one past the end.
LookupCallPastEnd(q) ==
    /\ pc[q] = "calls"
    /\ IF Recorded(q)
       THEN /\ snap' = [snap EXCEPT ![q].ledger = @ \cup {call[q]}]
            /\ call' = [call EXCEPT ![q] = @ + 1]
            /\ UNCHANGED pc
       ELSE /\ Goto(q, "executing")
            /\ UNCHANGED <<snap, call>>
    /\ UNCHANGED <<run, ck, mode, driveVars, at, answer, target, copy, history>>

\* tool_service.execute, its ledger lookup: replay or go on to execute.
LookupCall(q) ==
    /\ pc[q] = "calls" /\ call[q] \in Call
    /\ IF Recorded(q)
       THEN /\ snap' = [snap EXCEPT ![q].ledger = @ \cup {call[q]}]
            /\ call' = [call EXCEPT ![q] = @ + 1]
            /\ UNCHANGED pc
       ELSE /\ Goto(q, "executing")
            /\ UNCHANGED <<snap, call>>
    /\ UNCHANGED <<run, ck, mode, driveVars, at, answer, target, copy, history>>

\* The tool runs (the side effect), or policy denies it and nothing is recorded.
ExecuteCall(q) ==
    LET c == target[q]
        k == call[q]
    IN  /\ pc[q] = "executing"
        /\ \/ /\ effects' = [effects EXCEPT ![c][k] = IF @ < EffectCap THEN @ + 1 ELSE @]
              /\ Goto(q, "recording")
              /\ UNCHANGED call
           \/ /\ call' = [call EXCEPT ![q] = k + 1]
              /\ Goto(q, "calls")
              /\ UNCHANGED effects
        /\ UNCHANGED <<run, ck, mode, driveVars, at, answer, target, copy, snap, granted>>

\* The idempotency store's put: merge with the durable ledger, save the copy.
RecordCall(q) ==
    LET c == target[q]
        merged == [snap[q] EXCEPT !.ledger = @ \cup ck[c].ledger \cup {call[q]}]
    IN  /\ pc[q] = "recording"
        /\ snap' = [snap EXCEPT ![q] = merged]
        /\ ck' = [ck EXCEPT ![c] = merged]
        /\ call' = [call EXCEPT ![q] = @ + 1]
        /\ Goto(q, "calls")
        /\ UNCHANGED <<run, mode, driveVars, at, answer, target, copy, history>>

\* Every pending call is answered: the checkpoint is resolved.
ResolveCheckpoint(q) ==
    /\ pc[q] = "calls" /\ call[q] \notin Call
    /\ ck' = [ck EXCEPT ![target[q]] = [snap[q] EXCEPT !.status = answer[q]]]
    /\ Goto(q, "continuing")
    /\ UNCHANGED <<run, mode, driveVars, at, answer, target, copy, snap, call, history>>

\* Mutant: the record keeps the id of the pause it was resumed from.
PauseTaskKeepsId(q, c) ==
    /\ pc[q] = "continuing"
    /\ NewCheckpoint(c)
    /\ copy' = [copy EXCEPT ![q].status = "AWAITING_APPROVAL"]
    /\ Goto(q, "pausing")
    /\ UNCHANGED <<run, mode, driveVars, at, answer, target, snap, call, history>>

\* The resumed loop pauses again: its next checkpoint is saved.
PauseTask(q, c) ==
    /\ pc[q] = "continuing"
    /\ NewCheckpoint(c)
    /\ copy' = [copy EXCEPT ![q].status = "AWAITING_APPROVAL", ![q].ckpt = c]
    /\ Goto(q, "pausing")
    /\ UNCHANGED <<run, mode, driveVars, at, answer, target, snap, call, history>>

\* _apply_loop_outcome: the resumed loop succeeded, or paused again.  (A
\* failed one is FailTask.)
FinishTask(q) ==
    /\ \/ pc[q] = "continuing" /\ SaveRun([copy[q] EXCEPT !.status = "SUCCEEDED"])
       \/ pc[q] = "pausing" /\ Announceable /\ SaveRun(copy[q])
    /\ Drop({q})
    /\ UNCHANGED <<ck, mode, driveVars, history>>

-----------------------------------------------------------------------------
(* Processes: start-up recovery, drain, crash.                              *)

\* The start-up sweep of lease-expired runs.
StartProcess(p) ==
    /\ mode[p] = "new"
    /\ StartAlone => Resuming = {} /\ \A r \in Proc : mode[r] # "recovering"
    /\ mode' = [mode EXCEPT ![p] = "recovering"]
    /\ SaveRun(Requeued)
    /\ UNCHANGED <<ck, driveVars, reqVars, history>>

\* reconcile_resolving_runs lists the run: RESOLVING with a recorded decision.
ListResolving(p, q) ==
    /\ mode[p] = "recovering" /\ pc[q] = "idle"
    /\ \A r \in Req : at[r] # p
    /\ run.status = "RESOLVING" /\ run.decision # "none"
    /\ Goto(q, "reopen")
    /\ at' = [at EXCEPT ![q] = p]
    /\ answer' = [answer EXCEPT ![q] = run.decision]
    /\ copy' = [copy EXCEPT ![q] = run]
    /\ UNCHANGED <<run, ck, mode, driveVars, target, snap, call, history>>

\* The run is re-opened so that resume_run claims it through the same path.
Reopen(q) ==
    /\ pc[q] = "reopen"
    /\ SaveRun([copy[q] EXCEPT !.status = "AWAITING_APPROVAL"])
    /\ Goto(q, "reread")
    /\ UNCHANGED <<ck, mode, driveVars, at, answer, target, copy, snap, call, history>>

Reread(q) ==
    /\ pc[q] = "reread"
    /\ IF run.status = "AWAITING_APPROVAL"
       THEN /\ Goto(q, "validated")
            /\ target' = [target EXCEPT ![q] = run.ckpt]
            /\ copy' = [copy EXCEPT ![q] = run]
            /\ UNCHANGED <<at, answer, snap, call>>
       ELSE Drop({q})
    /\ UNCHANGED <<run, ck, mode, driveVars, history>>

\* Recovery is done with the run (or had nothing to do): the process serves.
BeginServing(p) ==
    /\ mode[p] = "recovering"
    /\ IF \E q \in Req : at[q] = p
       THEN \A q \in Req : at[q] = p => pc[q] \notin InHandler
       ELSE run.status # "RESOLVING" \/ run.decision = "none"
    /\ mode' = [mode EXCEPT ![p] = "up"]
    /\ UNCHANGED <<run, ck, driveVars, reqVars, history>>

\* Shutdown cancels the tasks; one that is not inside the runtime just unwinds
\* (one that is inside is FailTask).
StopProcess(p) ==
    /\ mode[p] = "up"
    /\ Restarts => \E r \in Proc : mode[r] = "new"
    /\ mode' = [mode EXCEPT ![p] = "stopping"]
    /\ UNCHANGED <<run, ck, driveVars, reqVars, history>>

CancelTask(q) ==
    /\ pc[q] \in {"waiting", "pausing"} /\ mode[at[q]] = "stopping"
    /\ Drop({q})
    /\ UNCHANGED <<run, ck, mode, driveVars, history>>

\* The process exits or dies with everything in its memory.
Crash(p) ==
    /\ mode[p] \in {"recovering", "up", "stopping"}
    /\ Restarts => \E r \in Proc : mode[r] = "new"
    /\ CrashInClaim \/ \A q \in Req : at[q] = p => pc[q] # "claimed"
    /\ mode' = [mode EXCEPT ![p] = "down"]
    /\ driver' = [driver EXCEPT ![p] = FALSE]
    /\ draft' = [draft EXCEPT ![p] = NoRun]
    /\ Drop({q \in Req : at[q] = p})
    /\ UNCHANGED <<run, ck, history>>

-----------------------------------------------------------------------------
TaskStep(q) ==
    \/ BeginTask(q) \/ ClaimCheckpoint(q) \/ LoadCheckpoint(q) \/ LookupCall(q)
    \/ ExecuteCall(q) \/ RecordCall(q) \/ ResolveCheckpoint(q) \/ FinishTask(q)
    \/ \E c \in Ckpt : PauseTask(q, c)

RequestStep(q) ==
    \/ Reopen(q) \/ Reread(q)
    \/ ClaimRun(q) \/ RecordDecision(q) \/ LaunchTask(q)

Next ==
    \/ \E p \in Proc :
          \/ DriveRun(p) \/ EndDrive(p) \/ Reap(p)
          \/ \E c \in Ckpt : PauseDrive(p, c)
          \/ StartProcess(p) \/ BeginServing(p) \/ StopProcess(p) \/ Crash(p)
    \/ \E q \in Req :
          \/ \E p \in Proc : ListResolving(p, q) \/ \E a \in Answer : Receive(q, p, a)
          \/ RequestStep(q) \/ TaskStep(q) \/ FailTask(q) \/ AbandonTask(q) \/ CancelTask(q)
    \/ LeaseRunsOut

Spec == Init /\ [][Next]_vars

\* Requests and tasks step, the dispatchers' loops turn, a lease that nobody
\* renews runs out.  No human has to answer, nothing has to crash.
FairSpec ==
    /\ Spec
    /\ WF_vars(LeaseRunsOut)
    /\ \A p \in Proc : /\ WF_vars(StartProcess(p)) /\ WF_vars(BeginServing(p))
                       /\ WF_vars(DriveRun(p)) /\ WF_vars(EndDrive(p)) /\ WF_vars(Reap(p))
                       /\ WF_vars(\E q \in Req : ListResolving(p, q))
    /\ \A q \in Req : WF_vars(RequestStep(q)) /\ WF_vars(TaskStep(q))

-----------------------------------------------------------------------------
(* Properties.                                                             *)

\* An approved side effect happens at most once per paused call, across double
\* approvals, crashes, re-drives and reaped runs (run_recovery.py:150-151: "at
\* most once total (across the crashed attempt + this recovery)").
AtMostOnceEffect == \A c \in Ckpt, k \in Call : effects[c][k] <= 1

\* The run-level claim admits one resume of a checkpoint at a time
\* (claim_run_for_resume): no two are past it on the same one.
OneResumePerPause ==
    \A q, r \in Req :
        (pc[q] \in Claimed /\ pc[r] \in Claimed /\ target[q] = target[r]) => q = r

\* Who waits for an answer, or works on one, has a checkpoint to point to, in
\* every deployment.
Unresolved == {"AWAITING_APPROVAL", "RESOLVING"}
HasCheckpoint ==
    /\ run.status \in Unresolved => run.ckpt \in Ckpt
    /\ \A p \in Proc : draft[p].status \in Unresolved => draft[p].ckpt \in Ckpt
    /\ \A q \in Req :
          /\ pc[q] \in {"reopen", "validated", "claimed", "decided", "pausing"}
                => copy[q].ckpt \in Ckpt
          /\ pc[q] \in Claimed \cup {"validated"} => target[q] \in Ckpt
          /\ pc[q] \in {"executing", "recording"} => call[q] \in Call
          /\ pc[q] = "pausing" => copy[q].status = "AWAITING_APPROVAL"

\* Why an effect happens once, in inductive form, where processes start alone
\* and claims are prompt, whatever leases and reapers do.  Start-up recovery
\* shares its time with no other resume:
RecoveryAlone ==
    /\ \A q \in Req : pc[q] # "idle" => at[q] \in Proc
    /\ \A p, r \in Proc : mode[p] = "recovering" /\ mode[r] = "recovering" => p = r
    /\ \A p \in Proc, q \in Req : mode[p] = "recovering" /\ pc[q] # "idle" => at[q] = p
    /\ \A q \in Req : pc[q] \in {"reopen", "reread"} =>
          mode[at[q]] = "recovering" /\ \A r \in Req : pc[r] # "idle" => r = q

\* a checkpoint that no run row points to yet is known to its maker only;
Known(c) == c # 0 => ck[c].status # "absent"
AllKnown ==
    /\ Known(run.ckpt)
    /\ \A p \in Proc : Known(draft[p].ckpt)
    /\ \A q \in Req : Known(copy[q].ckpt) /\ Known(target[q])
    /\ \A c \in Ckpt : ck[c].status = "absent" => ck[c].ledger = {}
Unannounced(c) ==
    /\ ck[c].status = "awaiting_approval"
    /\ run.ckpt # c /\ \A r \in Req : target[r] # c
DraftIsSecret(p) ==
    draft[p].status = "AWAITING_APPROVAL" =>
        /\ Unannounced(draft[p].ckpt)
        /\ \A r \in Proc \ {p} : draft[r].ckpt # draft[p].ckpt
        /\ \A q \in Req : copy[q].ckpt # draft[p].ckpt
CopyIsSecret(q) ==
    pc[q] = "pausing" =>
        /\ Unannounced(copy[q].ckpt)
        /\ \A r \in Req \ {q} : copy[r].ckpt # copy[q].ckpt
        /\ \A p \in Proc : draft[p].ckpt # copy[q].ckpt
MakerOnly ==
    AllKnown /\ (\A p \in Proc : DraftIsSecret(p)) /\ (\A q \in Req : CopyIsSecret(q))

\* a row that can be claimed points to a checkpoint that nobody has touched;
InTaskOrWaiting == {"waiting"} \cup InTask
RowIsFresh ==
    /\ run.status \in Unresolved =>
          /\ ck[run.ckpt].status = "awaiting_approval"
          /\ \A q \in Req : pc[q] \in InTaskOrWaiting => target[q] # run.ckpt
    /\ run.status = "AWAITING_APPROVAL" =>
          \A q \in Req :
             /\ pc[q] \in Claimed => target[q] # run.ckpt
             /\ pc[q] = "validated" => target[q] = run.ckpt /\ copy[q].ckpt = run.ckpt

\* and a resume works its way through a checkpoint of its own.
Own(q) ==
    /\ pc[q] \in {"claimed", "decided"} => copy[q].ckpt = target[q]
    /\ pc[q] \in {"claimed", "decided", "waiting", "ready"}
          => ck[target[q]].status = "awaiting_approval"
    /\ pc[q] \in {"loading", "calls", "executing", "recording"}
          => ck[target[q]].status = "resolving"
    /\ pc[q] \in {"calls", "executing", "recording"}
          => snap[q].status = "resolving" /\ ck[target[q]].ledger \subseteq snap[q].ledger
    /\ pc[q] = "reopen" => ck[copy[q].ckpt].status = "awaiting_approval"
OwnCheckpoint == \A q \in Req : Own(q)

\* Calls still to come have not run; untouched checkpoints have no effects.
Ahead(q) ==
    /\ pc[q] = "loading" => \A k \in Call : effects[target[q]][k] = 0
    /\ pc[q] \in {"calls", "executing"}
          => \A k \in Call : k >= call[q] => effects[target[q]][k] = 0
    /\ pc[q] = "recording"
          => \A k \in Call : k > call[q] => effects[target[q]][k] = 0
CallsAhead ==
    /\ \A c \in Ckpt : ck[c].status \in {"absent", "awaiting_approval"}
          => \A k \in Call : effects[c][k] = 0
    /\ \A q \in Req : Ahead(q)

ResumeDiscipline ==
    HasCheckpoint /\ RecoveryAlone /\ MakerOnly /\ RowIsFresh /\ OwnCheckpoint /\ CallsAhead

\* A checkpoint, once approved or rejected, keeps that answer and its ledger,
\* and no ledger entry is ever lost (checkpoint.py claim, the put's merge).
ResolutionFinal ==
    [][\A c \in Ckpt :
          /\ ck[c].ledger \subseteq ck'[c].ledger
          /\ ck[c].status \in Answer => ck'[c].status = ck[c].status]_vars

\* A gated tool runs only for a checkpoint that a human approved
\* (run_recovery.py:164-165: "never guess approve, which would run the gated
\* tool").
EffectApproved ==
    \A c \in Ckpt : (\E k \in Call : effects[c][k] > 0) => c \in granted

\* A run that asks for an answer asks for one that nobody has given: whoever
\* wrote the row last, a driver or a resume that lost its lease while the
\* human was thinking or recovery with the record it listed, it does not point
\* to a checkpoint that is answered already, or that another resume has
\* claimed.
PauseIsUnanswered ==
    run.status = "AWAITING_APPROVAL" =>
        /\ run.ckpt \in Ckpt /\ ck[run.ckpt].status = "awaiting_approval"
        /\ \A q \in Req : pc[q] \in Claimed => target[q] # run.ckpt

\* An accepted answer takes effect: a claimed run is finished, or paused for
\* the next answer, whatever the reaper and the peers do.
ResolvingSettles ==
    run.status = "RESOLVING" ~> run.status \in {"AWAITING_APPROVAL", "SUCCEEDED", "FAILED"}
=============================================================================
