------------------------------ MODULE RunQueue ------------------------------
(***************************************************************************)
(* The leased run queue of himmy: the `runs` table of the shared store and *)
(* the RunDispatcher processes that claim, drive, renew, reap, retry and   *)
(* park the runs in it (himmy/application/dispatcher.py, run_drive.py,     *)
(* run_retry.py, run_recovery.py, himmy/services/storage/sqlite.py).       *)
(*                                                                         *)
(* The store's own operations are atomic (BEGIN IMMEDIATE under a lock).   *)
(* Everything between two of them is an await, and other workers, other    *)
(* processes and the clock may step there.  In particular a worker drives  *)
(* its run on the RunRecord COPY that the claim returned and writes the    *)
(* whole copy back with the unconditional save_run.                        *)
(*                                                                         *)
(* Deadlines are kept as the time that remains until them, so the clock    *)
(* needs no horizon: Tick counts every pending deadline down.  A lease of  *)
(* 0 has expired (lease_expires_at <= now), a wait of 0 is ready           *)
(* (next_attempt_at <= now).                                               *)
(***************************************************************************)
EXTENDS Integers, FiniteSets

CONSTANTS
    Run,             \* run ids
    Proc,            \* dispatcher incarnations; each has its own owner_id
    Slot,            \* worker slots of a dispatcher (max_concurrency)
    NoOwner,         \* owner_id IS NULL
    WorkspaceOf,     \* workspace_id of every run
    LaneOf,          \* lane_key of every run: "local", "cloud" or "default"
    LocalFlaps,      \* the local model daemon may come and go
    Unrecoverable,   \* runs whose input_blob is missing or undecodable
    MayAge,          \* runs that may grow past DEFAULT_QUEUE_MAX_AGE_SECONDS
    LeaseTTL,        \* lease_seconds, in ticks
    BackoffBase,     \* _QUEUE_BACKOFF_BASE_SECONDS, in ticks
    BackoffMax,      \* _QUEUE_BACKOFF_MAX_SECONDS, in ticks
    MaxAttempts,     \* max_attempts stamped on every enqueued run
    WsConcurrency,   \* workspace_concurrency
    Fairness,        \* dispatch_fairness: fair claims under the workspace cap
    TimelyBeats,     \* a live dispatcher acts on a lease before it runs out
    UnblockedStart,  \* no claimed run waits a whole lease for its semaphore
    OperatorWaits,   \* a run is redriven only once its worker has let go
    AttemptCap,      \* bound on the claims of a run
    MaxRaises,       \* bound on the drives of every run that an exception ends
    MaxRedrives      \* bound on the operator's redrives

Worker == Proc \X Slot
NoLease == -1

ASSUME IdentityAssumption == NoOwner \notin Proc

ASSUME RunAssumption ==
    /\ Run # {}
    /\ WorkspaceOf \in [Run -> STRING]
    /\ LaneOf \in [Run -> {"local", "cloud", "default"}]
    /\ Unrecoverable \subseteq Run
    /\ MayAge \subseteq Run

ASSUME BoundAssumption ==
    /\ LeaseTTL \in Nat \ {0}
    /\ BackoffBase \in Nat /\ BackoffMax \in Nat
    /\ MaxAttempts \in Nat \ {0} /\ WsConcurrency \in Nat \ {0}
    /\ AttemptCap \in Nat /\ MaxRaises \in [Run -> Nat] /\ MaxRedrives \in Nat

ASSUME ModeAssumption ==
    /\ Fairness \in BOOLEAN /\ TimelyBeats \in BOOLEAN
    /\ UnblockedStart \in BOOLEAN /\ OperatorWaits \in BOOLEAN
    /\ LocalFlaps \in BOOLEAN

-----------------------------------------------------------------------------
(* The stored record, reduced to the columns that steer the queue.  `error` *)
(* is the class _TRANSIENT_ERROR_MARKERS gives the recorded text; `code` is *)
(* metadata['error_code'], "retryable" iff it is in RETRYABLE_ERROR_CODES.  *)

RunStatus == {"ABSENT", "QUEUED", "RUNNING", "AWAITING_APPROVAL",
              "SUCCEEDED", "FAILED", "PARKED"}
ErrorText == {"none", "transient", "permanent"}
ErrorCode == {"none", "retryable", "fatal"}

Lease == NoLease..LeaseTTL
Attempt == 0..AttemptCap
Wait == 0..BackoffMax

RunRecord ==
    [status : RunStatus,
     owner_id : Proc \cup {NoOwner},
     lease : Lease,
     attempt : Attempt,
     wait : Wait,
     error : ErrorText,
     code : ErrorCode]

NewRecord ==
    [status |-> "ABSENT", owner_id |-> NoOwner, lease |-> NoLease,
     attempt |-> 0, wait |-> 0, error |-> "none", code |-> "none"]

\* The job of an idle worker, which nothing reads.
AnyRun == CHOOSE r \in Run : TRUE

(* Where a worker task stands: waiting for the workspace semaphore with a   *)
(* claimed run, inside the runtime, about to call apply_retry_policy, and   *)
(* inside it between its get_run and its save_run.                          *)
WorkerPc == {"idle", "claimed", "running", "policy", "requeue"}

VARIABLES
    row,       \* the runs table
    mode,      \* life cycle of a dispatcher process
    localUp,   \* the cached verdict of its LocalProviderProbe
    pc,        \* where each worker task stands
    job,       \* the run each worker drives
    copy,      \* the RunRecord each worker holds in memory
    beating,   \* whether the worker's heartbeat task is alive
    aged,      \* runs older than the age ceiling
    redrives,  \* redrives so far
    raises     \* drives of each run that an exception ended so far

vars == <<row, mode, localUp, pc, job, copy, beating, aged, redrives, raises>>
workerVars == <<pc, job, copy, beating>>
envVars == <<mode, localUp, aged, redrives, raises>>

TypeOK ==
    /\ row \in [Run -> RunRecord]
    /\ mode \in [Proc -> {"new", "up", "stopping", "down"}]
    /\ localUp \in [Proc -> BOOLEAN]
    /\ pc \in [Worker -> WorkerPc]
    /\ job \in [Worker -> Run]
    /\ copy \in [Worker -> RunRecord]
    /\ beating \in [Worker -> BOOLEAN]
    /\ aged \subseteq Run
    /\ redrives \in 0..MaxRedrives
    /\ raises \in [Run -> Nat] /\ \A r \in Run : raises[r] <= MaxRaises[r]

Init ==
    /\ row = [r \in Run |-> NewRecord]
    /\ mode = [p \in Proc |-> "new"]
    /\ localUp = [p \in Proc |-> TRUE]
    /\ pc = [w \in Worker |-> "idle"]
    /\ job = [w \in Worker |-> AnyRun]
    /\ copy = [w \in Worker |-> NewRecord]
    /\ beating = [w \in Worker |-> FALSE]
    /\ aged = {}
    /\ redrives = 0
    /\ raises = [r \in Run |-> 0]

-----------------------------------------------------------------------------
(* Guards and values shared by the actions.                                *)

Alive(p) == mode[p] \in {"up", "stopping"}
Busy == {w \in Worker : pc[w] # "idle"}

\* The worker executes the run, or is about to.
Drives(w, r) == pc[w] \in {"claimed", "running"} /\ job[w] = r

\* The rows the fair claim counts against a workspace.
LiveRunning(ws) ==
    {r \in Run : /\ WorkspaceOf[r] = ws
                 /\ row[r].status = "RUNNING"
                 /\ row[r].lease # 0}
Load(r) == Cardinality(LiveRunning(WorkspaceOf[r]))

\* Mutant: the workspace cap compared with <= instead of <.
ClaimableOverCap(p) ==
    {r \in Run : /\ row[r].status = "QUEUED"
                 /\ row[r].wait = 0
                 /\ LaneOf[r] = "local" => localUp[p]
                 /\ Fairness => Load(r) <= WsConcurrency}

\* Rows the claim of p may pick, before the fair ordering.
Claimable(p) ==
    {r \in Run : /\ row[r].status = "QUEUED"
                 /\ row[r].wait = 0
                 /\ LaneOf[r] = "local" => localUp[p]
                 /\ Fairness => Load(r) < WsConcurrency}

\* The in-process semaphore of the run's workspace has a free permit.
SemaphoreFree(w) ==
    Cardinality({v \in Worker :
        /\ v[1] = w[1]
        /\ pc[v] = "running"
        /\ WorkspaceOf[job[v]] = WorkspaceOf[job[w]]}) < WsConcurrency

\* Mutants of the reaper's predicate: it ignores the lease, it fires one tick
\* early, it looks for rows without a lease.
ExpiredAnyLease == {r \in Run : row[r].status = "RUNNING"}
ExpiredEarly == {r \in Run : row[r].status = "RUNNING" /\ row[r].lease <= 1}
ExpiredNoLease == {r \in Run : row[r].status = "RUNNING" /\ row[r].lease = NoLease}

Expired == {r \in Run : row[r].status = "RUNNING" /\ row[r].lease = 0}

IsTransient(rec) ==
    IF rec.code # "none" THEN rec.code = "retryable" ELSE rec.error = "transient"

\* Mutant: the classifier is asked about a run that did not fail.
RetryCandidateAnyStatus(rec) == IsTransient(rec)

RetryCandidate(rec) == rec.status = "FAILED" /\ IsTransient(rec)

\* Mutant: one attempt too many.
AttemptsLeftInclusive(rec) == rec.attempt <= MaxAttempts

AttemptsLeft(rec) == rec.attempt < MaxAttempts

Backoff(attempt) ==
    LET doubled == BackoffBase * 2^(IF attempt = 0 THEN 0 ELSE attempt - 1)
    IN  IF doubled < BackoffMax THEN doubled ELSE BackoffMax

\* requeue_expired_leases as one UPDATE over every expired row.
Requeued ==
    [r \in Run |->
        IF r \in Expired
        THEN [row[r] EXCEPT !.status = "QUEUED", !.owner_id = NoOwner,
                            !.lease = NoLease, !.wait = 0]
        ELSE row[r]]

\* save_run: an upsert of the whole record, whoever owns the row by now.
SaveRun(r, rec) == row' = [row EXCEPT ![r] = rec]

\* The worker task ends: its permit, its copy and its heartbeat are gone.
Release(w) ==
    /\ pc' = [pc EXCEPT ![w] = "idle"]
    /\ copy' = [copy EXCEPT ![w] = NewRecord]
    /\ job' = [job EXCEPT ![w] = AnyRun]
    /\ beating' = [beating EXCEPT ![w] = FALSE]

-----------------------------------------------------------------------------
(* The API: a run is persisted QUEUED with its recoverable input.          *)
Enqueue(r) ==
    /\ row[r].status = "ABSENT"
    /\ SaveRun(r, [NewRecord EXCEPT !.status = "QUEUED"])
    /\ UNCHANGED <<workerVars, envVars>>

\* redrive_run: the operator's reset of a PARKED or FAILED run.
RedriveRun(r) ==
    /\ redrives < MaxRedrives
    /\ row[r].status \in {"PARKED", "FAILED"}
    /\ OperatorWaits => \A w \in Busy : job[w] # r
    /\ SaveRun(r, [row[r] EXCEPT !.status = "QUEUED", !.attempt = 0,
                                 !.owner_id = NoOwner, !.lease = NoLease,
                                 !.error = "none", !.wait = 0])
    /\ redrives' = redrives + 1
    /\ UNCHANGED <<workerVars, mode, localUp, aged, raises>>

-----------------------------------------------------------------------------
(* The dispatcher process.                                                 *)

\* bootstrap: enable_dispatch, the start-up sweep, then the loops.
StartProcess(p) ==
    /\ mode[p] = "new"
    /\ mode' = [mode EXCEPT ![p] = "up"]
    /\ row' = Requeued
    /\ UNCHANGED <<workerVars, localUp, aged, redrives, raises>>

\* The cached local-provider verdict is refreshed before a claim cycle.
ProbeLocal(p) ==
    /\ LocalFlaps
    /\ mode[p] = "up"
    /\ localUp' = [localUp EXCEPT ![p] = ~localUp[p]]
    /\ UNCHANGED <<row, workerVars, mode, aged, redrives, raises>>

\* Mutants: the claim adds the lease margin twice, or stamps no lease.
ClaimedRecordLongLease(r, p) ==
    [row[r] EXCEPT !.status = "RUNNING", !.owner_id = p,
                   !.lease = LeaseTTL + 1, !.attempt = @ + 1]
ClaimedRecordNoLease(r, p) ==
    [row[r] EXCEPT !.status = "RUNNING", !.owner_id = p, !.attempt = @ + 1]

ClaimedRecord(r, p) ==
    [row[r] EXCEPT !.status = "RUNNING", !.owner_id = p,
                   !.lease = LeaseTTL, !.attempt = @ + 1]

\* claim_next_queued_run and the spawn of the worker and its heartbeat.
\* The order among equally loaded ready rows is left open.
ClaimRun(w, r) ==
    LET p == w[1]
        claimed == ClaimedRecord(r, p)
    IN  /\ mode[p] = "up"
        /\ pc[w] = "idle"
        /\ r \in Claimable(p)
        /\ Fairness => \A s \in Claimable(p) : Load(r) <= Load(s)
        /\ row[r].attempt < AttemptCap
        /\ SaveRun(r, claimed)
        /\ pc' = [pc EXCEPT ![w] = "claimed"]
        /\ job' = [job EXCEPT ![w] = r]
        /\ copy' = [copy EXCEPT ![w] = claimed]
        /\ beating' = [beating EXCEPT ![w] = TRUE]
        /\ UNCHANGED envVars

\* One beat of the heartbeat task: renew_lease, or stop when it matches no row.
Heartbeat(w) ==
    LET r == job[w]
    IN  /\ pc[w] # "idle"
        /\ beating[w]
        /\ IF row[r].status = "RUNNING" /\ row[r].owner_id = w[1]
           THEN /\ SaveRun(r, [row[r] EXCEPT !.lease = LeaseTTL])
                /\ UNCHANGED beating
           ELSE /\ beating' = [beating EXCEPT ![w] = FALSE]
                /\ UNCHANGED row
        /\ UNCHANGED <<envVars, pc, job, copy>>

\* One pass of the reaper loop.
Reap(p) ==
    /\ mode[p] = "up"
    /\ Expired # {}
    /\ row' = Requeued
    /\ UNCHANGED <<workerVars, envVars>>

\* stop(): the loops and the heartbeats end, the workers are drained.
StopProcess(p) ==
    /\ mode[p] = "up"
    /\ \E q \in Proc : q # p /\ mode[q] \in {"new", "up"}
    /\ mode' = [mode EXCEPT ![p] = "stopping"]
    /\ beating' = [w \in Worker |-> IF w[1] = p THEN FALSE ELSE beating[w]]
    /\ UNCHANGED <<row, localUp, pc, job, copy, aged, redrives, raises>>

\* stop() while claim_next_queued_run is in flight: the claim loop is cancelled,
\* the claim commits in its thread, and nobody receives the run.
AbandonClaim(p, r) ==
    /\ mode[p] = "up"
    /\ \E q \in Proc : q # p /\ mode[q] \in {"new", "up"}
    /\ \E s \in Slot : pc[<<p, s>>] = "idle"
    /\ r \in Claimable(p)
    /\ Fairness => \A s \in Claimable(p) : Load(r) <= Load(s)
    /\ row[r].attempt < AttemptCap
    /\ SaveRun(r, ClaimedRecord(r, p))
    /\ mode' = [mode EXCEPT ![p] = "stopping"]
    /\ beating' = [w \in Worker |-> IF w[1] = p THEN FALSE ELSE beating[w]]
    /\ UNCHANGED <<localUp, pc, job, copy, aged, redrives, raises>>

\* The drain timeout: a worker inside the runtime records "run cancelled"
\* and unwinds past the retry policy; any other worker just unwinds.
CancelWorker(w) ==
    /\ mode[w[1]] = "stopping"
    /\ pc[w] # "idle"
    /\ IF pc[w] = "running"
       THEN /\ SaveRun(job[w], [copy[w] EXCEPT !.status = "FAILED",
                                               !.error = "permanent"])
       ELSE UNCHANGED row
    /\ Release(w)
    /\ UNCHANGED envVars

\* The drained process exits.
ExitProcess(p) ==
    /\ mode[p] = "stopping"
    /\ \A w \in Busy : w[1] # p
    /\ mode' = [mode EXCEPT ![p] = "down"]
    /\ UNCHANGED <<row, workerVars, localUp, aged, redrives, raises>>

\* The process dies; what its workers held in memory is lost.
Crash(p) ==
    /\ Alive(p)
    /\ \E q \in Proc : q # p /\ mode[q] \in {"new", "up"}
    /\ mode' = [mode EXCEPT ![p] = "down"]
    /\ pc' = [w \in Worker |-> IF w[1] = p THEN "idle" ELSE pc[w]]
    /\ job' = [w \in Worker |-> IF w[1] = p THEN AnyRun ELSE job[w]]
    /\ copy' = [w \in Worker |-> IF w[1] = p THEN NewRecord ELSE copy[w]]
    /\ beating' = [w \in Worker |-> IF w[1] = p THEN FALSE ELSE beating[w]]
    /\ UNCHANGED <<row, localUp, aged, redrives, raises>>

-----------------------------------------------------------------------------
(* The worker task: dispatch_claimed_run.                                  *)

\* No recoverable input: FAILED at once, and the retry policy is not consulted.
RejectInput(w) ==
    /\ pc[w] = "claimed"
    /\ job[w] \in Unrecoverable
    /\ SaveRun(job[w], [copy[w] EXCEPT !.status = "FAILED", !.error = "permanent"])
    /\ Release(w)
    /\ UNCHANGED envVars

\* The semaphore is acquired and _execute_on_runtime_inner writes the copy
\* back as RUNNING, with the lease as it was when the run was claimed.
StartRun(w) ==
    /\ pc[w] = "claimed"
    /\ job[w] \notin Unrecoverable
    /\ SemaphoreFree(w)
    /\ SaveRun(job[w], [copy[w] EXCEPT !.status = "RUNNING"])
    /\ pc' = [pc EXCEPT ![w] = "running"]
    /\ UNCHANGED <<job, copy, beating, envVars>>

\* How an execution can end: done, paused on an approval gate, or failed
\* with a text and, from the inference layer only, a structured code.
Outcome ==
    {[status |-> "SUCCEEDED", error |-> "none", code |-> "none"],
     [status |-> "AWAITING_APPROVAL", error |-> "none", code |-> "none"],
     [status |-> "FAILED", error |-> "transient", code |-> "none"],
     [status |-> "FAILED", error |-> "permanent", code |-> "none"],
     [status |-> "FAILED", error |-> "permanent", code |-> "retryable"],
     [status |-> "FAILED", error |-> "transient", code |-> "fatal"]}

\* The outcome is written on the copy and saved; a code already in the
\* metadata stays when this outcome brings none.
FinishRun(w, o) ==
    LET r == job[w]
        final == [copy[w] EXCEPT
                    !.status = o.status,
                    !.error = IF o.status = "FAILED" THEN o.error ELSE @,
                    !.code = IF o.code = "none" THEN @ ELSE o.code]
    IN  /\ pc[w] = "running"
        /\ SaveRun(r, final)
        /\ pc' = [pc EXCEPT ![w] = "policy"]
        /\ UNCHANGED <<job, copy, beating, envVars>>

\* apply_retry_policy, up to its get_run: only a transient FAILED row goes on.
ReadForRetry(w) ==
    /\ pc[w] = "policy"
    /\ LET rec == row[job[w]]
       IN  IF RetryCandidate(rec)
           THEN /\ pc' = [pc EXCEPT ![w] = "requeue"]
                /\ copy' = [copy EXCEPT ![w] = rec]
                /\ UNCHANGED <<job, beating>>
           ELSE Release(w)
    /\ UNCHANGED <<row, envVars>>

\* apply_retry_policy, its save_run: back to the queue with a backoff, or
\* PARKED once the attempts or the age are used up.
ApplyRetry(w) ==
    LET r == job[w]
        rec == [copy[w] EXCEPT !.owner_id = NoOwner, !.lease = NoLease]
    IN  /\ pc[w] = "requeue"
        /\ \/ /\ AttemptsLeft(rec) /\ r \notin aged
              /\ \E delay \in Wait :
                    /\ delay = Backoff(rec.attempt)
                    /\ SaveRun(r, [rec EXCEPT !.status = "QUEUED",
                                              !.error = "none", !.wait = delay])
           \/ /\ ~AttemptsLeft(rec) \/ r \in aged
              /\ SaveRun(r, [rec EXCEPT !.status = "PARKED"])
        /\ Release(w)
        /\ UNCHANGED envVars

\* An exception leaves dispatch_claimed_run (a save_run or a get_run of the
\* store, the resolver of a team's members): _run_worker logs it and the task
\* ends in a live process.  Nothing is written and the retry policy is not
\* asked, so a run in the middle of its drive stays RUNNING until its lease,
\* which nobody renews any more, runs out.
DriveRaises(w) ==
    /\ pc[w] # "idle"
    /\ raises[job[w]] < MaxRaises[job[w]]
    /\ raises' = [raises EXCEPT ![job[w]] = @ + 1]
    /\ Release(w)
    /\ UNCHANGED <<row, mode, localUp, aged, redrives>>

-----------------------------------------------------------------------------
(* Time.                                                                   *)

Down(n) == IF n > 0 THEN n - 1 ELSE n
TickRecord(rec) == [rec EXCEPT !.lease = Down(@), !.wait = Down(@)]

\* With TimelyBeats no lease runs out while a live worker is due to act on
\* it: a heartbeat that would renew it, a drain that is bounded below it, or
\* a claimed worker that could start.
InTime(w) ==
    /\ (/\ pc[w] \in {"claimed", "running"}
        /\ beating[w] \/ mode[w[1]] = "stopping"
        /\ row[job[w]].status = "RUNNING"
        /\ row[job[w]].owner_id = w[1])
       => row[job[w]].lease # 1
    /\ (pc[w] = "claimed" /\ (UnblockedStart \/ SemaphoreFree(w)))
       => copy[w].lease # 1

Tick ==
    /\ TimelyBeats => \A w \in Busy : InTime(w)
    /\ row' = [r \in Run |-> TickRecord(row[r])]
    /\ copy' = [w \in Worker |-> TickRecord(copy[w])]
    /\ UNCHANGED <<envVars, pc, job, beating>>

\* created_at is more than the age ceiling ago.
GrowOld(r) ==
    /\ r \in MayAge \ aged
    /\ row[r].status # "ABSENT"
    /\ aged' = aged \cup {r}
    /\ UNCHANGED <<row, workerVars, mode, localUp, redrives, raises>>

-----------------------------------------------------------------------------
Next ==
    \/ \E r \in Run : Enqueue(r) \/ RedriveRun(r) \/ GrowOld(r)
    \/ \E p \in Proc :
          \/ StartProcess(p) \/ ProbeLocal(p) \/ Reap(p)
          \/ StopProcess(p) \/ ExitProcess(p) \/ Crash(p)
          \/ \E r \in Run : AbandonClaim(p, r)
    \/ \E w \in Worker :
          \/ \E r \in Run : ClaimRun(w, r)
          \/ Heartbeat(w) \/ CancelWorker(w)
          \/ RejectInput(w) \/ StartRun(w)
          \/ \E o \in Outcome : FinishRun(w, o)
          \/ ReadForRetry(w) \/ ApplyRetry(w) \/ DriveRaises(w)
    \/ Tick

Spec == Init /\ [][Next]_vars

\* Fairness: the loops of a live dispatcher keep turning, its workers keep
\* stepping, the clock runs and a deployment starts its processes.  Nothing
\* is assumed of the operator, the local daemon, shutdown, crashes or
\* exceptions.
Progress(w) ==
    \/ \E r \in Run : ClaimRun(w, r)
    \/ RejectInput(w) \/ StartRun(w)
    \/ \E o \in Outcome : FinishRun(w, o)
    \/ ReadForRetry(w) \/ ApplyRetry(w)

FairSpec ==
    /\ Spec
    /\ WF_vars(Tick)
    /\ \A p \in Proc : WF_vars(StartProcess(p)) /\ WF_vars(Reap(p))
    /\ \A w \in Worker : WF_vars(Progress(w)) /\ WF_vars(Heartbeat(w))
    /\ \A w \in Worker : WF_vars(CancelWorker(w))

-----------------------------------------------------------------------------
(* Properties.                                                             *)

\* A worker that has not yet written its outcome is the only one on its run:
\* the row is still RUNNING under its dispatcher and no other worker, of any
\* process, drives it.  This is what the claim, the heartbeat and the reaper
\* (dispatcher.py) are there for.
AtMostOneDriver ==
    \A w \in Worker, r \in Run :
        Drives(w, r) =>
            /\ row[r].status = "RUNNING"
            /\ row[r].owner_id = w[1]
            /\ \A v \in Worker \ {w} : ~Drives(v, r)

\* Why it holds, in inductive form.  A live worker between its claim and its
\* outcome sits on a RUNNING row of its own dispatcher whose lease is still
\* good, and what it will write back is good too; a worker past its outcome
\* sits on a row that only it or an operator may move; and no two workers sit
\* on the same run.
LeaseDiscipline ==
    /\ \A w \in Busy : Alive(w[1])
    /\ \A v, w \in Busy : job[v] = job[w] => v = w
    /\ \A w \in Worker :
          pc[w] \in {"claimed", "running"} =>
              /\ row[job[w]].status = "RUNNING"
              /\ row[job[w]].owner_id = w[1]
              /\ row[job[w]].lease > 0
              /\ copy[w].owner_id = w[1]
              /\ beating[w] \/ mode[w[1]] = "stopping"
              /\ pc[w] = "claimed" => copy[w].lease > 0
    /\ \A w \in Worker :
          /\ pc[w] = "policy" => row[job[w]].status \in
                {"SUCCEEDED", "AWAITING_APPROVAL", "FAILED"}
          /\ pc[w] = "requeue" => row[job[w]].status = "FAILED"

\* dispatcher.py:30-31: the heartbeat renews the lease "so a live run is
\* never reaped mid-flight".  No step sends a run that a live worker is
\* executing back to the queue.
LiveRunNeverReaped ==
    [][\A w \in Worker :
          (pc[w] = "running" /\ pc'[w] = "running")
            => row'[job[w]].status # "QUEUED"]_vars

\* Only the lease brings a run of a dead worker back, so a RUNNING row always
\* carries one and a row the queue let go of never does.
NoStrandedRun ==
    \A r \in Run :
        /\ row[r].status = "RUNNING" => row[r].lease # NoLease
        /\ row[r].status \in {"QUEUED", "PARKED"} =>
              row[r].lease = NoLease /\ row[r].owner_id = NoOwner

\* An outcome that needs no retry is never taken back: once a run has
\* SUCCEEDED or is paused for a human, no worker, reaper, retry or redrive of
\* the queue changes it (sweep_stuck_runs, apply_retry_policy, redrive_run).
OutcomeNotOverwritten ==
    [][\A r \in Run :
          row[r].status \in {"SUCCEEDED", "AWAITING_APPROVAL"}
            => row'[r].status = row[r].status]_vars

\* Fair claims (sqlite.py _select_fair_target_locked) cap a workspace across
\* processes: never more than WsConcurrency of its runs are being driven.
CrossNodeCap ==
    Fairness =>
        \A r \in Run :
            Cardinality({w \in Worker :
                /\ pc[w] \in {"claimed", "running"}
                /\ WorkspaceOf[job[w]] = WorkspaceOf[r]}) <= WsConcurrency

\* apply_retry_policy stops at max_attempts, but requeue_expired_leases never
\* looks at it.  So a run gets more attempts than that, and exactly one more
\* for each way to leave it RUNNING with nobody on it: a dispatcher that died or
\* was shut down with it, and a drive that ended in an exception.
AttemptBudget ==
    \A r \in Run :
        row[r].attempt <=
            MaxAttempts + raises[r]
              + Cardinality({p \in Proc : mode[p] \in {"stopping", "down"}})

\* Every accepted run of an ungated lane is eventually answered: done, paused
\* for a human, failed or parked, whatever its dispatchers and the local
\* daemon do.
Settled == {"AWAITING_APPROVAL", "SUCCEEDED", "FAILED", "PARKED"}
QueuedRunSettles ==
    \A r \in Run :
        (LaneOf[r] # "local" /\ row[r].status = "QUEUED")
            ~> row[r].status \in Settled
=============================================================================
