---------------------------- MODULE RunAdmission ----------------------------
(***************************************************************************)
(* Admission of runs against the quota of a workspace: create_run,         *)
(* continue_thread and create_orchestration_run, the idempotent insert and *)
(* the insert under quota of the store, the in-memory counter and the      *)
(* execution semaphore of WorkspaceQuota, the drivers that hold and release *)
(* them, and the resumes, which take no slot and renew no lease.            *)
(*                                                                         *)
(* One tenant workspace and one server process are modelled.  Creates that *)
(* other processes make differ from those of this one only in the process  *)
(* that answers them: the store's statements are atomic, and the counter   *)
(* of another process is not this one's.  A request that creates a record  *)
(* gives the record its own name.                                          *)
(***************************************************************************)
EXTENDS Naturals, FiniteSets

CONSTANTS
    Request,         \* requests to create a run
    Compare,         \* callers of POST /v1/models/compare
    Key,             \* idempotency keys
    NoKey,           \* a request without one
    Cap,             \* workspace_max_outstanding
    Slots,           \* concurrency of the execution semaphore
    Worlds,          \* the deployments considered, see World
    MaxCrashes,      \* bound on crashes and shutdowns
    MaxResumes,      \* bound on the approvals of a record
    NoAnswer,        \* a request that has not been answered
    Refused          \* WorkspaceRunQuotaExceeded, HTTP 429

\* mode:  "dispatch": the leased dispatcher owns execution; "inline": the
\*        request launches a background task.
\* flaky: a statement of the store may fail.
\* teams: orchestration runs are created as well.
World == [mode : {"inline", "dispatch"}, flaky : BOOLEAN, teams : BOOLEAN]

ASSUME AdmissionAssumption ==
    /\ IsFiniteSet(Request) /\ IsFiniteSet(Compare)
    /\ NoKey \notin Key
    /\ Cap \in Nat \ {0} /\ Slots \in Nat \ {0}
    /\ Worlds \subseteq World
    /\ MaxCrashes \in Nat /\ MaxResumes \in Nat
    /\ NoAnswer \notin Request /\ Refused \notin Request
    /\ NoAnswer # Refused

VARIABLES
    world,           \* the deployment, fixed for ever
    req,             \* the requests and where their handlers are
    status,          \* the runs table: the status of each record
    leased,          \* and whether it has a lease, run out or not
    driver,          \* where the driver of a record is
    beating,         \* the records whose driver renews the lease
    resume,          \* where the resume of a record is, and the lease in its
                     \* copy of the record, which it writes back whole
    compare,         \* the model comparisons
    outstanding,     \* WorkspaceQuota._outstanding of the workspace
    up,              \* the process runs
    crashes,         \* crashes and shutdowns so far
    revived,         \* records that were active again after they had
                     \* finished (history)
    resumes          \* how often a record was claimed for a resume (history)
storeVars == <<status, leased, revived, resumes>>
taskVars == <<driver, beating, resume>>
quotaVars == <<compare, outstanding>>
procVars == <<taskVars, quotaVars>>
envVars == <<world, up, crashes>>
vars == <<req, storeVars, procVars, envVars>>

NoRow == "absent"
Terminal == {"SUCCEEDED", "FAILED"}
\* ACTIVE_RUN_STATUSES
Active == {"QUEUED", "RUNNING", "AWAITING_APPROVAL", "RESOLVING"}

\* A record has no more than one driver and one resume at a time (a bound:
\* a second of a kind needs a lease to run out twice under the first).
Driving == {"none", "waiting", "driving", "saved"}
Resuming == [at : {"none", "claimed", "waiting", "driving"}, leased : BOOLEAN]
NoResume == [at |-> "none", leased |-> FALSE]
Handling == {"store", "fallback", "admit", "reject"}

TypeOK ==
    /\ world \in Worlds
    /\ req \in [Request -> [pc : Handling \cup {"idle", "done", "lost"},
                            key : Key \cup {NoKey}, team : BOOLEAN,
                            answer : Request \cup {NoAnswer, Refused}]]
    /\ status \in [Request -> {NoRow} \cup Terminal \cup Active]
    /\ leased \in [Request -> BOOLEAN]
    /\ driver \in [Request -> Driving]
    /\ beating \subseteq Request
    /\ resume \in [Request -> Resuming]
    /\ compare \in [Compare -> {"off", "waiting", "running", "done"}]
    /\ outstanding \in 0..Cap
    /\ up \in BOOLEAN
    /\ crashes \in 0..MaxCrashes
    /\ revived \subseteq Request
    /\ resumes \in [Request -> 0..MaxResumes]

Init ==
    /\ world \in Worlds
    /\ req = [q \in Request |-> [pc |-> "idle", key |-> NoKey,
                                 team |-> FALSE, answer |-> NoAnswer]]
    /\ status = [q \in Request |-> NoRow]
    /\ leased = [q \in Request |-> FALSE]
    /\ driver = [q \in Request |-> "none"]
    /\ beating = {}
    /\ resume = [q \in Request |-> NoResume]
    /\ compare = [c \in Compare |-> "off"]
    /\ outstanding = 0
    /\ up = TRUE
    /\ crashes = 0
    /\ revived = {}
    /\ resumes = [q \in Request |-> 0]

-----------------------------------------------------------------------------
(* Helpers.                                                                *)

Dispatch == world.mode = "dispatch"

\* Mutants: finished records are not found by their key; paused records do
\* not count; the counter admits one too many.
PriorActiveOnly(q) ==
    {r \in Request \ {q} : /\ status[r] \in Active
                           /\ req[q].key # NoKey /\ req[r].key = req[q].key}
UnderQuotaPausedFree ==
    Cardinality({r \in Request : status[r] \in {"QUEUED", "RUNNING"}}) < Cap
MayAdmitOneMore == outstanding <= Cap

\* The records that hold the idempotency key of a request.
Prior(q) ==
    {r \in Request \ {q} : /\ status[r] # NoRow
                           /\ req[q].key # NoKey /\ req[r].key = req[q].key}

\* The count of the insert under quota.
UnderQuota ==
    Cardinality({r \in Request : status[r] \in Active}) < Cap

\* save_run: the whole record, unconditionally.
SaveRun(q, s, lease) ==
    /\ status' = [status EXCEPT ![q] = s]
    /\ leased' = [leased EXCEPT ![q] = lease]
    /\ revived' = IF status[q] \in Terminal /\ s \in Active
                  THEN revived \cup {q} ELSE revived

\* Nobody of the process is at work on the record.
Idle(q) == driver[q] = "none" /\ resume[q].at = "none"

\* WorkspaceQuota.admit and release; release floors at 0.
MayAdmit == outstanding < Cap
Taken == outstanding + 1
Released == IF outstanding <= 1 THEN 0 ELSE outstanding - 1

\* The comparisons that have a slot.
Pending == {c \in Compare : compare[c] \in {"waiting", "running"}}

\* The execution semaphore of the workspace.
InSemaphore ==
    Cardinality({q \in Request : driver[q] \in {"driving", "saved"}})
  + Cardinality({q \in Request : resume[q].at = "driving"})
  + Cardinality({c \in Compare : compare[c] = "running"})
SemaphoreFree == InSemaphore < Slots

Answer(q, a) == req' = [req EXCEPT ![q].pc = "done", ![q].answer = a]

-----------------------------------------------------------------------------
(* create_run, continue_thread and create_orchestration_run.               *)

Submit(q, k, team) ==
    /\ up /\ req[q].pc = "idle"
    /\ team => world.teams
    /\ req' = [req EXCEPT ![q].pc = "store", ![q].key = k, ![q].team = team]
    /\ UNCHANGED <<storeVars, procVars, envVars>>

\* An idempotent re-submit gets the record that is there, launches nothing
\* and takes no slot.
Replay(q) ==
    /\ Prior(q) # {}
    /\ \E r \in Prior(q) : Answer(q, r)
    /\ UNCHANGED storeVars

\* save_run_if_under_quota: key, count and insert in one transaction.
SaveRunIfUnderQuota(q) ==
    /\ up /\ Dispatch /\ req[q].pc = "store"
    /\ \/ Replay(q)
       \/ /\ Prior(q) = {} /\ ~UnderQuota
          /\ Answer(q, Refused)
          /\ UNCHANGED storeVars
       \/ /\ Prior(q) = {} /\ UnderQuota
          /\ SaveRun(q, "QUEUED", FALSE)
          /\ Answer(q, q)
          /\ UNCHANGED resumes
    /\ UNCHANGED <<procVars, envVars>>

\* The transaction fails: the create falls back to the plain insert.
QuotaCheckFails(q) ==
    /\ up /\ Dispatch /\ world.flaky /\ req[q].pc = "store"
    /\ req' = [req EXCEPT ![q].pc = "fallback"]
    /\ UNCHANGED <<storeVars, procVars, envVars>>

\* Its second component says whether it created the record, and is read as
\* whether the quota admitted it: a key that is there already is refused.
FailOpenInsert(q) ==
    /\ up /\ req[q].pc = "fallback"
    /\ \/ /\ Prior(q) # {}
          /\ Answer(q, Refused)
          /\ UNCHANGED storeVars
       \/ /\ Prior(q) = {}
          /\ SaveRun(q, "QUEUED", FALSE)
          /\ Answer(q, q)
          /\ UNCHANGED resumes
    /\ UNCHANGED <<procVars, envVars>>

\* save_run_if_absent_by_idempotency of the inline path.
SaveRunIfAbsent(q) ==
    /\ up /\ ~Dispatch /\ req[q].pc = "store"
    /\ \/ Replay(q)
       \/ /\ Prior(q) = {}
          /\ SaveRun(q, "QUEUED", FALSE)
          /\ req' = [req EXCEPT ![q].pc = "admit"]
          /\ UNCHANGED resumes
    /\ UNCHANGED <<procVars, envVars>>

\* _launch_or_enqueue: admit, then the background task, with no await.
Launch(q) ==
    /\ up /\ req[q].pc = "admit"
    /\ \/ /\ MayAdmit
          /\ outstanding' = Taken
          /\ driver' = [driver EXCEPT ![q] = "waiting"]
          /\ Answer(q, q)
       \/ /\ ~MayAdmit
          /\ req' = [req EXCEPT ![q].pc = "reject"]
          /\ UNCHANGED <<driver, outstanding>>
    /\ UNCHANGED <<storeVars, beating, resume, compare, envVars>>

\* Mutant: the record of a refused request is left in the queue.
MarkRejectedNever(q) ==
    /\ up /\ req[q].pc = "reject"
    /\ Answer(q, Refused)
    /\ UNCHANGED <<storeVars, procVars, envVars>>

\* The record of a refused request is marked FAILED, if the store lets it.
MarkRejected(q) ==
    /\ up /\ req[q].pc = "reject"
    /\ SaveRun(q, "FAILED", FALSE) \/ (world.flaky /\ UNCHANGED <<status, leased, revived>>)
    /\ Answer(q, Refused)
    /\ UNCHANGED <<resumes, procVars, envVars>>

-----------------------------------------------------------------------------
(* The drivers.                                                            *)

\* The dispatcher claims a queued record; its worker drives it.
ClaimRun(q) ==
    /\ up /\ Dispatch /\ status[q] = "QUEUED" /\ driver[q] = "none"
    /\ SaveRun(q, "RUNNING", TRUE)
    /\ driver' = [driver EXCEPT ![q] = "waiting"]
    /\ beating' = beating \cup {q}
    /\ UNCHANGED <<req, resumes, resume, quotaVars, envVars>>

\* The driver gets the semaphore and marks the record RUNNING.  (Its copy has
\* the lease of the claim, which holds: what a wait that outlives the lease
\* does, and a worker that ends by an exception, are in RunQueue.)
StartDriving(q) ==
    /\ up /\ driver[q] = "waiting" /\ SemaphoreFree
    /\ SaveRun(q, "RUNNING", Dispatch)
    /\ driver' = [driver EXCEPT ![q] = "driving"]
    /\ UNCHANGED <<req, resumes, beating, resume, quotaVars, envVars>>

Outcome == Terminal \cup {"AWAITING_APPROVAL"}

\* The record is saved with what the drive led to, unless the save fails.
SaveOutcome(q) ==
    /\ up /\ driver[q] = "driving"
    /\ driver' = [driver EXCEPT ![q] = "saved"]
    /\ \/ \E s \in Outcome : SaveRun(q, s, Dispatch)
       \/ world.flaky /\ UNCHANGED <<status, leased, revived>>
    /\ UNCHANGED <<req, resumes, beating, resume, quotaVars, envVars>>

\* Mutant: a run that pauses keeps its slot.
ReleasesIfFinished(q) == status[q] \in Terminal

\* _execute_run and _execute_orchestration_run release the slot in their
\* finally clause.  In dispatch mode the first is not used, and the second
\* is, although no slot was taken.
Releases(q) == Dispatch => req[q].team

\* The driver returns; the dispatcher's worker may put a failed record back
\* in the queue (apply_retry_policy).
FinishDriving(q) ==
    /\ up /\ driver[q] = "saved"
    /\ driver' = [driver EXCEPT ![q] = "none"]
    /\ beating' = beating \ {q}
    /\ outstanding' = IF Releases(q) THEN Released ELSE outstanding
    /\ \/ UNCHANGED storeVars
       \/ /\ Dispatch /\ status[q] = "FAILED" /\ q \notin revived
          /\ SaveRun(q, "QUEUED", FALSE)
          /\ UNCHANGED resumes
    /\ UNCHANGED <<req, resume, compare, envVars>>

\* redrive_run: the operator puts a failed record back in the queue.
Redrive(q) ==
    /\ up /\ Dispatch /\ status[q] = "FAILED" /\ q \notin revived
    /\ SaveRun(q, "QUEUED", FALSE)
    /\ UNCHANGED <<req, resumes, procVars, envVars>>

\* The heartbeat of a driver finds the row taken from it, and stops.
StopBeating(q) ==
    /\ up /\ q \in beating /\ ~(status[q] = "RUNNING" /\ leased[q])
    /\ beating' = beating \ {q}
    /\ UNCHANGED <<req, storeVars, driver, resume, quotaVars, envVars>>

\* requeue_expired_leases: a lease that no driver renews runs out, also under
\* a resume that is still at work; a record without a lease is left alone.
Requeue(q) ==
    /\ up /\ Dispatch /\ status[q] = "RUNNING" /\ leased[q] /\ q \notin beating
    /\ SaveRun(q, "QUEUED", FALSE)
    /\ UNCHANGED <<req, resumes, procVars, envVars>>

-----------------------------------------------------------------------------
(* The resumes.  They take no slot of the quota.                           *)

\* resume_run: the claim of a paused record, and its decision.
ClaimForResume(q) ==
    /\ up /\ status[q] = "AWAITING_APPROVAL" /\ resume[q].at = "none"
    /\ resumes[q] < MaxResumes
    /\ SaveRun(q, "RESOLVING", leased[q])
    /\ resumes' = [resumes EXCEPT ![q] = @ + 1]
    /\ resume' = [resume EXCEPT ![q] = [at |-> "claimed", leased |-> leased[q]]]
    /\ UNCHANGED <<req, driver, beating, quotaVars, envVars>>

\* reconcile_resolving_runs re-opens and claims what a dead process left.
Recover(q) ==
    /\ up /\ status[q] = "RESOLVING" /\ resume[q].at = "none"
    /\ resume' = [resume EXCEPT ![q] = [at |-> "claimed", leased |-> leased[q]]]
    /\ UNCHANGED <<req, storeVars, driver, beating, quotaVars, envVars>>

\* The background task is launched.
LaunchResume(q) ==
    /\ up /\ resume[q].at = "claimed"
    /\ SaveRun(q, "RUNNING", resume[q].leased)
    /\ resume' = [resume EXCEPT ![q].at = "waiting"]
    /\ UNCHANGED <<req, resumes, driver, beating, quotaVars, envVars>>

\* It gets the semaphore and reads the record, whatever that is by now.
StartResume(q) ==
    /\ up /\ resume[q].at = "waiting" /\ SemaphoreFree
    /\ resume' = [resume EXCEPT ![q] = [at |-> "driving", leased |-> leased[q]]]
    /\ UNCHANGED <<req, storeVars, driver, beating, quotaVars, envVars>>

\* A HimmyError in a resume, or what looks like a lost claim in that of an
\* orchestration run, is taken for a resume that somebody else has done.
EndsSilently == UNCHANGED <<status, leased, revived>>

\* The resume saves what it led to, or ends without a save.
FinishResume(q) ==
    /\ up /\ resume[q].at = "driving"
    /\ \/ \E s \in Outcome : SaveRun(q, s, resume[q].leased)
       \/ EndsSilently
    /\ resume' = [resume EXCEPT ![q] = NoResume]
    /\ UNCHANGED <<req, resumes, driver, beating, quotaVars, envVars>>

-----------------------------------------------------------------------------
(* workspace_run_slot: a comparison holds one slot and the semaphore.      *)

CompareAdmit(c) ==
    /\ up /\ compare[c] = "off" /\ MayAdmit
    /\ outstanding' = Taken
    /\ compare' = [compare EXCEPT ![c] = "waiting"]
    /\ UNCHANGED <<req, storeVars, taskVars, envVars>>

CompareRuns(c) ==
    /\ up /\ compare[c] = "waiting" /\ SemaphoreFree
    /\ compare' = [compare EXCEPT ![c] = "running"]
    /\ UNCHANGED <<req, storeVars, taskVars, outstanding, envVars>>

CompareEnds(c) ==
    /\ up /\ compare[c] = "running"
    /\ compare' = [compare EXCEPT ![c] = "done"]
    /\ outstanding' = Released
    /\ UNCHANGED <<req, storeVars, taskVars, envVars>>

-----------------------------------------------------------------------------
(* Crash, shutdown and restart.                                            *)

ForgetProcess ==
    /\ crashes < MaxCrashes
    /\ crashes' = crashes + 1
    /\ up' = FALSE
    /\ driver' = [q \in Request |-> "none"]
    /\ beating' = {}
    /\ resume' = [q \in Request |-> NoResume]
    /\ compare' = [c \in Compare |-> IF c \in Pending THEN "done" ELSE compare[c]]
    /\ outstanding' = 0
    /\ UNCHANGED <<world, leased, revived, resumes>>

Crash ==
    /\ up /\ ForgetProcess
    /\ req' = [q \in Request |->
                 IF req[q].pc \in Handling
                 THEN [req[q] EXCEPT !.pc = "lost"] ELSE req[q]]
    /\ UNCHANGED status

AtWork == {q \in Request : driver[q] = "driving" \/ resume[q].at = "driving"}

\* The lifespan shutdown of an inline server, after its last request: drain
\* cancels the background tasks.  A task that drives records FAILED; one
\* that still waits for the semaphore records nothing.
Drain ==
    /\ up /\ ~Dispatch
    /\ \A q \in Request : req[q].pc \notin Handling
    /\ Pending = {}
    /\ \A q \in Request : resume[q].at # "claimed"
    /\ ForgetProcess
    /\ \E saved \in SUBSET AtWork :
         /\ ~world.flaky => saved = AtWork
         /\ status' = [q \in Request |-> IF q \in saved THEN "FAILED" ELSE status[q]]
    /\ UNCHANGED req

\* Mutant: the sweep looks for records that had started only.
SweptRunning(q) == ~Dispatch /\ status[q] = "RUNNING"

\* sweep_stuck_runs of an inline server; with the dispatcher, Requeue.
Swept(q) == ~Dispatch /\ status[q] \in {"QUEUED", "RUNNING"}

\* bootstrap: the sweep; the records that are RESOLVING are for Recover.
Restart ==
    /\ ~up
    /\ up' = TRUE
    /\ status' = [q \in Request |-> IF Swept(q) THEN "FAILED" ELSE status[q]]
    /\ UNCHANGED <<req, leased, revived, resumes, procVars, world, crashes>>

-----------------------------------------------------------------------------

HandlerStep(q) ==
    \/ SaveRunIfUnderQuota(q) \/ QuotaCheckFails(q) \/ FailOpenInsert(q)
    \/ SaveRunIfAbsent(q) \/ Launch(q) \/ MarkRejected(q)

DriverStep(q) ==
    \/ ClaimRun(q) \/ StartDriving(q) \/ SaveOutcome(q) \/ FinishDriving(q)
    \/ StopBeating(q)

ResumeStep(q) ==
    \/ Recover(q) \/ LaunchResume(q) \/ StartResume(q) \/ FinishResume(q)

Next ==
    \/ \E q \in Request :
         \/ \E k \in Key \cup {NoKey}, team \in BOOLEAN : Submit(q, k, team)
         \/ HandlerStep(q) \/ DriverStep(q) \/ ResumeStep(q)
         \/ Redrive(q) \/ Requeue(q) \/ ClaimForResume(q)
    \/ \E c \in Compare : CompareAdmit(c) \/ CompareRuns(c) \/ CompareEnds(c)
    \/ Crash \/ Drain \/ Restart

\* A handler, a task, the dispatcher and the reaper run while the process does,
\* and a stopped server is started again.  (The semaphore and the queue serve
\* their waiters in order.  Every client comes a bounded number of times, so
\* weak fairness is enough of that.)  Nobody has to decide an approval, redrive
\* a record or ask for a comparison.
Fairness ==
    /\ \A q \in Request :
         /\ WF_vars(HandlerStep(q)) /\ WF_vars(DriverStep(q))
         /\ WF_vars(ResumeStep(q)) /\ WF_vars(Requeue(q))
    /\ \A c \in Compare : WF_vars(CompareRuns(c) \/ CompareEnds(c))
    /\ WF_vars(Restart)

Spec == Init /\ [][Next]_vars /\ Fairness

-----------------------------------------------------------------------------
(* Properties.                                                             *)

\* Two requests with one idempotency key never both create a record, and
\* each request that is answered with a record gets the one of its key, or
\* its own if it has no key.
OneRunPerKey ==
    /\ \A q, r \in Request :
         (q # r /\ status[q] # NoRow /\ status[r] # NoRow)
            => (req[q].key = NoKey \/ req[q].key # req[r].key)
    /\ \A q \in Request : req[q].answer \in Request =>
         LET r == req[q].answer
         IN  /\ status[r] # NoRow /\ req[r].key = req[q].key
             /\ req[q].key = NoKey => r = q

Launched == {q \in Request : driver[q] # "none"}

\* The counter of the process says how many launched drivers and comparisons
\* there are (in dispatch mode: comparisons), so no path through a failure,
\* a pause or a cancellation keeps a slot for ever or gives one back twice.
\* The exception is an orchestration run that the dispatcher drives: it gives
\* back a slot that it never took, and the floor at 0 hides that the counter
\* then forgets a comparison.
SlotsAccounted ==
    ~(Dispatch /\ world.teams) =>
        outstanding = Cardinality(Pending)
                    + (IF Dispatch THEN 0 ELSE Cardinality(Launched))

\* Concurrent creates stop at the cap.  With the dispatcher no more than Cap
\* records are active but those that are active again after they had finished,
\* by a retry, a redrive or a late save, which nobody counts; the store fails
\* open.  Inline, no more than Cap drivers and comparisons are launched;
\* resumes are not counted.
OutstandingUnderCap ==
    /\ Dispatch /\ ~world.flaky =>
         Cardinality({q \in Request : status[q] \in Active} \ revived) <= Cap
    /\ ~Dispatch => Cardinality(Launched) + Cardinality(Pending) <= Cap

\* A request that is told 429 created nothing that will ever be driven.
RefusedNeverRuns ==
    \A q \in Request : req[q].answer = Refused =>
        /\ Idle(q)
        /\ status[q] \in {NoRow, "FAILED"} \/ (world.flaky /\ ~Dispatch)

\* A record whose resume ended without a save, or read it between a reap and
\* the next claim: RUNNING, with nobody at work on it and without a lease by
\* which the reaper could find it.
Stranded(q) ==
    status[q] = "RUNNING" /\ ~leased[q] /\ Idle(q) /\ resumes[q] > 0

\* Every record that is queued, running or being resumed comes to an end or
\* waits for a person, whatever the process was doing when it crashed or was
\* shut down: it is swept, re-queued by its lease or recovered.  Only one that
\* has been resumed may be stranded instead: always so inline, until the next
\* start sweeps it, and with the dispatcher if its lease is lost.  (With
\* failing saves others may stay RUNNING, too.)
EventuallySettled ==
    \A q \in Request :
        (~world.flaky /\ status[q] \in Active \ {"AWAITING_APPROVAL"})
            ~> (status[q] \in Terminal \cup {"AWAITING_APPROVAL"} \/ Stranded(q))
=============================================================================
