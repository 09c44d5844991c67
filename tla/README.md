# Verification of himmy's durable runs

himmy is an agent framework: agents, tools and memory behind a CLI, an HTTP API and the
Studio front end. What makes it more than a library is its *durable run substrate*: a run
that was accepted by the API is executed by some server process, survives crashes and
restarts, may pause for a human before a dangerous tool call and continues, possibly in
another process, once the human has answered. This directory holds TLA+ models of that
substrate, the TLC configurations that check them and TLAPS proofs about them.

- `RunQueue.tla` - the leased run queue and its dispatchers
- `HitlResume.tla` - human approval: pause, claim, ledger, resume, start-up recovery
- `DeliveryContract.tla`, `TriggerDedup.tla` - what the webhook dedup promises, and how its
  table, leases and handlers implement it
- `Routines.tla` - scheduled routines: leadership, catch-up, the ledger of planned fires
- `RunAdmission.tla` - idempotency keys, quota and slots, from the request to the end of a drive
- `GraphRun.tla` - orchestration runs: the graph, its checkpoints, pauses and resumes
- `AgentLoop.tla` - the turns of one agent, its tool calls, its retries and its limits
- `*Proofs.tla` - the theorems about each of these modules, with their proofs
- `MC*.tla` - instances for TLC, one `.cfg` per question
- `PROJECT.json` - components, runs, mutants, source map, findings, hazards, theorems

Paths below are relative to `src/himmy/` of the repository.

## 1. Inventory

| Component | State | Operations | Interacts with | Hard behaviour |
|---|---|---|---|---|
| Run store (`services/storage/sqlite.py`, `models.py`) | table `runs` (status, owner, lease, attempt, next attempt, metadata) | `save_run` (whole-record upsert), `claim_next_queued_run`, `renew_lease`, `requeue_expired_leases`, `claim_run_for_resume`, `redrive_run` | every part below; shared by all processes | each call is one transaction, nothing between two calls is |
| Dispatcher (`application/dispatcher.py`) | worker tasks, heartbeats, lane probe, stop flag | claim loop, worker, heartbeat, reaper, drain | run store, run drive | several processes, crashes, slow heartbeats, shutdown with work in flight |
| Run drive (`application/run_drive.py`) | the `RunRecord` a task holds in memory | start, outcome, pause, resume, background resume | run store, workspace semaphore, runtime | records are read, kept across awaits and written back whole |
| Retry policy (`application/run_retry.py`) | attempt, error text, error code | re-queue with backoff, park | run store | separate call after the failure was saved |
| Quota (`application/workspace_quota.py`) | semaphore and counter per workspace | admit, release, semaphore | drive, enqueue | in-process limits against cross-process ones |
| Checkpoints (`runtime/checkpoint.py`) | `agent_checkpoints`: status, ledger of executed tool results | save, claim, load, resolve | resume, tool service | claim must be re-enterable after a crash and exclusive otherwise |
| Resume (`runtime/resume.py`, `runtime/single_agent.py`, `services/tools/service.py`) | claimed checkpoint, position in the pending calls | claim, replay or execute each call, record, resolve, continue | checkpoints, tools | a crash between a side effect and its record |
| Start-up recovery (`application/run_recovery.py`, `api/runtime_bootstrap.py`) | none of its own | sweep expired leases, re-open and re-drive RESOLVING runs | run store, resume | runs while other processes serve |
| Admission (`application/run_enqueue.py`, `application/services.py`) | idempotency keys, quota counters | `create_run`, `continue_thread`, `workspace_run_slot` | run store, quota | idempotent replays, fail-open quota, slots given back on every path |
| Trigger dedup (`services/storage/trigger_dedup.py`, `connectors/webhook.py`) | `trigger_dedup` rows with a TTL | claim, complete, release, sweep | webhooks, routines | redelivery, crashes inside a handler, handlers that outlive their lease |
| Scheduler (`api/scheduler_leader.py`, `api/routines.py`) | leader lease, `last_run_at`, planned instants | bid, refresh, tick, catch-up, run-now | trigger dedup, host lock | fail-open election, overlapping leaders, due-math on a stale stamp |
| Orchestration (`orchestrators/state_graph.py`, `application/orchestration_runner.py`) | graph checkpoints | superstep, pause, resume, splice | resume, run store | three saves that belong together; the graph advance has no claim of its own |
| Agent loop (`runtime/loop.py`, `tool_exchange.py`) | turns, cost, offsets | turn, stop, pause, synthesis | inference, tools, resume | three layers of retries, limits across pauses |
| Inference service (`services/inference/`) | attempt | call with ceiling and retries, execution of the tool calls | agent loop, tools | a timeout while tools run |
| Entities (`entities/`) | append-only versions, hash chain | register, verify | storage | sequential |
| Knowledge, memory, prompts, evaluation, guardrails, governance, audit, sandbox, MCP, connectors, CLI, config, toolkit, Studio | mostly I/O or data | - | - | not part of the run life cycle |

What makes the run substrate (the first eight) correct, taken together: an accepted run is driven by one worker
at a time and is eventually answered; what it answered is not taken back; nothing that a
process held in memory is needed to recover a run; a gated tool runs at most once per
approval and only after an approval; an accepted answer takes effect. Around it: a delivery
or a planned instant starts at most one handler and is not lost; a workspace stays within its
quota and no slot leaks; a pipeline neither repeats nor skips a member; an agent stays within
its turns, its budget and its approvals, and stops.

`PROJECT.json` lists the hazards of this code at the lines where they bite. They are of
four sorts. First, *read, await, write back*: every task works on a copy of the run record
and saves all of it. Second, *two actors on one row*: dispatchers and reapers, double
approvals, recovery beside serving peers. Third, *a crash between two saves that belong
together*. Fourth, *layers that each handle a failure*: a retry around a retry, a handler around a
handler, an error that one layer turns into a result for the next.

## 2. Plan

Done, in this order: `RunQueue` and `HitlResume` with their first proofs; `TriggerDedup` as a refinement
of `DeliveryContract`, with its proof; `Routines`; `RunAdmission`; `GraphRun`; `AgentLoop`; then the proofs
of every invariant and action property that the runs check (section 10).

`Routines` uses the same table as `TriggerDedup`, but with another protocol (claim and complete
before the work, no release), which is why it has the ledger in its own state. `RunAdmission`,
`GraphRun` and `HitlResume` each contain the part of the run row they need; `RunQueue` shows that a
claimed run has one driver, which the others take from it.

Left:

1. The Studio route that resumes by checkpoint id, as a second kind of request in `HitlResume`.
2. `RunLifecycle`: an abstract run (accepted, driven, paused, answered) that `RunQueue` implements
   under its timing assumptions, with the proof of the refinement.
3. Graphs with parallel branches in `GraphRun`; the entity integrity chain.

## 3. RunQueue

**What is modelled.** The `runs` table (`row`), dispatcher processes (`mode`; each name is
one incarnation with its own `owner_id`, so a restart is another name), their worker tasks
(`pc`, `job`), the `RunRecord` each worker holds (`copy`), heartbeat tasks (`beating`) and
the cached verdict of the local provider probe (`localUp`). Storage operations are atomic;
every await of the code is a point between two actions.

| Actions | Code |
|---|---|
| `Enqueue`, `RedriveRun` | stamping of queue fields in `run_enqueue.py`; `redrive_run` |
| `ClaimRun`, `AbandonClaim` | `_claim_once` with the claim statement, plain or fair; the claim that commits while `stop` cancels its loop |
| `Heartbeat`, `Reap`, `StartProcess`, `StopProcess`, `ExitProcess`, `CancelWorker`, `ProbeLocal` | loops, start-up sweep and drain of the dispatcher |
| `RejectInput`, `StartRun`, `FinishRun` | `dispatch_claimed_run` and `_execute_on_runtime_inner`: undecodable input, semaphore and RUNNING save, outcome save |
| `DriveRaises` | a save or the agent resolver raises: the `except` of `_run_worker` ends the worker, no retry policy runs and the row stays RUNNING for the reaper |
| `ReadForRetry`, `ApplyRetry` | the two halves of `apply_retry_policy` |
| `Crash`, `Tick`, `GrowOld` | environment |

**Abstractions.** Deadlines are kept as the time left, so the clock has no horizon: a lease
of 0 has expired, a wait of 0 is ready. Error texts are reduced to what the classifier makes
of them, error codes to retryable or fatal. An outcome is a choice among six combinations of
status, text and code. Order among equally loaded ready rows is left open. Only the durable,
dispatching mode is modelled: `runtime_bootstrap.py` turns dispatch on for every durable
store; the inline mode of the in-memory store has no leases to speak of.

**Environment assumptions**, each a constant so that runs can drop it:

- `TimelyBeats`: a live dispatcher acts on a lease before it runs out. The heartbeat beats
  at 0.3 of the lease and the lease is the run timeout plus 30 s, so this asks that a process is
  not frozen for 70 % of a lease.
- `UnblockedStart`: a claimed run does not wait a whole lease for the semaphore of its
  workspace. Fair claims give this (the cap of the claim is that of the semaphore), plain
  claims, the default on SQLite, do not: see section 11.
- `OperatorWaits`: a redrive does not hit a run whose worker is still inside the retry
  policy. `redrive_run` has no caller in the package, so this is about its future caller.

The conjunction is `InGoodTime`, the hypothesis of the exclusion theorems.

**Runs.**

| Run | Shows |
|---|---|
| `queue_fair` (passes) | two dispatchers, two runs of one workspace, fair claims, crashes, shutdown, drives that raise, retries and a redrive: `AtMostOneDriver`, `NoStrandedRun`, `CrossNodeCap`, `AttemptBudget`, `LiveRunNeverReaped`, `OutcomeNotOverwritten` |
| `queue_live` (passes) | under `FairSpec` a queued run of an ungated lane is answered, with a flapping local daemon, one undecodable run and one whose drive may raise and that grows too old to retry |

**Bounds.** Two dispatchers and two runs make every pairwise race possible (a claim against
a reap, a heartbeat against a peer's claim, two claims under a cap of one). A lease of two
ticks distinguishes fresh, aging and expired; `MaxAttempts` 2 reaches retry, backoff and
parking; each run may raise once (`MaxRaises`); `AttemptCap` 5 lies above what two lost dispatchers and
an exception can add to two attempts. One slot per dispatcher suffices where the cap is one. The two
dispatchers of `queue_fair` are symmetric; the runs are not.

**Fairness.** `FairSpec` asks that time passes, that processes that are deployed start, that
the loops of a live dispatcher turn and its tasks step, and that a drain ends by its timeout:
each is a loop or a bounded wait in the code. Nothing is asked of operators, daemons,
shutdowns or crashes.

## 4. HitlResume

**What is modelled.** One run and everything that happens between its pauses. `run` is its
row, `ck` the agent checkpoints, `mode` the processes, `driver` and `draft` the dispatcher
worker that drives the run and the record it holds. A *request* stands for an approve or
reject call, or for a re-drive by start-up recovery, and then for the background task it
launches: `pc` says how far it is, `copy` is the run record it read, `snap` the checkpoint
it loaded, `call` the next pending call. `effects` counts executions of each gated call and
`granted` collects the pauses a human approved; both are history.

| Actions | Code |
|---|---|
| `DriveRun`, `PauseDrive`, `EndDrive` | the drive, as far as it matters here; the checkpoint is saved first, the run second |
| `Receive`, `ClaimRun`, `RecordDecision`, `LaunchTask` | `resume_run`: validation, compare-and-set, decision, RUNNING and the task |
| `BeginTask`, `ClaimCheckpoint`, `LoadCheckpoint`, `LookupCall`, `ExecuteCall`, `RecordCall`, `ResolveCheckpoint`, `PauseTask`, `FinishTask`, `FailTask`, `AbandonTask` | `_resume_in_background` and `resume_agent_loop_locked`, with the ledger of the tool service |
| `StartProcess`, `ListResolving`, `Reopen`, `Reread`, `BeginServing` | start-up: sweep, `reconcile_resolving_runs`, serving |
| `Reap`, `StopProcess`, `CancelTask`, `Crash`, `LeaseRunsOut` | reaper, drain and environment |

**Abstractions.** A drive stands for all attempts the retry policy grants it. A lease is
absent, live or expired. The runtime's in-memory resume lock is left out because the service
builds a fresh runtime for each resume. Pruning of resolved checkpoints after 30 days is
left out.

**Environment assumptions.**

- `StartAlone`: a process starts while no resume is in flight and no other one recovers. This
  is what the comment in `run_recovery.py` takes for granted; it is true of one server, not of
  a rolling restart.
- `PromptClaim`: a request that read a pause claims it before the run pauses again. The two
  steps are a few awaits apart in the code.
- `LeaseHolds`: leases do not run out under a drive or a resume. For a resume this is *not*
  generally true: nothing renews its lease, and the one in the row is that of the first drive.
  `hitl_live` and `hitl_stale` use it, and so does the theorem about `EffectApproved`; the once-only
  results and `PauseIsUnanswered` do without.
- `CrashInClaim` FALSE: no crash between the claim of the run and the save of the decision.
- `Restarts`: for liveness, a process that ends is followed by another.

`Orderly == StartAlone /\ PromptClaim` is the hypothesis of all theorems but the first. `EffectApproved`
needs `LeaseHolds` in larger instances only, which TLC shows with three processes and three pauses: a drive
that started after a resume's lease had run out is still at work when pause 2 is approved and its process
dies; recovery re-opens the run, the stale drive announces pause 3, and recovery, which reads the row again,
carries the approval of pause 2 to pause 3.

**Runs.**

| Run | Shows |
|---|---|
| `hitl_once` (passes) | in orderly deployments, with expiring leases, reaped resumes and crashes at every step: `AtMostOnceEffect`, `OneResumePerPause`, `ResolutionFinal`, and a run that waits for a human points to a pause that nobody has answered (`PauseIsUnanswered`), whoever writes a late record over it |
| `hitl_live` (passes) | if leases hold too and no crash hits the claim: a tool runs only for an approved pause (`EffectApproved`) and an accepted answer takes effect: the run is finished or paused for the next one (`ResolvingSettles`) |
| `hitl_stale` (violation) | with `CrashInClaim`, recovery takes the decision of an earlier pause and runs a gated tool nobody approved |

**Bounds.** Two requests race each other or a re-drive; two pauses let a stale answer, copy
or decision meet a later pause; two processes give one crash and its recovery, three give a
recovery that crashes as well. `hitl_live` has two calls per checkpoint, so that a crash
can fall between them. `EffectCap` 2 is one above what the property allows.

**Fairness.** Requests and tasks step, processes start and finish their recovery, dispatchers
drive and reap, an expired lease is noticed. No human has to answer.

## 5. TriggerDedup and DeliveryContract

**The contract** (`DeliveryContract.tla`) says what the durable dedup promises about one delivery
id without rows, leases or processes: it is open, running or handled; one caller runs it at a time;
a run that fails or dies leaves it open; a run that succeeds closes it for a window.

**What is modelled.** Posts of one delivery id (`pc`, `host`) that reach server processes (`up`),
and the `trigger_dedup` row (`row`) they share. Ids do not interact: every statement but the sweep is
keyed. Posts have passed signature, payload and allow-list checks.

| Actions | Code |
|---|---|
| `Send`, `WinClaim`, `LoseClaim` | `handle_webhook` and the claim of `run_once_async` (`_dedup_try_claim_sync`) |
| `Return`, `Raise`, `Complete`, `Release`, `Deliver` | the end of the handler, `dedup_complete`, `dedup_release`, the answer |
| `Sweep`, `Crash`, `Restart`, `Tick` | the sweep loop of the bootstrap, and the environment |

**Worlds.** The *sender* posts at any time, or again after an error or no answer, or also waits
out a dead handler's lease (`patient`). `timely`: a handler is done with its row before the lease
runs out. `trigger_dedup.py:58-60` calls the lease of 300 s "long enough that a normal handler
finishes well inside it"; nothing bounds the handler or renews the lease, so this is an assumption.
`throttled`: the handler may fail with `ConnectorError`.

**Refinement.** `phase` is "running" while a request is inside the handler or between it and the
completion of the row, "handled" while the row is a completed one; `left` is what remains of a
completed row. `KeepsContract` is the contract under this mapping. A crash inside the handler is the
contract's `Fail`, a crash after `dedup_complete` is invisible, the expiry and the sweep of a row are
`Elapse` and `Forget`.

**Run.** `dedup_contract` (passes): two processes, three posts, two faults, a lease of 2 and a window
of 3 ticks, in a patient world and in one that floods and throttles: `OneHandler`, `KeepsContract` and,
for the patient sender, `EventuallyHandled`. Three posts suffice for a handler, a duplicate and the
post that a fault makes necessary; `DedupAssumption` asks for one post more than faults.
**Fairness**: live requests go on, processes are restarted, time passes, the sender repeats.

## 6. Routines

**What is modelled.** One routine with a finite set of occurrences; scheduler nodes with their
leadership (`lease`, `mode`), scheduler state (`sched`, `backlog`) and at most one task each (`task`);
CLI processes; `last_run_at` as an instant (`last`, for the due-math) and as an identity (`stamp`, for
the compare-and-set of `mark_started`); the ledger of planned fires (`ledger`).

| Actions | Code |
|---|---|
| `Bid`, `FailOpen`, `Promote`, `Demote`, `DropSession` | `acquire_scheduler_leadership`, its fail-open branch, the watchdog of `himmy worker`, `refresh`, a lost Postgres session |
| `CatchUp`, `Tick`, `RunNow` | `catch_up_on_launch` under the policies coalesce, skip and run_each; `tick`; the manual run |
| `TakeLock`, `Busy`, `ClaimFire`, `ClaimError`, `CompleteFire`, `MarkStarted`, `Finish` | `execute_routine`: host lock, ledger claim, conditional stamp, execution |
| `Exit`, `Elapse` | shutdown or crash of a process, time |

**Run.** `routines_fires` (passes): two nodes on two hosts, a CLI, two occurrences, two faults, one
manual run, in four worlds (cron and daily, each missed-run policy, Postgres and SQLite, with and
without a failing ledger). `FiredOnce`: two leaders at once, racing ticks and backfills, a stale
due-computation and a failing ledger never fire an occurrence twice. Two sorts of worlds are left out because
the code does fire an occurrence twice in them (section 11): a `run_each` routine on Postgres that is daily,
or whose ledger may fail. `DueIsConsumed`: every occurrence
is eventually fired, coalesced or skipped. Two occurrences are what ordering, backfill and
coalescing need; the ledger's TTL covers the horizon, as it covers the cadence in the code.
`PromptBackfill` asks that a backfill ends before the ledger rows it relies on expire.
**Fairness**: event loops and watchdogs go round, processes are restarted, agent runs end (they have
a timeout), time passes; nothing is asked of faults or of the person who runs it now.

## 7. RunAdmission

**What is modelled.** Requests with an optional idempotency key (`req`); the row of the record each may
create, reduced to its status and to whether it carries a lease (`status`, `leased`); the tasks that work on
a record: its driver (`driver`), the heartbeat of that driver (`beating`) and its resume (`resume`, with the
lease in the copy of the record that it writes back whole); model comparisons (`compare`), and the in-memory
counter of the workspace (`outstanding`). `revived` and `resumes` are history: the records that were active
again after they had finished, and how often each was claimed for a resume. Inline and dispatching servers
are two worlds, a store whose statements fail (`flaky`) and orchestration runs (`teams`) two more flags.

| Actions | Code |
|---|---|
| `Submit`, `SaveRunIfUnderQuota`, `QuotaCheckFails`, `FailOpenInsert`, `SaveRunIfAbsent`, `Launch`, `MarkRejected` | `create_run` from the look-up of the key to the launch or the 429 |
| `ClaimRun`, `StartDriving`, `SaveOutcome`, `FinishDriving`, `StopBeating` | claim, semaphore, drive, release of the slot, retry policy, heartbeat |
| `Redrive`, `Requeue` | `redrive_run` and the reaper, which takes RUNNING rows with a lease that nobody renews, also under a resume that is still at work; a row without a lease is not for it |
| `ClaimForResume`, `Recover`, `LaunchResume`, `StartResume`, `FinishResume` | `resume_run`, start-up recovery and the background task, which may end without a save (`EndsSilently`): a `HimmyError` in the resumed loop, or what looks like a lost claim in that of an orchestration run |
| `CompareAdmit`, `CompareRuns`, `CompareEnds` | `workspace_run_slot` around `compare_models` |
| `Crash`, `Drain`, `Restart` | environment, shutdown, start-up sweep |

**Abstractions.** A record has at most one driver and one resume at a time: a second one of a kind needs a
lease to run out twice under the first. A driver whose claim-time lease runs out while it waits, and a
worker that ends by an exception, are in `RunQueue`. Every client comes a bounded number of times: a request
is submitted once, a comparison is made once.

**Run.** `admission_quota` (passes): two requests with or without the same key and one comparison
under a cap of one, with a crash or a shutdown and one approval of each record. `OneRunPerKey`;
`SlotsAccounted`: the counter equals what it stands for on every path; `OutstandingUnderCap`: concurrent
creates stop at the cap; `RefusedNeverRuns`: nothing is driven for a request that got a 429;
`EventuallySettled`: a record that is queued, running or being resumed ends or waits for a person, whatever a
crash interrupted. The last one has an exception, which is part of the statement (`Stranded`): a record that
was resumed may stay RUNNING without a lease and with nobody at work on it, because its resume ended without a
save or had read the record between a reap and the next claim. Without the exception TLC finds the property
violated. A cap of one with three contenders makes every contention happen. The worlds are inline with
teams, inline with a flaky store, and dispatch with and without one; dispatch with teams is left to
the proofs, which hold in every world.
**Fairness** is weak: handlers, drivers, resumes, the reaper and admitted comparisons go on while the process
runs, and a stopped server is started again. Since every client comes a bounded number of times, nobody is
overtaken without end at the semaphore, which the code serves in order. Nobody has to decide an approval, redrive
a record or ask for a comparison.

## 8. GraphRun

**What is modelled.** One orchestration run that is a pipeline of `N` members: the run row (`run`),
graph checkpoints (`graph`: frontier and pause), member checkpoints (`member`), and the two drivers that
may be at work (`drv`: the one that executes and the one that resumes). `done` counts how often a
member did its work.

| Actions | Code |
|---|---|
| `Execute`, `RunNode`, `FailNode`, `PauseNode`, `SaveInterrupt`, `SaveSuperstep`, `SaveCompleted` | `_execute_orchestration_run` and the superstep loop of `CompiledStateGraph` |
| `ClaimRun`, `LaunchResume`, `ClaimMember`, `FinishMember`, `PauseMember`, `FailMember`, `Splice` | `resume_run`, `_resume_orchestration`, `_resume_member`, the splice of the answer |
| `CancelLoop`, `CancelSplice` | timeout and cancellation, which `invoke` turns into a result |
| `ApplyOutcome`, `ApplyRetryPolicy`, `Requeue`, `Crash`, `Restart` | projection onto the run row, retry, reaper, environment |

**Runs.** `graph_pipeline` (passes): two members, two pauses, one crash, inline and dispatched, with
and without cancellation and reaping: `MemberWorksOnce`, `PauseIsResumable`, `GraphAdvances`,
`SucceededIfUncancelled`, `EventuallyRests`. `graph_timeout` (violation): `SucceededMeansComplete`
without the exclusion of cancellations. Two members are the smallest pipeline with a member before
and after a pause. **Fairness**: drivers, dispatcher and reaper run, a dead server is started again;
nobody has to decide a pause.

## 9. AgentLoop

**What is modelled.** One run of an agent. `pc` is where it is (inference, tool calls, the checks after
a turn, paused, applying an answer, stopped); `reply` the tools the model called and whether it wrote
text; `todo` and `denied` which of its calls are not executed yet and which were denied; `attempt` and
`tries` the retries of the three layers; `turns`, `offset`, `spent` the accounts of the drive; `checkpoint` the pause. History:
`total` and `bill` count turns and cost of the whole run, `landed` the effects of the present call,
`doubled` whether a call had two, `licence` the approvals of this resume that are not used up.

| Actions | Code |
|---|---|
| `Answer`, `FailInference`, `RejectReply` | `InferenceService.run`: ceiling, retries, failure as a result; `_validate_structured_reply` |
| `DenyCall`, `BlockCall`, `RefuseCall`, `Dispatch` | `_execute_invocation`: approval gate, policy hook, capability and schema, dispatch with the tool's retries and, around it, those of `wrap_executor_with_retry` |
| `EndTurn`, `Continue`, `Stop`, `Pause`, `Synthesize` | `_continue_turn`, `drive_loop` with its checks in order (`StopReason`), `maybe_synthesize` |
| `AnswerPause`, `RejectCall`, `ResolveCheckpoint` | `resume_agent_loop_locked`: apply the decision, start a drive with the offsets of the checkpoint |

**Abstractions.** There are four tools: one that only reads, one that writes, such a tool behind an
approval, and `final_answer`. In a world the writing tools are LOCAL handlers or POSTs without an idempotency
key; a POST with one, which may be repeated without harm, is not modelled. Cost is counted in units of which
a turn takes at most one. What the turn keeps of a return is whether it is a denial. Runs of consecutive reads, which the
code executes in parallel, are executed in turn: they have no effects. Crashes and concurrent
resumes are the subject of `HitlResume`, so the ledger is not repeated here. Left out:
`stop_on_no_progress` (no service turns it on), the steering queue, compaction, the streaming twin of
the loop, the response cache and the retry without prompt caching.

**Worlds.** `manager`: a client manager that executes the tool calls of one reply, or pydantic-ai, which
makes the whole round trip; `hitl`; `local`: the writing tools are LOCAL, and `_is_retry_safe` lets the service
repeat them after any transient failure, a timeout included; `schema`: a reply is validated after its tools
ran, and one that fails keeps its calls (`RejectReply`); `ambiguous`: an upstream that answers 5xx or drops
the connection may have done the work.

**Runs.** `agent_loop` (passes): both managers, with and without `hitl`, both sorts of writing tools, with
and without a schema, dependable upstreams. `LimitsHold`: turns and cost stay bounded across pauses.
`EffectsUnderApproval`: a gated tool takes effect only in an approved resume; per approved call a POST takes
effect once, a LOCAL tool as often as its hints allow attempts (`MayLand`). `WriteNotMultiplied`: no layer
repeats a POST that may have landed, and a LOCAL write is repeated by the tool service only.
`ApprovalNeverSkipped`: with `hitl` and a manager that executes the calls of one reply, no limit and no final
answer ends a run over the head of a pending approval; a turn that failed as a whole may, and
pydantic-ai, which hands no denial on, is not part of the statement (section 11 has both). `EventuallyStops`.
`agent_resend` (violation): `WriteNotMultiplied` with an ambiguous upstream.
**Bounds**: four turns and a budget of two let the budget end a drive before the turns do, within one
drive and across a pause; two calls per reply mix a gated call with any other; two pauses let a
resumed drive pause again; one retry per layer and two attempts per tool exhaust each layer under the
next. **Fairness**: every call is awaited under a timeout, so the process always takes a next step; the
human need not answer.

No run checks deadlock, because every one of these systems may have nothing left to do: its runs are
answered or paused, its clients have come, its occurrences are past, or its processes are down with none left
to start. That nothing gets stuck earlier is what the liveness properties say.

## 10. What is proved

TLAPS checks the following for all values of the constants that satisfy the named assumptions
of the modules: any number of runs, dispatchers, slots, requests, processes, pauses, calls, posts, nodes,
occurrences, members, retries and faults, any limits and caps. Every invariant and every action property
that a run checks is among them; the run shows it on a small instance, with every action taken, the theorem
for all instances. "Under" names a hypothesis, which is one of the environment assumptions of sections 3 to 9.

| Module | Theorem | Statement |
|---|---|---|
| `RunQueueProofs` | `TypeCorrect` | `[]TypeOK` |
| | `NoRunIsStranded` | `[]NoStrandedRun`, without timing assumptions |
| | `DisciplineHolds` | `[]LeaseDiscipline` under `InGoodTime` |
| | `OneDriverPerRun` | `[]AtMostOneDriver` under `InGoodTime` |
| | `OutcomesStand` | `OutcomeNotOverwritten` under `InGoodTime` |
| | `NoLiveRunReaped` | `LiveRunNeverReaped` under `InGoodTime` |
| | `WorkspacesAreCapped` | `[]CrossNodeCap` under `InGoodTime` |
| | `RetriesAreBounded` | `[]AttemptBudget` under `InGoodTime` |
| `HitlResumeProofs` | `TypeCorrect` | `[]TypeOK` in every deployment |
| | `DisciplineHolds` | `[]ResumeDiscipline` under `Orderly` |
| | `OneResume` | `[]OneResumePerPause` under `Orderly` |
| | `EffectsHappenOnce` | `[]AtMostOnceEffect` under `Orderly` |
| | `ResolutionStands` | `ResolutionFinal` under `Orderly` |
| | `PausesAreUnanswered` | `[]PauseIsUnanswered` under `Orderly`, whatever leases do |
| | `EffectsAreApproved` | `[]EffectApproved` under `Orderly`, `LeaseHolds` and `~CrashInClaim` |
| `TriggerDedupProofs` | `TypeCorrect` | `[]TypeOK` in every world |
| | `HandlersAreAlone` | `[]OneHandler` (which speaks of timely worlds) |
| | `ImplementsContract` | `KeepsContract`, the refinement, where every world is timely (`AllTimely`) |
| `RoutinesProofs` | `TypeCorrect` | `[]TypeOK` in every world |
| | `DisciplineHolds` | `[]FireDiscipline` under `LedgerGuardsBackfills` |
| | `OccurrencesFireOnce` | `[]FiredOnce` under `LedgerGuardsBackfills` |
| `RunAdmissionProofs` | `TypeCorrect` | `[]TypeOK` in every world |
| | `OwnershipHolds` | `[]Ownership` |
| | `RunsAreKeyed`, `RefusedStaysIdle` | `[]OneRunPerKey`, `[]RefusedNeverRuns` |
| | `CounterIsExact`, `CreatesStopAtCap` | `[]SlotsAccounted`, `[]OutstandingUnderCap` (which name their worlds) |
| `GraphRunProofs` | `TypeCorrect` | `[]TypeOK` in every world |
| | `ShapeHolds` | `[]Shape` |
| | `PausesAreResumable` | `[]PauseIsResumable`, reaped resumes included |
| | `ResumesFindTheirMember` | `[]ClaimFindsMemberWaiting` |
| | `GraphsAdvance` | `GraphAdvances` |
| | `SuccessIsComplete` | `[]SucceededIfUncancelled` |
| | `MembersWorkOnce` | `[]MemberWorksOnce` |
| `AgentLoopProofs` | `TypeCorrect` | `[]TypeOK` in every installation |
| | `LimitsAreKept` | `[]LimitsHold` |
| | `ApprovalsBoundEffects` | `[]EffectsUnderApproval`, with any manager and upstream |
| | `ApprovalsAreAsked` | `[]ApprovalNeverSkipped` (which names its manager) |
| | `WritesAreNotMultiplied` | `[]WriteNotMultiplied` under `UpstreamsTell` |

*The queue.* `AtMostOneDriver` is not inductive: that a worker's row is its own says nothing
about the next tick. `LeaseDiscipline` adds that the lease in the row is positive, that the
claim-time copy a starting worker will write back still carries a positive lease, that the
heartbeat is alive (or the process is draining), and where the row of a worker past its
outcome can be. `Tick` preserves it by `InGoodTime`; every other action by a case of its own.

`CrossNodeCap` follows from two facts: the claims keep the live RUNNING rows of a workspace under its cap
(`CapKept`), and by the discipline every driver has such a row, a different one for each. `AttemptBudget`
is a matter of who pays for an attempt (`Budgeted`): a queued run has one to spend, a running one is charged
to its dispatcher, which drives it or is gone, or to an exception that ended its worker; each dispatcher that
is lost in the middle of runs and each drive that raises costs at most one attempt more. No smaller bound
holds: the reaper does not look at `max_attempts`.

*Approval.* That no call is executed twice rests on three things the code never states in
one place. A row that can be claimed points to a checkpoint nobody has touched
(`RowIsFresh`). A resume past the claim is alone on its checkpoint, and the checkpoint's status
follows the resume's position (`OwnCheckpoint`, `OneResumePerPause`). The calls ahead of a
resume have not run (`CallsAhead`). Two more conjuncts keep the first one inductive:
recovery, which re-opens a row, is alone (`RecoveryAlone`), and a checkpoint that is saved
but not yet announced by a row is known to its maker only (`MakerOnly`), so that announcing it
cannot give a second resume a target that is in use. Leases and reapers play no part in the
argument, which is why it survives the reaped resumes of `hitl_once`: a run may start over,
but it then pauses on a new checkpoint that a human has to approve again.

`PauseIsUnanswered` follows from the same invariant: a late resume or driver that writes AWAITING_APPROVAL
announces a checkpoint which it has just made and nobody else knows, and no save of an old record brings
an old pause back.

Leases play a part in `EffectApproved`. If they hold, one task at a time, worker or resume, holds the run
(`OneHolder`), and the decision a record carries belongs to the pause it names, from the human to the
executed call (`ApprovalTrail`). Both
hypotheses are necessary: without `~CrashInClaim` the property is the finding `hitl_stale`, without
`LeaseHolds` the scenario of section 4.

Type correctness of `HitlResume` needs `HasCheckpoint`: who works on a checkpoint has one.

*Dedup.* `OneHandler` is inductive together with `TypeOK`: a claim wins only where no live in-flight
row is, and a handling request keeps one alive until it completes or releases it, because `Tick` does
not take the last unit of a lease from a timely handler. From it each step maps to a step of the contract
or to a stutter: a claim that wins is `Begin` (a completed row that it replaces has run out), a completion
is `Succeed` (it hits the handler's own row), a release or a crash inside the handler is `Fail`, and since
handlers are alone nobody else's steps touch `phase`.

*Routines.* Two mechanisms share the work and `FireDiscipline` says which does what. The conditional stamp
decides among tasks that were launched on the same stamp: after the first has fired, the others are not
*live* any more. A tick is launched for an occurrence ahead of `last_run_at`, and what was fired is not
ahead of it (`TicksAhead`, `FiredPast`), so ticks need nothing else. A backfill takes a fresh stamp for each
of its occurrences, which `last_run_at` may have passed in the meantime; it relies on the ledger. If one
of them was fired, its row is live (`BackfillsBarred`); for that to hold at the moment of the fire, the row
of the task that fires must have outlasted its claim (`BackfillsHold`, `RowsShield`). The last one is delicate
where a tick and another node's backfill meet: the tick's occurrence is the first after `last_run_at`, so
that a backfill which starts then has it at its head, on the same stamp, and never behind.
`LedgerGuardsBackfills` is what this asks of a deployment.

*Admission.* `Ownership` follows a record from the request that makes it to the tasks that work on it: before
its insert a request has no record, a driver and a resume have one, and a refused one is never launched, from whose
FAILED no resume can start. `SlotsAccounted` and the cap are then counting arguments, one case per path
through `create_run`. The cap of the dispatcher counts the records that are active and were so without a break:
resumes, retries and reapers move a record among the active states or revive it, and only an insert that has
counted adds one.

*Orchestration.* `Shape` says in which combinations the run row, the graph checkpoints, the member
checkpoints and the two drivers can be found between the three saves of a superstep, and that two drivers
never share a graph or a member. It is why a pause is resumable and why a graph does not go back.
`MemberWorksOnce` needs an account besides (`WorkAccounted`): for each member, the work done plus the
graphs in which it can still be done never exceeds the graphs that were begun.

*Agent loop.* `LimitsHold` needs the equation between the tally of the run and the accounts of the drive
with its two offsets (`Tallied`). `EffectsUnderApproval` needs a licence of `MayLand` effects for each gated call
that an approved resume has left (`Licensed`). `ApprovalNeverSkipped` holds because a gated call of a reply is
denied or still to do, wherever the turn is, unless the turn failed (`Asked`). `WriteNotMultiplied` under
`UpstreamsTell` (no world is ambiguous) is the other side of the finding `agent_resend`.

*Only model-checked*: liveness (`QueuedRunSettles`, `ResolvingSettles`, `EventuallyHandled`,
`DueIsConsumed`, `EventuallySettled`, `EventuallyRests`, `EventuallyStops`), which is out of the prover's
reach: it has no rule for fairness and no `ENABLED`. The inductive invariants themselves are proved and
have no run of their own.

## 11. Findings

Three runs end in a violation. Each states what a comment of the code says and shows an execution of the
code that does otherwise; `PROJECT.json` quotes the lines.

- `hitl_stale`: the recorded decision is written after the claim and never cleared. A crash between the
  two makes recovery apply the approval of an earlier pause to the present one.
- `graph_timeout`: the graph catches its cancellation and returns "interrupted", which the projection
  takes for success: a pipeline that timed out is recorded as SUCCEEDED.
- `agent_resend`: after PROVIDER_UNAVAILABLE the turn sends a POST again which the tool service has just
  refused to repeat because it may have landed.

The models show more, without a run of their own. Constants and worlds in brackets are those under which the
execution exists; the properties that it would break are assumed or stated without them.

*Queue.*
- A worker that lost its lease overwrites the new owner's row with its late outcome
  (`dispatcher.py:311-313`; `TimelyBeats` FALSE).
- With plain claims the save at the start of a drive puts the claim-time lease back, and a live run is
  reaped (`run_drive.py:463`; `Fairness` FALSE, `UnblockedStart` FALSE, two slots).
- An error code of an earlier attempt decides about a later failure without one (`run_retry.py:136`,
  against `run_retry.py:63-65`).
- A process that dies between the FAILED save (`run_drive.py:326`) and `apply_retry_policy` leaves a
  retryable run FAILED; neither the reaper nor the start-up sweep looks at FAILED rows.
- The reaper does not look at `max_attempts`: a run that kills its process, or whose drive raises into
  `_run_worker` (`dispatcher.py:294-295`), is claimed without end. `AttemptBudget` counts these claims.

*Approvals.*
- Recovery beside a serving peer re-opens the peer's run and the tool runs twice
  (`run_recovery.py:173`; `StartAlone` FALSE).
- The claim compares the status only, so a late answer wins a later pause (`sqlite.py:1408`;
  `PromptClaim` FALSE).
- Nothing renews the lease of a resumed run, so the reaper re-queues it under its resume
  (`run_drive.py:983`). The resume and the new driver then both write the row, and the later of them
  replaces the outcome of a run that has finished (`LeaseHolds` FALSE).
- A resume that ends on a `HimmyError` of its loop (`run_drive.py:1070-1078`), or on what looks like a lost claim
  of an orchestration run (`1274-1283`), saves nothing and leaves the run RUNNING: inline until the next
  start, with the dispatcher until its lease runs out, or for good if it has none (`Stranded` in
  `RunAdmission`).
- `resume_run` writes RUNNING (`run_drive.py:981`) before the background task exists, so a resume that
  dies in that task leaves RUNNING and not, as `models.py:43-45` has it, RESOLVING.
- A resume that read the run after a reap holds a record with no lease. When it pauses again and is
  answered, the row is RUNNING with `lease_expires_at` NULL, which the reaper never selects.

*Dedup.*
- A handler that outlives its lease completes or releases the row of the request that took over
  (`timely` FALSE).
- A redelivery within the lease of a dead handler is acknowledged with 200 (`webhook.py:413-414`); a sender
  that takes this for an acceptance is never served (`sender` "retrying").
- A `ConnectorError` of the handler or of its rate limiter is taken for the duplicate signal and
  acknowledged with 200 (`throttled`, with a patient sender).

*Routines.*
- Two leaders may fire one occurrence of a daily `run_each` routine twice, although
  `scheduler_leader.py:9-12` and `:20-22` have the dedup guard that overlap: ticks of a daily routine
  leave nothing in the ledger (`routines.py:1942-1944`), so a second leader, which has the occurrence in its
  backfill, wins the claim of it on the fresh stamp after the first has fired it (`Worlds` with "daily",
  "run_each" and "postgres").
- The same happens with a cron schedule if the claim of one of two backfills fails and goes on "on flock/CAS
  only" (`routines.py:1591-1593`): it fires without a row (`Worlds` with "run_each", "postgres" and `flaky`).
- A crash in the middle of a `run_each` backfill loses the rest of it; two racing backfills may fire out
  of order; a manual run during a backfill drops the occurrence it finds busy.
- A node whose bid failed leads for good: it has no lease to lose and nothing to re-contend with.
- The backfill is capped from the oldest occurrence, so that it may stop before it reaches the grace
  window.

*Admission.*
- An orchestration run that the dispatcher drives gives back a slot it never took, so that more
  comparisons than the cap are admitted (`run_drive.py:1622`, against `services.py:1229-1231`).
- The fail-open insert answers (record, created), which `create_run` reads as (record, admitted): a repeat
  of a known key during a store error is told 429.
- Retries, redrives and resumes re-activate a record without asking the quota.
- An inline record that is rejected over quota keeps its idempotency key.

*Orchestration.*
- No caller passes `graph_resume_id`, so a run that is dispatched again starts its graph anew and its
  members work again.
- A reaped resume leaves two drivers on one run.
- `run_drive.py:909-913` and `run_recovery.py:142-158` say that a resume that crashes leaves its run RESOLVING,
  to be driven again through the member's claim and ledger. An orchestration resume sets RUNNING
  (`run_drive.py:1137-1139`) before it claims the member, so that a crashed one is swept to FAILED, or executed
  anew in dispatch mode; that the claim always finds its member waiting is `ResumesFindTheirMember`.

*Agent loop.*
- Under pydantic-ai the outcome of a tool call is lost (`pydantic_ai_manager.py:428-468` records every
  return as a success), so with `hitl` a denied gated call never pauses the run, although
  `single_agent.py:888-892` says that the loop pauses; it ends as "final". `ApprovalNeverSkipped` leaves
  this manager out.
- A reply that fails its schema after its tools ran is FAILED and keeps its denied calls
  (`inference/service.py:233-242`); the loop looks at the failure first and ends with "error", so that the
  denied gated call is neither asked for nor executed.
- The tool service repeats a LOCAL tool, a write or a gated one included, after a TIMEOUT
  (`tools/service.py:743,764-766`), which the turn's retry does not do because the call may have landed
  (`tool_exchange.py:150-156`): an approved call with retry hints may act more than once
  (`EffectsUnderApproval` allows for it).
- A policy hook denies with the outcome and the code of the approval gate, so that with `hitl` a blocked
  call becomes an approval request which, approved, is blocked again; `_pending_approvals` says it keys
  on the approval gate only.
- The ceiling of an inference call may expire while its tools run; the turn is then generated anew and the
  model does not see what has already been done.

## 12. What is not modelled

*Coverage.* The map covers about six thousand of the implementation's lines. The rest is, for the larger
part, not state machines: provider adapters, prompts and retrieval, command line and Studio pages,
connectors, toolkits, benchmarks, data packs. Lines of that kind are listed as components with the reason
and are not mapped, because a definition that claimed them would translate nothing.

*Parts of modelled components.* Of admission: the validation of inputs. Of the dedup: `seen_async`, the
in-memory store of an installation without a durable one, and posts without an id. Of routines: editing,
and the text of results. Of orchestration: parallel branches and loops, group chat, planner and
reflection, which choose the next speaker by a model's answer. Of the agent loop: what section 9 lists.
The Studio route that resumes by checkpoint id is planned.

*Other components.* Postgres implements the queue operations with `SKIP LOCKED` and the same guards; its
advisory lock and its dedup table are in `Routines`, its fail-open insert in `RunAdmission`; the rest of
its statements have not been compared with those of SQLite. The entity registry is sequential under one
lock. Knowledge, memory, prompts, guardrails, governance, connectors, CLI and Studio are I/O, data
transformation or presentation.
