------------------------------ MODULE Routines ------------------------------
(***************************************************************************)
(* Scheduled routines: RoutineScheduler and execute_routine                *)
(* (himmy/api/routines.py), the election of the node that ticks            *)
(* (himmy/api/scheduler_leader.py and the failover watchdog of             *)
(* himmy/cli/commands.py and api/routers/studio_routines.py), the          *)
(* at-most-once ledger of planned fires (trigger_dedup, scope "schedule")  *)
(* and the manual `run-now`.                                               *)
(*                                                                         *)
(* One routine is modelled; routines share only the loop that lists them.  *)
(* Its occurrences are the instants of a finite set, in clock ticks; it    *)
(* was created at instant 0.  A scheduler node serves the routine with at  *)
(* most one tracked task; a CLI process is a node that only runs it now.   *)
(*                                                                         *)
(* mark_started stamps last_run_at with a microsecond clock and compares   *)
(* it for equality, so a stamp is modelled by its instant (the anchor of   *)
(* the due-math) and by a number of its own (what the compare-and-set      *)
(* tells apart).  A ledger row is the time left to its expires_at: a row   *)
(* of 0 is as good as none to dedup_try_claim, and is what the sweep       *)
(* deletes.                                                                *)
(***************************************************************************)
EXTENDS Integers, FiniteSets, FiniteSetsExt

CONSTANTS
    Node,            \* server processes that may run the scheduler
    Cli,             \* processes of `himmy routines run-now`
    Host,            \* the machine of every process
    NoNode,          \* nobody holds the advisory lock
    Instants,        \* the occurrences of the schedule
    Horizon,         \* the clock stops counting here
    Ttl,             \* _dedup_ttl_for
    Grace,           \* grace_seconds
    MaxCatchup,      \* max_catchup
    Worlds,          \* the schedules and deployments considered, see World
    PromptBackfill,  \* no backfill outlasts the ledger rows it relies on
    MaxFaults,       \* bound on crashes, lost sessions and store errors
    MaxRunNow        \* bound on manual runs

\* kind:    "cron" (and a one-shot "at"), whose fires carry their planned
\*          instant into the ledger, or "daily", whose ticks do not;
\* missed:  the missed-run policy;
\* backend: where leadership is decided, by the Postgres advisory lock or by
\*          the scheduler flock of the one host that has the SQLite file;
\* flaky:   a claim in the ledger may raise.
World == [kind : {"cron", "daily"}, missed : {"coalesce", "skip", "run_each"},
          backend : {"postgres", "sqlite"}, flaky : BOOLEAN]

Actor == Node \cup Cli

ASSUME RoutineAssumption ==
    /\ Node \cap Cli = {} /\ NoNode \notin Actor
    /\ Host \in [Actor -> STRING]
    /\ Horizon \in Nat
    /\ Instants # {} /\ Instants \subseteq 1..Horizon
    /\ Ttl \in Nat /\ Ttl > 0
    /\ Grace \in Nat /\ MaxCatchup \in Nat
    /\ Worlds \subseteq World
    /\ PromptBackfill \in BOOLEAN
    /\ MaxFaults \in Nat /\ MaxRunNow \in Nat

VARIABLES
    world,           \* the schedule and the deployment, fixed for ever
    now,
    last,            \* last_run_at as an instant, created_at at first
    stamp,           \* last_run_at as an identity: the number of stamps
    ledger,          \* what is left of the ledger row of every instant
    lease,           \* who holds the advisory lock or the scheduler flock
    mode,            \* SchedulerLeadership.mode of every node
    sched,           \* where the scheduler of every node is
    backlog,         \* occurrences a run_each catch-up has still to launch
    task,            \* the execution of the routine in every process
    fires,           \* scheduled fires of every occurrence (history)
    faults,
    manual           \* manual runs so far
nodeVars == <<lease, mode, sched>>
vars == <<world, now, last, stamp, ledger, lease, mode, sched, backlog, task,
          fires, faults, manual>>

Mode == {"down", "lease", "follower", "flock", "refused", "failopen"}
Leading == {"lease", "flock", "failopen"}       \* is_leader
Sched == {"off", "catchup", "each", "on"}

NoOccurrence == 0
Unconditional == -1
Task == [pc : {"idle", "launched", "locked", "claimed", "cleared", "running"},
         occ : Instants \cup {NoOccurrence},    \* the occurrence it is for
         keyed : BOOLEAN,                       \* planned_fire_at_iso is set
         expected : Nat \cup {Unconditional}]   \* expected_last_run_at
NoTask == [pc |-> "idle", occ |-> NoOccurrence, keyed |-> FALSE,
           expected |-> Unconditional]

TypeOK ==
  /\ world \in Worlds
  /\ now \in 0..Horizon /\ last \in 0..now
  /\ stamp \in Nat
  /\ ledger \in [Instants -> 0..Ttl]
  /\ lease \in Node \cup {NoNode}
  /\ mode \in [Node -> Mode]
  /\ sched \in [Node -> Sched]
  /\ backlog \in [Node -> SUBSET Instants]
  /\ task \in [Actor -> Task]
  /\ fires \in [Instants -> Nat]
  /\ faults \in 0..MaxFaults /\ manual \in 0..MaxRunNow
  \* Only a node that leads has a scheduler, and only a backfill a backlog.
  /\ \A n \in Node : /\ sched[n] # "off" => mode[n] \in Leading
                     /\ backlog[n] # {} => sched[n] = "each"

Init ==
  /\ world \in Worlds
  /\ now = 0 /\ last = 0 /\ stamp = 0
  /\ ledger = [i \in Instants |-> 0]
  /\ lease = NoNode
  /\ mode = [n \in Node |-> "down"]
  /\ sched = [n \in Node |-> "off"]
  /\ backlog = [n \in Node |-> {}]
  /\ task = [a \in Actor |-> NoTask]
  /\ fires = [i \in Instants |-> 0]
  /\ faults = 0 /\ manual = 0

Fault == faults < MaxFaults /\ faults' = faults + 1

-----------------------------------------------------------------------------
(* Due-math.                                                               *)

\* Occurrences in (last_run_at, now].
Missed == {i \in Instants : last < i /\ i <= now}

IsDue == Missed # {}

\* The occurrence a tick fires for: a cron routine the first one after its
\* anchor, a daily routine the latest one.
DueOccurrence ==
  IF world.kind = "cron" THEN Min({i \in Instants : last < i})
                         ELSE Max({i \in Instants : i <= now})

Oldest(S, k) == {i \in S : Cardinality({j \in S : j <= i}) <= k}
Newest(S, k) == {i \in S : Cardinality({j \in S : j >= i}) <= k}

\* cron_occurrences_between stops at its limit, counted from the oldest;
\* _daily_occurrences_between keeps the newest of twice as many and two.
Enumerated ==
  IF world.kind = "cron" THEN Oldest(Missed, MaxCatchup)
  ELSE Newest(Oldest(Missed, 2 * MaxCatchup + 2), MaxCatchup)

WithinGrace == {i \in Missed : i >= now - Grace}

MissedOccurrences == Newest(Enumerated \cap WithinGrace, MaxCatchup)

-----------------------------------------------------------------------------
(* execute_routine.                                                        *)

Launched(occ, keyed, expected) ==
  [pc |-> "launched", occ |-> occ, keyed |-> keyed, expected |-> expected]

\* Mutant: after a backfill nobody starts the tick loop.
EndedNoTicks(a) ==
  /\ task' = [task EXCEPT ![a] = NoTask]
  /\ IF a \in Node /\ sched[a] = "each"
     THEN sched' = [sched EXCEPT ![a] = "off"] ELSE UNCHANGED sched
  /\ backlog' = IF a \in Node THEN [backlog EXCEPT ![a] = {}] ELSE backlog

\* An execution in process a is over.  A run_each catch-up awaited it and
\* goes on with the oldest occurrence left, on the anchor it reads now; after
\* the last one the tick loop starts.
Ended(a) ==
  IF a \in Node /\ sched[a] = "each" /\ backlog[a] # {}
  THEN LET occ == Min(backlog[a]) IN
       /\ task' = [task EXCEPT ![a] = Launched(occ, TRUE, stamp)]
       /\ backlog' = [backlog EXCEPT ![a] = @ \ {occ}]
       /\ UNCHANGED sched
  ELSE /\ task' = [task EXCEPT ![a] = NoTask]
       /\ sched' = IF a \in Node /\ sched[a] = "each"
                   THEN [sched EXCEPT ![a] = "on"] ELSE sched
       /\ UNCHANGED backlog

HostOf(a) == IF world.backend = "sqlite" THEN "box" ELSE Host[a]

\* The routine's flock, held from "locked" to the end of the execution.
LockFree(a) ==
  \A b \in Actor \ {a} : HostOf(b) = HostOf(a)
                           => task[b].pc \in {"idle", "launched"}

TakeLock(a) ==
  /\ task[a].pc = "launched"
  /\ LockFree(a)
  /\ task' = [task EXCEPT ![a].pc = IF task[a].keyed THEN "locked" ELSE "cleared"]
  /\ UNCHANGED <<world, now, last, stamp, ledger, nodeVars, backlog, fires,
                 faults, manual>>

\* RoutineBusyError: a tick and a backfill log it, run_now answers 409.
Busy(a) ==
  /\ task[a].pc = "launched"
  /\ ~LockFree(a)
  /\ Ended(a)
  /\ UNCHANGED <<world, now, last, stamp, ledger, lease, mode, fires, faults,
                 manual>>

ClaimFire(a) ==
  /\ task[a].pc = "locked"
  /\ IF ledger[task[a].occ] = 0
     THEN /\ ledger' = [ledger EXCEPT ![task[a].occ] = Ttl]
          /\ task' = [task EXCEPT ![a].pc = "claimed"]
          /\ UNCHANGED <<sched, backlog>>
     ELSE Ended(a) /\ UNCHANGED ledger
  /\ UNCHANGED <<world, now, last, stamp, lease, mode, fires, faults, manual>>

\* The claim raised: the fire goes on under the flock and the stamp alone.
ClaimError(a) ==
  /\ task[a].pc = "locked" /\ world.flaky
  /\ Fault
  /\ task' = [task EXCEPT ![a].pc = "cleared"]
  /\ UNCHANGED <<world, now, last, stamp, ledger, nodeVars, backlog, fires, manual>>

\* dedup_complete gives the won row a full TTL.
CompleteFire(a) ==
  /\ task[a].pc = "claimed"
  /\ ledger' = [ledger EXCEPT ![task[a].occ] = Ttl]
  /\ task' = [task EXCEPT ![a].pc = "cleared"]
  /\ UNCHANGED <<world, now, last, stamp, nodeVars, backlog, fires, faults, manual>>

\* Mutant: the tick's stamp is unconditional, like the one of run_now.
StampMatchesAlways(a) == task[a].expected >= Unconditional

\* last_run_at IS expected_last_run_at, or no expectation.
StampMatches(a) == task[a].expected \in {stamp, Unconditional}

\* mark_started, then the agent runs.
MarkStarted(a) ==
  /\ task[a].pc = "cleared"
  /\ IF StampMatches(a)
     THEN /\ last' = now /\ stamp' = stamp + 1
          /\ task' = [task EXCEPT ![a].pc = "running"]
          /\ fires' = [i \in Instants |-> fires[i] + (IF i = task[a].occ THEN 1 ELSE 0)]
          /\ UNCHANGED <<sched, backlog>>
     ELSE Ended(a) /\ UNCHANGED <<last, stamp, fires>>
  /\ UNCHANGED <<world, now, ledger, lease, mode, faults, manual>>

\* The agent is done; the result and the next fire are recorded.
Finish(a) ==
  /\ task[a].pc = "running"
  /\ Ended(a)
  /\ UNCHANGED <<world, now, last, stamp, ledger, lease, mode, fires, faults,
                 manual>>

-----------------------------------------------------------------------------
(* The scheduler of a node.                                                *)

\* catch_up_on_launch, before the tick loop starts.
CatchUp(n) ==
  /\ sched[n] = "catchup" /\ task[n].pc = "idle"
  /\ LET skip == IsDue /\ world.missed = "skip"
         each == IF world.missed = "run_each" THEN MissedOccurrences ELSE {}
     IN /\ last' = IF skip THEN now ELSE last
        /\ stamp' = IF skip THEN stamp + 1 ELSE stamp
        /\ sched' = [sched EXCEPT ![n] = IF each = {} THEN "on" ELSE "each"]
        /\ IF each = {} THEN UNCHANGED <<task, backlog>>
           ELSE /\ task' = [task EXCEPT ![n] = Launched(Min(each), TRUE, stamp)]
                /\ backlog' = [backlog EXCEPT ![n] = each \ {Min(each)}]
  /\ UNCHANGED <<world, now, ledger, lease, mode, fires, faults, manual>>

Tick(n) ==
  /\ sched[n] = "on" /\ task[n].pc = "idle"
  /\ IsDue
  /\ task' = [task EXCEPT ![n] = Launched(DueOccurrence, world.kind = "cron", stamp)]
  /\ UNCHANGED <<world, now, last, stamp, ledger, nodeVars, backlog, fires,
                 faults, manual>>

RunNow(c) ==
  /\ task[c].pc = "idle" /\ manual < MaxRunNow
  /\ manual' = manual + 1
  /\ task' = [task EXCEPT ![c] = Launched(NoOccurrence, FALSE, Unconditional)]
  /\ UNCHANGED <<world, now, last, stamp, ledger, nodeVars, backlog, fires, faults>>

-----------------------------------------------------------------------------
(* Leadership.                                                             *)

\* acquire_scheduler_leadership at start-up.
Bid(n) ==
  /\ mode[n] = "down"
  /\ IF lease = NoNode
     THEN /\ lease' = n
          /\ mode' = [mode EXCEPT ![n] =
                        IF world.backend = "sqlite" THEN "flock" ELSE "lease"]
          /\ sched' = [sched EXCEPT ![n] = "catchup"]
     ELSE /\ mode' = [mode EXCEPT ![n] =
                        IF world.backend = "sqlite" THEN "refused" ELSE "follower"]
          /\ UNCHANGED <<lease, sched>>
  /\ UNCHANGED <<world, now, last, stamp, ledger, backlog, task, fires, faults,
                 manual>>

\* The bid raised: the node leads without a lease, and without a watchdog.
FailOpen(n) ==
  /\ mode[n] = "down" /\ world.backend = "postgres"
  /\ Fault
  /\ mode' = [mode EXCEPT ![n] = "failopen"]
  /\ sched' = [sched EXCEPT ![n] = "catchup"]
  /\ UNCHANGED <<world, now, last, stamp, ledger, lease, backlog, task, fires,
                 manual>>

\* A process that does not lead any more has exited; its watchdog, which
\* awaits the catch-up of a promotion, is not there yet during one.
Watching(n) == mode[n] \in {"lease", "follower"} /\ sched[n] \notin {"catchup", "each"}

\* Watchdog of a follower: the lock is free, lead, catch up and tick.
Promote(n) ==
  /\ Watching(n) /\ mode[n] = "follower"
  /\ lease = NoNode
  /\ lease' = n
  /\ mode' = [mode EXCEPT ![n] = "lease"]
  /\ sched' = [sched EXCEPT ![n] = "catchup"]
  /\ UNCHANGED <<world, now, last, stamp, ledger, backlog, task, fires, faults,
                 manual>>

\* Mutant: the tick loop of a node that lost its lease is not stopped.
DemoteKeepsTicking(n) ==
  /\ Watching(n) /\ mode[n] = "lease"
  /\ lease \notin {n, NoNode}
  /\ mode' = [mode EXCEPT ![n] = "follower"]
  /\ UNCHANGED <<world, now, last, stamp, ledger, lease, sched, backlog, task,
                 fires, faults, manual>>

\* Watchdog of a leader whose session dropped: it bids again at once; if the
\* lock is taken it follows, and its scheduler is stopped, runs included.
Demote(n) ==
  /\ Watching(n) /\ mode[n] = "lease"
  /\ lease # n
  /\ IF lease = NoNode
     THEN lease' = n /\ UNCHANGED <<mode, sched, task>>
     ELSE /\ mode' = [mode EXCEPT ![n] = "follower"]
          /\ sched' = [sched EXCEPT ![n] = "off"]
          /\ task' = [task EXCEPT ![n] = NoTask]
          /\ UNCHANGED lease
  /\ UNCHANGED <<world, now, last, stamp, ledger, backlog, fires, faults, manual>>

\* The session that holds the advisory lock drops: Postgres frees the lock.
DropSession ==
  /\ world.backend = "postgres" /\ lease # NoNode
  /\ Fault
  /\ lease' = NoNode
  /\ UNCHANGED <<world, now, last, stamp, ledger, mode, sched, backlog, task,
                 fires, manual>>

\* The process dies or is shut down: its runs end and its locks are freed.
Exit(n) ==
  /\ mode[n] # "down"
  /\ Fault
  /\ mode' = [mode EXCEPT ![n] = "down"]
  /\ sched' = [sched EXCEPT ![n] = "off"]
  /\ backlog' = [backlog EXCEPT ![n] = {}]
  /\ task' = [task EXCEPT ![n] = NoTask]
  /\ lease' = IF lease = n THEN NoNode ELSE lease
  /\ UNCHANGED <<world, now, last, stamp, ledger, fires, manual>>

-----------------------------------------------------------------------------
(* Time.                                                                   *)

\* A backfill that has an occurrence ahead of it reaches its stamp before
\* the ledger row of that occurrence expires.
InGoodTime ==
  PromptBackfill =>
    \A n \in Node, i \in Instants :
      sched[n] = "each" /\ ledger[i] = 1
        => i \notin backlog[n] /\ ~(task[n].occ = i /\ task[n].pc # "running")

Elapse ==
  /\ now < Horizon \/ \E i \in Instants : ledger[i] > 0
  /\ InGoodTime
  /\ now' = IF now < Horizon THEN now + 1 ELSE now
  /\ ledger' = [i \in Instants |-> IF ledger[i] > 0 THEN ledger[i] - 1 ELSE 0]
  /\ UNCHANGED <<world, last, stamp, lease, mode, sched, backlog, task, fires,
                 faults, manual>>

Execute(a) == TakeLock(a) \/ Busy(a) \/ ClaimFire(a) \/ CompleteFire(a)
              \/ MarkStarted(a) \/ Finish(a)

Next ==
  \/ \E a \in Actor : TakeLock(a) \/ Busy(a) \/ ClaimFire(a) \/ ClaimError(a)
                      \/ CompleteFire(a) \/ MarkStarted(a) \/ Finish(a)
  \/ \E n \in Node : CatchUp(n) \/ Tick(n) \/ Bid(n) \/ FailOpen(n)
                     \/ Promote(n) \/ Demote(n) \/ Exit(n)
  \/ \E c \in Cli : RunNow(c)
  \/ DropSession
  \/ Elapse

\* Processes are restarted, event loops and watchdogs go round, agent runs
\* end (HIMMY_ROUTINE_TIMEOUT) and time passes.
Fairness ==
  /\ \A a \in Actor : WF_vars(Execute(a))
  /\ \A n \in Node : /\ WF_vars(CatchUp(n)) /\ WF_vars(Tick(n))
                     /\ WF_vars(Bid(n)) /\ WF_vars(Promote(n)) /\ WF_vars(Demote(n))
  /\ WF_vars(Elapse)

Spec == Init /\ [][Next]_vars /\ Fairness

-----------------------------------------------------------------------------
(* Properties.                                                             *)

\* No occurrence is fired twice by the schedule, although two nodes may lead
\* at once (a dropped session, a failed bid), ticks and backfills of several
\* hosts race, the ledger may fail and processes are restarted: the ledger,
\* or the conditional stamp of mark_started where there is none, decides.  In
\* the worlds in which backfills of several nodes have to do without a ledger
\* that knows of every fire it does not hold, see LedgerGuardsBackfills.
FiredOnce == \A i \in Instants : fires[i] <= 1

\* An occurrence that has come is fired, coalesced into another run or
\* skipped: never lost to a node that dies between its ledger claim and its
\* stamp, to a failover or to a manual run (catch_up_on_launch, tick).
DueIsConsumed == \A i \in Instants : now >= i ~> last >= i
=============================================================================
