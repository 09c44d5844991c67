--------------------------- MODULE RoutinesProofs ---------------------------
(***************************************************************************)
(* Proofs about a scheduled routine, for any number of nodes, hosts, CLI   *)
(* processes, occurrences, faults and manual runs, and for every schedule, *)
(* missed-run policy and backend in Worlds.                                *)
(***************************************************************************)
EXTENDS Routines, WellFoundedInduction, TLAPS

-----------------------------------------------------------------------------
(* What the theorem about fires rests on.                                  *)

\* Where several nodes may catch up at once, only the ledger keeps a backfill
\* from an occurrence that somebody else has fired.  It can do so if ticks
\* leave their occurrence there and if it does not fail; and the row must
\* live as long as the backfill (PromptBackfill).
LedgerGuardsBackfills ==
  /\ PromptBackfill
  /\ \A w \in Worlds : w.missed = "run_each" /\ w.backend = "postgres"
                         => w.kind = "cron" /\ ~w.flaky

-----------------------------------------------------------------------------
(* The inductive invariant.                                                *)

\* The scheduler flock has one holder, and nobody else leads.
SingleLeader ==
  world.backend = "sqlite" => \A n \in Node : mode[n] \in Leading => lease = n

\* A task in process a that may still fire: nobody has stamped the routine
\* since it was launched.
Live(a) == /\ task[a].pc \in {"launched", "locked", "claimed", "cleared"}
           /\ task[a].expected = stamp
PastLedger(a) == task[a].pc \in {"claimed", "cleared"}

\* A node's task is one of its tick loop or of its backfill, for an occurrence
\* that has come and that the backfill is done with.
NodeTask(n) ==
  /\ task[n].pc # "idle" =>
       /\ sched[n] \in {"each", "on"}
       /\ task[n].occ \in Instants /\ task[n].occ <= now
       /\ task[n].occ \notin backlog[n]
       /\ task[n].expected \in 0..stamp
       /\ sched[n] = "each" \/ world.kind = "cron" => task[n].keyed
  /\ task[n].pc \in {"locked", "claimed"} => task[n].keyed
  /\ task[n].pc = "idle" => sched[n] # "each"
  /\ sched[n] = "each" => world.missed = "run_each"
  /\ backlog[n] \subseteq 0..now

CliTask(c) == /\ task[c].occ = NoOccurrence /\ ~task[c].keyed
              /\ task[c].pc \notin {"locked", "claimed"}

TasksFit == (\A n \in Node : NodeTask(n)) /\ (\A c \in Cli : CliTask(c))

\* What was fired is not ahead of last_run_at.
FiredPast == \A i \in Instants : fires[i] > 0 => i <= last

\* A tick that may still fire is for an occurrence ahead of last_run_at, with
\* a cron schedule for the first one.
TicksAhead ==
  \A n \in Node : sched[n] = "on" /\ Live(n) =>
    /\ last < task[n].occ
    /\ world.kind = "cron" => \A i \in Instants : last < i => task[n].occ <= i

\* If an occurrence was fired, the ledger says so and is heard.
Barred(i) == fires[i] > 0 => ledger[i] > 0 /\ ~world.flaky

\* It says so for every occurrence that a backfill has still ahead of it.
BackfillsBarred ==
  \A n \in Node : sched[n] = "each" =>
    /\ \A i \in backlog[n] : Barred(i)
    /\ Live(n) => Barred(task[n].occ)

\* A task that is past the ledger and may still fire is the first to do so.
FirstToFire == \A n \in Node : Live(n) /\ PastLedger(n) => fires[task[n].occ] = 0

\* The row that a backfill has claimed outlasts the claim.
BackfillsHold ==
  ~world.flaky =>
    \A n \in Node : sched[n] = "each" /\ PastLedger(n) => ledger[task[n].occ] > 0

\* The row of a task that may still fire bars the backfills of other nodes.
RowsShield ==
  \A n, m \in Node :
    n # m /\ Live(n) /\ PastLedger(n) /\ task[n].occ \in backlog[m]
      => ledger[task[n].occ] > 0

FireDiscipline ==
  /\ TypeOK /\ SingleLeader /\ TasksFit /\ FiredPast /\ TicksAhead
  /\ BackfillsBarred /\ FirstToFire /\ BackfillsHold /\ RowsShield /\ FiredOnce

-----------------------------------------------------------------------------
(* Occurrences.                                                            *)

Less == OpToRel(<, Nat)

LEMMA MinIsLeast ==
  ASSUME NEW S \in SUBSET Nat, S # {}
  PROVE  Min(S) \in S /\ \A y \in S : Min(S) <= y
  <1>1. IsWellFoundedOn(Less, Nat)
    BY NatLessThanWellFounded DEF Less
  <1>2. PICK x \in S : \A y \in S : ~(<<y, x>> \in Less)
    BY <1>1, WFMin
  <1>3. ASSUME NEW y \in S PROVE x <= y
    <2>1. y < x => <<y, x>> \in Less
      BY DEF Less, OpToRel
    <2> QED BY <1>2, <2>1
  <1> QED BY <1>3 DEF Min

LEMMA Sizes ==
  /\ Horizon \in Nat /\ Ttl \in Nat /\ Ttl > 0 /\ NoNode \notin Node
  /\ Instants \subseteq 1..Horizon /\ Instants \subseteq Nat /\ NoOccurrence \notin Instants
  /\ Node \cap Cli = {} /\ MaxFaults \in Nat /\ MaxRunNow \in Nat
  BY RoutineAssumption DEF Actor, NoOccurrence

LEMMA MaxIsGreatest ==
  ASSUME NEW S \in SUBSET Instants, S # {}
  PROVE  Max(S) \in S /\ \A y \in S : y <= Max(S)
  <1> DEFINE T == {Horizon - x : x \in S}
  <1>0. \A x \in S : x \in 1..Horizon
    BY Sizes
  <1>1. T \in SUBSET Nat /\ T # {}
    <2>1. \A x \in S : Horizon - x \in Nat
      BY <1>0, Sizes
    <2> QED BY <2>1
  <1>2. Min(T) \in T /\ \A y \in T : Min(T) <= y
    BY <1>1, MinIsLeast
  <1>3. PICK x \in S : Min(T) = Horizon - x
    BY <1>2
  <1>4. ASSUME NEW y \in S PROVE x >= y
    <2>1. Horizon - x <= Horizon - y
      BY <1>2, <1>3
    <2> QED BY <2>1, <1>0, Sizes
  <1> QED BY <1>4, Sizes DEF Max

\* The occurrences that a run_each catch-up launches were missed, whatever
\* the caps leave of them.
LEMMA CatchesUpMissed == MissedOccurrences \subseteq Missed
  BY DEF MissedOccurrences, Newest, WithinGrace

\* A tick is for an occurrence that has come and that the routine has not
\* been stamped for, with a cron schedule for the first of them.
LEMMA DueIsAhead ==
  ASSUME TypeOK, IsDue
  PROVE  /\ DueOccurrence \in Instants
         /\ last < DueOccurrence /\ DueOccurrence <= now
         /\ world.kind = "cron" => \A i \in Instants : last < i => DueOccurrence <= i
  <1>1. PICK k \in Instants : last < k /\ k <= now
    BY DEF IsDue, Missed
  <1>2. now \in Nat /\ last \in Nat /\ Instants \subseteq Nat
    BY Sizes DEF TypeOK
  <1>3. CASE world.kind = "cron"
    <2> DEFINE S == {i \in Instants : last < i}
    <2>1. Min(S) \in S /\ \A y \in S : Min(S) <= y
      <3>1. S \in SUBSET Nat /\ S # {}
        BY <1>1, <1>2
      <3> QED BY <3>1, MinIsLeast
    <2>2. DueOccurrence = Min(S)
      BY <1>3 DEF DueOccurrence
    <2>3. k \in S
      BY <1>1
    <2> HIDE DEF S
    <2>4. DueOccurrence \in S /\ DueOccurrence <= k
      BY <2>1, <2>2, <2>3
    <2>5. \A i \in Instants : last < i => DueOccurrence <= i
      BY <2>1, <2>2 DEF S
    <2> QED BY <1>1, <1>2, <2>4, <2>5 DEF S
  <1>4. CASE world.kind # "cron"
    <2> DEFINE S == {i \in Instants : i <= now}
    <2>1. S \in SUBSET Instants /\ k \in S
      BY <1>1
    <2>2. Max(S) \in S /\ k <= Max(S)
      BY <2>1, MaxIsGreatest
    <2>3. DueOccurrence = Max(S)
      BY <1>4 DEF DueOccurrence
    <2>4. Max(S) \in Instants /\ Max(S) <= now
      BY <2>2
    <2> HIDE DEF S
    <2>5. Max(S) \in Nat /\ k \in Nat
      BY <1>2, <2>4
    <2>6. last < Max(S)
      BY <1>1, <1>2, <2>2, <2>5
    <2> QED BY <1>4, <2>3, <2>4, <2>6
  <1> QED BY <1>3, <1>4

-----------------------------------------------------------------------------
(* Type correctness.                                                       *)

LEMMA Idle == NoTask \in Task
  BY DEF NoTask, Task, Unconditional, NoOccurrence

\* The end of an execution: a backfill goes on with one of its occurrences, or
\* the process has no task any more.
LEMMA EndedTypes ==
  ASSUME TypeOK, NEW a \in Actor, Ended(a)
  PROVE  /\ task' \in [Actor -> Task] /\ sched' \in [Node -> Sched]
         /\ backlog' \in [Node -> SUBSET Instants]
         /\ \A b \in Actor \ {a} : task'[b] = task[b]
         /\ \A n \in Node \ {a} : sched'[n] = sched[n] /\ backlog'[n] = backlog[n]
         /\ \/ /\ a \in Node /\ sched[a] = "each" /\ sched'[a] = "each"
               /\ \E occ \in backlog[a] : /\ task'[a] = Launched(occ, TRUE, stamp)
                                          /\ backlog'[a] = backlog[a] \ {occ}
            \/ /\ task'[a] = NoTask
               /\ a \in Node => /\ backlog'[a] = backlog[a]
                                /\ sched[a] = "each" => backlog[a] = {} /\ sched'[a] = "on"
                                /\ sched[a] # "each" => sched'[a] = sched[a]
  <1>1. CASE a \in Node /\ sched[a] = "each" /\ backlog[a] # {}
    <2> DEFINE occ == Min(backlog[a])
    <2>1. occ \in backlog[a]
      BY <1>1, MinIsLeast, Sizes DEF TypeOK
    <2>2. /\ task' = [task EXCEPT ![a] = Launched(occ, TRUE, stamp)]
          /\ backlog' = [backlog EXCEPT ![a] = @ \ {occ}] /\ sched' = sched
      BY <1>1 DEF Ended
    <2> HIDE DEF occ
    <2>3. Launched(occ, TRUE, stamp) \in Task
      BY <1>1, <2>1 DEF TypeOK, Launched, Task
    <2> QED BY <1>1, <2>1, <2>2, <2>3 DEF TypeOK
  <1>2. CASE ~(a \in Node /\ sched[a] = "each" /\ backlog[a] # {})
    <2>1. /\ task' = [task EXCEPT ![a] = NoTask] /\ backlog' = backlog
          /\ sched' = IF a \in Node /\ sched[a] = "each"
                       THEN [sched EXCEPT ![a] = "on"] ELSE sched
      BY <1>2 DEF Ended
    <2> QED BY <1>2, <2>1, Idle DEF TypeOK, Sched
  <1> QED BY <1>1, <1>2

\* Only a node that leads has a scheduler, and only a backfill a backlog.
Placed == \A n \in Node : /\ sched[n] # "off" => mode[n] \in Leading
                          /\ backlog[n] # {} => sched[n] = "each"

\* The end of an execution leaves every scheduler in its place.
LEMMA EndedPlaced ==
  ASSUME TypeOK, NEW a \in Actor, Ended(a), mode' = mode
  PROVE  Placed'
  <1> SUFFICES ASSUME NEW n \in Node
               PROVE  /\ sched'[n] # "off" => mode'[n] \in Leading
                      /\ backlog'[n] # {} => sched'[n] = "each"
    BY DEF Placed
  <1>1. n # a => sched'[n] = sched[n] /\ backlog'[n] = backlog[n]
    BY EndedTypes
  <1>2. n = a => /\ sched'[n] # "off" => sched[n] # "off"
                 /\ backlog'[n] # {} => sched'[n] = "each"
    <2> HAVE n = a
    <2>1. CASE sched[a] = "each" /\ sched'[a] = "each"
      BY <2>1
    <2>2. CASE /\ backlog'[a] = backlog[a]
               /\ sched[a] = "each" => backlog[a] = {} /\ sched'[a] = "on"
               /\ sched[a] # "each" => sched'[a] = sched[a]
      BY <2>2 DEF TypeOK
    <2> QED BY <2>1, <2>2, EndedTypes
  <1> QED BY <1>1, <1>2 DEF TypeOK

LEMMA TypeStep ==
  ASSUME TypeOK, [Next]_vars
  PROVE  TypeOK'
  <1> USE Sizes DEF TypeOK
  <1>T. ASSUME NEW a \in Actor, NEW p \in {"launched", "locked", "claimed", "cleared", "running"}
        PROVE  [task EXCEPT ![a].pc = p] \in [Actor -> Task]
    BY <1>T DEF Task
  <1>F. Fault => faults' \in 0..MaxFaults
    BY DEF Fault
  <1>1. ASSUME NEW a \in Actor, TakeLock(a) PROVE TypeOK'
    BY <1>1, <1>T DEF TakeLock, nodeVars
  <1>2. ASSUME NEW a \in Actor, Busy(a) PROVE TypeOK'
    BY <1>2, EndedTypes, EndedPlaced DEF Busy, Placed
  <1>3. ASSUME NEW a \in Actor, ClaimFire(a) PROVE TypeOK'
    <2>1. CASE ledger[task[a].occ] = 0
      <3>1. ledger' = [ledger EXCEPT ![task[a].occ] = Ttl] /\ Ttl \in 0..Ttl
        BY <1>3, <2>1 DEF ClaimFire
      <3>2. ledger' \in [Instants -> 0..Ttl] /\ task' \in [Actor -> Task]
        BY <1>3, <2>1, <3>1, <1>T DEF ClaimFire
      <3> QED BY <1>3, <2>1, <3>2 DEF ClaimFire
    <2>2. CASE ledger[task[a].occ] # 0
      BY <1>3, <2>2, EndedTypes, EndedPlaced DEF ClaimFire, Placed
    <2> QED BY <2>1, <2>2
  <1>4. ASSUME NEW a \in Actor, ClaimError(a) PROVE TypeOK'
    BY <1>4, <1>T, <1>F DEF ClaimError, nodeVars
  <1>5. ASSUME NEW a \in Actor, CompleteFire(a) PROVE TypeOK'
    <2>1. ledger' = [ledger EXCEPT ![task[a].occ] = Ttl] /\ Ttl \in 0..Ttl
      BY <1>5 DEF CompleteFire
    <2>2. ledger' \in [Instants -> 0..Ttl]
      BY <2>1
    <2>3. task' = [task EXCEPT ![a].pc = "cleared"]
      BY <1>5 DEF CompleteFire
    <2>4. task' \in [Actor -> Task]
      BY <2>3, <1>T
    <2> QED BY <1>5, <2>2, <2>4 DEF CompleteFire, nodeVars
  <1>6. ASSUME NEW a \in Actor, MarkStarted(a) PROVE TypeOK'
    <2>1. CASE StampMatches(a)
      <3>1. /\ last' = now /\ stamp' = stamp + 1
            /\ task' = [task EXCEPT ![a].pc = "running"]
            /\ fires' = [i \in Instants |-> fires[i] + (IF i = task[a].occ THEN 1 ELSE 0)]
            /\ UNCHANGED <<sched, backlog, world, now, ledger, lease, mode, faults, manual>>
        BY <1>6, <2>1 DEF MarkStarted
      <3>2. fires' \in [Instants -> Nat]
        BY <3>1
      <3>3. task' \in [Actor -> Task]
        BY <3>1, <1>T
      <3>4. stamp' \in Nat /\ last' \in 0..now'
        BY <3>1
      <3> QED BY <3>1, <3>2, <3>3, <3>4
    <2>2. CASE ~StampMatches(a)
      BY <1>6, <2>2, EndedTypes, EndedPlaced DEF MarkStarted, Placed
    <2> QED BY <2>1, <2>2
  <1>7. ASSUME NEW a \in Actor, Finish(a) PROVE TypeOK'
    BY <1>7, EndedTypes, EndedPlaced DEF Finish, Placed
  <1>8. ASSUME NEW n \in Node, CatchUp(n) PROVE TypeOK'
    <2> DEFINE skip == IsDue /\ world.missed = "skip"
               each == IF world.missed = "run_each" THEN MissedOccurrences ELSE {}
    <2>1. /\ sched[n] = "catchup" /\ n \in Actor
          /\ last' \in {last, now} /\ stamp' \in {stamp, stamp + 1}
          /\ UNCHANGED <<world, now, ledger, lease, mode, fires, faults, manual>>
      BY <1>8 DEF CatchUp, Actor
    <2>2. each \in SUBSET Instants
      BY CatchesUpMissed DEF Missed
    <2>3. CASE each = {}
      <3>1. sched' = [sched EXCEPT ![n] = "on"] /\ UNCHANGED <<task, backlog>>
        BY <1>8, <2>3 DEF CatchUp
      <3> QED BY <2>1, <3>1 DEF Sched
    <2>4. CASE each # {}
      <3>1. /\ sched' = [sched EXCEPT ![n] = "each"]
            /\ task' = [task EXCEPT ![n] = Launched(Min(each), TRUE, stamp)]
            /\ backlog' = [backlog EXCEPT ![n] = each \ {Min(each)}]
        BY <1>8, <2>4 DEF CatchUp
      <3> HIDE DEF each
      <3>2. Min(each) \in each
        BY <2>2, <2>4, MinIsLeast
      <3>3. Launched(Min(each), TRUE, stamp) \in Task
        BY <2>2, <3>2 DEF Launched, Task
      <3>4. /\ task' \in [Actor -> Task] /\ backlog' \in [Node -> SUBSET Instants]
            /\ sched' \in [Node -> Sched]
        BY <2>1, <2>2, <3>1, <3>3 DEF Sched
      <3>5. \A m \in Node : m # n => sched'[m] = sched[m] /\ backlog'[m] = backlog[m]
        BY <3>1
      <3>6. sched'[n] = "each" /\ mode'[n] \in Leading
        BY <2>1, <3>1
      <3> QED BY <2>1, <3>4, <3>5, <3>6
    <2> QED BY <2>3, <2>4
  <1>9. ASSUME NEW n \in Node, Tick(n) PROVE TypeOK'
    <2>1. Launched(DueOccurrence, world.kind = "cron", stamp) \in Task
      BY <1>9, DueIsAhead DEF Tick, Launched, Task
    <2> QED BY <1>9, <2>1 DEF Tick, nodeVars, Actor
  <1>10. ASSUME NEW n \in Node, Bid(n) PROVE TypeOK'
    <2>1. CASE lease = NoNode
      BY <1>10, <2>1 DEF Bid, Mode, Leading, Sched
    <2>2. CASE lease # NoNode
      BY <1>10, <2>2 DEF Bid, Mode, Leading
    <2> QED BY <2>1, <2>2
  <1>11. ASSUME NEW n \in Node, FailOpen(n) PROVE TypeOK'
    BY <1>11, <1>F DEF FailOpen, Mode, Leading, Sched
  <1>12. ASSUME NEW n \in Node, Promote(n) PROVE TypeOK'
    BY <1>12 DEF Promote, Watching, Mode, Leading, Sched
  <1>13. ASSUME NEW n \in Node, Demote(n) PROVE TypeOK'
    BY <1>13, Idle DEF Demote, Watching, Mode, Leading, Sched, Actor
  <1>14. ASSUME NEW n \in Node, Exit(n) PROVE TypeOK'
    BY <1>14, <1>F, Idle DEF Exit, Mode, Leading, Sched, Actor
  <1>15. ASSUME NEW c \in Cli, RunNow(c) PROVE TypeOK'
    <2>1. Launched(NoOccurrence, FALSE, Unconditional) \in Task
      BY DEF Launched, Task, Unconditional, NoOccurrence
    <2>2. task' = [task EXCEPT ![c] = Launched(NoOccurrence, FALSE, Unconditional)]
      BY <1>15 DEF RunNow
    <2>3. task' \in [Actor -> Task]
      BY <2>1, <2>2
    <2>4. manual' \in 0..MaxRunNow
      BY <1>15 DEF RunNow
    <2> QED BY <1>15, <2>3, <2>4 DEF RunNow, nodeVars
  <1>16. CASE DropSession
    BY <1>16, <1>F DEF DropSession
  <1>17. CASE Elapse
    BY <1>17 DEF Elapse
  <1>18. CASE UNCHANGED vars
    BY <1>18 DEF vars, nodeVars
  <1> QED BY <1>1, <1>2, <1>3, <1>4, <1>5, <1>6, <1>7, <1>8, <1>9, <1>10, <1>11, <1>12,
             <1>13, <1>14, <1>15, <1>16, <1>17, <1>18 DEF Next

LEMMA TypeInit == Init => TypeOK
  BY Sizes, Idle DEF Init, TypeOK, Mode, Sched

\* Every reachable state of a routine and its schedulers is well typed: no
\* lapse of leadership, fault or manual run leaves a scheduler on a node that
\* does not lead, or a backlog without its backfill.
THEOREM TypeCorrect == Spec => []TypeOK
  BY TypeInit, TypeStep, PTL DEF Spec

-----------------------------------------------------------------------------
(* No occurrence is fired twice.                                           *)

Facts == /\ TasksFit /\ FiredPast /\ TicksAhead /\ BackfillsBarred /\ FirstToFire
         /\ BackfillsHold /\ RowsShield /\ FiredOnce

\* Two nodes schedule at once only where they elect their leader in Postgres;
\* if they may be in a backfill, it is by the ledger that they agree.
LEMMA Rivals ==
  ASSUME LedgerGuardsBackfills, TypeOK, SingleLeader, world.missed = "run_each",
         NEW n \in Node, NEW m \in Node, n # m, sched[n] # "off", sched[m] # "off"
  PROVE  PromptBackfill /\ world.kind = "cron" /\ ~world.flaky
  <1>1. mode[n] \in Leading /\ mode[m] \in Leading
    BY DEF TypeOK
  <1>2. world.backend # "sqlite"
    BY <1>1 DEF SingleLeader
  <1>3. world \in Worlds /\ world \in World
    BY RoutineAssumption DEF TypeOK
  <1>4. world.backend = "postgres"
    BY <1>2, <1>3 DEF World
  <1> QED BY <1>3, <1>4 DEF LedgerGuardsBackfills

\* A node whose task and scheduler stay as they are, and one that is left
\* without a task.
Kept(n) == task'[n] = task[n] /\ sched'[n] = sched[n] /\ backlog'[n] = backlog[n]
Retired(n) == /\ task'[n].pc = "idle" /\ sched'[n] # "each" /\ backlog'[n] = {}

LEMMA CalmStep ==
  ASSUME FireDiscipline, UNCHANGED <<world, now, last, stamp, ledger, fires>>,
         \A n \in Node : Kept(n) \/ Retired(n), \A c \in Cli : CliTask(c)'
  PROVE  Facts'
  <1> USE DEF FireDiscipline, Kept, Retired
  <1>1. TasksFit'
    BY DEF TasksFit, NodeTask
  <1>2. FiredPast' /\ FiredOnce'
    BY DEF FiredPast, FiredOnce
  <1>3. TicksAhead'
    BY DEF TicksAhead, Live
  <1>4. BackfillsBarred'
    BY DEF BackfillsBarred, Barred, Live
  <1>5. FirstToFire'
    BY DEF FirstToFire, PastLedger, Live
  <1>6. BackfillsHold'
    BY DEF BackfillsHold, PastLedger
  <1>7. RowsShield'
    BY DEF RowsShield, PastLedger, Live
  <1> QED BY <1>1, <1>2, <1>3, <1>4, <1>5, <1>6, <1>7 DEF Facts

\* An execution ends: the node retires, or its backfill goes on.
LEMMA EndStep ==
  ASSUME FireDiscipline, NEW a \in Actor, Ended(a), task[a].pc # "idle",
         UNCHANGED <<world, now, last, stamp, ledger, fires>>
  PROVE  Facts'
  <1>1. \A c \in Cli : CliTask(c)'
    <2> SUFFICES ASSUME NEW c \in Cli PROVE CliTask(c)'
      OBVIOUS
    <2>1. task'[c] = task[c] \/ task'[c] = NoTask
      BY EndedTypes, Sizes DEF FireDiscipline, Actor
    <2> QED BY <2>1 DEF FireDiscipline, TasksFit, CliTask, NoTask
  <1>2. \A n \in Node \ {a} : Kept(n)
    BY EndedTypes DEF FireDiscipline, Kept, Actor
  <1>3. CASE task'[a] = NoTask
    <2>1. a \in Node => Retired(a)
      <3> HAVE a \in Node
      <3>1. sched[a] # "each" => backlog[a] = {}
        BY DEF FireDiscipline, TypeOK
      <3>2. NoTask.pc = "idle"
        BY DEF NoTask
      <3>3. \A occ : NoTask # Launched(occ, TRUE, stamp)
        BY <3>2 DEF Launched
      <3> QED BY <1>3, <3>1, <3>2, <3>3, EndedTypes DEF FireDiscipline, Retired
    <2> QED BY <1>1, <1>2, <2>1, CalmStep
  <1>4. ASSUME a \in Node, sched[a] = "each", sched'[a] = "each",
               NEW occ \in backlog[a], task'[a] = Launched(occ, TRUE, stamp),
               backlog'[a] = backlog[a] \ {occ}
        PROVE  Facts'
    <2> USE DEF FireDiscipline, Kept
    <2>1. /\ task'[a].pc = "launched" /\ task'[a].occ = occ /\ task'[a].keyed
          /\ task'[a].expected = stamp /\ occ \in Instants /\ stamp \in Nat
          /\ occ <= now /\ world.missed = "run_each"
      BY <1>4 DEF Launched, TypeOK, TasksFit, NodeTask
    <2>2. TasksFit'
      <3>1. ASSUME NEW n \in Node, n # a PROVE NodeTask(n)'
        BY <1>2, <3>1 DEF TasksFit, NodeTask
      <3>2. backlog'[a] \subseteq 0..now
        BY <1>4 DEF TasksFit, NodeTask
      <3>3. task'[a].expected \in 0..stamp' /\ task'[a].occ <= now'
        BY <2>1
      <3>5. task'[a].occ \notin backlog'[a]
        BY <1>4, <2>1
      <3>4. NodeTask(a)'
        BY <1>4, <2>1, <3>2, <3>3, <3>5 DEF NodeTask
      <3> QED BY <1>1, <3>1, <3>4 DEF TasksFit
    <2>3. FiredPast' /\ FiredOnce'
      BY DEF FiredPast, FiredOnce
    <2>4. TicksAhead'
      BY <1>2, <1>4 DEF TicksAhead, Live
    <2>5. BackfillsBarred'
      BY <1>2, <1>4, <2>1 DEF BackfillsBarred, Barred, Live
    <2>6. FirstToFire'
      BY <1>2, <2>1 DEF FirstToFire, PastLedger, Live
    <2>7. BackfillsHold'
      BY <1>2, <2>1 DEF BackfillsHold, PastLedger
    <2>8. RowsShield'
      BY <1>2, <1>4, <2>1 DEF RowsShield, PastLedger, Live
    <2> QED BY <2>2, <2>3, <2>4, <2>5, <2>6, <2>7, <2>8 DEF Facts
  <1> QED BY <1>3, <1>4, EndedTypes DEF FireDiscipline

\* A task goes on, with or without its row: what it needs to be past the
\* ledger is that it will be the first to fire, and that its row bars others.
LEMMA AdvanceStep ==
  ASSUME FireDiscipline, NEW a \in Actor, NEW p \in {"locked", "claimed", "cleared"},
         task[a].pc \in {"launched", "locked", "claimed"},
         task' = [task EXCEPT ![a].pc = p],
         UNCHANGED <<world, now, last, stamp, sched, backlog, fires>>,
         ledger' \in {ledger, [ledger EXCEPT ![task[a].occ] = Ttl]},
         p \in {"locked", "claimed"} => task[a].keyed,
         a \in Node /\ p # "locked" =>
           /\ Live(a) => fires[task[a].occ] = 0
           /\ ~world.flaky /\ sched[a] = "each" => ledger'[task[a].occ] > 0
           /\ \A m \in Node : m # a /\ Live(a) /\ task[a].occ \in backlog[m]
                               => ledger'[task[a].occ] > 0
  PROVE  Facts'
  <1> USE DEF FireDiscipline
  <1>1. /\ task'[a].pc = p /\ task'[a].occ = task[a].occ /\ task'[a].keyed = task[a].keyed
        /\ task'[a].expected = task[a].expected
        /\ \A b \in Actor \ {a} : task'[b] = task[b]
        /\ Node \subseteq Actor /\ Cli \subseteq Actor
    BY DEF TypeOK, Task, Actor
  <1>2. \A i \in Instants : ledger[i] > 0 => ledger'[i] > 0
    BY Sizes DEF TypeOK
  <1>3. a \in Node => task[a].occ \in Instants
    BY DEF TasksFit, NodeTask
  <1>4. TasksFit'
    BY <1>1, Sizes DEF TasksFit, NodeTask, CliTask
  <1>5. FiredPast' /\ FiredOnce'
    BY DEF FiredPast, FiredOnce
  <1>6. TicksAhead'
    BY <1>1 DEF TicksAhead, Live
  <1>7. BackfillsBarred'
    <2> SUFFICES ASSUME NEW n \in Node, sched[n] = "each"
                 PROVE  /\ \A i \in backlog[n] : Barred(i)'
                        /\ Live(n)' => Barred(task[n].occ)'
      BY <1>1 DEF BackfillsBarred
    <2>1. \A i \in Instants : Barred(i) => Barred(i)'
      BY <1>2 DEF Barred
    <2>2. Live(n)' => Live(n)
      BY <1>1 DEF Live
    <2>3. \A i \in backlog[n] : i \in Instants /\ Barred(i)
      BY DEF BackfillsBarred, TypeOK
    <2>4. Live(n) => task[n].occ \in Instants /\ Barred(task[n].occ)
      BY DEF BackfillsBarred, TasksFit, NodeTask, Live
    <2> QED BY <2>1, <2>2, <2>3, <2>4
  <1>8. FirstToFire'
    BY <1>1 DEF FirstToFire, PastLedger, Live
  <1>9. BackfillsHold'
    <2> SUFFICES ASSUME ~world.flaky, NEW n \in Node, sched[n] = "each", PastLedger(n)'
                 PROVE  ledger'[task[n].occ] > 0
      BY <1>1 DEF BackfillsHold
    <2>1. n = a => p # "locked"
      BY <1>1 DEF PastLedger
    <2>2. n # a => PastLedger(n)
      BY <1>1 DEF PastLedger
    <2>3. n # a => task[n].occ \in Instants /\ ledger[task[n].occ] > 0
      BY <2>2 DEF BackfillsHold, PastLedger, TasksFit, NodeTask
    <2> QED BY <1>2, <2>1, <2>3
  <1>10. RowsShield'
    <2> SUFFICES ASSUME NEW n \in Node, NEW m \in Node, n # m, Live(n)', PastLedger(n)',
                        task[n].occ \in backlog[m]
                 PROVE  ledger'[task[n].occ] > 0
      BY <1>1 DEF RowsShield
    <2>1. Live(n)
      BY <1>1 DEF Live
    <2>2. n = a => p # "locked"
      BY <1>1 DEF PastLedger
    <2>3. n # a => PastLedger(n)
      BY <1>1 DEF PastLedger
    <2>4. n # a => ledger[task[n].occ] > 0
      BY <2>1, <2>3 DEF RowsShield
    <2>5. task[n].occ \in Instants
      BY <2>1 DEF Live, TasksFit, NodeTask
    <2> QED BY <1>2, <2>1, <2>2, <2>4, <2>5
  <1> QED BY <1>4, <1>5, <1>6, <1>7, <1>8, <1>9, <1>10 DEF Facts

\* A task is launched for a node that had none, by its tick loop (how = "on")
\* or its catch-up (how = "each").
LEMMA LaunchStep ==
  ASSUME FireDiscipline, NEW n \in Node, NEW how \in {"on", "each"}, NEW occ \in Instants,
         NEW keyed \in BOOLEAN, task[n].pc = "idle",
         task' = [task EXCEPT ![n] = Launched(occ, keyed, stamp)],
         sched' = [sched EXCEPT ![n] = how],
         backlog' = [backlog EXCEPT ![n] = backlog'[n]],
         UNCHANGED <<world, now, last, stamp, ledger, fires>>,
         last < occ, occ <= now,
         how = "each" \/ world.kind = "cron" => keyed,
         how = "on" => /\ backlog'[n] = {}
                       /\ world.kind = "cron" => \A i \in Instants : last < i => occ <= i,
         how = "each" => world.missed = "run_each",
         backlog'[n] \subseteq {i \in Missed : i # occ},
         \A m \in Node \ {n} : Live(m) /\ PastLedger(m) /\ task[m].occ \in backlog'[n]
                              => ledger[task[m].occ] > 0
  PROVE  Facts'
  <1> USE DEF FireDiscipline
  <1>1. /\ task'[n].pc = "launched" /\ task'[n].occ = occ /\ task'[n].keyed = keyed
        /\ task'[n].expected = stamp /\ sched'[n] = how
        /\ \A b \in Actor \ {n} : task'[b] = task[b]
        /\ \A m \in Node \ {n} : sched'[m] = sched[m] /\ backlog'[m] = backlog[m]
        /\ Node \subseteq Actor /\ Cli \subseteq Actor
    BY DEF TypeOK, Actor, Launched
  <1>2. \A i \in Instants : last < i => fires[i] = 0
    BY Sizes DEF FiredPast, TypeOK
  <1>3. \A i \in backlog'[n] : i \in Instants /\ last < i /\ i <= now /\ i # occ
    BY DEF Missed
  <1>4. stamp \in Nat /\ now \in Nat /\ Instants \subseteq Nat
    BY Sizes DEF TypeOK
  <1>5. TasksFit'
    <2>1. ASSUME NEW m \in Node, m # n PROVE NodeTask(m)'
      BY <1>1, <2>1 DEF TasksFit, NodeTask
    <2>2. NodeTask(n)'
      BY <1>1, <1>3, <1>4 DEF NodeTask
    <2>3. \A c \in Cli : CliTask(c)'
      BY <1>1, Sizes DEF TasksFit, CliTask
    <2> QED BY <2>1, <2>2, <2>3 DEF TasksFit
  <1>6. FiredPast' /\ FiredOnce'
    BY DEF FiredPast, FiredOnce
  <1>7. TicksAhead'
    BY <1>1 DEF TicksAhead, Live
  <1>8. BackfillsBarred'
    BY <1>1, <1>2, <1>3 DEF BackfillsBarred, Barred, Live
  <1>9. FirstToFire'
    BY <1>1 DEF FirstToFire, PastLedger, Live
  <1>10. BackfillsHold'
    BY <1>1 DEF BackfillsHold, PastLedger
  <1>11. RowsShield'
    <2> SUFFICES ASSUME NEW k \in Node, NEW m \in Node, k # m, Live(k)', PastLedger(k)',
                        task'[k].occ \in backlog'[m]
                 PROVE  ledger[task'[k].occ] > 0
      BY DEF RowsShield
    <2>1. k # n /\ Live(k) /\ PastLedger(k) /\ task'[k] = task[k]
      BY <1>1 DEF Live, PastLedger
    <2> QED BY <1>1, <2>1 DEF RowsShield
  <1> QED BY <1>5, <1>6, <1>7, <1>8, <1>9, <1>10, <1>11 DEF Facts

\* mark_started stamps the routine: whoever had computed on the old stamp
\* does not fire any more.
LEMMA FireStep ==
  ASSUME LedgerGuardsBackfills, FireDiscipline, NEW a \in Actor, MarkStarted(a),
         StampMatches(a)
  PROVE  Facts'
  <1> USE DEF FireDiscipline
  <1>1. /\ task[a].pc = "cleared" /\ task[a].expected \in {stamp, Unconditional}
        /\ last' = now /\ stamp' = stamp + 1
        /\ task' = [task EXCEPT ![a].pc = "running"]
        /\ fires' = [i \in Instants |-> fires[i] + (IF i = task[a].occ THEN 1 ELSE 0)]
        /\ UNCHANGED <<sched, backlog, world, now, ledger>>
    BY DEF MarkStarted, StampMatches
  <1>2. /\ task'[a].pc = "running" /\ task'[a].occ = task[a].occ
        /\ task'[a].keyed = task[a].keyed /\ task'[a].expected = task[a].expected
        /\ \A b \in Actor \ {a} : task'[b] = task[b]
        /\ Node \subseteq Actor /\ Cli \subseteq Actor
    BY <1>1 DEF TypeOK, Task, Actor
  <1>3. /\ stamp \in Nat /\ now \in Nat /\ last \in Nat /\ last <= now
        /\ Instants \subseteq Nat /\ fires \in [Instants -> Nat]
    BY Sizes DEF TypeOK
  <1>4. a \in Node => Live(a) /\ PastLedger(a) /\ task[a].occ \in Instants
                      /\ task[a].occ <= now /\ fires[task[a].occ] = 0
                      /\ sched[a] # "off" /\ task[a].occ \notin backlog[a]
    BY <1>1, <1>3 DEF TasksFit, NodeTask, Unconditional, FirstToFire, Live, PastLedger
  <1>5. a \notin Node => task[a].occ \notin Instants
    BY Sizes DEF TasksFit, CliTask, Actor
  <1>6. \A i \in Instants :
          \/ i = task[a].occ /\ a \in Node /\ fires'[i] = 1
          \/ i # task[a].occ /\ fires'[i] = fires[i]
    <2> TAKE i \in Instants
    <2>1. fires'[i] = fires[i] + (IF i = task[a].occ THEN 1 ELSE 0) /\ fires[i] \in Nat
      BY <1>1, <1>3
    <2> QED BY <2>1, <1>4, <1>5
  <1>7. \A n \in Node : ~Live(n)'
    <2> SUFFICES ASSUME NEW n \in Node, Live(n)' PROVE FALSE
      OBVIOUS
    <2>1. n # a /\ task'[n] = task[n]
      BY <1>2 DEF Live
    <2>2. task[n].expected <= stamp
      BY <2>1 DEF Live, TasksFit, NodeTask
    <2> QED BY <1>1, <1>3, <2>1, <2>2 DEF Live
  <1>8. TasksFit'
    <2>1. ASSUME NEW n \in Node PROVE NodeTask(n)'
      BY <1>1, <1>2, <1>3 DEF TasksFit, NodeTask
    <2>2. \A c \in Cli : CliTask(c)'
      BY <1>2 DEF TasksFit, CliTask
    <2> QED BY <2>1, <2>2 DEF TasksFit
  <1>9. FiredPast'
    BY <1>1, <1>3, <1>4, <1>6 DEF FiredPast
  <1>10. FiredOnce'
    BY <1>6 DEF FiredOnce
  <1>11. TicksAhead' /\ FirstToFire' /\ RowsShield'
    BY <1>7 DEF TicksAhead, FirstToFire, RowsShield
  <1>12. BackfillsBarred'
    <2> SUFFICES ASSUME NEW n \in Node, sched[n] = "each", NEW i \in backlog[n]
                 PROVE  Barred(i)'
      BY <1>1, <1>7 DEF BackfillsBarred
    <2>1. i \in Instants /\ Barred(i) /\ world.missed = "run_each"
      BY DEF TypeOK, BackfillsBarred, TasksFit, NodeTask
    <2>2. CASE i # task[a].occ
      BY <1>1, <1>6, <2>1, <2>2 DEF Barred
    <2>3. CASE i = task[a].occ
      <3>1. a \in Node /\ n # a
        BY <1>4, <1>5, <2>1, <2>3
      <3>2. ledger[i] > 0
        BY <1>4, <2>3, <3>1 DEF RowsShield
      <3>3. ~world.flaky
        BY <1>4, <2>1, <3>1, Rivals
      <3> QED BY <1>1, <3>2, <3>3 DEF Barred
    <2> QED BY <2>2, <2>3
  <1>13. BackfillsHold'
    <2> SUFFICES ASSUME ~world.flaky, NEW n \in Node, sched[n] = "each", PastLedger(n)'
                 PROVE  ledger[task'[n].occ] > 0
      BY <1>1 DEF BackfillsHold
    <2>1. n # a /\ task'[n] = task[n]
      BY <1>2 DEF PastLedger
    <2> QED BY <2>1 DEF PastLedger, BackfillsHold
  <1> QED BY <1>8, <1>9, <1>10, <1>11, <1>12, <1>13 DEF Facts

\* A catch-up that skips what was missed stamps the routine and fires nothing.
LEMMA StampStep ==
  ASSUME FireDiscipline, NEW n \in Node, task[n].pc = "idle", sched[n] = "catchup",
         sched' = [sched EXCEPT ![n] = "on"], last' = now, stamp' = stamp + 1,
         UNCHANGED <<world, now, ledger, backlog, task, fires>>
  PROVE  Facts'
  <1> USE DEF FireDiscipline
  <1>1. /\ sched'[n] = "on" /\ \A m \in Node \ {n} : sched'[m] = sched[m]
        /\ stamp \in Nat /\ now \in Nat /\ last \in Nat /\ last <= now
        /\ Instants \subseteq Nat
    BY Sizes DEF TypeOK
  <1>2. \A m \in Node : ~Live(m)'
    BY <1>1 DEF Live, TasksFit, NodeTask
  <1>3. TasksFit'
    <2>1. ASSUME NEW m \in Node PROVE NodeTask(m)'
      BY <1>1 DEF TasksFit, NodeTask
    <2>2. \A c \in Cli : CliTask(c)'
      BY DEF TasksFit, CliTask
    <2> QED BY <2>1, <2>2 DEF TasksFit
  <1>4. FiredPast' /\ FiredOnce'
    BY <1>1 DEF FiredPast, FiredOnce
  <1>5. TicksAhead' /\ FirstToFire' /\ RowsShield'
    BY <1>2 DEF TicksAhead, FirstToFire, RowsShield
  <1>6. BackfillsBarred'
    BY <1>1, <1>2 DEF BackfillsBarred, Barred
  <1>7. BackfillsHold'
    BY <1>1 DEF BackfillsHold, PastLedger
  <1> QED BY <1>3, <1>4, <1>5, <1>6, <1>7 DEF Facts

\* The row of an occurrence that a backfill has ahead of it does not expire.
LEMMA ElapseStep ==
  ASSUME LedgerGuardsBackfills, FireDiscipline, Elapse
  PROVE  Facts'
  <1> USE DEF FireDiscipline
  <1>1. /\ now <= now'
        /\ ledger' = [i \in Instants |-> IF ledger[i] > 0 THEN ledger[i] - 1 ELSE 0]
        /\ UNCHANGED <<world, last, stamp, lease, mode, sched, backlog, task, fires>>
    BY DEF Elapse, TypeOK
  <1>2. now \in Nat /\ now' \in Nat /\ ledger \in [Instants -> Nat] /\ Instants \subseteq Nat
    BY Sizes DEF TypeOK, Elapse
  <1>3. ASSUME NEW n \in Node, NEW i \in Instants, sched[n] = "each", ledger[i] > 0,
               i \in backlog[n] \/ (task[n].occ = i /\ task[n].pc # "running")
        PROVE  ledger'[i] > 0
    <2>1. ledger[i] # 1
      BY <1>3 DEF LedgerGuardsBackfills, Elapse, InGoodTime
    <2> QED BY <1>1, <1>2, <1>3, <2>1
  <1>4. TasksFit'
    <2>1. ASSUME NEW n \in Node PROVE NodeTask(n)'
      <3>1. backlog[n] \subseteq 0..now'
        BY <1>1, <1>2 DEF TasksFit, NodeTask
      <3>2. task[n].pc # "idle" => task[n].occ \in Nat /\ task[n].occ <= now'
        <4> HAVE task[n].pc # "idle"
        <4>1. task[n].occ \in Nat /\ task[n].occ <= now
          BY <1>2 DEF TasksFit, NodeTask
        <4> QED BY <1>1, <1>2, <4>1
      <3> QED BY <1>1, <3>1, <3>2 DEF TasksFit, NodeTask
    <2>2. \A c \in Cli : CliTask(c)'
      BY <1>1 DEF TasksFit, CliTask
    <2> QED BY <2>1, <2>2 DEF TasksFit
  <1>5. FiredPast' /\ FiredOnce'
    BY <1>1 DEF FiredPast, FiredOnce
  <1>6. TicksAhead' /\ FirstToFire'
    BY <1>1 DEF TicksAhead, FirstToFire, PastLedger, Live
  <1>7. BackfillsBarred'
    <2> SUFFICES ASSUME NEW n \in Node, sched[n] = "each"
                 PROVE  /\ \A i \in backlog[n] : Barred(i)'
                        /\ Live(n) => Barred(task[n].occ)'
      BY <1>1 DEF BackfillsBarred, Live
    <2>1. \A i \in backlog[n] : Barred(i)'
      BY <1>1, <1>3 DEF BackfillsBarred, Barred, TypeOK
    <2>2. Live(n) => task[n].occ \in Instants /\ task[n].pc # "running"
      BY DEF Live, TasksFit, NodeTask
    <2>3. Live(n) => Barred(task[n].occ)'
      BY <1>1, <1>3, <2>2 DEF BackfillsBarred, Barred
    <2> QED BY <2>1, <2>3
  <1>8. BackfillsHold'
    <2> SUFFICES ASSUME ~world.flaky, NEW n \in Node, sched[n] = "each", PastLedger(n)
                 PROVE  ledger'[task[n].occ] > 0
      BY <1>1 DEF BackfillsHold, PastLedger
    <2>1. task[n].occ \in Instants /\ task[n].pc # "running"
      BY DEF PastLedger, TasksFit, NodeTask
    <2> QED BY <1>3, <2>1 DEF BackfillsHold
  <1>9. RowsShield'
    <2> SUFFICES ASSUME NEW n \in Node, NEW m \in Node, n # m, Live(n), PastLedger(n),
                        task[n].occ \in backlog[m]
                 PROVE  ledger'[task[n].occ] > 0
      BY <1>1 DEF RowsShield, Live, PastLedger
    <2>1. sched[m] = "each" /\ task[n].occ \in Instants
      BY DEF TypeOK
    <2> QED BY <1>3, <2>1 DEF RowsShield
  <1> QED BY <1>4, <1>5, <1>6, <1>7, <1>8, <1>9 DEF Facts

LEMMA LeaderStep ==
  ASSUME TypeOK, SingleLeader, [Next]_vars
  PROVE  SingleLeader'
  <1> USE Sizes DEF SingleLeader, TypeOK
  <1>1. ASSUME NEW a \in Actor,
               TakeLock(a) \/ Busy(a) \/ ClaimFire(a) \/ ClaimError(a) \/ CompleteFire(a)
                 \/ MarkStarted(a) \/ Finish(a)
        PROVE  SingleLeader'
    BY <1>1 DEF TakeLock, Busy, ClaimFire, ClaimError, CompleteFire, MarkStarted, Finish, nodeVars
  <1>2. ASSUME NEW n \in Node, CatchUp(n) \/ Tick(n) PROVE SingleLeader'
    BY <1>2 DEF CatchUp, Tick, nodeVars
  <1>3. ASSUME NEW n \in Node, Bid(n) PROVE SingleLeader'
    BY <1>3 DEF Bid, Leading
  <1>4. ASSUME NEW n \in Node, FailOpen(n) PROVE SingleLeader'
    BY <1>4 DEF FailOpen
  <1>5. ASSUME NEW n \in Node, Promote(n) PROVE SingleLeader'
    BY <1>5 DEF Promote, Leading
  <1>6. ASSUME NEW n \in Node, Demote(n) PROVE SingleLeader'
    BY <1>6 DEF Demote, Watching, Leading
  <1>7. ASSUME NEW n \in Node, Exit(n) PROVE SingleLeader'
    BY <1>7 DEF Exit, Leading
  <1>8. CASE (\E c \in Cli : RunNow(c)) \/ DropSession \/ Elapse \/ UNCHANGED vars
    BY <1>8 DEF RunNow, DropSession, Elapse, vars, nodeVars
  <1> QED BY <1>1, <1>2, <1>3, <1>4, <1>5, <1>6, <1>7, <1>8 DEF Next

LEMMA DisciplineStep ==
  ASSUME LedgerGuardsBackfills, FireDiscipline, [Next]_vars
  PROVE  FireDiscipline'
  <1> SUFFICES Facts'
    BY TypeStep, LeaderStep DEF FireDiscipline, Facts
  <1> USE DEF FireDiscipline
  <1>A. Node \subseteq Actor /\ Cli \subseteq Actor
    BY DEF Actor
  <1>B. last \in Nat /\ \A i \in Instants : fires[i] \in Nat
    BY DEF TypeOK
  <1>1. ASSUME NEW a \in Actor, TakeLock(a) PROVE Facts'
    <2> DEFINE p == IF task[a].keyed THEN "locked" ELSE "cleared"
    <2>1. /\ task[a].pc = "launched" /\ task' = [task EXCEPT ![a].pc = p]
          /\ UNCHANGED <<world, now, last, stamp, sched, backlog, fires, ledger>>
      BY <1>1 DEF TakeLock, nodeVars
    <2>2. ASSUME a \in Node, p # "locked"
          PROVE  sched[a] = "on" /\ world.kind # "cron"
      BY <2>1, <2>2 DEF TasksFit, NodeTask
    <2>3. a \in Node /\ p # "locked" /\ Live(a) => fires[task[a].occ] = 0
      BY <2>1, <2>2, Sizes DEF TicksAhead, FiredPast, TasksFit, NodeTask, TypeOK
    <2>4. ASSUME NEW m \in Node, a \in Node, m # a, p # "locked", task[a].occ \in backlog[m]
          PROVE  FALSE
      <3>1. sched[m] = "each" /\ world.missed = "run_each"
        BY <2>4 DEF TypeOK, TasksFit, NodeTask
      <3> QED BY <2>2, <2>4, <3>1, Rivals
    <2>5. p \in {"locked", "claimed", "cleared"} /\ (p \in {"locked", "claimed"} => task[a].keyed)
      OBVIOUS
    <2> HIDE DEF p
    <2> QED BY <2>1, <2>2, <2>3, <2>4, <2>5, AdvanceStep
  <1>2. ASSUME NEW a \in Actor, Busy(a) PROVE Facts'
    BY <1>2, EndStep DEF Busy
  <1>3. ASSUME NEW a \in Actor, ClaimFire(a) PROVE Facts'
    <2>1. task[a].pc = "locked" /\ UNCHANGED <<world, now, last, stamp, fires>>
      BY <1>3 DEF ClaimFire
    <2>2. CASE ledger[task[a].occ] # 0
      BY <1>3, <2>1, <2>2, EndStep DEF ClaimFire
    <2>3. CASE ledger[task[a].occ] = 0
      <3>1. /\ task' = [task EXCEPT ![a].pc = "claimed"]
            /\ ledger' = [ledger EXCEPT ![task[a].occ] = Ttl] /\ UNCHANGED <<sched, backlog>>
        BY <1>3, <2>3 DEF ClaimFire
      <3>2. a \in Node => task[a].occ \in Instants /\ sched[a] \in {"each", "on"}
        BY <2>1 DEF TasksFit, NodeTask
      <3>3. task[a].keyed
        <4>1. a \in Node => task[a].keyed
          BY <2>1 DEF TasksFit, NodeTask
        <4>2. a \notin Cli
          BY <2>1 DEF TasksFit, CliTask
        <4> QED BY <4>1, <4>2 DEF Actor
      <3>4. a \in Node /\ Live(a) => fires[task[a].occ] = 0
        <4> HAVE a \in Node /\ Live(a)
        <4>1. fires[task[a].occ] \in Nat /\ last \in Nat /\ task[a].occ \in Nat
          BY <3>2, <1>B, Sizes
        <4>2. CASE sched[a] = "each"
          BY <2>3, <4>1, <4>2 DEF BackfillsBarred, Barred
        <4>3. CASE sched[a] = "on"
          BY <3>2, <4>1, <4>3 DEF TicksAhead, FiredPast
        <4> QED BY <3>2, <4>2, <4>3
      <3>5. a \in Node => ledger'[task[a].occ] > 0
        BY <3>1, <3>2, Sizes DEF TypeOK
      <3> QED BY <2>1, <3>1, <3>3, <3>4, <3>5, AdvanceStep
    <2> QED BY <2>2, <2>3
  <1>4. ASSUME NEW a \in Actor, ClaimError(a) PROVE Facts'
    <2>1. /\ task[a].pc = "locked" /\ world.flaky
          /\ task' = [task EXCEPT ![a].pc = "cleared"]
          /\ UNCHANGED <<world, now, last, stamp, ledger, sched, backlog, fires>>
      BY <1>4 DEF ClaimError, nodeVars
    <2>2. a \in Node => task[a].occ \in Instants /\ sched[a] \in {"each", "on"}
      BY <2>1 DEF TasksFit, NodeTask
    <2>3. a \in Node /\ Live(a) => fires[task[a].occ] = 0
      <3> HAVE a \in Node /\ Live(a)
      <3>1. fires[task[a].occ] \in Nat /\ last \in Nat /\ task[a].occ \in Nat
        BY <2>2, <1>B, Sizes
      <3>2. CASE sched[a] = "each"
        BY <2>1, <3>1, <3>2 DEF BackfillsBarred, Barred
      <3>3. CASE sched[a] = "on"
        BY <2>2, <3>1, <3>3 DEF TicksAhead, FiredPast
      <3> QED BY <2>2, <3>2, <3>3
    <2>4. ASSUME NEW m \in Node, a \in Node, m # a, task[a].occ \in backlog[m]
          PROVE  FALSE
      <3>1. sched[m] = "each" /\ world.missed = "run_each"
        BY <2>4 DEF TypeOK, TasksFit, NodeTask
      <3> QED BY <2>1, <2>2, <2>4, <3>1, Rivals
    <2> QED BY <2>1, <2>3, <2>4, AdvanceStep
  <1>5. ASSUME NEW a \in Actor, CompleteFire(a) PROVE Facts'
    <2>1. /\ task[a].pc = "claimed" /\ task' = [task EXCEPT ![a].pc = "cleared"]
          /\ ledger' = [ledger EXCEPT ![task[a].occ] = Ttl]
          /\ UNCHANGED <<world, now, last, stamp, sched, backlog, fires>>
      BY <1>5 DEF CompleteFire, nodeVars
    <2>2. a \in Node => task[a].occ \in Instants
      BY <2>1 DEF TasksFit, NodeTask
    <2>3. a \in Node => ledger'[task[a].occ] > 0
      BY <2>1, <2>2, Sizes DEF TypeOK
    <2>4. a \in Node /\ Live(a) => fires[task[a].occ] = 0
      BY <2>1 DEF FirstToFire, PastLedger
    <2> QED BY <2>1, <2>3, <2>4, AdvanceStep
  <1>6. ASSUME NEW a \in Actor, MarkStarted(a) PROVE Facts'
    <2>1. CASE StampMatches(a)
      BY <1>6, <2>1, FireStep
    <2>2. CASE ~StampMatches(a)
      BY <1>6, <2>2, EndStep DEF MarkStarted
    <2> QED BY <2>1, <2>2
  <1>7. ASSUME NEW a \in Actor, Finish(a) PROVE Facts'
    BY <1>7, EndStep DEF Finish
  <1>8. ASSUME NEW n \in Node, CatchUp(n) PROVE Facts'
    <2> DEFINE skip == IsDue /\ world.missed = "skip"
               each == IF world.missed = "run_each" THEN MissedOccurrences ELSE {}
    <2>1. /\ sched[n] = "catchup" /\ task[n].pc = "idle" /\ backlog[n] = {}
          /\ last' = (IF skip THEN now ELSE last)
          /\ stamp' = (IF skip THEN stamp + 1 ELSE stamp)
          /\ UNCHANGED <<world, now, ledger, fires>>
      BY <1>8 DEF CatchUp, TypeOK
    <2>2. CASE each = {}
      <3>1. sched' = [sched EXCEPT ![n] = "on"] /\ UNCHANGED <<task, backlog>>
        BY <1>8, <2>2 DEF CatchUp
      <3>2. sched' \in [Node -> Sched] /\ sched'[n] = "on"
            /\ \A m \in Node \ {n} : sched'[m] = sched[m]
        BY <3>1 DEF TypeOK, Sched
      <3>3. CASE ~skip
        <4>1. \A m \in Node : Kept(m) \/ Retired(m)
          BY <2>1, <3>1, <3>2 DEF Kept, Retired
        <4>2. \A c \in Cli : CliTask(c)'
          BY <3>1 DEF TasksFit, CliTask
        <4> QED BY <2>1, <3>3, <4>1, <4>2, CalmStep
      <3>4. CASE skip
        BY <2>1, <3>1, <3>2, <3>4, StampStep
      <3> QED BY <3>3, <3>4
    <2>3. CASE each # {}
      <3> DEFINE occ == Min(each)
      <3>1. world.missed = "run_each" /\ each \subseteq Missed /\ ~skip
        BY <2>3, CatchesUpMissed
      <3>2. /\ sched' = [sched EXCEPT ![n] = "each"]
            /\ task' = [task EXCEPT ![n] = Launched(occ, TRUE, stamp)]
            /\ backlog' = [backlog EXCEPT ![n] = each \ {occ}]
        BY <1>8, <2>3 DEF CatchUp
      <3> HIDE DEF each, skip
      <3>3. occ \in each /\ \A i \in each : occ <= i
        BY <2>3, <3>1, MinIsLeast, Sizes DEF Missed
      <3>4. occ \in Instants /\ last < occ /\ occ <= now
        BY <3>1, <3>3 DEF Missed
      <3> HIDE DEF occ
      <3>5. backlog'[n] = each \ {occ} /\ backlog' = [backlog EXCEPT ![n] = backlog'[n]]
        BY <3>2 DEF TypeOK
      <3>6. ASSUME NEW m \in Node \ {n}, Live(m), PastLedger(m), task[m].occ \in backlog'[n]
            PROVE  ledger[task[m].occ] > 0
        <4>1. sched[m] \in {"each", "on"}
          BY <3>6 DEF Live, TasksFit, NodeTask
        <4>2. world.kind = "cron" /\ ~world.flaky
          BY <2>1, <3>1, <4>1, Rivals
        <4>3. CASE sched[m] = "each"
          BY <3>6, <4>2, <4>3 DEF BackfillsHold
        <4>4. CASE sched[m] = "on"
          <5>1. task[m].occ \in Instants /\ \A i \in Instants : last < i => task[m].occ <= i
            BY <3>6, <4>2, <4>4 DEF TicksAhead, Live, TasksFit, NodeTask
          <5>2. task[m].occ <= occ /\ occ <= task[m].occ /\ task[m].occ # occ
            BY <3>3, <3>4, <3>5, <3>6, <5>1
          <5>3. task[m].occ \in Nat /\ occ \in Nat
            BY <3>4, <5>1, Sizes
          <5> QED BY <5>2, <5>3
        <4> QED BY <4>1, <4>3, <4>4
      <3>7. backlog'[n] \subseteq {i \in Missed : i # occ}
        BY <3>1, <3>5
      <3>8. UNCHANGED <<world, now, last, stamp, ledger, fires>>
        BY <2>1, <3>1
      <3> QED BY <2>1, <3>1, <3>2, <3>4, <3>5, <3>6, <3>7, <3>8, LaunchStep
    <2> QED BY <2>2, <2>3
  <1>9. ASSUME NEW n \in Node, Tick(n) PROVE Facts'
    <2>1. /\ sched[n] = "on" /\ task[n].pc = "idle" /\ backlog[n] = {}
          /\ task' = [task EXCEPT ![n] = Launched(DueOccurrence, world.kind = "cron", stamp)]
          /\ UNCHANGED <<world, now, last, stamp, ledger, sched, backlog, fires>>
      BY <1>9 DEF Tick, nodeVars, TypeOK
    <2>2. /\ DueOccurrence \in Instants /\ last < DueOccurrence /\ DueOccurrence <= now
          /\ world.kind = "cron" => \A i \in Instants : last < i => DueOccurrence <= i
      BY <1>9, DueIsAhead DEF Tick
    <2>3. /\ sched' = [sched EXCEPT ![n] = "on"] /\ backlog'[n] = {}
          /\ backlog' = [backlog EXCEPT ![n] = backlog'[n]]
      BY <2>1 DEF TypeOK
    <2>4. (world.kind = "cron") \in BOOLEAN
      OBVIOUS
    <2> QED BY <2>1, <2>2, <2>3, <2>4, LaunchStep
  <1>10. ASSUME NEW n \in Node,
                Bid(n) \/ FailOpen(n) \/ Promote(n) \/ Demote(n) \/ Exit(n)
         PROVE  Facts'
    <2>1. UNCHANGED <<world, now, last, stamp, ledger, fires>>
      BY <1>10 DEF Bid, FailOpen, Promote, Demote, Exit
    <2>2. task' \in {task, [task EXCEPT ![n] = NoTask]}
      BY <1>10 DEF Bid, FailOpen, Promote, Demote, Exit
    <2>6. backlog' \in {backlog, [backlog EXCEPT ![n] = {}]}
      BY <1>10 DEF Bid, FailOpen, Promote, Demote, Exit
    <2>7. \E where \in Sched : sched' \in {sched, [sched EXCEPT ![n] = where]}
      BY <1>10 DEF Bid, FailOpen, Promote, Demote, Exit, Sched
    <2>3. \A m \in Node \ {n} : Kept(m)
      BY <2>2, <2>6, <2>7, <1>A DEF Kept, TypeOK
    <2>4. Kept(n) \/ Retired(n)
      <3>1. sched[n] = "off" => task[n].pc = "idle" /\ backlog[n] = {}
        BY DEF TasksFit, NodeTask, TypeOK
      <3>2. mode[n] \in {"down", "follower"} => sched[n] = "off"
        BY DEF TypeOK, Leading
      <3>3. CASE Bid(n) \/ FailOpen(n)
        BY <3>1, <3>2, <3>3 DEF Bid, FailOpen, Kept, Retired, TypeOK
      <3>4. CASE Promote(n)
        BY <3>1, <3>2, <3>4 DEF Promote, Retired, TypeOK
      <3>5. CASE Demote(n)
        <4>1. sched[n] # "each" /\ backlog[n] = {}
          BY <3>5 DEF Demote, Watching, TypeOK
        <4> QED BY <3>5, <4>1 DEF Demote, NoTask, Kept, Retired, TypeOK, Actor
      <3>6. CASE Exit(n)
        BY <3>6 DEF Exit, NoTask, Retired, TypeOK, Actor
      <3> QED BY <1>10, <3>3, <3>4, <3>5, <3>6
    <2>5. \A c \in Cli : CliTask(c)'
      <3>1. \A c \in Cli : task'[c] = task[c]
        BY <2>2, <1>A, Sizes DEF TypeOK
      <3> QED BY <3>1 DEF TasksFit, CliTask
    <2> QED BY <2>1, <2>3, <2>4, <2>5, CalmStep
  <1>11. ASSUME NEW c \in Cli, RunNow(c) PROVE Facts'
    <2>1. /\ task' = [task EXCEPT ![c] = Launched(NoOccurrence, FALSE, Unconditional)]
          /\ UNCHANGED <<world, now, last, stamp, ledger, sched, backlog, fires>>
      BY <1>11 DEF RunNow, nodeVars
    <2>2. \A n \in Node : Kept(n)
      BY <2>1, Sizes DEF Kept, TypeOK, Actor
    <2>3. \A d \in Cli : CliTask(d)'
      BY <2>1 DEF TasksFit, CliTask, Launched, TypeOK, Actor
    <2> QED BY <2>1, <2>2, <2>3, CalmStep
  <1>12. CASE DropSession \/ UNCHANGED vars
    <2>1. UNCHANGED <<world, now, last, stamp, ledger, fires, task, sched, backlog>>
      BY <1>12 DEF DropSession, vars, nodeVars
    <2>2. (\A n \in Node : Kept(n)) /\ \A c \in Cli : CliTask(c)'
      BY <2>1 DEF Kept, TasksFit, CliTask
    <2> QED BY <2>1, <2>2, CalmStep
  <1>13. CASE Elapse
    BY <1>13, ElapseStep
  <1> QED BY <1>1, <1>2, <1>3, <1>4, <1>5, <1>6, <1>7, <1>8, <1>9, <1>10, <1>11, <1>12,
             <1>13 DEF Next

LEMMA DisciplineInit == Init => FireDiscipline
  <1> SUFFICES ASSUME Init PROVE FireDiscipline
    OBVIOUS
  <1> USE Sizes DEF Init
  <1>1. TypeOK
    BY TypeInit
  <1>2. SingleLeader /\ TicksAhead /\ BackfillsBarred /\ BackfillsHold
    BY DEF SingleLeader, Leading, TicksAhead, BackfillsBarred, BackfillsHold
  <1>3. TasksFit
    BY DEF TasksFit, NodeTask, CliTask, NoTask, Actor
  <1>4. FiredPast /\ FirstToFire /\ RowsShield /\ FiredOnce
    BY DEF FiredPast, FirstToFire, RowsShield, FiredOnce, Live, PastLedger, NoTask, Actor
  <1> QED BY <1>1, <1>2, <1>3, <1>4 DEF FireDiscipline

\* The invariant that ties tasks, backlogs, ledger rows and the stamp of the
\* routine together.
THEOREM DisciplineHolds == LedgerGuardsBackfills => (Spec => []FireDiscipline)
  <1> SUFFICES ASSUME LedgerGuardsBackfills PROVE Spec => []FireDiscipline
    OBVIOUS
  <1> QED BY DisciplineInit, DisciplineStep, PTL DEF Spec

\* An occurrence is fired at most once, whatever nodes lead at the same time,
\* crash or lose their session, and however ticks, catch-ups and manual runs of
\* several hosts interleave.
THEOREM OccurrencesFireOnce == LedgerGuardsBackfills => (Spec => []FiredOnce)
  <1>1. FireDiscipline => FiredOnce
    BY DEF FireDiscipline
  <1> QED BY <1>1, DisciplineHolds, PTL

=============================================================================
