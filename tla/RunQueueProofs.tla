--------------------------- MODULE RunQueueProofs ---------------------------
(***************************************************************************)
(* Proofs about the leased run queue, for any number of runs, dispatchers  *)
(* and worker slots and any lease, backoff and retry budget.               *)
(***************************************************************************)
EXTENDS RunQueue, FiniteSetTheorems, TLAPS

-----------------------------------------------------------------------------
(* Facts about the records the actions write.                              *)

\* The bounds are inside the ranges of their columns.
LEMMA Ranges ==
  /\ NoLease \in Lease /\ 0 \in Lease /\ LeaseTTL \in Lease
  /\ NoLease # 0 /\ LeaseTTL > 0 /\ LeaseTTL # NoLease
  /\ 0 \in Attempt /\ 0 \in Wait
  BY BoundAssumption DEF NoLease, Lease, Attempt, Wait

LEMMA NewRecordType == NewRecord \in RunRecord
  BY Ranges DEF NewRecord, RunRecord, RunStatus, ErrorText, ErrorCode

LEMMA AnyRunType == AnyRun \in Run
  BY RunAssumption DEF AnyRun

\* Counting a lease down keeps it in range, never turns it into none or back,
\* and brings only 1 down to 0.
LEMMA DownFacts ==
  /\ \A n \in Lease : /\ Down(n) \in Lease
                      /\ Down(n) = NoLease <=> n = NoLease
                      /\ n > 0 /\ n # 1 => Down(n) > 0
  /\ \A n \in Wait : Down(n) \in Wait
  BY BoundAssumption DEF NoLease, Lease, Wait, Down

\* Counting the deadlines of a record down changes nothing else.
LEMMA TickRecordFacts ==
  ASSUME NEW rec \in RunRecord
  PROVE  /\ TickRecord(rec) \in RunRecord
         /\ TickRecord(rec).status = rec.status
         /\ TickRecord(rec).owner_id = rec.owner_id
         /\ TickRecord(rec).lease = Down(rec.lease)
  <1>1. rec.lease \in Lease /\ rec.wait \in Wait
    BY DEF RunRecord
  <1>2. Down(rec.lease) \in Lease /\ Down(rec.wait) \in Wait
    BY <1>1, DownFacts
  <1> QED BY <1>2 DEF TickRecord, RunRecord

LEMMA RequeuedType ==
  ASSUME TypeOK
  PROVE  Requeued \in [Run -> RunRecord]
  <1> SUFFICES ASSUME NEW r \in Run PROVE Requeued[r] \in RunRecord
    BY DEF Requeued
  <1>1. row[r] \in RunRecord
    BY DEF TypeOK
  <1>2. [row[r] EXCEPT !.status = "QUEUED", !.owner_id = NoOwner,
                       !.lease = NoLease, !.wait = 0] \in RunRecord
    BY <1>1, Ranges DEF RunRecord, RunStatus
  <1> QED BY <1>1, <1>2 DEF Requeued

LEMMA ClaimedRecordType ==
  ASSUME TypeOK, NEW r \in Run, NEW p \in Proc, row[r].attempt < AttemptCap
  PROVE  ClaimedRecord(r, p) \in RunRecord
  <1>1. row[r] \in RunRecord
    BY DEF TypeOK
  <1>2. row[r].attempt \in Attempt
    BY <1>1 DEF RunRecord
  <1>3. row[r].attempt + 1 \in Attempt
    BY <1>2, BoundAssumption DEF Attempt
  <1> QED BY <1>1, <1>3, Ranges DEF ClaimedRecord, RunRecord, RunStatus

-----------------------------------------------------------------------------
(* Type correctness.                                                       *)

LEMMA InitType == Init => TypeOK
  BY NewRecordType, AnyRunType, BoundAssumption DEF Init, TypeOK, WorkerPc

LEMMA NextType == TypeOK /\ [Next]_vars => TypeOK'
  <1> SUFFICES ASSUME TypeOK, [Next]_vars PROVE TypeOK'
    OBVIOUS
  <1> USE NewRecordType, AnyRunType
  <1>1. ASSUME NEW r \in Run, Enqueue(r) PROVE TypeOK'
    <2>1. [NewRecord EXCEPT !.status = "QUEUED"] \in RunRecord
      BY DEF RunRecord, RunStatus
    <2> QED BY <1>1, <2>1 DEF Enqueue, SaveRun, workerVars, envVars, TypeOK
  <1>2. ASSUME NEW r \in Run, RedriveRun(r) PROVE TypeOK'
    <2>1. [row[r] EXCEPT !.status = "QUEUED", !.attempt = 0,
                         !.owner_id = NoOwner, !.lease = NoLease,
                         !.error = "none", !.wait = 0] \in RunRecord
      BY Ranges DEF TypeOK, RunRecord, RunStatus, ErrorText
    <2>2. redrives' \in 0..MaxRedrives
      BY <1>2, BoundAssumption DEF RedriveRun, TypeOK
    <2> QED BY <1>2, <2>1, <2>2 DEF RedriveRun, SaveRun, workerVars, TypeOK
  <1>3. ASSUME NEW r \in Run, GrowOld(r) PROVE TypeOK'
    BY <1>3 DEF GrowOld, workerVars, TypeOK
  <1>4. ASSUME NEW p \in Proc, StartProcess(p) PROVE TypeOK'
    BY <1>4, RequeuedType DEF StartProcess, workerVars, TypeOK
  <1>5. ASSUME NEW p \in Proc, ProbeLocal(p) PROVE TypeOK'
    BY <1>5 DEF ProbeLocal, workerVars, TypeOK
  <1>6. ASSUME NEW p \in Proc, Reap(p) PROVE TypeOK'
    BY <1>6, RequeuedType DEF Reap, workerVars, envVars, TypeOK
  <1>7. ASSUME NEW p \in Proc, StopProcess(p) PROVE TypeOK'
    BY <1>7 DEF StopProcess, TypeOK
  <1>8. ASSUME NEW p \in Proc, ExitProcess(p) PROVE TypeOK'
    BY <1>8 DEF ExitProcess, workerVars, TypeOK
  <1>9. ASSUME NEW p \in Proc, Crash(p) PROVE TypeOK'
    BY <1>9 DEF Crash, TypeOK, WorkerPc
  <1>10. ASSUME NEW w \in Worker, NEW r \in Run, ClaimRun(w, r) PROVE TypeOK'
    <2>1. w[1] \in Proc
      BY DEF Worker
    <2>2. ClaimedRecord(r, w[1]) \in RunRecord
      BY <1>10, <2>1, ClaimedRecordType DEF ClaimRun
    <2> QED BY <1>10, <2>2 DEF ClaimRun, SaveRun, envVars, TypeOK, WorkerPc
  <1>11. ASSUME NEW w \in Worker, Heartbeat(w) PROVE TypeOK'
    <2>1. job[w] \in Run
      BY DEF TypeOK
    <2>2. [row[job[w]] EXCEPT !.lease = LeaseTTL] \in RunRecord
      BY <2>1, Ranges DEF TypeOK, RunRecord
    <2> QED BY <1>11, <2>1, <2>2 DEF Heartbeat, SaveRun, envVars, TypeOK
  <1>12. ASSUME NEW w \in Worker, CancelWorker(w) PROVE TypeOK'
    <2>1. [copy[w] EXCEPT !.status = "FAILED", !.error = "permanent"] \in RunRecord
      BY DEF TypeOK, RunRecord, RunStatus, ErrorText
    <2> QED BY <1>12, <2>1 DEF CancelWorker, SaveRun, Release, envVars, TypeOK, WorkerPc
  <1>13. ASSUME NEW w \in Worker, RejectInput(w) PROVE TypeOK'
    <2>1. [copy[w] EXCEPT !.status = "FAILED", !.error = "permanent"] \in RunRecord
      BY DEF TypeOK, RunRecord, RunStatus, ErrorText
    <2> QED BY <1>13, <2>1 DEF RejectInput, SaveRun, Release, envVars, TypeOK, WorkerPc
  <1>14. ASSUME NEW w \in Worker, StartRun(w) PROVE TypeOK'
    <2>1. [copy[w] EXCEPT !.status = "RUNNING"] \in RunRecord
      BY DEF TypeOK, RunRecord, RunStatus
    <2> QED BY <1>14, <2>1 DEF StartRun, SaveRun, envVars, TypeOK, WorkerPc
  <1>15. ASSUME NEW w \in Worker, NEW o \in Outcome, FinishRun(w, o) PROVE TypeOK'
    <2> DEFINE final == [copy[w] EXCEPT
                    !.status = o.status,
                    !.error = IF o.status = "FAILED" THEN o.error ELSE @,
                    !.code = IF o.code = "none" THEN @ ELSE o.code]
    <2>1. final \in RunRecord
      <3>1. copy[w] \in RunRecord
        BY DEF TypeOK
      <3>2. /\ o.status \in RunStatus
            /\ o.error \in ErrorText /\ o.code \in ErrorCode
        BY DEF Outcome, RunStatus, ErrorText, ErrorCode
      <3> QED BY <3>1, <3>2 DEF RunRecord
    <2>2. row' = [row EXCEPT ![job[w]] = final]
      BY <1>15 DEF FinishRun, SaveRun
    <2> HIDE DEF final
    <2> QED BY <1>15, <2>1, <2>2 DEF FinishRun, envVars, TypeOK, WorkerPc
  <1>16. ASSUME NEW w \in Worker, ReadForRetry(w) PROVE TypeOK'
    BY <1>16 DEF ReadForRetry, Release, envVars, TypeOK, WorkerPc
  <1>17. ASSUME NEW w \in Worker, ApplyRetry(w) PROVE TypeOK'
    <2> DEFINE rec == [copy[w] EXCEPT !.owner_id = NoOwner, !.lease = NoLease]
    <2>1. \A delay \in Wait :
             [rec EXCEPT !.status = "QUEUED", !.error = "none", !.wait = delay]
               \in RunRecord
      BY Ranges DEF TypeOK, RunRecord, RunStatus, ErrorText
    <2>2. [rec EXCEPT !.status = "PARKED"] \in RunRecord
      BY Ranges DEF TypeOK, RunRecord, RunStatus
    <2>3. \/ \E delay \in Wait :
                row' = [row EXCEPT ![job[w]] =
                   [rec EXCEPT !.status = "QUEUED", !.error = "none", !.wait = delay]]
          \/ row' = [row EXCEPT ![job[w]] = [rec EXCEPT !.status = "PARKED"]]
      BY <1>17 DEF ApplyRetry, SaveRun
    <2> HIDE DEF rec
    <2>4. row' \in [Run -> RunRecord]
      BY <2>1, <2>2, <2>3 DEF TypeOK
    <2> QED BY <1>17, <2>4 DEF ApplyRetry, Release, envVars, TypeOK, WorkerPc
  <1>18. CASE Tick
    BY <1>18, TickRecordFacts DEF Tick, envVars, TypeOK
  <1>19. CASE UNCHANGED vars
    BY <1>19 DEF vars, TypeOK
  <1>20. ASSUME NEW p \in Proc, NEW r \in Run, AbandonClaim(p, r) PROVE TypeOK'
    <2>1. ClaimedRecord(r, p) \in RunRecord
      BY <1>20, ClaimedRecordType DEF AbandonClaim
    <2> QED BY <1>20, <2>1 DEF AbandonClaim, SaveRun, TypeOK
  <1>21. ASSUME NEW w \in Worker, DriveRaises(w) PROVE TypeOK'
    <2> DEFINE j == job[w]
    <2>1. j \in Run /\ MaxRaises[j] \in Nat /\ raises[j] \in Nat /\ raises[j] < MaxRaises[j]
      BY <1>21, BoundAssumption DEF DriveRaises, TypeOK
    <2>2. raises' = [raises EXCEPT ![j] = raises[j] + 1]
      BY <1>21 DEF DriveRaises
    <2> HIDE DEF j
    <2>3. /\ raises' \in [Run -> Nat]
          /\ \A r \in Run : raises'[r] <= MaxRaises[r]
      BY <2>1, <2>2 DEF TypeOK
    <2> QED BY <1>21, <2>3 DEF DriveRaises, Release, TypeOK, WorkerPc
  <1> QED
    BY <1>1, <1>2, <1>3, <1>4, <1>5, <1>6, <1>7, <1>8, <1>9, <1>10, <1>11,
       <1>12, <1>13, <1>14, <1>15, <1>16, <1>17, <1>18, <1>19, <1>20, <1>21 DEF Next

\* Every reachable state is well typed: rows and in-memory copies stay records
\* of the runs table, whatever interleaving of store operations led there.
THEOREM TypeCorrect == Spec => []TypeOK
  <1> QED BY InitType, NextType, PTL DEF Spec

-----------------------------------------------------------------------------
(* What the writes of a worker leave in its row.                           *)

LEMMA CancelEffect ==
  ASSUME TypeOK, NEW w \in Worker, CancelWorker(w)
  PROVE  /\ \A r \in Run \ {job[w]} : row'[r] = row[r]
         /\ IF pc[w] = "running" THEN row'[job[w]].status = "FAILED" ELSE row' = row
  <1>1. job[w] \in Run /\ copy[w] \in RunRecord
    BY DEF TypeOK
  <1>2. CASE pc[w] = "running"
    <2>1. row' = [row EXCEPT ![job[w]] = [copy[w] EXCEPT !.status = "FAILED",
                                                         !.error = "permanent"]]
      BY <1>2 DEF CancelWorker, SaveRun
    <2> QED BY <1>1, <1>2, <2>1 DEF TypeOK, RunRecord
  <1>3. CASE pc[w] # "running"
    BY <1>3 DEF CancelWorker
  <1> QED BY <1>2, <1>3

LEMMA FinishEffect ==
  ASSUME TypeOK, NEW w \in Worker, NEW o \in Outcome, FinishRun(w, o)
  PROVE  /\ \A r \in Run \ {job[w]} : row'[r] = row[r]
         /\ row'[job[w]].status \in {"SUCCEEDED", "AWAITING_APPROVAL", "FAILED"}
  <1>1. job[w] \in Run /\ copy[w] \in RunRecord
    BY DEF TypeOK
  <1>2. row'[job[w]].status = o.status /\ \A r \in Run \ {job[w]} : row'[r] = row[r]
    BY <1>1 DEF FinishRun, SaveRun, TypeOK, RunRecord
  <1>3. o.status \in {"SUCCEEDED", "AWAITING_APPROVAL", "FAILED"}
    BY DEF Outcome
  <1> QED BY <1>2, <1>3

LEMMA ApplyRetryEffect ==
  ASSUME TypeOK, NEW w \in Worker, ApplyRetry(w)
  PROVE  /\ \A r \in Run \ {job[w]} : row'[r] = row[r]
         /\ row'[job[w]].status \in {"QUEUED", "PARKED"}
         /\ row'[job[w]].lease = NoLease /\ row'[job[w]].owner_id = NoOwner
  <1> DEFINE rec == [copy[w] EXCEPT !.owner_id = NoOwner, !.lease = NoLease]
  <1>1. job[w] \in Run /\ copy[w] \in RunRecord
    BY DEF TypeOK
  <1>2. \A delay \in Wait :
           LET q == [rec EXCEPT !.status = "QUEUED", !.error = "none", !.wait = delay]
           IN  q.status = "QUEUED" /\ q.lease = NoLease /\ q.owner_id = NoOwner
    BY <1>1 DEF RunRecord
  <1>3. LET q == [rec EXCEPT !.status = "PARKED"]
        IN  q.status = "PARKED" /\ q.lease = NoLease /\ q.owner_id = NoOwner
    BY <1>1 DEF RunRecord
  <1>4. \/ \E delay \in Wait :
              row' = [row EXCEPT ![job[w]] =
                 [rec EXCEPT !.status = "QUEUED", !.error = "none", !.wait = delay]]
        \/ row' = [row EXCEPT ![job[w]] = [rec EXCEPT !.status = "PARKED"]]
    BY DEF ApplyRetry, SaveRun
  <1> HIDE DEF rec
  <1> QED BY <1>1, <1>2, <1>3, <1>4 DEF TypeOK

-----------------------------------------------------------------------------
(* Recoverability: needs no assumption on timing.                          *)

\* What a worker will write back as RUNNING carries a lease.
CopyHasLease ==
    \A w \in Worker : pc[w] \in {"claimed", "running"} => copy[w].lease # NoLease

LEMMA NextRecoverable ==
  TypeOK /\ NoStrandedRun /\ CopyHasLease /\ [Next]_vars
    => NoStrandedRun' /\ CopyHasLease'
  <1> SUFFICES ASSUME TypeOK, NoStrandedRun, CopyHasLease, [Next]_vars
               PROVE  NoStrandedRun' /\ CopyHasLease'
    OBVIOUS
  <1> USE Ranges
  <1>0. \A r \in Run : row[r] \in RunRecord
    BY DEF TypeOK
  <1>00. \A w \in Worker : copy[w] \in RunRecord /\ job[w] \in Run
    BY DEF TypeOK
  <1>a. \A r \in Run :
          /\ Requeued[r].status = "RUNNING" => row[r].lease # NoLease /\ Requeued[r] = row[r]
          /\ Requeued[r].status \in {"QUEUED", "PARKED"} =>
                Requeued[r].lease = NoLease /\ Requeued[r].owner_id = NoOwner
    BY <1>0 DEF Requeued, NoStrandedRun, RunRecord
  <1>1. ASSUME NEW r \in Run, Enqueue(r) PROVE NoStrandedRun' /\ CopyHasLease'
    BY <1>1 DEF Enqueue, SaveRun, workerVars, NewRecord, TypeOK, NoStrandedRun, CopyHasLease
  <1>2. ASSUME NEW r \in Run, RedriveRun(r) PROVE NoStrandedRun' /\ CopyHasLease'
    BY <1>2, <1>0
       DEF RedriveRun, SaveRun, workerVars, TypeOK, NoStrandedRun, CopyHasLease, RunRecord
  <1>3. ASSUME NEW r \in Run, GrowOld(r) PROVE NoStrandedRun' /\ CopyHasLease'
    BY <1>3 DEF GrowOld, workerVars, NoStrandedRun, CopyHasLease
  <1>4. ASSUME NEW p \in Proc, StartProcess(p) PROVE NoStrandedRun' /\ CopyHasLease'
    BY <1>4, <1>a DEF StartProcess, workerVars, NoStrandedRun, CopyHasLease
  <1>5. ASSUME NEW p \in Proc, ProbeLocal(p) PROVE NoStrandedRun' /\ CopyHasLease'
    BY <1>5 DEF ProbeLocal, workerVars, NoStrandedRun, CopyHasLease
  <1>6. ASSUME NEW p \in Proc, Reap(p) PROVE NoStrandedRun' /\ CopyHasLease'
    BY <1>6, <1>a DEF Reap, workerVars, NoStrandedRun, CopyHasLease
  <1>7. ASSUME NEW p \in Proc, StopProcess(p) PROVE NoStrandedRun' /\ CopyHasLease'
    BY <1>7 DEF StopProcess, NoStrandedRun, CopyHasLease
  <1>8. ASSUME NEW p \in Proc, ExitProcess(p) PROVE NoStrandedRun' /\ CopyHasLease'
    BY <1>8 DEF ExitProcess, workerVars, NoStrandedRun, CopyHasLease
  <1>9. ASSUME NEW p \in Proc, Crash(p) PROVE NoStrandedRun' /\ CopyHasLease'
    BY <1>9 DEF Crash, TypeOK, NoStrandedRun, CopyHasLease
  <1>10. ASSUME NEW w \in Worker, NEW r \in Run, ClaimRun(w, r)
         PROVE  NoStrandedRun' /\ CopyHasLease'
    <2>1. /\ ClaimedRecord(r, w[1]).status = "RUNNING"
          /\ ClaimedRecord(r, w[1]).lease = LeaseTTL
      BY <1>0 DEF ClaimedRecord, RunRecord
    <2> QED BY <1>10, <2>1 DEF ClaimRun, SaveRun, TypeOK, NoStrandedRun, CopyHasLease
  <1>11. ASSUME NEW w \in Worker, Heartbeat(w) PROVE NoStrandedRun' /\ CopyHasLease'
    <2>1. NoStrandedRun'
      BY <1>11, <1>0, <1>00 DEF Heartbeat, SaveRun, TypeOK, NoStrandedRun, RunRecord
    <2> QED BY <1>11, <2>1 DEF Heartbeat, CopyHasLease
  <1>12. ASSUME NEW w \in Worker, CancelWorker(w) PROVE NoStrandedRun' /\ CopyHasLease'
    <2>1. NoStrandedRun'
      BY <1>12, <1>00, CancelEffect DEF NoStrandedRun
    <2> QED BY <1>12, <2>1 DEF CancelWorker, Release, TypeOK, CopyHasLease
  <1>13. ASSUME NEW w \in Worker, RejectInput(w) PROVE NoStrandedRun' /\ CopyHasLease'
    <2>1. NoStrandedRun'
      BY <1>13, <1>0, <1>00 DEF RejectInput, SaveRun, TypeOK, NoStrandedRun, RunRecord
    <2> QED BY <1>13, <2>1 DEF RejectInput, Release, TypeOK, CopyHasLease
  <1>14. ASSUME NEW w \in Worker, StartRun(w) PROVE NoStrandedRun' /\ CopyHasLease'
    <2>1. copy[w].lease # NoLease
      BY <1>14 DEF StartRun, CopyHasLease
    <2>2. NoStrandedRun'
      BY <1>14, <2>1, <1>0, <1>00 DEF StartRun, SaveRun, TypeOK, NoStrandedRun, RunRecord
    <2> QED BY <1>14, <2>1, <2>2 DEF StartRun, TypeOK, CopyHasLease
  <1>15. ASSUME NEW w \in Worker, NEW o \in Outcome, FinishRun(w, o)
         PROVE  NoStrandedRun' /\ CopyHasLease'
    <2>1. NoStrandedRun'
      BY <1>15, <1>00, FinishEffect DEF NoStrandedRun
    <2> QED BY <1>15, <2>1 DEF FinishRun, TypeOK, CopyHasLease
  <1>16. ASSUME NEW w \in Worker, ReadForRetry(w) PROVE NoStrandedRun' /\ CopyHasLease'
    BY <1>16 DEF ReadForRetry, Release, TypeOK, NoStrandedRun, CopyHasLease
  <1>17. ASSUME NEW w \in Worker, ApplyRetry(w) PROVE NoStrandedRun' /\ CopyHasLease'
    <2>1. NoStrandedRun'
      BY <1>17, <1>00, ApplyRetryEffect DEF NoStrandedRun
    <2> QED BY <1>17, <2>1 DEF ApplyRetry, Release, TypeOK, CopyHasLease
  <1>18. CASE Tick
    <2>1. ASSUME NEW rec \in RunRecord
          PROVE  TickRecord(rec).lease = NoLease <=> rec.lease = NoLease
      BY TickRecordFacts, DownFacts DEF RunRecord
    <2>2. NoStrandedRun'
      BY <1>18, <1>0, <2>1, TickRecordFacts DEF Tick, NoStrandedRun
    <2> QED BY <1>18, <1>00, <2>1, <2>2 DEF Tick, CopyHasLease
  <1>19. CASE UNCHANGED vars
    BY <1>19 DEF vars, NoStrandedRun, CopyHasLease
  <1>20. ASSUME NEW p \in Proc, NEW r \in Run, AbandonClaim(p, r)
         PROVE  NoStrandedRun' /\ CopyHasLease'
    <2>1. /\ ClaimedRecord(r, p).status = "RUNNING"
          /\ ClaimedRecord(r, p).lease = LeaseTTL
      BY <1>0 DEF ClaimedRecord, RunRecord
    <2> QED BY <1>20, <2>1 DEF AbandonClaim, SaveRun, TypeOK, NoStrandedRun, CopyHasLease
  <1>21. ASSUME NEW w \in Worker, DriveRaises(w) PROVE NoStrandedRun' /\ CopyHasLease'
    BY <1>21 DEF DriveRaises, Release, TypeOK, NoStrandedRun, CopyHasLease
  <1> QED
    BY <1>1, <1>2, <1>3, <1>4, <1>5, <1>6, <1>7, <1>8, <1>9, <1>10, <1>11,
       <1>12, <1>13, <1>14, <1>15, <1>16, <1>17, <1>18, <1>19, <1>20, <1>21 DEF Next

\* A RUNNING run always carries the lease that lets the reaper bring it back,
\* and a run the queue let go of carries none: for every interleaving, late
\* writes of workers that lost their lease included.
THEOREM NoRunIsStranded == Spec => []NoStrandedRun
  <1>1. Init => NoStrandedRun /\ CopyHasLease
    BY DEF Init, NewRecord, NoStrandedRun, CopyHasLease
  <1> QED BY <1>1, TypeCorrect, NextRecoverable, PTL DEF Spec

-----------------------------------------------------------------------------
(* Exclusive driving: under the timing assumptions only.                   *)

\* The environment the exclusion rests on: leases are acted on in time, a
\* claimed run is not kept waiting past its lease, redrives wait their turn.
InGoodTime == TimelyBeats /\ UnblockedStart /\ OperatorWaits

LEMMA InitDiscipline == Init => LeaseDiscipline
  BY DEF Init, LeaseDiscipline, Busy

\* The reaper and the start-up sweep touch no row a busy worker sits on.
LEMMA RequeuedSparesBusy ==
  ASSUME TypeOK, LeaseDiscipline, NEW w \in Busy
  PROVE  Requeued[job[w]] = row[job[w]]
  <1>1. job[w] \in Run /\ pc[w] \in {"claimed", "running", "policy", "requeue"}
    BY DEF TypeOK, Busy, WorkerPc
  <1>2. job[w] \notin Expired
    BY <1>1 DEF LeaseDiscipline, Expired, Busy
  <1> QED BY <1>1, <1>2 DEF Requeued

LEMMA NextDiscipline ==
  InGoodTime /\ TypeOK /\ LeaseDiscipline /\ [Next]_vars => LeaseDiscipline'
  <1> SUFFICES ASSUME InGoodTime, TypeOK, LeaseDiscipline, [Next]_vars
               PROVE  LeaseDiscipline'
    OBVIOUS
  <1> USE Ranges
  <1>a. \A r \in Run : row[r] \in RunRecord
    BY DEF TypeOK
  <1>b. \A w \in Worker : /\ copy[w] \in RunRecord /\ job[w] \in Run
                          /\ pc[w] \in WorkerPc /\ w[1] \in Proc
    BY DEF TypeOK, Worker
  <1>c. \A w \in Busy : row[job[w]].status \in
                          {"RUNNING", "SUCCEEDED", "AWAITING_APPROVAL", "FAILED"}
    BY <1>b DEF LeaseDiscipline, Busy, WorkerPc
  <1>1. ASSUME NEW r \in Run, Enqueue(r) PROVE LeaseDiscipline'
    <2>1. \A w \in Busy : job[w] # r
      BY <1>1, <1>c DEF Enqueue
    <2>2. \A w \in Busy : row'[job[w]] = row[job[w]]
      BY <1>1, <1>b, <2>1 DEF Enqueue, SaveRun, TypeOK, Busy
    <2> QED BY <1>1, <2>2 DEF Enqueue, workerVars, envVars, LeaseDiscipline, Busy, Alive
  <1>2. ASSUME NEW r \in Run, RedriveRun(r) PROVE LeaseDiscipline'
    <2>1. \A w \in Busy : job[w] # r
      BY <1>2 DEF RedriveRun, InGoodTime
    <2>2. \A w \in Busy : row'[job[w]] = row[job[w]]
      BY <1>2, <1>b, <2>1 DEF RedriveRun, SaveRun, TypeOK, Busy
    <2> QED BY <1>2, <2>2 DEF RedriveRun, workerVars, LeaseDiscipline, Busy, Alive
  <1>3. ASSUME NEW r \in Run, GrowOld(r) PROVE LeaseDiscipline'
    BY <1>3 DEF GrowOld, workerVars, LeaseDiscipline, Busy, Alive
  <1>4. ASSUME NEW p \in Proc, StartProcess(p) PROVE LeaseDiscipline'
    <2>1. \A w \in Busy : row'[job[w]] = row[job[w]]
      BY <1>4, RequeuedSparesBusy DEF StartProcess
    <2>2. \A w \in Worker : Alive(w[1]) => Alive(w[1])' /\ mode'[w[1]] = mode[w[1]]
      BY <1>4, <1>b DEF StartProcess, Alive, TypeOK
    <2> QED BY <1>4, <2>1, <2>2 DEF StartProcess, workerVars, LeaseDiscipline, Busy
  <1>5. ASSUME NEW p \in Proc, ProbeLocal(p) PROVE LeaseDiscipline'
    BY <1>5 DEF ProbeLocal, workerVars, LeaseDiscipline, Busy, Alive
  <1>6. ASSUME NEW p \in Proc, Reap(p) PROVE LeaseDiscipline'
    <2>1. \A w \in Busy : row'[job[w]] = row[job[w]]
      BY <1>6, RequeuedSparesBusy DEF Reap
    <2> QED BY <1>6, <2>1 DEF Reap, workerVars, envVars, LeaseDiscipline, Busy, Alive
  <1>7. ASSUME NEW p \in Proc, StopProcess(p) PROVE LeaseDiscipline'
    <2>1. \A w \in Worker : /\ w[1] = p => mode'[w[1]] = "stopping"
                            /\ w[1] # p => mode'[w[1]] = mode[w[1]] /\ beating'[w] = beating[w]
      BY <1>7, <1>b DEF StopProcess, TypeOK
    <2>2. \A w \in Worker : Alive(w[1]) => Alive(w[1])'
      BY <2>1 DEF Alive
    <2>3. UNCHANGED <<row, pc, job, copy>>
      BY <1>7 DEF StopProcess
    <2>4. Busy' = Busy /\ Busy \subseteq Worker
      BY <2>3 DEF Busy
    <2>5. \A w \in Worker : (beating[w] \/ mode[w[1]] = "stopping")
                              => (beating'[w] \/ mode'[w[1]] = "stopping")
      BY <2>1
    <2> QED BY <2>2, <2>3, <2>4, <2>5 DEF LeaseDiscipline
  <1>8. ASSUME NEW p \in Proc, ExitProcess(p) PROVE LeaseDiscipline'
    <2>1. \A w \in Busy : mode'[w[1]] = mode[w[1]]
      BY <1>8, <1>b DEF ExitProcess, TypeOK, Busy
    <2> QED BY <1>8, <2>1 DEF ExitProcess, workerVars, LeaseDiscipline, Busy, Alive
  <1>9. ASSUME NEW p \in Proc, Crash(p) PROVE LeaseDiscipline'
    <2>1. \A w \in Worker : /\ w[1] = p => pc'[w] = "idle"
                            /\ w[1] # p => /\ mode'[w[1]] = mode[w[1]]
                                           /\ pc'[w] = pc[w] /\ job'[w] = job[w]
                                           /\ copy'[w] = copy[w]
                                           /\ beating'[w] = beating[w]
      BY <1>9, <1>b DEF Crash, TypeOK
    <2>2. row' = row
      BY <1>9 DEF Crash
    <2> QED BY <2>1, <2>2 DEF LeaseDiscipline, Busy, Alive
  <1>10. ASSUME NEW w \in Worker, NEW r \in Run, ClaimRun(w, r) PROVE LeaseDiscipline'
    <2>1. \A v \in Busy : job[v] # r
      BY <1>10, <1>c DEF ClaimRun, Claimable
    <2>2. /\ ClaimedRecord(r, w[1]).status = "RUNNING"
          /\ ClaimedRecord(r, w[1]).lease = LeaseTTL
          /\ ClaimedRecord(r, w[1]).owner_id = w[1]
      BY <1>a DEF ClaimedRecord, RunRecord
    <2>3. /\ pc'[w] = "claimed" /\ job'[w] = r /\ beating'[w] = TRUE
          /\ copy'[w] = ClaimedRecord(r, w[1]) /\ row'[r] = ClaimedRecord(r, w[1])
          /\ mode' = mode /\ mode[w[1]] = "up" /\ pc[w] = "idle"
      BY <1>10 DEF ClaimRun, SaveRun, envVars, TypeOK
    <2>4. \A v \in Worker \ {w} : /\ pc'[v] = pc[v] /\ job'[v] = job[v]
                                  /\ copy'[v] = copy[v] /\ beating'[v] = beating[v]
      BY <1>10 DEF ClaimRun, TypeOK
    <2>5. \A v \in Busy : row'[job[v]] = row[job[v]]
      BY <1>10, <1>b, <2>1 DEF ClaimRun, SaveRun, TypeOK, Busy
    <2> QED BY <2>1, <2>2, <2>3, <2>4, <2>5 DEF LeaseDiscipline, Busy, Alive
  <1>11. ASSUME NEW w \in Worker, Heartbeat(w) PROVE LeaseDiscipline'
    <2>1. CASE row[job[w]].status = "RUNNING" /\ row[job[w]].owner_id = w[1]
      <3>1. row' = [row EXCEPT ![job[w]] = [row[job[w]] EXCEPT !.lease = LeaseTTL]]
        BY <1>11, <2>1 DEF Heartbeat, SaveRun
      <3>2. \A r \in Run : /\ row'[r].status = row[r].status
                           /\ row'[r].owner_id = row[r].owner_id
                           /\ row[r].lease > 0 => row'[r].lease > 0
        BY <3>1, <1>a, <1>b DEF TypeOK, RunRecord
      <3>3. UNCHANGED <<mode, workerVars>>
        BY <1>11, <2>1 DEF Heartbeat, envVars, workerVars
      <3> QED BY <3>2, <3>3, <1>b DEF workerVars, LeaseDiscipline, Busy, Alive
    <2>2. CASE ~(row[job[w]].status = "RUNNING" /\ row[job[w]].owner_id = w[1])
      <3>1. pc[w] \notin {"claimed", "running"}
        BY <2>2 DEF LeaseDiscipline
      <3>2. /\ UNCHANGED <<row, mode, pc, job, copy>>
            /\ \A v \in Worker \ {w} : beating'[v] = beating[v]
        BY <1>11, <2>2 DEF Heartbeat, envVars, TypeOK
      <3> QED BY <3>1, <3>2 DEF LeaseDiscipline, Busy, Alive
    <2> QED BY <2>1, <2>2
  \* Steps that end a worker's hold of its run.
  <1>d. ASSUME NEW w \in Busy,
               UNCHANGED mode, pc'[w] = "idle",
               \A r \in Run \ {job[w]} : row'[r] = row[r],
               \A v \in Worker \ {w} : /\ pc'[v] = pc[v] /\ job'[v] = job[v]
                                       /\ copy'[v] = copy[v]
                                       /\ beating'[v] = beating[v]
        PROVE  LeaseDiscipline'
    <2>1. \A v \in Busy \ {w} : row'[job[v]] = row[job[v]]
      BY <1>b, <1>d DEF LeaseDiscipline, Busy
    <2> QED BY <1>d, <2>1 DEF LeaseDiscipline, Busy, Alive
  <1>12. ASSUME NEW w \in Worker, CancelWorker(w) PROVE LeaseDiscipline'
    BY <1>12, <1>d, CancelEffect DEF CancelWorker, Release, envVars, TypeOK, Busy
  <1>13. ASSUME NEW w \in Worker, RejectInput(w) PROVE LeaseDiscipline'
    <2>1. \A r \in Run \ {job[w]} : row'[r] = row[r]
      BY <1>13, <1>b DEF RejectInput, SaveRun, TypeOK
    <2> QED BY <1>13, <1>d, <2>1 DEF RejectInput, Release, envVars, TypeOK, Busy
  <1>14. ASSUME NEW w \in Worker, StartRun(w) PROVE LeaseDiscipline'
    <2>1. \A r \in Run \ {job[w]} : row'[r] = row[r]
      BY <1>14, <1>b DEF StartRun, SaveRun, TypeOK
    <2>2. /\ row'[job[w]].status = "RUNNING"
          /\ row'[job[w]].owner_id = copy[w].owner_id
          /\ row'[job[w]].lease = copy[w].lease
      BY <1>14, <1>b DEF StartRun, SaveRun, TypeOK, RunRecord
    <2>3. pc[w] = "claimed" /\ copy[w].owner_id = w[1] /\ copy[w].lease > 0
      BY <1>14 DEF StartRun, LeaseDiscipline
    <2>4. \A v \in Busy \ {w} : row'[job[v]] = row[job[v]]
      BY <1>b, <2>1, <2>3 DEF LeaseDiscipline, Busy
    <2>5. /\ UNCHANGED <<mode, job, copy, beating>>
          /\ pc'[w] = "running" /\ \A v \in Worker \ {w} : pc'[v] = pc[v]
      BY <1>14 DEF StartRun, envVars, TypeOK
    <2> QED BY <2>2, <2>3, <2>4, <2>5 DEF LeaseDiscipline, Busy, Alive
  <1>15. ASSUME NEW w \in Worker, NEW o \in Outcome, FinishRun(w, o) PROVE LeaseDiscipline'
    <2>1. w \in Busy
      BY <1>15 DEF FinishRun, Busy
    <2>2. \A v \in Busy \ {w} : row'[job[v]] = row[job[v]]
      BY <1>15, <1>b, <2>1, FinishEffect DEF LeaseDiscipline, Busy
    <2>3. /\ UNCHANGED <<mode, job, copy, beating>>
          /\ pc'[w] = "policy" /\ \A v \in Worker \ {w} : pc'[v] = pc[v]
      BY <1>15 DEF FinishRun, envVars, TypeOK
    <2> QED BY <1>15, <2>1, <2>2, <2>3, FinishEffect DEF LeaseDiscipline, Busy, Alive
  <1>16. ASSUME NEW w \in Worker, ReadForRetry(w) PROVE LeaseDiscipline'
    <2>1. CASE RetryCandidate(row[job[w]])
      <3>1. /\ UNCHANGED <<row, mode, job, beating>>
            /\ pc[w] = "policy" /\ pc'[w] = "requeue"
            /\ \A v \in Worker \ {w} : pc'[v] = pc[v] /\ copy'[v] = copy[v]
        BY <1>16, <2>1 DEF ReadForRetry, envVars, TypeOK
      <3>2. row[job[w]].status = "FAILED"
        BY <2>1 DEF RetryCandidate
      <3> QED BY <3>1, <3>2 DEF LeaseDiscipline, Busy, Alive
    <2>2. CASE ~RetryCandidate(row[job[w]])
      BY <1>16, <2>2, <1>d DEF ReadForRetry, Release, envVars, TypeOK, Busy
    <2> QED BY <2>1, <2>2
  <1>17. ASSUME NEW w \in Worker, ApplyRetry(w) PROVE LeaseDiscipline'
    BY <1>17, <1>d, ApplyRetryEffect DEF ApplyRetry, Release, envVars, TypeOK, Busy
  <1>18. CASE Tick
    <2>1. \A w \in Busy : InTime(w)
      BY <1>18 DEF Tick, InGoodTime
    <2>2. \A r \in Run : /\ row'[r].status = row[r].status
                         /\ row'[r].owner_id = row[r].owner_id
                         /\ row'[r].lease = Down(row[r].lease)
                         /\ row[r].lease \in Lease
      BY <1>18, <1>a, TickRecordFacts DEF Tick, RunRecord
    <2>3. \A w \in Worker : /\ copy'[w].owner_id = copy[w].owner_id
                            /\ copy'[w].lease = Down(copy[w].lease)
                            /\ copy[w].lease \in Lease
      BY <1>18, <1>b, TickRecordFacts DEF Tick, RunRecord
    <2>4. ASSUME NEW w \in Worker, pc[w] \in {"claimed", "running"}
          PROVE  row'[job[w]].lease > 0
      BY <2>1, <2>2, <2>4, <1>b, DownFacts DEF LeaseDiscipline, InTime, Busy
    <2>5. ASSUME NEW w \in Worker, pc[w] = "claimed"
          PROVE  copy'[w].lease > 0
      BY <2>1, <2>3, <2>5, DownFacts DEF LeaseDiscipline, InTime, InGoodTime, Busy
    <2>6. UNCHANGED <<mode, pc, job, beating>>
      BY <1>18 DEF Tick, envVars
    <2> QED BY <2>2, <2>3, <2>4, <2>5, <2>6, <1>b DEF LeaseDiscipline, Busy, Alive
  <1>19. CASE UNCHANGED vars
    BY <1>19 DEF vars, LeaseDiscipline, Busy, Alive
  <1>20. ASSUME NEW p \in Proc, NEW r \in Run, AbandonClaim(p, r) PROVE LeaseDiscipline'
    <2>1. \A w \in Worker : /\ w[1] = p => mode'[w[1]] = "stopping"
                            /\ w[1] # p => mode'[w[1]] = mode[w[1]] /\ beating'[w] = beating[w]
      BY <1>20, <1>b DEF AbandonClaim, TypeOK
    <2>2. \A w \in Worker : Alive(w[1]) => Alive(w[1])'
      BY <2>1 DEF Alive
    <2>3. UNCHANGED <<pc, job, copy>>
      BY <1>20 DEF AbandonClaim
    <2>4. Busy' = Busy /\ Busy \subseteq Worker
      BY <2>3 DEF Busy
    <2>5. \A w \in Worker : (beating[w] \/ mode[w[1]] = "stopping")
                              => (beating'[w] \/ mode'[w[1]] = "stopping")
      BY <2>1
    <2>6. row[r].status = "QUEUED"
      BY <1>20 DEF AbandonClaim, Claimable
    <2>7. \A w \in Worker : pc[w] # "idle" => row'[job[w]] = row[job[w]]
      BY <1>20, <1>b, <2>6 DEF AbandonClaim, SaveRun, LeaseDiscipline, TypeOK, WorkerPc
    <2> QED BY <2>2, <2>3, <2>4, <2>5, <2>7 DEF LeaseDiscipline
  <1>21. ASSUME NEW w \in Worker, DriveRaises(w) PROVE LeaseDiscipline'
    BY <1>21, <1>d DEF DriveRaises, Release, TypeOK, Busy
  <1> QED
    BY <1>1, <1>2, <1>3, <1>4, <1>5, <1>6, <1>7, <1>8, <1>9, <1>10, <1>11,
       <1>12, <1>13, <1>14, <1>15, <1>16, <1>17, <1>18, <1>19, <1>20, <1>21 DEF Next

\* The inductive invariant behind the exclusion of workers.
THEOREM DisciplineHolds == InGoodTime => (Spec => []LeaseDiscipline)
  <1> SUFFICES ASSUME InGoodTime PROVE Spec => []LeaseDiscipline
    OBVIOUS
  <1> QED BY InitDiscipline, NextDiscipline, TypeCorrect, PTL DEF Spec

\* No two workers, of whatever dispatchers, ever drive the same run, and the
\* row of a driven run stays RUNNING under its driver: the promise of the
\* claim, heartbeat and reaper, for every size of deployment in good time.
THEOREM OneDriverPerRun == InGoodTime => (Spec => []AtMostOneDriver)
  <1> SUFFICES ASSUME InGoodTime PROVE Spec => []AtMostOneDriver
    OBVIOUS
  <1>1. LeaseDiscipline => AtMostOneDriver
    BY DEF LeaseDiscipline, AtMostOneDriver, Drives, Busy
  <1> QED BY <1>1, DisciplineHolds, PTL

\* What one step can do to the rows: the only steps that change a row's status
\* away from one a worker or a human waits on are named here.
LEMMA StepRespectsOutcomes ==
  ASSUME TypeOK, LeaseDiscipline, Next, NEW r \in Run,
         row[r].status \in {"SUCCEEDED", "AWAITING_APPROVAL"}
  PROVE  row'[r].status = row[r].status
  <1>b. \A w \in Worker : copy[w] \in RunRecord /\ job[w] \in Run
    BY DEF TypeOK
  <1>c. Requeued[r] = row[r]
    BY DEF Requeued, Expired
  <1>1. ASSUME NEW s \in Run, Enqueue(s) \/ RedriveRun(s) \/ GrowOld(s)
        PROVE  row'[r].status = row[r].status
    BY <1>1 DEF Enqueue, RedriveRun, GrowOld, SaveRun, TypeOK
  <1>2. ASSUME NEW p \in Proc,
               \/ StartProcess(p) \/ ProbeLocal(p) \/ Reap(p)
               \/ StopProcess(p) \/ ExitProcess(p) \/ Crash(p)
        PROVE  row'[r].status = row[r].status
    BY <1>2, <1>c DEF StartProcess, ProbeLocal, Reap, StopProcess, ExitProcess, Crash
  <1>3. ASSUME NEW w \in Worker, NEW s \in Run, ClaimRun(w, s)
        PROVE  row'[r].status = row[r].status
    BY <1>3 DEF ClaimRun, Claimable, SaveRun, TypeOK
  <1>4. ASSUME NEW w \in Worker, Heartbeat(w) PROVE row'[r].status = row[r].status
    BY <1>4, <1>b DEF Heartbeat, SaveRun, TypeOK
  <1>5. ASSUME NEW w \in Worker, CancelWorker(w) PROVE row'[r].status = row[r].status
    <2>1. pc[w] = "running" => job[w] # r
      BY DEF LeaseDiscipline
    <2> QED BY <1>5, <2>1, CancelEffect
  <1>6. ASSUME NEW w \in Worker, RejectInput(w) \/ StartRun(w)
        PROVE  row'[r].status = row[r].status
    <2>1. job[w] # r
      BY <1>6 DEF RejectInput, StartRun, LeaseDiscipline
    <2> QED BY <1>6, <2>1 DEF RejectInput, StartRun, SaveRun, TypeOK
  <1>7. ASSUME NEW w \in Worker, NEW o \in Outcome, FinishRun(w, o)
        PROVE  row'[r].status = row[r].status
    <2>1. job[w] # r
      BY <1>7 DEF FinishRun, LeaseDiscipline
    <2> QED BY <1>7, <2>1, FinishEffect
  <1>8. ASSUME NEW w \in Worker, ReadForRetry(w) \/ DriveRaises(w)
        PROVE  row'[r].status = row[r].status
    BY <1>8 DEF ReadForRetry, DriveRaises
  <1>9. ASSUME NEW w \in Worker, ApplyRetry(w) PROVE row'[r].status = row[r].status
    <2>1. job[w] # r
      BY <1>9 DEF ApplyRetry, LeaseDiscipline
    <2> QED BY <1>9, <2>1, ApplyRetryEffect
  <1>10. CASE Tick
    BY <1>10, TickRecordFacts DEF Tick, TypeOK
  <1>11. ASSUME NEW p \in Proc, NEW s \in Run, AbandonClaim(p, s)
         PROVE  row'[r].status = row[r].status
    BY <1>11 DEF AbandonClaim, Claimable, SaveRun, TypeOK
  <1> QED
    BY <1>1, <1>2, <1>3, <1>4, <1>5, <1>6, <1>7, <1>8, <1>9, <1>10, <1>11 DEF Next

\* A run that SUCCEEDED or paused for approval is never taken back by a late
\* worker, the reaper, the retry policy or a redrive, in good time.
THEOREM OutcomesStand == InGoodTime => (Spec => OutcomeNotOverwritten)
  <1> SUFFICES ASSUME InGoodTime PROVE Spec => OutcomeNotOverwritten
    OBVIOUS
  <1>1. TypeOK /\ LeaseDiscipline /\ [Next]_vars =>
          [\A r \in Run :
              row[r].status \in {"SUCCEEDED", "AWAITING_APPROVAL"}
                => row'[r].status = row[r].status]_vars
    BY StepRespectsOutcomes
  <1> QED BY <1>1, TypeCorrect, DisciplineHolds, PTL DEF Spec, OutcomeNotOverwritten

\* A worker that executes a run before and after a step executes the same one.
LEMMA RunningKeepsJob ==
  ASSUME TypeOK, Next, NEW w \in Worker, pc[w] = "running", pc'[w] = "running"
  PROVE  job'[w] = job[w]
  <1>1. ASSUME NEW s \in Run, Enqueue(s) \/ RedriveRun(s) \/ GrowOld(s)
        PROVE  job'[w] = job[w]
    BY <1>1 DEF Enqueue, RedriveRun, GrowOld, workerVars
  <1>2. ASSUME NEW p \in Proc,
               \/ StartProcess(p) \/ ProbeLocal(p) \/ Reap(p)
               \/ StopProcess(p) \/ ExitProcess(p) \/ Crash(p)
               \/ \E s \in Run : AbandonClaim(p, s)
        PROVE  job'[w] = job[w]
    BY <1>2 DEF StartProcess, ProbeLocal, Reap, StopProcess, ExitProcess, Crash,
                AbandonClaim, workerVars, TypeOK
  <1>3. ASSUME NEW v \in Worker, NEW s \in Run, ClaimRun(v, s) PROVE job'[w] = job[w]
    BY <1>3 DEF ClaimRun, TypeOK
  <1>4. ASSUME NEW v \in Worker, Heartbeat(v) \/ StartRun(v) \/ \E o \in Outcome : FinishRun(v, o)
        PROVE  job'[w] = job[w]
    BY <1>4 DEF Heartbeat, StartRun, FinishRun
  <1>5. ASSUME NEW v \in Worker,
               \/ CancelWorker(v) \/ RejectInput(v) \/ ReadForRetry(v)
               \/ ApplyRetry(v) \/ DriveRaises(v)
        PROVE  job'[w] = job[w]
    BY <1>5 DEF CancelWorker, RejectInput, ReadForRetry, ApplyRetry, DriveRaises, Release, TypeOK
  <1>6. CASE Tick
    BY <1>6 DEF Tick
  <1> QED BY <1>1, <1>2, <1>3, <1>4, <1>5, <1>6 DEF Next

\* In good time no run is sent back to the queue while a worker executes it:
\* the heartbeat does what dispatcher.py promises of it.
THEOREM NoLiveRunReaped == InGoodTime => (Spec => LiveRunNeverReaped)
  <1> SUFFICES ASSUME InGoodTime PROVE Spec => LiveRunNeverReaped
    OBVIOUS
  <1>1. TypeOK /\ LeaseDiscipline /\ LeaseDiscipline' /\ [Next]_vars =>
          [\A w \in Worker : (pc[w] = "running" /\ pc'[w] = "running")
              => row'[job[w]].status # "QUEUED"]_vars
    <2> SUFFICES ASSUME TypeOK, LeaseDiscipline', Next, NEW w \in Worker,
                        pc[w] = "running", pc'[w] = "running"
                 PROVE  row'[job[w]].status # "QUEUED"
      OBVIOUS
    <2>1. row'[job'[w]].status = "RUNNING"
      BY DEF LeaseDiscipline
    <2> QED BY <2>1, RunningKeepsJob
  <1> QED BY <1>1, TypeCorrect, DisciplineHolds, PTL DEF Spec, LiveRunNeverReaped
-----------------------------------------------------------------------------
(* The workspace cap.                                                      *)

\* The claims keep the running rows of a workspace under the cap.  The set is
\* finite whether the queue is or not, because every claim adds one row.
CapKept ==
    Fairness =>
        \A r \in Run : /\ IsFiniteSet(LiveRunning(WorkspaceOf[r]))
                       /\ Load(r) <= WsConcurrency

\* Only a claim makes a row count: a heartbeat renews a lease that is good, and
\* a worker that starts its run writes a row that counted already.
LEMMA LiveSteps ==
  ASSUME TypeOK, LeaseDiscipline, [Next]_vars, NEW r \in Run,
         row'[r].status = "RUNNING", row'[r].lease # 0
  PROVE  \/ row[r].status = "RUNNING" /\ row[r].lease # 0
         \/ \E w \in Worker : ClaimRun(w, r)
         \/ \E p \in Proc : AbandonClaim(p, r)
  <1> DEFINE Counted == row[r].status = "RUNNING" /\ row[r].lease # 0
  <1> SUFFICES ASSUME \A w \in Worker : ~ClaimRun(w, r), \A p \in Proc : ~AbandonClaim(p, r)
               PROVE  Counted
    OBVIOUS
  <1> USE Ranges
  <1>a. row[r] \in RunRecord /\ \A w \in Worker : copy[w] \in RunRecord /\ job[w] \in Run
    BY DEF TypeOK
  <1>1. ASSUME row'[r] = row[r] PROVE Counted
    BY <1>1
  <1>2. ASSUME row'[r] = Requeued[r] PROVE Counted
    BY <1>2, <1>a DEF Requeued, RunRecord
  <1>3. ASSUME NEW s \in Run, Enqueue(s) \/ RedriveRun(s) PROVE Counted
    <2>1. Enqueue(s) => row'[s].status = "QUEUED"
      BY DEF Enqueue, SaveRun, NewRecord, TypeOK
    <2>2. RedriveRun(s) => row'[s].status = "QUEUED"
      <3>1. [row[s] EXCEPT !.status = "QUEUED", !.attempt = 0,
                           !.owner_id = NoOwner, !.lease = NoLease,
                           !.error = "none", !.wait = 0].status = "QUEUED"
        BY DEF TypeOK, RunRecord
      <3> QED BY <3>1 DEF RedriveRun, SaveRun, TypeOK
    <2>3. s # r
      BY <1>3, <2>1, <2>2
    <2> QED
      BY <1>1, <1>3, <2>3 DEF Enqueue, RedriveRun, SaveRun, TypeOK
  <1>4. ASSUME NEW p \in Proc, StartProcess(p) \/ Reap(p) PROVE Counted
    BY <1>2, <1>4 DEF StartProcess, Reap
  <1>5. ASSUME NEW w \in Worker, NEW s \in Run, ClaimRun(w, s) PROVE Counted
    BY <1>1, <1>5 DEF ClaimRun, SaveRun, TypeOK
  <1>6. ASSUME NEW p \in Proc, NEW s \in Run, AbandonClaim(p, s) PROVE Counted
    BY <1>1, <1>6 DEF AbandonClaim, SaveRun, TypeOK
  <1>7. ASSUME NEW w \in Worker, Heartbeat(w) PROVE Counted
    <2>1. CASE row[job[w]].status = "RUNNING" /\ job[w] = r
      <3>1. pc[w] \in {"claimed", "running"}
        BY <1>7, <2>1 DEF Heartbeat, LeaseDiscipline, TypeOK, WorkerPc
      <3> QED BY <2>1, <3>1 DEF LeaseDiscipline
    <2>2. CASE ~(row[job[w]].status = "RUNNING" /\ job[w] = r)
      BY <1>1, <1>7, <2>2, <1>a DEF Heartbeat, SaveRun, TypeOK
    <2> QED BY <2>1, <2>2
  <1>8. ASSUME NEW w \in Worker, CancelWorker(w) PROVE Counted
    BY <1>1, <1>8, <1>a, CancelEffect
  <1>9. ASSUME NEW w \in Worker, RejectInput(w) PROVE Counted
    BY <1>1, <1>9, <1>a DEF RejectInput, SaveRun, TypeOK, RunRecord
  <1>10. ASSUME NEW w \in Worker, StartRun(w) PROVE Counted
    <2>1. row[job[w]].status = "RUNNING" /\ row[job[w]].lease > 0
      BY <1>10 DEF StartRun, LeaseDiscipline
    <2> QED BY <1>1, <1>10, <2>1, <1>a DEF StartRun, SaveRun, TypeOK
  <1>11. ASSUME NEW w \in Worker, NEW o \in Outcome, FinishRun(w, o) PROVE Counted
    BY <1>1, <1>11, <1>a, FinishEffect
  <1>12. ASSUME NEW w \in Worker, ApplyRetry(w) PROVE Counted
    BY <1>1, <1>12, <1>a, ApplyRetryEffect
  <1>13. CASE Tick
    <2>1. row'[r] = TickRecord(row[r])
      BY <1>13 DEF Tick
    <2> QED BY <2>1, <1>a, TickRecordFacts DEF Down
  <1>14. ASSUME UNCHANGED row PROVE Counted
    BY <1>1, <1>14
  <1>15. ASSUME NEW p \in Proc, ProbeLocal(p) \/ StopProcess(p) \/ ExitProcess(p) \/ Crash(p)
         PROVE  Counted
    BY <1>14, <1>15 DEF ProbeLocal, StopProcess, ExitProcess, Crash
  <1>16. ASSUME NEW w \in Worker, ReadForRetry(w) \/ DriveRaises(w) PROVE Counted
    BY <1>14, <1>16 DEF ReadForRetry, DriveRaises
  <1>17. ASSUME NEW s \in Run, GrowOld(s) PROVE Counted
    BY <1>14, <1>17 DEF GrowOld
  <1> QED
    BY <1>3, <1>4, <1>5, <1>6, <1>7, <1>8, <1>9, <1>10, <1>11, <1>12, <1>13, <1>14,
       <1>15, <1>16, <1>17 DEF Next, vars

\* A set grows by at most one with one more element.
LEMMA OneMore ==
  ASSUME NEW S, IsFiniteSet(S), NEW x
  PROVE  /\ IsFiniteSet(S \cup {x})
         /\ Cardinality(S) \in Nat /\ Cardinality(S \cup {x}) \in Nat
         /\ Cardinality(S \cup {x}) <= Cardinality(S) + 1
  <1>1. Cardinality(S) \in Nat
    BY FS_CardinalityType
  <1> QED BY <1>1, FS_AddElement

LEMMA CapKeptInit == Init => CapKept
  <1> SUFFICES ASSUME Init, NEW r \in Run
               PROVE  IsFiniteSet(LiveRunning(WorkspaceOf[r])) /\ Load(r) <= WsConcurrency
    BY DEF CapKept
  <1>1. LiveRunning(WorkspaceOf[r]) = {}
    BY DEF Init, LiveRunning, NewRecord
  <1> QED BY <1>1, FS_EmptySet, BoundAssumption DEF Load

LEMMA CapKeptNext ==
  ASSUME TypeOK, LeaseDiscipline, CapKept, [Next]_vars
  PROVE  CapKept'
  <1> SUFFICES ASSUME Fairness, NEW r \in Run
               PROVE  IsFiniteSet(LiveRunning(WorkspaceOf[r])') /\ Load(r)' <= WsConcurrency
    BY DEF CapKept
  <1> DEFINE L == LiveRunning(WorkspaceOf[r])
  <1>1. IsFiniteSet(L) /\ Cardinality(L) \in Nat /\ Cardinality(L) <= WsConcurrency
        /\ WsConcurrency \in Nat
    BY FS_CardinalityType, BoundAssumption DEF CapKept, Load
  <1>2. Load(r)' = Cardinality(L')
    BY DEF Load
  <1>3. CASE L' \subseteq L
    BY <1>1, <1>2, <1>3, FS_Subset, FS_CardinalityType
  <1>4. CASE ~(L' \subseteq L)
    <2>1. PICK s \in L' : s \notin L
      BY <1>4
    <2>2. s \in Run /\ WorkspaceOf[s] = WorkspaceOf[r]
          /\ row'[s].status = "RUNNING" /\ row'[s].lease # 0
      BY <2>1 DEF LiveRunning
    <2>3. ~(row[s].status = "RUNNING" /\ row[s].lease # 0)
      BY <2>1, <2>2 DEF LiveRunning
    <2>4. \/ \E w \in Worker : ClaimRun(w, s)
          \/ \E p \in Proc : AbandonClaim(p, s)
      BY <2>2, <2>3, LiveSteps
    <2>5. Load(s) < WsConcurrency /\ \A q \in Run \ {s} : row'[q] = row[q]
      BY <2>4 DEF ClaimRun, AbandonClaim, Claimable, SaveRun, TypeOK
    <2>6. L' \subseteq L \cup {s} /\ Cardinality(L) < WsConcurrency
      BY <2>2, <2>5 DEF LiveRunning, Load
    <2>7. /\ IsFiniteSet(L \cup {s}) /\ Cardinality(L \cup {s}) \in Nat
          /\ Cardinality(L \cup {s}) <= Cardinality(L) + 1
      BY <1>1, OneMore
    <2>8. IsFiniteSet(L') /\ Cardinality(L') \in Nat
          /\ Cardinality(L') <= Cardinality(L \cup {s})
      BY <2>6, <2>7, FS_Subset, FS_CardinalityType
    <2> QED BY <1>1, <1>2, <2>6, <2>7, <2>8
  <1> QED BY <1>3, <1>4

\* With fair claims a workspace never has more of its runs driven than its cap
\* allows, over all dispatchers together, in good time: every driven run is a
\* running row, and no two workers drive the same one.
THEOREM WorkspacesAreCapped == InGoodTime => (Spec => []CrossNodeCap)
  <1> SUFFICES ASSUME InGoodTime PROVE Spec => []CrossNodeCap
    OBVIOUS
  <1>1. TypeOK /\ LeaseDiscipline /\ CapKept => CrossNodeCap
    <2> SUFFICES ASSUME TypeOK, LeaseDiscipline, CapKept, Fairness, NEW r \in Run
                 PROVE  Cardinality({w \in Worker :
                            /\ pc[w] \in {"claimed", "running"}
                            /\ WorkspaceOf[job[w]] = WorkspaceOf[r]}) <= WsConcurrency
      BY DEF CrossNodeCap
    <2> DEFINE D == {w \in Worker : /\ pc[w] \in {"claimed", "running"}
                                    /\ WorkspaceOf[job[w]] = WorkspaceOf[r]}
               L == LiveRunning(WorkspaceOf[r])
               f == [w \in D |-> job[w]]
    <2>1. \A w \in D : job[w] \in L
      BY DEF LeaseDiscipline, LiveRunning, TypeOK
    <2>2. \A v, w \in D : job[v] = job[w] => v = w
      BY DEF LeaseDiscipline, Busy
    <2>3. f \in Injection(D, L)
      <3> HIDE DEF D, L
      <3>1. f \in [D -> L]
        BY <2>1
      <3>2. \A v, w \in D : f[v] = f[w] => v = w
        BY <2>2
      <3> QED BY <3>1, <3>2 DEF Injection, IsInjective
    <2>4. IsFiniteSet(L) /\ Cardinality(L) <= WsConcurrency
      BY DEF CapKept, Load
    <2>5. IsFiniteSet(D) /\ Cardinality(D) <= Cardinality(L)
      BY <2>3, <2>4, FS_Injection
    <2> QED BY <2>4, <2>5, FS_CardinalityType, BoundAssumption
  <1>2. TypeOK /\ LeaseDiscipline /\ CapKept /\ [Next]_vars => CapKept'
    BY CapKeptNext
  <1> QED BY <1>1, <1>2, CapKeptInit, TypeCorrect, DisciplineHolds, PTL DEF Spec
-----------------------------------------------------------------------------
(* The attempt budget.                                                     *)

\* The dispatchers that were shut down or died.
Gone == {p \in Proc : mode[p] \in {"stopping", "down"}}

\* What an attempt of a run may have reached: a dispatcher that is gone may
\* have taken one attempt with it, and the one that holds the run now is not
\* charged for it yet.
Budget == MaxAttempts + Cardinality(Gone)
Charged(p) == MaxAttempts + Cardinality(Gone \ {p})

\* A queued run has an attempt to spare.  A running one was charged to the
\* dispatcher in its row, which drives it or is gone, or lost its driver to an
\* exception, which paid for the attempt that follows.
RowWithin(r) ==
    /\ row[r].attempt <= Budget + raises[r]
    /\ row[r].status = "QUEUED" => row[r].attempt < Budget + raises[r]
    /\ row[r].status = "RUNNING" =>
          \/ row[r].attempt < Budget + raises[r]
          \/ /\ row[r].owner_id \in Proc
             /\ row[r].attempt <= Charged(row[r].owner_id) + raises[r]
             /\ \/ row[r].owner_id \in Gone
                \/ \E w \in Worker : Drives(w, r) /\ w[1] = row[r].owner_id

\* The record a worker will write back is within the same bounds.
CopyWithin(w) ==
    /\ pc[w] \in {"claimed", "running"} =>
          copy[w].attempt <= Charged(w[1]) + raises[job[w]]
    /\ pc[w] = "requeue" => copy[w].attempt <= Budget + raises[job[w]]

Budgeted ==
    /\ IsFiniteSet(Gone)
    /\ \A r \in Run : RowWithin(r)
    /\ \A w \in Worker : CopyWithin(w)

\* Leaving one element out of a finite set.
LEMMA OneLess ==
  ASSUME NEW S, IsFiniteSet(S), NEW x
  PROVE  /\ Cardinality(S) \in Nat /\ Cardinality(S \ {x}) \in Nat
         /\ x \in S => Cardinality(S \ {x}) = Cardinality(S) - 1
         /\ x \notin S => Cardinality(S \ {x}) = Cardinality(S)
  <1>1. Cardinality(S) \in Nat /\ IsFiniteSet(S \ {x})
    BY FS_CardinalityType, FS_RemoveElement
  <1>2. Cardinality(S \ {x}) \in Nat
    BY <1>1, FS_CardinalityType
  <1>3. x \in S => Cardinality(S \ {x}) = Cardinality(S) - 1
    BY FS_RemoveElement
  <1>4. x \notin S => S \ {x} = S
    OBVIOUS
  <1> QED BY <1>1, <1>2, <1>3, <1>4

\* The budgets in numbers, in a state and in the next one.
Counted ==
    /\ Budget \in Nat /\ MaxAttempts <= Budget /\ 0 < Budget
    /\ \A p \in Proc : /\ Charged(p) \in Nat
                       /\ p \in Gone => Charged(p) = Budget - 1
                       /\ p \notin Gone => Charged(p) = Budget

LEMMA CountedNow == ASSUME IsFiniteSet(Gone) PROVE Counted
  <1>1. Budget = MaxAttempts + Cardinality(Gone) /\ Cardinality(Gone) \in Nat
    BY OneLess DEF Budget
  <1>2. Budget \in Nat /\ MaxAttempts <= Budget /\ 0 < Budget
    BY <1>1, BoundAssumption
  <1>3. ASSUME NEW p \in Proc
        PROVE  /\ Charged(p) \in Nat
               /\ p \in Gone => Charged(p) = Budget - 1
               /\ p \notin Gone => Charged(p) = Budget
    <2> DEFINE n == Cardinality(Gone)
               m == Cardinality(Gone \ {p})
    <2>1. Charged(p) = MaxAttempts + m
      BY DEF Charged
    <2>2. n \in Nat /\ m \in Nat /\ (p \in Gone => m = n - 1) /\ (p \notin Gone => m = n)
      BY OneLess
    <2> HIDE DEF n, m
    <2> QED BY <1>1, <2>1, <2>2, BoundAssumption DEF n
  <1> QED BY <1>2, <1>3 DEF Counted

LEMMA CountedThen == ASSUME IsFiniteSet(Gone') PROVE Counted'
  <1>1. Budget' = MaxAttempts + Cardinality(Gone') /\ Cardinality(Gone') \in Nat
    BY OneLess DEF Budget
  <1>2. Budget' \in Nat /\ MaxAttempts <= Budget' /\ 0 < Budget'
    BY <1>1, BoundAssumption
  <1>3. ASSUME NEW p \in Proc
        PROVE  /\ Charged(p)' \in Nat
               /\ p \in Gone' => Charged(p)' = Budget' - 1
               /\ p \notin Gone' => Charged(p)' = Budget'
    <2> DEFINE n == Cardinality(Gone')
               m == Cardinality(Gone' \ {p})
    <2>1. Charged(p)' = MaxAttempts + m
      BY DEF Charged
    <2>2. n \in Nat /\ m \in Nat /\ (p \in Gone' => m = n - 1) /\ (p \notin Gone' => m = n)
      BY OneLess
    <2> HIDE DEF n, m
    <2> QED BY <1>1, <2>1, <2>2, BoundAssumption DEF n
  <1> QED BY <1>2, <1>3 DEF Counted

\* A dispatcher that is gone never comes back, and one step loses at most one.
LEMMA GoneSteps ==
  ASSUME TypeOK, [Next]_vars
  PROVE  Gone' = Gone \/ \E p \in Proc : p \notin Gone /\ Gone' = Gone \cup {p}
  <1>1. CASE mode' = mode
    BY <1>1 DEF Gone
  <1>2. ASSUME NEW p \in Proc, StartProcess(p) PROVE Gone' = Gone
    BY <1>2 DEF StartProcess, Gone, TypeOK
  <1>3. ASSUME NEW p \in Proc, ExitProcess(p) PROVE Gone' = Gone
    BY <1>3 DEF ExitProcess, Gone, TypeOK
  <1>4. ASSUME NEW p \in Proc, StopProcess(p) \/ Crash(p) \/ \E r \in Run : AbandonClaim(p, r)
        PROVE  Gone' = Gone \/ (p \notin Gone /\ Gone' = Gone \cup {p})
    <2>1. mode' = [mode EXCEPT ![p] = mode'[p]] /\ mode'[p] \in {"stopping", "down"}
      BY <1>4 DEF StopProcess, Crash, AbandonClaim, TypeOK
    <2> QED BY <2>1 DEF Gone, TypeOK
  <1>5. mode' = mode \/ \E p \in Proc :
           \/ StartProcess(p) \/ ExitProcess(p)
           \/ StopProcess(p) \/ Crash(p) \/ \E r \in Run : AbandonClaim(p, r)
    <2>1. ASSUME NEW r \in Run, Enqueue(r) \/ RedriveRun(r) \/ GrowOld(r) PROVE mode' = mode
      BY <2>1 DEF Enqueue, RedriveRun, GrowOld, envVars
    <2>2. ASSUME NEW p \in Proc, ProbeLocal(p) \/ Reap(p) PROVE mode' = mode
      BY <2>2 DEF ProbeLocal, Reap, envVars
    <2>3. ASSUME NEW w \in Worker, NEW r \in Run, ClaimRun(w, r) PROVE mode' = mode
      BY <2>3 DEF ClaimRun, envVars
    <2>4. ASSUME NEW w \in Worker, \/ Heartbeat(w) \/ CancelWorker(w)
                                   \/ RejectInput(w) \/ StartRun(w)
                                   \/ \E o \in Outcome : FinishRun(w, o)
                                   \/ ReadForRetry(w) \/ ApplyRetry(w) \/ DriveRaises(w)
          PROVE  mode' = mode
      BY <2>4 DEF Heartbeat, CancelWorker, RejectInput, StartRun, FinishRun,
                  ReadForRetry, ApplyRetry, DriveRaises, envVars
    <2>5. CASE Tick \/ UNCHANGED vars
      BY <2>5 DEF Tick, envVars, vars
    <2> QED BY <2>1, <2>2, <2>3, <2>4, <2>5 DEF Next
  <1> QED BY <1>1, <1>2, <1>3, <1>4, <1>5

\* An exception is never forgotten.
LEMMA RaisesGrow ==
  ASSUME TypeOK, [Next]_vars, NEW r \in Run
  PROVE  raises[r] \in Nat /\ raises'[r] \in Nat /\ raises[r] <= raises'[r]
  <1>1. raises[r] \in Nat /\ raises'[r] \in Nat
    <2>1. TypeOK'
      BY NextType
    <2> QED BY <2>1 DEF TypeOK
  <1>2. ASSUME NEW w \in Worker, DriveRaises(w) PROVE raises[r] <= raises'[r]
    <2>1. raises'[r] = raises[r] \/ raises'[r] = raises[r] + 1
      BY <1>2 DEF DriveRaises, TypeOK
    <2> QED BY <2>1, <1>1
  <1>3. ASSUME raises' = raises PROVE raises[r] <= raises'[r]
    BY <1>1, <1>3
  <1>4. raises' = raises \/ \E w \in Worker : DriveRaises(w)
    <2>1. ASSUME NEW q \in Run, Enqueue(q) \/ RedriveRun(q) \/ GrowOld(q) PROVE raises' = raises
      BY <2>1 DEF Enqueue, RedriveRun, GrowOld, envVars
    <2>2. ASSUME NEW p \in Proc,
                 \/ StartProcess(p) \/ ProbeLocal(p) \/ Reap(p)
                 \/ StopProcess(p) \/ ExitProcess(p) \/ Crash(p)
                 \/ \E q \in Run : AbandonClaim(p, q)
          PROVE  raises' = raises
      BY <2>2 DEF StartProcess, ProbeLocal, Reap, StopProcess, ExitProcess, Crash,
                  AbandonClaim, envVars
    <2>3. ASSUME NEW w \in Worker, \/ \E q \in Run : ClaimRun(w, q)
                                   \/ Heartbeat(w) \/ CancelWorker(w)
                                   \/ RejectInput(w) \/ StartRun(w)
                                   \/ \E o \in Outcome : FinishRun(w, o)
                                   \/ ReadForRetry(w) \/ ApplyRetry(w)
          PROVE  raises' = raises
      BY <2>3 DEF ClaimRun, Heartbeat, CancelWorker, RejectInput, StartRun, FinishRun,
                  ReadForRetry, ApplyRetry, envVars
    <2>4. CASE Tick \/ UNCHANGED vars
      BY <2>4 DEF Tick, envVars, vars
    <2> QED BY <2>1, <2>2, <2>3, <2>4 DEF Next
  <1> QED BY <1>1, <1>2, <1>3, <1>4

\* So no budget ever shrinks.
Grown ==
    /\ Counted /\ Counted' /\ Gone \subseteq Gone'
    /\ Budget <= Budget'
    /\ \A p \in Proc : Charged(p) <= Charged(p)'

RaisesGrown ==
    \A r \in Run : raises[r] \in Nat /\ raises'[r] \in Nat /\ raises[r] <= raises'[r]

LEMMA BudgetGrows ==
  ASSUME TypeOK, IsFiniteSet(Gone), [Next]_vars
  PROVE  IsFiniteSet(Gone') /\ Grown
  <1>1. Counted
    BY CountedNow
  <1>2. Budget' = MaxAttempts + Cardinality(Gone') /\ Budget = MaxAttempts + Cardinality(Gone)
    BY DEF Budget
  <1>3. CASE Gone' = Gone
    <2>1. IsFiniteSet(Gone') /\ Counted'
      BY <1>3, CountedThen
    <2>2. \A p \in Proc : Charged(p)' = Charged(p)
      BY <1>3 DEF Charged
    <2> QED BY <1>1, <1>2, <1>3, <2>1, <2>2 DEF Grown, Counted
  <1>4. ASSUME NEW p \in Proc, p \notin Gone, Gone' = Gone \cup {p}
        PROVE  IsFiniteSet(Gone') /\ Grown
    <2>1. IsFiniteSet(Gone') /\ Cardinality(Gone') = Cardinality(Gone) + 1
      BY <1>4, FS_AddElement
    <2>2. Counted'
      BY <2>1, CountedThen
    <2>3. Cardinality(Gone) \in Nat
      BY FS_CardinalityType
    <2>4. Budget' = Budget + 1
      BY <1>2, <2>1, <2>3, BoundAssumption
    <2>5. \A q \in Proc : Charged(q) <= Charged(q)'
      <3> SUFFICES ASSUME NEW q \in Proc PROVE Charged(q) <= Charged(q)'
        OBVIOUS
      <3>1. Charged(q) \in Nat /\ Charged(q)' \in Nat /\ Budget \in Nat
        BY <1>1, <2>2 DEF Counted
      <3>2. CASE q \in Gone
        <4>1. Charged(q) = Budget - 1 /\ Charged(q)' = Budget' - 1
          BY <1>1, <1>4, <2>2, <3>2 DEF Counted
        <4> QED BY <4>1, <3>1, <2>4
      <3>3. CASE q \notin Gone
        <4>1. Charged(q) = Budget /\ Charged(q)' \in {Budget', Budget' - 1}
          BY <1>1, <2>2, <3>3 DEF Counted
        <4> QED BY <4>1, <3>1, <2>4
      <3> QED BY <3>2, <3>3
    <2>6. Budget <= Budget'
      BY <1>1, <2>4 DEF Counted
    <2> QED BY <1>1, <1>4, <2>1, <2>2, <2>5, <2>6 DEF Grown
  <1> QED BY <1>3, <1>4, GoneSteps

\* A row no step touched stays within its budget as long as it does not lose
\* its driver to anything but the end of the driver's process.
LEMMA RowStays ==
  ASSUME TypeOK, Grown, RaisesGrown, NEW r \in Run, RowWithin(r),
         row'[r].attempt = row[r].attempt, row'[r].status = row[r].status,
         row'[r].owner_id = row[r].owner_id,
         \A w \in Worker : Drives(w, r) => Drives(w, r)' \/ w[1] \in Gone'
  PROVE  RowWithin(r)'
  <1>1. /\ row[r].attempt \in Int
        /\ raises[r] \in Nat /\ raises'[r] \in Nat /\ raises[r] <= raises'[r]
        /\ Budget \in Nat /\ Budget' \in Nat /\ Budget <= Budget'
    BY BoundAssumption DEF TypeOK, RunRecord, Attempt, RaisesGrown, Grown, Counted
  <1>2. row'[r].attempt <= Budget' + raises'[r]
    BY <1>1 DEF RowWithin
  <1>3. row'[r].status = "QUEUED" => row'[r].attempt < Budget' + raises'[r]
    BY <1>1 DEF RowWithin
  <1>4. ASSUME row'[r].status = "RUNNING", NEW p, p = row[r].owner_id,
               ~(row'[r].attempt < Budget' + raises'[r])
        PROVE  /\ p \in Proc
               /\ row'[r].attempt <= Charged(p)' + raises'[r]
               /\ p \in Gone' \/ \E w \in Worker : Drives(w, r)' /\ w[1] = p
    <2>0. ~(row[r].attempt < Budget + raises[r])
      BY <1>1, <1>4
    <2>1. /\ p \in Proc
          /\ row[r].attempt <= Charged(p) + raises[r]
          /\ p \in Gone \/ \E w \in Worker : Drives(w, r) /\ w[1] = p
      BY <1>4, <2>0 DEF RowWithin
    <2>2. Charged(p) \in Nat /\ Charged(p)' \in Nat /\ Charged(p) <= Charged(p)'
      BY <2>1 DEF Grown, Counted
    <2>3. row[r].attempt <= Charged(p)' + raises'[r]
      BY <1>1, <2>1, <2>2
    <2> QED BY <2>1, <2>3 DEF Grown
  <1> QED BY <1>2, <1>3, <1>4 DEF RowWithin

\* A row whose status no worker sits on and no claim may take.
LEMMA RowAtRest ==
  ASSUME NEW r \in Run, row'[r].attempt <= Budget' + raises'[r],
         row'[r].status \notin {"QUEUED", "RUNNING"}
  PROVE  RowWithin(r)'
  BY DEF RowWithin

LEMMA CopyStays ==
  ASSUME TypeOK, Grown, RaisesGrown, NEW w \in Worker, CopyWithin(w),
         copy'[w].attempt = copy[w].attempt, job'[w] = job[w],
         pc'[w] \in {pc[w], "idle", "running", "policy"},
         pc'[w] = "running" => pc[w] \in {"claimed", "running"}
  PROVE  CopyWithin(w)'
  <1> DEFINE n == raises[job[w]]
             m == raises'[job[w]]
  <1>1. /\ copy[w].attempt \in Int /\ w[1] \in Proc /\ job[w] \in Run
        /\ n \in Nat /\ m \in Nat /\ n <= m
    BY BoundAssumption DEF TypeOK, RunRecord, Attempt, Worker, RaisesGrown
  <1>2. /\ Charged(w[1]) \in Nat /\ Charged(w[1])' \in Nat
        /\ Charged(w[1]) <= Charged(w[1])'
        /\ Budget \in Nat /\ Budget' \in Nat /\ Budget <= Budget'
    BY <1>1 DEF Grown, Counted
  <1>3. ASSUME pc'[w] \in {"claimed", "running"}
        PROVE  copy'[w].attempt <= Charged(w[1])' + m
    <2>1. copy[w].attempt <= Charged(w[1]) + n
      BY <1>3 DEF CopyWithin
    <2> HIDE DEF n, m
    <2> QED BY <1>1, <1>2, <2>1
  <1>4. ASSUME pc'[w] = "requeue" PROVE copy'[w].attempt <= Budget' + m
    <2>1. copy[w].attempt <= Budget + n
      BY <1>4 DEF CopyWithin
    <2> HIDE DEF n, m
    <2> QED BY <1>1, <1>2, <2>1
  <1> QED BY <1>3, <1>4 DEF CopyWithin

LEMMA BudgetedInit == Init => Budgeted
  <1> SUFFICES ASSUME Init PROVE Budgeted
    OBVIOUS
  <1>1. Gone = {}
    BY DEF Init, Gone
  <1>2. IsFiniteSet(Gone)
    BY <1>1, FS_EmptySet
  <1>3. Counted
    BY <1>2, CountedNow
  <1> QED
    BY <1>2, <1>3 DEF Init, NewRecord, Budgeted, RowWithin, CopyWithin, Counted

\* What a claim charges to the dispatcher that makes it.
LEMMA ClaimCharges ==
  ASSUME TypeOK, NEW r \in Run, NEW p \in Proc
  PROVE  /\ ClaimedRecord(r, p).status = "RUNNING"
         /\ ClaimedRecord(r, p).owner_id = p
         /\ ClaimedRecord(r, p).attempt = row[r].attempt + 1
  BY DEF TypeOK, RunRecord, ClaimedRecord

\* The reaper and the start-up sweep take back only what a gone dispatcher
\* held: the lease of a driven row is good.
LEMMA SweepStays ==
  ASSUME TypeOK, LeaseDiscipline, Grown, RaisesGrown, row' = Requeued,
         UNCHANGED <<pc, job>>, NEW r \in Run, RowWithin(r)
  PROVE  RowWithin(r)'
  <1>1. row[r] \in RunRecord /\ row[r].attempt \in Int
    BY BoundAssumption DEF TypeOK, RunRecord, Attempt
  <1>2. CASE r \in Expired
    <2>1. row'[r].status = "QUEUED" /\ row'[r].attempt = row[r].attempt
      BY <1>1, <1>2 DEF Requeued, RunRecord
    <2>2. \A w \in Worker : ~Drives(w, r)
      BY <1>2 DEF Expired, LeaseDiscipline, Drives
    <2>3. /\ Budget \in Nat /\ Budget' \in Nat /\ Budget <= Budget'
          /\ raises[r] \in Nat /\ raises'[r] \in Nat /\ raises[r] <= raises'[r]
      BY DEF Grown, Counted, RaisesGrown
    <2>4. row[r].attempt < Budget + raises[r]
      <3>1. SUFFICES ASSUME ~(row[r].attempt < Budget + raises[r]) PROVE FALSE
        OBVIOUS
      <3>2. PICK p \in Proc : p \in Gone /\ row[r].attempt <= Charged(p) + raises[r]
        BY <1>2, <2>2, <3>1 DEF Expired, RowWithin
      <3>3. Charged(p) = Budget - 1
        BY <3>2 DEF Grown, Counted
      <3> QED BY <1>1, <2>3, <3>1, <3>2, <3>3
    <2>5. row[r].attempt < Budget' + raises'[r]
      BY <1>1, <2>3, <2>4
    <2> QED BY <1>1, <2>1, <2>3, <2>5 DEF RowWithin
  <1>3. CASE r \notin Expired
    <2>1. row'[r] = row[r] /\ \A w \in Worker : Drives(w, r) => Drives(w, r)'
      BY <1>3 DEF Requeued, Drives
    <2> QED BY <2>1, RowStays
  <1> QED BY <1>2, <1>3

LEMMA BudgetedNext ==
  ASSUME TypeOK, LeaseDiscipline, Budgeted, [Next]_vars
  PROVE  Budgeted'
  <1>a. \A r \in Run : row[r] \in RunRecord /\ row[r].attempt \in Nat /\ RowWithin(r)
    BY BoundAssumption DEF TypeOK, RunRecord, Attempt, Budgeted
  <1>b. \A w \in Worker : /\ copy[w] \in RunRecord /\ copy[w].attempt \in Nat
                          /\ job[w] \in Run /\ w[1] \in Proc /\ CopyWithin(w)
    BY BoundAssumption DEF TypeOK, RunRecord, Attempt, Budgeted, Worker
  <1>c. IsFiniteSet(Gone') /\ Grown /\ RaisesGrown
    BY BudgetGrows, RaisesGrow DEF Budgeted, RaisesGrown
  <1>d. /\ Budget \in Nat /\ Budget' \in Nat /\ Budget <= Budget' /\ 0 < Budget'
        /\ MaxAttempts <= Budget'
        /\ \A p \in Proc : Charged(p) \in Nat /\ Charged(p) <= Budget
                           /\ (p \notin Gone => Charged(p) = Budget)
    BY <1>c DEF Grown, Counted
  <1>e. /\ Gone \subseteq Gone'
        /\ \A p \in Proc : Charged(p)' \in Nat /\ Charged(p) <= Charged(p)'
    BY <1>c DEF Grown, Counted
  <1>r. \A r \in Run : raises[r] \in Nat /\ raises'[r] \in Nat /\ raises[r] <= raises'[r]
    BY <1>c DEF RaisesGrown
  <1>f. /\ \A p \in Gone : mode[p] \in {"stopping", "down"}
        /\ \A p \in Proc : mode[p] = "stopping" => p \in Gone'
    BY <1>e DEF Gone
  <1> SUFFICES (\A r \in Run : RowWithin(r)') /\ (\A w \in Worker : CopyWithin(w)')
    BY <1>c DEF Budgeted
  <1> DEFINE Goal == (\A r \in Run : RowWithin(r)') /\ (\A w \in Worker : CopyWithin(w)')
  <1> HIDE DEF Goal
  \* A worker whose copy a step leaves alone, or whose task it ends.
  <1>g. ASSUME \A w \in Worker : \/ pc'[w] = "idle"
                                 \/ /\ pc'[w] = pc[w] /\ job'[w] = job[w]
                                    /\ copy'[w].attempt = copy[w].attempt
        PROVE  \A w \in Worker : CopyWithin(w)'
    <2> SUFFICES ASSUME NEW w \in Worker PROVE CopyWithin(w)'
      OBVIOUS
    <2>1. CASE pc'[w] = "idle"
      BY <2>1 DEF CopyWithin
    <2>2. CASE pc'[w] = pc[w] /\ job'[w] = job[w] /\ copy'[w].attempt = copy[w].attempt
      BY <2>2, <1>b, <1>c, CopyStays
    <2> QED BY <1>g, <2>1, <2>2
  \* A row a step leaves alone, no worker of a live dispatcher letting go of it.
  <1>h. ASSUME NEW r \in Run, row'[r] = row[r],
               \A w \in Worker : Drives(w, r) => Drives(w, r)' \/ w[1] \in Gone'
        PROVE  RowWithin(r)'
    BY <1>a, <1>c, <1>h, RowStays
  \* A worker's write that leaves its row neither queued nor running.
  <1>i. ASSUME NEW w \in Worker, NEW j \in Run, j = job[w],
               row'[j].status \notin {"QUEUED", "RUNNING"},
               row'[j].attempt = copy[w].attempt,
               pc[w] \in {"claimed", "running", "requeue"}
        PROVE  RowWithin(j)'
    <2>1. copy[w].attempt <= Budget + raises[j]
      <3>1. CASE pc[w] = "requeue"
        BY <1>b, <1>i, <3>1 DEF CopyWithin
      <3>2. CASE pc[w] \in {"claimed", "running"}
        <4>1. copy[w].attempt <= Charged(w[1]) + raises[j]
          BY <1>b, <1>i, <3>2 DEF CopyWithin
        <4> QED BY <4>1, <1>b, <1>d, <1>r
      <3> QED BY <1>i, <3>1, <3>2
    <2>2. copy[w].attempt <= Budget' + raises'[j]
      BY <2>1, <1>b, <1>d, <1>r
    <2> QED BY <1>i, <2>2, RowAtRest
  <1>1. ASSUME NEW s \in Run, Enqueue(s) PROVE Goal
    <2>1. /\ row'[s].status = "QUEUED" /\ row'[s].attempt = 0
          /\ \A r \in Run \ {s} : row'[r] = row[r]
      BY <1>1 DEF Enqueue, SaveRun, NewRecord, TypeOK
    <2>2. UNCHANGED <<pc, job, copy>>
      BY <1>1 DEF Enqueue, workerVars
    <2>3. RowWithin(s)'
      BY <2>1, <1>d, <1>r DEF RowWithin
    <2> QED BY <2>1, <2>2, <2>3, <1>g, <1>h DEF Goal, Drives
  <1>2. ASSUME NEW s \in Run, RedriveRun(s) PROVE Goal
    <2> DEFINE new == [row[s] EXCEPT !.status = "QUEUED", !.attempt = 0,
                                     !.owner_id = NoOwner, !.lease = NoLease,
                                     !.error = "none", !.wait = 0]
    <2>1. new.status = "QUEUED" /\ new.attempt = 0
      BY <1>a DEF RunRecord
    <2>2. row' = [row EXCEPT ![s] = new]
      BY <1>2 DEF RedriveRun, SaveRun
    <2> HIDE DEF new
    <2>3. /\ row'[s].status = "QUEUED" /\ row'[s].attempt = 0
          /\ \A r \in Run \ {s} : row'[r] = row[r]
      BY <2>1, <2>2 DEF TypeOK
    <2>4. UNCHANGED <<pc, job, copy>>
      BY <1>2 DEF RedriveRun, workerVars
    <2>5. RowWithin(s)'
      BY <2>3, <1>d, <1>r DEF RowWithin
    <2> QED BY <2>3, <2>4, <2>5, <1>g, <1>h DEF Goal, Drives
  <1>3. ASSUME row' = row, pc' = pc, job' = job, copy' = copy PROVE Goal
    BY <1>3, <1>g, <1>h DEF Goal, Drives
  <1>4. ASSUME NEW p \in Proc, StartProcess(p) \/ Reap(p) PROVE Goal
    <2>1. row' = Requeued /\ UNCHANGED <<pc, job, copy>>
      BY <1>4 DEF StartProcess, Reap, workerVars
    <2> QED BY <2>1, <1>a, <1>c, <1>g, SweepStays DEF Goal
  <1>5. ASSUME NEW p \in Proc, Crash(p) PROVE Goal
    <2>1. /\ row' = row /\ mode'[p] = "down"
          /\ \A w \in Worker : /\ w[1] = p => pc'[w] = "idle"
                               /\ w[1] # p => /\ pc'[w] = pc[w] /\ job'[w] = job[w]
                                              /\ copy'[w] = copy[w]
      BY <1>5, <1>b DEF Crash, TypeOK
    <2>2. p \in Gone'
      BY <2>1 DEF Gone
    <2> QED BY <2>1, <2>2, <1>g, <1>h DEF Goal, Drives
  <1>6. ASSUME NEW w \in Worker, NEW s \in Run, ClaimRun(w, s) PROVE Goal
    <2>1. /\ row'[s].status = "RUNNING" /\ row'[s].owner_id = w[1]
          /\ row'[s].attempt = row[s].attempt + 1 /\ copy'[w].attempt = row[s].attempt + 1
          /\ \A r \in Run \ {s} : row'[r] = row[r]
          /\ pc[w] = "idle" /\ pc'[w] = "claimed" /\ job'[w] = s
          /\ row[s].status = "QUEUED" /\ w[1] \notin Gone
      BY <1>6, <1>b, ClaimCharges DEF ClaimRun, Claimable, SaveRun, TypeOK, Gone
    <2>2. \A v \in Worker \ {w} : pc'[v] = pc[v] /\ job'[v] = job[v] /\ copy'[v] = copy[v]
      BY <1>6 DEF ClaimRun, TypeOK
    <2>3. /\ row[s].attempt + 1 <= Charged(w[1])' + raises'[s]
          /\ row[s].attempt + 1 <= Budget' + raises'[s]
      <3>1. row[s].attempt < Budget + raises[s] /\ Charged(w[1]) = Budget
        BY <2>1, <1>a, <1>b, <1>d DEF RowWithin
      <3> QED BY <3>1, <1>a, <1>b, <1>d, <1>e, <1>r
    <2>4. RowWithin(s)'
      BY <2>1, <2>3, <1>b DEF RowWithin, Drives
    <2>5. \A r \in Run \ {s} : RowWithin(r)'
      BY <2>1, <2>2, <1>h DEF Drives
    <2>6. CopyWithin(w)'
      BY <2>1, <2>3 DEF CopyWithin
    <2>7. \A v \in Worker \ {w} : CopyWithin(v)'
      BY <2>2, <1>b, <1>c, CopyStays
    <2> QED BY <2>4, <2>5, <2>6, <2>7 DEF Goal
  <1>7. ASSUME NEW p \in Proc, NEW s \in Run, AbandonClaim(p, s) PROVE Goal
    <2>1. /\ row'[s].status = "RUNNING" /\ row'[s].owner_id = p
          /\ row'[s].attempt = row[s].attempt + 1
          /\ \A r \in Run \ {s} : row'[r] = row[r]
          /\ row[s].status = "QUEUED" /\ p \notin Gone /\ p \in Gone'
          /\ UNCHANGED <<pc, job, copy>>
      BY <1>7, ClaimCharges DEF AbandonClaim, Claimable, SaveRun, TypeOK, Gone
    <2>2. /\ row[s].attempt + 1 <= Charged(p)' + raises'[s]
          /\ row[s].attempt + 1 <= Budget' + raises'[s]
      <3>1. row[s].attempt < Budget + raises[s] /\ Charged(p) = Budget
        BY <2>1, <1>a, <1>d DEF RowWithin
      <3> QED BY <3>1, <1>a, <1>d, <1>e, <1>r
    <2>3. RowWithin(s)'
      BY <2>1, <2>2 DEF RowWithin
    <2> QED BY <2>1, <2>3, <1>g, <1>h DEF Goal, Drives
  <1>8. ASSUME NEW w \in Worker, Heartbeat(w) PROVE Goal
    <2>0. \/ row' = row
          \/ row' = [row EXCEPT ![job[w]] = [row[job[w]] EXCEPT !.lease = LeaseTTL]]
      BY <1>8 DEF Heartbeat, SaveRun
    <2>1. /\ UNCHANGED <<pc, job, copy>>
          /\ \A r \in Run : /\ row'[r].status = row[r].status
                            /\ row'[r].owner_id = row[r].owner_id
                            /\ row'[r].attempt = row[r].attempt
      <3>1. UNCHANGED <<pc, job, copy>>
        BY <1>8 DEF Heartbeat
      <3>2. ASSUME NEW r \in Run
            PROVE  /\ row'[r].status = row[r].status
                   /\ row'[r].owner_id = row[r].owner_id
                   /\ row'[r].attempt = row[r].attempt
        BY <2>0, <1>a, <1>b DEF TypeOK, RunRecord
      <3> QED BY <3>1, <3>2
    <2> QED BY <2>1, <1>a, <1>c, <1>g, RowStays DEF Goal, Drives
  <1>9. ASSUME NEW w \in Worker, CancelWorker(w) PROVE Goal
    <2> PICK j \in Run : j = job[w]
      BY <1>b
    <2>1. /\ pc'[w] = "idle" /\ w[1] \in Gone'
          /\ \A v \in Worker \ {w} : pc'[v] = pc[v] /\ job'[v] = job[v] /\ copy'[v] = copy[v]
      BY <1>9, <1>b, <1>f DEF CancelWorker, Release, TypeOK
    <2>2. \A r \in Run : row'[r] = row[r] => RowWithin(r)'
      BY <2>1, <1>h DEF Drives
    <2>3. CASE pc[w] = "running"
      <3>1. row' = [row EXCEPT ![j] = [copy[w] EXCEPT !.status = "FAILED",
                                                           !.error = "permanent"]]
        BY <1>9, <2>3 DEF CancelWorker, SaveRun
      <3>2. /\ row'[j].status = "FAILED" /\ row'[j].attempt = copy[w].attempt
            /\ \A r \in Run \ {j} : row'[r] = row[r]
        BY <3>1, <1>b DEF TypeOK, RunRecord
      <3> QED BY <2>1, <2>2, <2>3, <3>2, <1>g, <1>i DEF Goal
    <2>4. CASE pc[w] # "running"
      <3>1. row' = row
        BY <1>9, <2>4 DEF CancelWorker
      <3> QED BY <2>1, <2>2, <3>1, <1>g DEF Goal
    <2> QED BY <2>3, <2>4
  <1>10. ASSUME NEW w \in Worker, RejectInput(w) PROVE Goal
    <2> PICK j \in Run : j = job[w]
      BY <1>b
    <2>1. /\ pc[w] = "claimed" /\ pc'[w] = "idle"
          /\ \A v \in Worker \ {w} : pc'[v] = pc[v] /\ job'[v] = job[v] /\ copy'[v] = copy[v]
      BY <1>10 DEF RejectInput, Release, TypeOK
    <2>2. /\ row'[j].status = "FAILED" /\ row'[j].attempt = copy[w].attempt
          /\ \A r \in Run \ {j} : row'[r] = row[r]
      BY <1>10, <1>b DEF RejectInput, SaveRun, TypeOK, RunRecord
    <2>3. \A r \in Run \ {j} : RowWithin(r)'
      BY <2>1, <2>2, <1>h DEF Drives
    <2> QED BY <2>1, <2>2, <2>3, <1>g, <1>i DEF Goal
  <1>11. ASSUME NEW w \in Worker, StartRun(w) PROVE Goal
    <2> PICK j \in Run : j = job[w]
      BY <1>b
    <2>1. /\ pc[w] = "claimed" /\ pc'[w] = "running" /\ UNCHANGED <<job, copy>>
          /\ \A v \in Worker \ {w} : pc'[v] = pc[v]
      BY <1>11 DEF StartRun, TypeOK
    <2>2. /\ row'[j].status = "RUNNING" /\ row'[j].owner_id = w[1]
          /\ row'[j].attempt = copy[w].attempt
          /\ \A r \in Run \ {j} : row'[r] = row[r]
      BY <1>11, <1>b, <2>1 DEF StartRun, SaveRun, TypeOK, RunRecord, LeaseDiscipline
    <2>3. /\ copy[w].attempt <= Charged(w[1])' + raises'[j]
          /\ copy[w].attempt <= Budget' + raises'[j]
      <3>1. copy[w].attempt <= Charged(w[1]) + raises[j]
        BY <2>1, <1>b DEF CopyWithin
      <3> QED BY <3>1, <1>b, <1>d, <1>e, <1>r
    <2>4. RowWithin(j)'
      BY <2>1, <2>2, <2>3, <1>b DEF RowWithin, Drives
    <2>5. \A r \in Run \ {j} : RowWithin(r)'
      BY <2>1, <2>2, <1>h DEF Drives
    <2>6. \A v \in Worker : CopyWithin(v)'
      BY <2>1, <1>b, <1>c, CopyStays
    <2> QED BY <2>4, <2>5, <2>6 DEF Goal
  <1>12. ASSUME NEW w \in Worker, NEW o \in Outcome, FinishRun(w, o) PROVE Goal
    <2> PICK j \in Run : j = job[w]
      BY <1>b
    <2>1. /\ pc[w] = "running" /\ pc'[w] = "policy" /\ UNCHANGED <<job, copy>>
          /\ \A v \in Worker \ {w} : pc'[v] = pc[v]
      BY <1>12 DEF FinishRun, TypeOK
    <2>2. row'[j].attempt = copy[w].attempt
      BY <1>12, <1>b DEF FinishRun, SaveRun, TypeOK, RunRecord
    <2>3. RowWithin(j)'
      BY <1>12, <2>1, <2>2, <1>i, FinishEffect
    <2>4. \A r \in Run \ {j} : RowWithin(r)'
      BY <1>12, <2>1, <1>h, FinishEffect DEF Drives
    <2>5. \A v \in Worker : CopyWithin(v)'
      BY <2>1, <1>b, <1>c, CopyStays
    <2> QED BY <2>3, <2>4, <2>5 DEF Goal
  <1>13. ASSUME NEW w \in Worker, ReadForRetry(w) PROVE Goal
    <2>1. /\ UNCHANGED row /\ pc[w] = "policy"
          /\ \/ pc'[w] = "idle"
             \/ pc'[w] = "requeue" /\ job'[w] = job[w] /\ copy'[w] = row[job[w]]
          /\ \A v \in Worker \ {w} : pc'[v] = pc[v] /\ job'[v] = job[v] /\ copy'[v] = copy[v]
      BY <1>13 DEF ReadForRetry, Release, TypeOK
    <2>2. \A r \in Run : RowWithin(r)'
      BY <2>1, <1>h DEF Drives
    <2>3. row[job[w]].attempt <= Budget' + raises'[job[w]]
      <3>1. row[job[w]].attempt <= Budget + raises[job[w]]
        BY <1>a, <1>b DEF RowWithin
      <3> QED BY <3>1, <1>a, <1>b, <1>d, <1>r
    <2>4. CopyWithin(w)'
      BY <2>1, <2>3 DEF CopyWithin
    <2>5. \A v \in Worker \ {w} : CopyWithin(v)'
      BY <2>1, <1>b, <1>c, CopyStays
    <2> QED BY <2>2, <2>4, <2>5 DEF Goal
  <1>14. ASSUME NEW w \in Worker, ApplyRetry(w) PROVE Goal
    <2> PICK j \in Run : j = job[w]
      BY <1>b
    <2> DEFINE rec == [copy[w] EXCEPT !.owner_id = NoOwner, !.lease = NoLease]
    <2>1. /\ pc[w] = "requeue" /\ pc'[w] = "idle"
          /\ \A v \in Worker \ {w} : pc'[v] = pc[v] /\ job'[v] = job[v] /\ copy'[v] = copy[v]
      BY <1>14 DEF ApplyRetry, Release, TypeOK
    <2>2. rec.attempt = copy[w].attempt
      BY <1>b DEF RunRecord
    <2>3. \/ /\ rec.attempt < MaxAttempts
             /\ \E delay \in Wait :
                   row' = [row EXCEPT ![j] =
                      [rec EXCEPT !.status = "QUEUED", !.error = "none", !.wait = delay]]
          \/ row' = [row EXCEPT ![j] = [rec EXCEPT !.status = "PARKED"]]
      BY <1>14 DEF ApplyRetry, SaveRun, AttemptsLeft
    <2>4. ASSUME row' = [row EXCEPT ![j] = [rec EXCEPT !.status = "PARKED"]]
          PROVE  RowWithin(j)'
      <3>1. row'[j].status = "PARKED" /\ row'[j].attempt = copy[w].attempt
        BY <2>4, <1>b DEF TypeOK, RunRecord
      <3> QED BY <2>1, <3>1, <1>i
    <2>5. ASSUME rec.attempt < MaxAttempts, NEW delay \in Wait,
                 row' = [row EXCEPT ![j] =
                      [rec EXCEPT !.status = "QUEUED", !.error = "none", !.wait = delay]]
          PROVE  RowWithin(j)'
      <3>1. row'[j].status = "QUEUED" /\ row'[j].attempt = copy[w].attempt
        BY <2>5, <1>b DEF TypeOK, RunRecord
      <3>2. /\ row'[j].attempt < Budget' + raises'[j]
            /\ row'[j].attempt <= Budget' + raises'[j]
        BY <2>2, <2>5, <3>1, <1>b, <1>d, <1>r, BoundAssumption
      <3> QED BY <3>1, <3>2 DEF RowWithin
    <2>6. RowWithin(j)'
      BY <2>3, <2>4, <2>5
    <2>7. \A r \in Run \ {j} : RowWithin(r)'
      BY <1>14, <2>1, <1>h, ApplyRetryEffect DEF Drives
    <2> QED BY <2>1, <2>6, <2>7, <1>g DEF Goal
  <1>15. CASE Tick
    <2>1. \A rec \in RunRecord : TickRecord(rec).attempt = rec.attempt
      BY DEF TickRecord, RunRecord
    <2>2. /\ UNCHANGED <<pc, job>>
          /\ \A w \in Worker : copy'[w].attempt = copy[w].attempt
          /\ \A r \in Run : /\ row'[r].status = row[r].status
                            /\ row'[r].owner_id = row[r].owner_id
                            /\ row'[r].attempt = row[r].attempt
      BY <1>15, <1>a, <1>b, <2>1, TickRecordFacts DEF Tick
    <2> QED BY <2>2, <1>a, <1>c, <1>g, RowStays DEF Goal, Drives
  <1>16. ASSUME NEW s \in Run, GrowOld(s) PROVE Goal
    BY <1>3, <1>16 DEF GrowOld, workerVars
  <1>17. ASSUME NEW p \in Proc, ProbeLocal(p) \/ StopProcess(p) \/ ExitProcess(p) PROVE Goal
    BY <1>3, <1>17 DEF ProbeLocal, StopProcess, ExitProcess, workerVars
  <1>18. CASE UNCHANGED vars
    BY <1>3, <1>18 DEF vars, Goal
  \* An exception pays for the attempt that follows the row it leaves behind.
  <1>19. ASSUME NEW w \in Worker, DriveRaises(w) PROVE Goal
    <2> PICK j \in Run : j = job[w]
      BY <1>b
    <2>1. /\ row' = row /\ pc'[w] = "idle" /\ raises'[j] = raises[j] + 1
          /\ \A v \in Worker \ {w} : pc'[v] = pc[v] /\ job'[v] = job[v] /\ copy'[v] = copy[v]
      BY <1>19 DEF DriveRaises, Release, TypeOK
    <2>2. row[j].attempt <= Budget + raises[j]
      BY <1>a DEF RowWithin
    <2>3. row'[j].attempt < Budget' + raises'[j] /\ row'[j].attempt <= Budget' + raises'[j]
      BY <2>1, <2>2, <1>a, <1>d, <1>r
    <2>4. RowWithin(j)'
      BY <2>3 DEF RowWithin
    <2>5. \A r \in Run \ {j} : RowWithin(r)'
      BY <2>1, <1>h DEF Drives
    <2> QED BY <2>1, <2>4, <2>5, <1>g DEF Goal
  <1> QED
    BY <1>1, <1>2, <1>4, <1>5, <1>6, <1>7, <1>8, <1>9, <1>10, <1>11, <1>12, <1>13,
       <1>14, <1>15, <1>16, <1>17, <1>18, <1>19 DEF Next, Goal

\* Retries stop at max_attempts: a run is claimed once more than that for each
\* dispatcher that died or was shut down and for each of its drives that ended
\* in an exception (RunDispatcher._run_worker), and for nothing else, in good
\* time.
THEOREM RetriesAreBounded == InGoodTime => (Spec => []AttemptBudget)
  <1> SUFFICES ASSUME InGoodTime PROVE Spec => []AttemptBudget
    OBVIOUS
  <1>1. TypeOK /\ Budgeted => AttemptBudget
    <2>1. Gone = {p \in Proc : mode[p] \in {"stopping", "down"}}
      BY DEF Gone
    <2> SUFFICES ASSUME TypeOK, Budgeted, NEW r \in Run
                 PROVE  row[r].attempt <= MaxAttempts + raises[r] + Cardinality(Gone)
      BY <2>1 DEF AttemptBudget
    <2>2. row[r].attempt <= MaxAttempts + Cardinality(Gone) + raises[r]
      BY DEF Budgeted, RowWithin, Budget
    <2>3. Cardinality(Gone) \in Nat /\ raises[r] \in Nat /\ row[r].attempt \in Int
      BY FS_CardinalityType, BoundAssumption DEF Budgeted, TypeOK, RunRecord, Attempt
    <2> QED BY <2>2, <2>3, BoundAssumption
  <1>2. TypeOK /\ LeaseDiscipline /\ Budgeted /\ [Next]_vars => Budgeted'
    BY BudgetedNext
  <1> QED BY <1>1, <1>2, BudgetedInit, TypeCorrect, DisciplineHolds, PTL DEF Spec

=============================================================================
