-------------------------- MODULE HitlResumeProofs --------------------------
(***************************************************************************)
(* Proofs about human approval: for any number of requests, processes,     *)
(* pauses and pending calls.                                               *)
(***************************************************************************)
EXTENDS HitlResume, TLAPS

-----------------------------------------------------------------------------
(* Type correctness.                                                       *)

LEMMA Ranges ==
  /\ 0 \in 0..MaxPauses /\ Ckpt \subseteq 0..MaxPauses /\ 0 \notin Ckpt
  /\ 1 \in Call /\ 1 \in 1..(MaxCalls + 1) /\ Call \subseteq 1..(MaxCalls + 1)
  /\ \A k \in Call : k + 1 \in 1..(MaxCalls + 1)
  /\ MaxCalls + 1 \in 1..(MaxCalls + 1)
  BY BoundAssumption DEF Ckpt, Call

LEMMA NoRecords == NoRun \in RunRecord /\ NoCheckpoint \in Checkpoint
  BY Ranges DEF NoRun, RunRecord, NoCheckpoint, Checkpoint

\* What a write may change in a record keeps it a record.
LEMMA RecordUpdates ==
  ASSUME NEW rec \in RunRecord
  PROVE  /\ [rec EXCEPT !.status = "RUNNING", !.lease = "live"] \in RunRecord
         /\ [rec EXCEPT !.status = "QUEUED", !.lease = "none"] \in RunRecord
         /\ \A s \in {"RUNNING", "AWAITING_APPROVAL", "RESOLVING", "SUCCEEDED", "FAILED"} :
               [rec EXCEPT !.status = s] \in RunRecord
         /\ \A l \in {"live", "expired"} : [rec EXCEPT !.lease = l] \in RunRecord
         /\ \A s \in {"SUCCEEDED", "FAILED"}, l \in {"live", "expired"} :
               [rec EXCEPT !.status = s, !.lease = l] \in RunRecord
         /\ \A a \in Answer : [rec EXCEPT !.status = "RESOLVING", !.decision = a] \in RunRecord
         /\ \A c \in Ckpt :
               [rec EXCEPT !.status = "AWAITING_APPROVAL", !.ckpt = c] \in RunRecord
         /\ Outdated(rec) \in RunRecord
  BY Ranges DEF RunRecord, Outdated

LEMMA DropType ==
  ASSUME TypeOK, NEW Q, Drop(Q)
  PROVE  /\ pc' \in [Req -> ReqPc] /\ at' \in [Req -> Proc \cup {NoProc}]
         /\ answer' \in [Req -> Answer] /\ target' \in [Req -> 0..MaxPauses]
         /\ copy' \in [Req -> RunRecord] /\ snap' \in [Req -> Checkpoint]
         /\ call' \in [Req -> 1..(MaxCalls + 1)]
  BY NoRecords, Ranges DEF TypeOK, Drop, ReqPc, Answer

LEMMA RequeuedType == TypeOK => Requeued \in RunRecord
  BY RecordUpdates DEF TypeOK, Requeued

LEMMA NewCheckpointType ==
  ASSUME TypeOK, NEW c \in Ckpt, NewCheckpoint(c)
  PROVE  ck' \in [Ckpt -> Checkpoint]
  <1>1. [status |-> "awaiting_approval", ledger |-> {}] \in Checkpoint
    BY DEF Checkpoint
  <1> QED BY <1>1 DEF TypeOK, NewCheckpoint

LEMMA InitType == Init => TypeOK
  BY NoRecords, Ranges, BoundAssumption DEF Init, TypeOK, ReqPc, Answer

LEMMA NextType == TypeOK /\ HasCheckpoint /\ [Next]_vars => TypeOK'
  <1> SUFFICES ASSUME TypeOK, HasCheckpoint, [Next]_vars PROVE TypeOK'
    OBVIOUS
  <1> USE NoRecords, Ranges
  <1>0. /\ run \in RunRecord
        /\ \A p \in Proc : draft[p] \in RunRecord
        /\ \A q \in Req : copy[q] \in RunRecord
    BY DEF TypeOK
  <1>1. ASSUME NEW p \in Proc, DriveRun(p) PROVE TypeOK'
    BY <1>1, <1>0, RecordUpdates DEF DriveRun, SaveRun, TypeOK, reqVars, history
  <1>2. ASSUME NEW p \in Proc, NEW c \in Ckpt, PauseDrive(p, c) PROVE TypeOK'
    <2>1. [draft[p] EXCEPT !.status = "AWAITING_APPROVAL", !.ckpt = c] \in RunRecord
      BY <1>0, RecordUpdates
    <2>2. draft' \in [Proc -> RunRecord]
      BY <1>2, <2>1 DEF PauseDrive, TypeOK
    <2> QED BY <1>2, <2>2, NewCheckpointType DEF PauseDrive, TypeOK, reqVars, history
  <1>3. ASSUME NEW p \in Proc, EndDrive(p) PROVE TypeOK'
    <2>1. run' \in RunRecord
      <3>1. PICK l \in {"live", "expired"} :
              \/ run' = [draft[p] EXCEPT !.lease = l]
              \/ \E s \in {"SUCCEEDED", "FAILED"} :
                    run' = [draft[p] EXCEPT !.status = s, !.lease = l]
        BY <1>3, Zenon DEF EndDrive, SaveRun
      <3>2. draft[p] \in RunRecord
        BY <1>0
      <3> QED BY <3>1, <3>2, RecordUpdates
    <2> QED BY <1>3, <2>1 DEF EndDrive, TypeOK, reqVars, history
  <1>4. ASSUME NEW p \in Proc, Reap(p) PROVE TypeOK'
    BY <1>4, RequeuedType DEF Reap, SaveRun, TypeOK, driveVars, reqVars, history
  <1>5. ASSUME NEW p \in Proc, StartProcess(p) PROVE TypeOK'
    BY <1>5, RequeuedType DEF StartProcess, SaveRun, TypeOK, driveVars, reqVars, history
  <1>6. ASSUME NEW p \in Proc, BeginServing(p) PROVE TypeOK'
    BY <1>6 DEF BeginServing, TypeOK, driveVars, reqVars, history
  <1>7. ASSUME NEW p \in Proc, StopProcess(p) PROVE TypeOK'
    BY <1>7 DEF StopProcess, TypeOK, driveVars, reqVars, history
  <1>8. ASSUME NEW p \in Proc, Crash(p) PROVE TypeOK'
    <2>1. Drop({q \in Req : at[q] = p})
      BY <1>8 DEF Crash
    <2> QED BY <1>8, <2>1, DropType DEF Crash, TypeOK, history
  <1>9. ASSUME NEW p \in Proc, NEW q \in Req, ListResolving(p, q) PROVE TypeOK'
    <2>1. run.decision \in Answer
      BY <1>9, <1>0 DEF ListResolving, RunRecord
    <2> QED BY <1>9, <2>1, <1>0
        DEF ListResolving, Goto, TypeOK, ReqPc, InHandler, driveVars, history
  <1>10. ASSUME NEW q \in Req, NEW p \in Proc, NEW a \in Answer, Receive(q, p, a)
         PROVE  TypeOK'
    <2>1. run.ckpt \in 0..MaxPauses
      BY <1>0 DEF RunRecord
    <2> QED BY <1>10, <2>1, <1>0
        DEF Receive, Goto, TypeOK, ReqPc, InHandler, driveVars, history
  <1>11. ASSUME NEW q \in Req, Reopen(q) PROVE TypeOK'
    BY <1>11, <1>0, RecordUpdates
    DEF Reopen, Goto, SaveRun, TypeOK, ReqPc, InHandler, driveVars, history
  <1>12. ASSUME NEW q \in Req, Reread(q) PROVE TypeOK'
    <2>1. run.ckpt \in 0..MaxPauses
      BY <1>0 DEF RunRecord
    <2>2. CASE run.status = "AWAITING_APPROVAL"
      BY <1>12, <2>1, <2>2, <1>0
      DEF Reread, Goto, TypeOK, ReqPc, InHandler, driveVars, history
    <2>3. CASE run.status # "AWAITING_APPROVAL"
      BY <1>12, <2>3, DropType DEF Reread, TypeOK, driveVars, history
    <2> QED BY <2>2, <2>3
  <1>13. ASSUME NEW q \in Req, ClaimRun(q) PROVE TypeOK'
    <2>1. CASE ClaimableForResume /\ pc' = [pc EXCEPT ![q] = "claimed"]
      <3>1. target[q] \in Ckpt
        BY <1>13 DEF ClaimRun, HasCheckpoint
      <3>2. run' \in RunRecord /\ granted' \subseteq Ckpt
        BY <1>13, <2>1, <3>1, <1>0, RecordUpdates DEF ClaimRun, SaveRun, TypeOK
      <3> QED BY <1>13, <2>1, <3>2 DEF ClaimRun, Goto, TypeOK, ReqPc, InHandler, driveVars
    <2>2. CASE Drop({q}) /\ UNCHANGED <<run, granted>>
      BY <1>13, <2>2, DropType DEF ClaimRun, TypeOK, driveVars
    <2> QED BY <1>13, <2>1, <2>2 DEF ClaimRun, Goto
  <1>14. ASSUME NEW q \in Req, RecordDecision(q) PROVE TypeOK'
    <2>1. [copy[q] EXCEPT !.status = "RESOLVING", !.decision = answer[q]] \in RunRecord
      BY <1>0, RecordUpdates DEF TypeOK
    <2> QED BY <1>14, <2>1
        DEF RecordDecision, Goto, SaveRun, TypeOK, ReqPc, InHandler, driveVars, history
  <1>15. ASSUME NEW q \in Req, LaunchTask(q) PROVE TypeOK'
    BY <1>15, <1>0, RecordUpdates DEF LaunchTask, Goto, SaveRun, TypeOK, ReqPc, driveVars, history
  <1>16. ASSUME NEW q \in Req, BeginTask(q) PROVE TypeOK'
    BY <1>16 DEF BeginTask, Goto, TypeOK, ReqPc, InTask, InLoop, driveVars, history
  <1>17. ASSUME NEW q \in Req, ClaimCheckpoint(q) PROVE TypeOK'
    <2>1. CASE /\ ck' = [ck EXCEPT ![target[q]].status = "resolving"]
               /\ Goto(q, "loading")
               /\ UNCHANGED <<at, answer, target, copy, snap, call>>
      <3>1. target[q] \in Ckpt
        BY <1>17 DEF ClaimCheckpoint, HasCheckpoint, Claimed, InTask, InLoop
      <3>2. [ck[target[q]] EXCEPT !.status = "resolving"] \in Checkpoint
        BY <3>1 DEF TypeOK, Checkpoint
      <3>3. ck' \in [Ckpt -> Checkpoint]
        BY <2>1, <3>1, <3>2 DEF TypeOK
      <3> QED BY <1>17, <2>1, <3>3
          DEF ClaimCheckpoint, Goto, TypeOK, ReqPc, InTask, InLoop, driveVars, history
    <2>2. CASE Drop({q}) /\ UNCHANGED ck
      BY <1>17, <2>2, DropType DEF ClaimCheckpoint, TypeOK, driveVars, history
    <2> QED BY <1>17, <2>1, <2>2 DEF ClaimCheckpoint
  <1>18. ASSUME NEW q \in Req, LoadCheckpoint(q) PROVE TypeOK'
    <2>1. target[q] \in Ckpt
      BY <1>18 DEF LoadCheckpoint, HasCheckpoint, Claimed, InTask, InLoop
    <2> QED BY <1>18, <2>1
        DEF LoadCheckpoint, Goto, TypeOK, ReqPc, InTask, InLoop, driveVars, history
  <1>19. ASSUME NEW q \in Req, LookupCall(q) PROVE TypeOK'
    <2>1. [snap[q] EXCEPT !.ledger = @ \cup {call[q]}] \in Checkpoint
      BY <1>19 DEF LookupCall, TypeOK, Checkpoint
    <2>2. CASE Recorded(q)
      <3>1. snap' \in [Req -> Checkpoint] /\ call' \in [Req -> 1..(MaxCalls + 1)]
        BY <1>19, <2>1, <2>2 DEF LookupCall, TypeOK
      <3> QED BY <1>19, <2>2, <3>1 DEF LookupCall, TypeOK, driveVars, history
    <2>3. CASE ~Recorded(q)
      BY <1>19, <2>3 DEF LookupCall, Goto, TypeOK, ReqPc, InTask, InLoop, driveVars, history
    <2> QED BY <2>2, <2>3
  <1>20. ASSUME NEW q \in Req, ExecuteCall(q) PROVE TypeOK'
    <2>1. call[q] \in Call /\ target[q] \in Ckpt
      BY <1>20 DEF ExecuteCall, HasCheckpoint, Claimed, InTask, InLoop
    <2>2. effects' \in [Ckpt -> [Call -> 0..EffectCap]]
      <3> DEFINE n == effects[target[q]][call[q]]
                 e == [effects[target[q]] EXCEPT ![call[q]] =
                         IF n < EffectCap THEN n + 1 ELSE n]
      <3>1. n \in 0..EffectCap
        BY <2>1 DEF TypeOK
      <3>2. (IF n < EffectCap THEN n + 1 ELSE n) \in 0..EffectCap
        BY <3>1, BoundAssumption
      <3>3. e \in [Call -> 0..EffectCap]
        BY <2>1, <3>2 DEF TypeOK
      <3>4. effects' = [effects EXCEPT ![target[q]] = e] \/ effects' = effects
        BY <1>20, <2>1 DEF ExecuteCall, TypeOK
      <3> HIDE DEF e
      <3> QED BY <2>1, <3>3, <3>4 DEF TypeOK
    <2>3. call' \in [Req -> 1..(MaxCalls + 1)] /\ pc' \in [Req -> ReqPc]
      BY <1>20, <2>1 DEF ExecuteCall, Goto, TypeOK, ReqPc, InTask, InLoop
    <2> QED BY <1>20, <2>2, <2>3 DEF ExecuteCall, TypeOK, driveVars
  <1>21. ASSUME NEW q \in Req, RecordCall(q) PROVE TypeOK'
    <2>1. call[q] \in Call /\ target[q] \in Ckpt
      BY <1>21 DEF RecordCall, HasCheckpoint, Claimed, InTask, InLoop
    <2>2. [snap[q] EXCEPT !.ledger = @ \cup ck[target[q]].ledger \cup {call[q]}] \in Checkpoint
      BY <2>1 DEF TypeOK, Checkpoint
    <2>3. snap' \in [Req -> Checkpoint] /\ ck' \in [Ckpt -> Checkpoint]
      BY <1>21, <2>1, <2>2 DEF RecordCall, TypeOK
    <2>4. call' \in [Req -> 1..(MaxCalls + 1)] /\ pc' \in [Req -> ReqPc]
      BY <1>21, <2>1 DEF RecordCall, Goto, TypeOK, ReqPc, InTask, InLoop
    <2> QED BY <1>21, <2>3, <2>4 DEF RecordCall, TypeOK, driveVars, history
  <1>22. ASSUME NEW q \in Req, ResolveCheckpoint(q) PROVE TypeOK'
    <2>1. [snap[q] EXCEPT !.status = answer[q]] \in Checkpoint
      BY DEF TypeOK, Checkpoint, Answer
    <2>2. ck' \in [Ckpt -> Checkpoint]
      BY <1>22, <2>1 DEF ResolveCheckpoint, TypeOK
    <2> QED BY <1>22, <2>2
        DEF ResolveCheckpoint, Goto, TypeOK, ReqPc, InTask, InLoop, driveVars, history
  <1>23. ASSUME NEW q \in Req, NEW c \in Ckpt, PauseTask(q, c) PROVE TypeOK'
    <2>1. [copy[q] EXCEPT !.status = "AWAITING_APPROVAL", !.ckpt = c] \in RunRecord
      BY <1>0, RecordUpdates
    <2>2. copy' \in [Req -> RunRecord]
      BY <1>23, <2>1 DEF PauseTask, TypeOK
    <2>3. ck' \in [Ckpt -> Checkpoint]
      BY <1>23, NewCheckpointType DEF PauseTask
    <2> QED BY <1>23, <2>2, <2>3 DEF PauseTask, Goto, TypeOK, ReqPc, InTask, driveVars, history
  <1>24. ASSUME NEW q \in Req, FinishTask(q) PROVE TypeOK'
    <2>1. run' \in RunRecord
      BY <1>24, <1>0, RecordUpdates DEF FinishTask, SaveRun
    <2> QED BY <1>24, <2>1, DropType DEF FinishTask, TypeOK, driveVars, history
  <1>25. ASSUME NEW q \in Req, FailTask(q) PROVE TypeOK'
    <2>1. run' \in RunRecord
      BY <1>25, <1>0, RecordUpdates DEF FailTask, SaveRun
    <2> QED BY <1>25, <2>1, DropType DEF FailTask, TypeOK, driveVars, history
  <1>26. ASSUME NEW q \in Req, AbandonTask(q) \/ CancelTask(q) PROVE TypeOK'
    BY <1>26, DropType DEF AbandonTask, CancelTask, TypeOK, driveVars, history
  <1>27. CASE LeaseRunsOut
    <2>1. run' \in RunRecord /\ copy' \in [Req -> RunRecord]
      BY <1>27, <1>0, RecordUpdates DEF LeaseRunsOut, SaveRun
    <2> QED BY <1>27, <2>1 DEF LeaseRunsOut, TypeOK, driveVars, history
  <1>28. CASE UNCHANGED vars
    BY <1>28 DEF vars, TypeOK, driveVars, reqVars, history
  <1> QED
    BY <1>1, <1>2, <1>3, <1>4, <1>5, <1>6, <1>7, <1>8, <1>9, <1>10, <1>11, <1>12,
       <1>13, <1>14, <1>15, <1>16, <1>17, <1>18, <1>19, <1>20, <1>21, <1>22, <1>23,
       <1>24, <1>25, <1>26, <1>27, <1>28 DEF Next, RequestStep, TaskStep

-----------------------------------------------------------------------------
(* What the writes leave behind, field by field.                           *)

LEMMA DropFacts ==
  ASSUME NEW Q, Drop(Q), NEW r \in Req
  PROVE  /\ r \in Q => /\ pc'[r] = "idle" /\ at'[r] = NoProc /\ target'[r] = 0
                       /\ copy'[r] = NoRun /\ snap'[r] = NoCheckpoint
         /\ r \notin Q => /\ pc'[r] = pc[r] /\ at'[r] = at[r] /\ target'[r] = target[r]
                          /\ copy'[r] = copy[r] /\ snap'[r] = snap[r]
                          /\ call'[r] = call[r]
  BY DEF Drop

LEMMA NoRunFields == NoRun.status = "QUEUED" /\ NoRun.ckpt = 0
  BY DEF NoRun

LEMMA RequeuedFacts ==
  ASSUME TypeOK
  PROVE  /\ Requeued.ckpt = run.ckpt
         /\ Requeued.status = run.status \/ Requeued.status = "QUEUED"
  BY DEF TypeOK, RunRecord, Requeued

LEMMA OutdatedFacts ==
  ASSUME NEW rec \in RunRecord
  PROVE  Outdated(rec).ckpt = rec.ckpt /\ Outdated(rec).status = rec.status
  BY DEF Outdated, RunRecord

\* The row and the worker's record after each step of a drive.
LEMMA DriveRunFacts ==
  ASSUME TypeOK, NEW p \in Proc, DriveRun(p)
  PROVE  /\ run'.status = "RUNNING" /\ run'.ckpt = run.ckpt
         /\ draft'[p].status = "RUNNING" /\ draft'[p].ckpt = run.ckpt
         /\ \A r \in Proc \ {p} : draft'[r] = draft[r]
  BY DEF DriveRun, SaveRun, TypeOK, RunRecord

LEMMA PauseDriveFacts ==
  ASSUME TypeOK, NEW p \in Proc, NEW c \in Ckpt, PauseDrive(p, c)
  PROVE  /\ draft'[p].status = "AWAITING_APPROVAL" /\ draft'[p].ckpt = c
         /\ \A r \in Proc \ {p} : draft'[r] = draft[r]
  BY DEF PauseDrive, TypeOK, RunRecord

LEMMA EndDriveFacts ==
  ASSUME TypeOK, NEW p \in Proc, EndDrive(p)
  PROVE  /\ run'.ckpt = draft[p].ckpt
         /\ \/ /\ run'.status = "AWAITING_APPROVAL" /\ Announceable
               /\ draft[p].status = "AWAITING_APPROVAL"
            \/ run'.status \in {"SUCCEEDED", "FAILED"}
         /\ draft'[p] = NoRun
         /\ \A r \in Proc \ {p} : draft'[r] = draft[r]
  <1>1. draft[p] \in RunRecord
    BY DEF TypeOK
  <1>2. PICK l \in {"live", "expired"} :
          \/ /\ draft[p].status = "AWAITING_APPROVAL" /\ Announceable
             /\ run' = [draft[p] EXCEPT !.lease = l]
          \/ \E s \in {"SUCCEEDED", "FAILED"} :
                run' = [draft[p] EXCEPT !.status = s, !.lease = l]
    BY Zenon DEF EndDrive, SaveRun
  <1>3. draft'[p] = NoRun /\ \A r \in Proc \ {p} : draft'[r] = draft[r]
    BY DEF EndDrive, TypeOK
  <1>4. CASE /\ draft[p].status = "AWAITING_APPROVAL" /\ Announceable
             /\ run' = [draft[p] EXCEPT !.lease = l]
    BY <1>1, <1>3, <1>4 DEF RunRecord
  <1>5. CASE \E s \in {"SUCCEEDED", "FAILED"} :
                run' = [draft[p] EXCEPT !.status = s, !.lease = l]
    BY <1>1, <1>3, <1>5 DEF RunRecord
  <1> QED BY <1>2, <1>4, <1>5

\* The row after each write of a request or task.
LEMMA ReopenFacts ==
  ASSUME TypeOK, NEW q \in Req, Reopen(q)
  PROVE  run'.status = "AWAITING_APPROVAL" /\ run'.ckpt = copy[q].ckpt
  BY DEF Reopen, SaveRun, TypeOK, RunRecord

LEMMA RecordDecisionFacts ==
  ASSUME TypeOK, NEW q \in Req, RecordDecision(q)
  PROVE  /\ run'.status = "RESOLVING" /\ run'.ckpt = copy[q].ckpt
         /\ copy'[q].ckpt = copy[q].ckpt
         /\ \A r \in Req \ {q} : copy'[r] = copy[r]
  BY DEF RecordDecision, SaveRun, TypeOK, RunRecord

LEMMA LaunchTaskFacts ==
  ASSUME TypeOK, NEW q \in Req, LaunchTask(q)
  PROVE  run'.status = "RUNNING" /\ run'.ckpt = copy[q].ckpt
  BY DEF LaunchTask, SaveRun, TypeOK, RunRecord

LEMMA PauseTaskFacts ==
  ASSUME TypeOK, NEW q \in Req, NEW c \in Ckpt, PauseTask(q, c)
  PROVE  /\ copy'[q].status = "AWAITING_APPROVAL" /\ copy'[q].ckpt = c
         /\ \A r \in Req \ {q} : copy'[r] = copy[r]
  BY DEF PauseTask, TypeOK, RunRecord

LEMMA FinishTaskFacts ==
  ASSUME TypeOK, NEW q \in Req, FinishTask(q)
  PROVE  /\ run'.ckpt = copy[q].ckpt
         /\ \/ run'.status = "SUCCEEDED"
            \/ pc[q] = "pausing" /\ Announceable /\ run' = copy[q]
  BY DEF FinishTask, SaveRun, TypeOK, RunRecord

LEMMA FailTaskFacts ==
  ASSUME TypeOK, NEW q \in Req, FailTask(q)
  PROVE  run'.status = "FAILED" /\ run'.ckpt = copy[q].ckpt
  BY DEF FailTask, SaveRun, TypeOK, RunRecord

\* The two ways a claim of the run ends, and of the checkpoint.
LEMMA ClaimRunFacts ==
  ASSUME TypeOK, NEW q \in Req, ClaimRun(q)
  PROVE  \/ /\ run.status = "AWAITING_APPROVAL"
            /\ run'.status = "RESOLVING" /\ run'.ckpt = run.ckpt
            /\ pc' = [pc EXCEPT ![q] = "claimed"]
            /\ UNCHANGED <<at, answer, target, copy, snap, call>>
         \/ Drop({q}) /\ UNCHANGED run
  BY DEF ClaimRun, ClaimableForResume, Goto, SaveRun, TypeOK, RunRecord

LEMMA ClaimCheckpointFacts ==
  ASSUME TypeOK, NEW q \in Req, ClaimCheckpoint(q)
  PROVE  \/ /\ ck[target[q]].status \in {"awaiting_approval", "resolving"}
            /\ ck' = [ck EXCEPT ![target[q]].status = "resolving"]
            /\ pc' = [pc EXCEPT ![q] = "loading"]
            /\ UNCHANGED <<at, answer, target, copy, snap, call>>
         \/ Drop({q}) /\ UNCHANGED ck
  BY DEF ClaimCheckpoint, ClaimableCheckpoint, Goto

LEMMA RereadFacts ==
  ASSUME TypeOK, NEW q \in Req, Reread(q)
  PROVE  \/ /\ run.status = "AWAITING_APPROVAL"
            /\ pc' = [pc EXCEPT ![q] = "validated"]
            /\ target' = [target EXCEPT ![q] = run.ckpt]
            /\ copy' = [copy EXCEPT ![q] = run]
            /\ UNCHANGED <<at, answer, snap, call>>
         \/ Drop({q})
  BY DEF Reread, Goto

-----------------------------------------------------------------------------
(* Every answer has a checkpoint, in every deployment.                     *)

LEMMA NextHasCheckpoint == TypeOK /\ HasCheckpoint /\ [Next]_vars => HasCheckpoint'
  <1> SUFFICES ASSUME TypeOK, HasCheckpoint, [Next]_vars PROVE HasCheckpoint'
    OBVIOUS
  <1> USE NoRunFields DEF Unresolved
  <1>a. ASSUME NEW Q, Drop(Q), UNCHANGED draft,
               run'.status \in Unresolved => run'.ckpt \in Ckpt
        PROVE  HasCheckpoint'
    BY <1>a, DropFacts DEF HasCheckpoint, Claimed, InTask, InLoop
  <1>b. ASSUME UNCHANGED reqVars,
               run'.status \in Unresolved => run'.ckpt \in Ckpt,
               \A p \in Proc : draft'[p].status \in Unresolved => draft'[p].ckpt \in Ckpt
        PROVE  HasCheckpoint'
    BY <1>b DEF HasCheckpoint, reqVars
  <1>1. ASSUME NEW p \in Proc, DriveRun(p) PROVE HasCheckpoint'
    <2>1. UNCHANGED reqVars
      BY <1>1 DEF DriveRun
    <2>2. /\ run'.status \in Unresolved => run'.ckpt \in Ckpt
          /\ \A r \in Proc : draft'[r].status \in Unresolved => draft'[r].ckpt \in Ckpt
      BY <1>1, DriveRunFacts DEF HasCheckpoint
    <2> QED BY <1>b, <2>1, <2>2
  <1>2. ASSUME NEW p \in Proc, NEW c \in Ckpt, PauseDrive(p, c) PROVE HasCheckpoint'
    <2>1. UNCHANGED <<run, reqVars>>
      BY <1>2 DEF PauseDrive
    <2>2. /\ run'.status \in Unresolved => run'.ckpt \in Ckpt
          /\ \A r \in Proc : draft'[r].status \in Unresolved => draft'[r].ckpt \in Ckpt
      BY <1>2, <2>1, PauseDriveFacts DEF HasCheckpoint
    <2> QED BY <1>b, <2>1, <2>2
  <1>3. ASSUME NEW p \in Proc, EndDrive(p) PROVE HasCheckpoint'
    <2>1. UNCHANGED reqVars
      BY <1>3 DEF EndDrive
    <2>2. /\ run'.status \in Unresolved => run'.ckpt \in Ckpt
          /\ \A r \in Proc : draft'[r].status \in Unresolved => draft'[r].ckpt \in Ckpt
      BY <1>3, EndDriveFacts DEF HasCheckpoint
    <2> QED BY <1>b, <2>1, <2>2
  <1>4. ASSUME NEW p \in Proc, Reap(p) \/ StartProcess(p) PROVE HasCheckpoint'
    <2>1. UNCHANGED <<driveVars, reqVars>> /\ run' = Requeued
      BY <1>4 DEF Reap, StartProcess, SaveRun
    <2>2. /\ run'.status \in Unresolved => run'.ckpt \in Ckpt
          /\ \A r \in Proc : draft'[r].status \in Unresolved => draft'[r].ckpt \in Ckpt
      BY <2>1, RequeuedFacts DEF HasCheckpoint, driveVars
    <2> QED BY <1>b, <2>1, <2>2
  <1>5. ASSUME NEW p \in Proc, BeginServing(p) \/ StopProcess(p) PROVE HasCheckpoint'
    BY <1>5 DEF BeginServing, StopProcess, HasCheckpoint, driveVars, reqVars
  <1>6. ASSUME NEW p \in Proc, Crash(p) PROVE HasCheckpoint'
    <2> DEFINE Q == {q \in Req : at[q] = p}
    <2>1. Drop(Q) /\ UNCHANGED run
      BY <1>6 DEF Crash
    <2>2. \A r \in Proc : draft'[r] = NoRun \/ draft'[r] = draft[r]
      BY <1>6 DEF Crash, TypeOK
    <2> HIDE DEF Q
    <2> QED BY <2>1, <2>2, DropFacts DEF HasCheckpoint, Claimed, InTask, InLoop
  <1>7. ASSUME NEW p \in Proc, NEW q \in Req, ListResolving(p, q) PROVE HasCheckpoint'
    BY <1>7 DEF ListResolving, Goto, HasCheckpoint, TypeOK, Claimed, InTask, InLoop, driveVars
  <1>8. ASSUME NEW q \in Req, NEW p \in Proc, NEW a \in Answer, Receive(q, p, a)
        PROVE  HasCheckpoint'
    BY <1>8 DEF Receive, Goto, HasCheckpoint, TypeOK, Claimed, InTask, InLoop, driveVars
  <1>9. ASSUME NEW q \in Req, Reopen(q) PROVE HasCheckpoint'
    BY <1>9, ReopenFacts
    DEF Reopen, Goto, HasCheckpoint, TypeOK, Claimed, InTask, InLoop, driveVars
  <1>10. ASSUME NEW q \in Req, Reread(q) PROVE HasCheckpoint'
    <2>1. UNCHANGED <<run, driveVars>>
      BY <1>10 DEF Reread
    <2>2. CASE Drop({q})
      BY <1>a, <2>1, <2>2 DEF HasCheckpoint, driveVars
    <2>3. CASE ~Drop({q})
      BY <1>10, <2>1, <2>3, RereadFacts
      DEF HasCheckpoint, TypeOK, Claimed, InTask, InLoop, driveVars
    <2> QED BY <2>2, <2>3
  <1>11. ASSUME NEW q \in Req, ClaimRun(q) PROVE HasCheckpoint'
    <2>1. UNCHANGED driveVars /\ pc[q] = "validated"
      BY <1>11 DEF ClaimRun
    <2>2. CASE Drop({q}) /\ UNCHANGED run
      BY <1>a, <2>1, <2>2 DEF HasCheckpoint, driveVars
    <2>3. CASE ~(Drop({q}) /\ UNCHANGED run)
      BY <1>11, <2>1, <2>3, ClaimRunFacts
      DEF HasCheckpoint, TypeOK, Claimed, InTask, InLoop, driveVars
    <2> QED BY <2>2, <2>3
  <1>12. ASSUME NEW q \in Req, RecordDecision(q) PROVE HasCheckpoint'
    BY <1>12, RecordDecisionFacts
    DEF RecordDecision, Goto, HasCheckpoint, TypeOK, Claimed, InTask, InLoop, driveVars
  <1>13. ASSUME NEW q \in Req, LaunchTask(q) PROVE HasCheckpoint'
    BY <1>13, LaunchTaskFacts
    DEF LaunchTask, Goto, HasCheckpoint, TypeOK, Claimed, InTask, InLoop, driveVars
  <1>14. ASSUME NEW q \in Req, BeginTask(q) PROVE HasCheckpoint'
    BY <1>14 DEF BeginTask, Goto, HasCheckpoint, TypeOK, Claimed, InTask, InLoop, driveVars
  <1>15. ASSUME NEW q \in Req, ClaimCheckpoint(q) PROVE HasCheckpoint'
    <2>1. UNCHANGED <<run, driveVars>> /\ pc[q] = "ready"
      BY <1>15 DEF ClaimCheckpoint
    <2>2. CASE Drop({q})
      BY <1>a, <2>1, <2>2 DEF HasCheckpoint, driveVars
    <2>3. CASE ~Drop({q})
      BY <1>15, <2>1, <2>3, ClaimCheckpointFacts
      DEF HasCheckpoint, TypeOK, Claimed, InTask, InLoop, driveVars
    <2> QED BY <2>2, <2>3
  <1>16. ASSUME NEW q \in Req, LoadCheckpoint(q) PROVE HasCheckpoint'
    BY <1>16 DEF LoadCheckpoint, Goto, HasCheckpoint, TypeOK, Claimed, InTask, InLoop, driveVars
  <1>17. ASSUME NEW q \in Req, LookupCall(q) PROVE HasCheckpoint'
    BY <1>17 DEF LookupCall, Goto, HasCheckpoint, TypeOK, Claimed, InTask, InLoop, driveVars
  <1>18. ASSUME NEW q \in Req, ExecuteCall(q) PROVE HasCheckpoint'
    BY <1>18 DEF ExecuteCall, Goto, HasCheckpoint, TypeOK, Claimed, InTask, InLoop, driveVars
  <1>19. ASSUME NEW q \in Req, RecordCall(q) PROVE HasCheckpoint'
    BY <1>19 DEF RecordCall, Goto, HasCheckpoint, TypeOK, Claimed, InTask, InLoop, driveVars
  <1>20. ASSUME NEW q \in Req, ResolveCheckpoint(q) PROVE HasCheckpoint'
    BY <1>20 DEF ResolveCheckpoint, Goto, HasCheckpoint, TypeOK, Claimed, InTask, InLoop, driveVars
  <1>21. ASSUME NEW q \in Req, NEW c \in Ckpt, PauseTask(q, c) PROVE HasCheckpoint'
    <2>1. /\ pc[q] = "continuing" /\ pc' = [pc EXCEPT ![q] = "pausing"]
          /\ UNCHANGED <<run, draft, target, call>>
      BY <1>21 DEF PauseTask, Goto, driveVars
    <2> QED BY <1>21, <2>1, PauseTaskFacts DEF HasCheckpoint, TypeOK, Claimed, InTask, InLoop
  <1>22. ASSUME NEW q \in Req, FinishTask(q) PROVE HasCheckpoint'
    <2>1. Drop({q}) /\ UNCHANGED draft
      BY <1>22 DEF FinishTask, driveVars
    <2>2. run'.status \in Unresolved => run'.ckpt \in Ckpt
      BY <1>22, FinishTaskFacts DEF HasCheckpoint
    <2> QED BY <1>a, <2>1, <2>2
  <1>23. ASSUME NEW q \in Req, FailTask(q) PROVE HasCheckpoint'
    <2>1. Drop({q}) /\ UNCHANGED draft
      BY <1>23 DEF FailTask, driveVars
    <2> QED BY <1>a, <2>1, <1>23, FailTaskFacts
  <1>24. ASSUME NEW q \in Req, AbandonTask(q) \/ CancelTask(q) PROVE HasCheckpoint'
    <2>1. Drop({q}) /\ UNCHANGED <<run, draft>>
      BY <1>24 DEF AbandonTask, CancelTask, driveVars
    <2> QED BY <1>a, <2>1 DEF HasCheckpoint
  <1>25. CASE LeaseRunsOut
    BY <1>25, OutdatedFacts DEF LeaseRunsOut, SaveRun, HasCheckpoint, TypeOK, driveVars
  <1>26. CASE UNCHANGED vars
    BY <1>26 DEF vars, HasCheckpoint, driveVars, reqVars
  <1> QED
    BY <1>1, <1>2, <1>3, <1>4, <1>5, <1>6, <1>7, <1>8, <1>9, <1>10, <1>11, <1>12,
       <1>13, <1>14, <1>15, <1>16, <1>17, <1>18, <1>19, <1>20, <1>21, <1>22, <1>23,
       <1>24, <1>25, <1>26 DEF Next, RequestStep, TaskStep

LEMMA InitHasCheckpoint == Init => HasCheckpoint
  BY NoRunFields DEF Init, HasCheckpoint, Unresolved, Claimed, InTask, InLoop

\* Every reachable state is well typed: whatever resumes, recoveries, reapers
\* and crashes interleave, a task that loads, runs or records a gated call has
\* a checkpoint and a call to do it for.
THEOREM TypeCorrect == Spec => []TypeOK
  <1>1. Init => TypeOK /\ HasCheckpoint
    BY InitType, InitHasCheckpoint
  <1>2. TypeOK /\ HasCheckpoint /\ [Next]_vars => (TypeOK /\ HasCheckpoint)'
    BY NextType, NextHasCheckpoint
  <1> QED BY <1>1, <1>2, PTL DEF Spec

-----------------------------------------------------------------------------
(* Orderly deployments: processes start one at a time and with no resume in *)
(* flight, and a request claims the pause it read before the next one.      *)

Orderly == StartAlone /\ PromptClaim

\* The checkpoints after each step that writes them.
LEMMA NewCheckpointFacts ==
  ASSUME TypeOK, NEW c \in Ckpt, NewCheckpoint(c)
  PROVE  /\ ck[c].status = "absent"
         /\ ck'[c].status = "awaiting_approval" /\ ck'[c].ledger = {}
         /\ \A d \in Ckpt \ {c} : ck'[d] = ck[d]
  BY DEF NewCheckpoint, TypeOK

LEMMA ClaimedCheckpointFacts ==
  ASSUME TypeOK, NEW t \in Ckpt, ck' = [ck EXCEPT ![t].status = "resolving"]
  PROVE  /\ ck'[t].status = "resolving" /\ ck'[t].ledger = ck[t].ledger
         /\ \A d \in Ckpt \ {t} : ck'[d] = ck[d]
  BY DEF TypeOK, Checkpoint

LEMMA RecordCallFacts ==
  ASSUME TypeOK, HasCheckpoint, NEW q \in Req, RecordCall(q)
  PROVE  /\ target[q] \in Ckpt /\ call[q] \in Call
         /\ ck'[target[q]].status = snap[q].status
         /\ ck[target[q]].ledger \subseteq ck'[target[q]].ledger
         /\ \A d \in Ckpt \ {target[q]} : ck'[d] = ck[d]
         /\ snap'[q] = ck'[target[q]]
         /\ \A r \in Req \ {q} : snap'[r] = snap[r]
         /\ call'[q] = call[q] + 1
         /\ \A r \in Req \ {q} : call'[r] = call[r]
  <1>1. target[q] \in Ckpt /\ call[q] \in Call
    BY DEF RecordCall, HasCheckpoint, Claimed, InTask, InLoop
  <1> DEFINE merged == [snap[q] EXCEPT !.ledger = @ \cup ck[target[q]].ledger \cup {call[q]}]
  <1>2. merged.status = snap[q].status /\ ck[target[q]].ledger \subseteq merged.ledger
    BY DEF TypeOK, Checkpoint
  <1>3. /\ snap' = [snap EXCEPT ![q] = merged]
        /\ ck' = [ck EXCEPT ![target[q]] = merged]
        /\ call' = [call EXCEPT ![q] = @ + 1]
    BY DEF RecordCall
  <1> HIDE DEF merged
  <1> QED BY <1>1, <1>2, <1>3 DEF TypeOK

LEMMA ResolveFacts ==
  ASSUME TypeOK, HasCheckpoint, NEW q \in Req, ResolveCheckpoint(q)
  PROVE  /\ target[q] \in Ckpt
         /\ ck'[target[q]].status = answer[q] /\ answer[q] \in {"approved", "rejected"}
         /\ ck'[target[q]].ledger = snap[q].ledger
         /\ \A d \in Ckpt \ {target[q]} : ck'[d] = ck[d]
  <1>1. target[q] \in Ckpt
    BY DEF ResolveCheckpoint, HasCheckpoint, Claimed, InTask, InLoop
  <1>2. answer[q] \in {"approved", "rejected"}
    BY DEF TypeOK, Answer
  <1> QED BY <1>1, <1>2 DEF ResolveCheckpoint, TypeOK, Checkpoint

LEMMA LookupFacts ==
  ASSUME TypeOK, NEW q \in Req, LookupCall(q)
  PROVE  /\ \A r \in Req : /\ snap'[r].status = snap[r].status
                           /\ snap[r].ledger \subseteq snap'[r].ledger
         /\ \/ pc' = pc /\ call'[q] = call[q] + 1 /\ \A r \in Req \ {q} : call'[r] = call[r]
            \/ pc' = [pc EXCEPT ![q] = "executing"] /\ call' = call
  BY DEF LookupCall, Goto, TypeOK, Checkpoint

LEMMA ExecuteFacts ==
  ASSUME TypeOK, HasCheckpoint, NEW q \in Req, ExecuteCall(q)
  PROVE  /\ target[q] \in Ckpt /\ call[q] \in Call
         /\ \A c \in Ckpt, k \in Call :
               c # target[q] \/ k # call[q] => effects'[c][k] = effects[c][k]
         /\ \/ /\ pc' = [pc EXCEPT ![q] = "recording"] /\ call' = call
               /\ effects[target[q]][call[q]] = 0 => effects'[target[q]][call[q]] = 1
            \/ /\ pc' = [pc EXCEPT ![q] = "calls"] /\ effects' = effects
               /\ call'[q] = call[q] + 1 /\ \A r \in Req \ {q} : call'[r] = call[r]
  <1>1. call[q] \in Call /\ target[q] \in Ckpt
    BY DEF ExecuteCall, HasCheckpoint, Claimed, InTask, InLoop
  <1>2. CASE /\ effects' = [effects EXCEPT ![target[q]][call[q]] =
                              IF @ < EffectCap THEN @ + 1 ELSE @]
             /\ pc' = [pc EXCEPT ![q] = "recording"] /\ call' = call
    BY <1>1, <1>2, BoundAssumption DEF TypeOK
  <1>3. CASE /\ call' = [call EXCEPT ![q] = call[q] + 1]
             /\ pc' = [pc EXCEPT ![q] = "calls"] /\ effects' = effects
    BY <1>1, <1>3 DEF TypeOK
  <1> QED BY <1>2, <1>3 DEF ExecuteCall, Goto

-----------------------------------------------------------------------------
(* Recovery is alone.                                                      *)

LEMMA NextRecoveryAlone ==
  Orderly /\ TypeOK /\ RecoveryAlone /\ [Next]_vars => RecoveryAlone'
  <1> SUFFICES ASSUME Orderly, TypeOK, RecoveryAlone, [Next]_vars PROVE RecoveryAlone'
    OBVIOUS
  <1>a. ASSUME NEW Q, Drop(Q), UNCHANGED mode PROVE RecoveryAlone'
    BY <1>a, DropFacts DEF RecoveryAlone
  <1>b. ASSUME NEW q \in Req, NEW l, pc[q] # "idle", l # "reopen",
               l = "reread" => pc[q] = "reopen",
               pc' = [pc EXCEPT ![q] = l], UNCHANGED <<at, mode>>
        PROVE  RecoveryAlone'
    BY <1>b DEF RecoveryAlone, TypeOK
  <1>c. ASSUME UNCHANGED <<pc, at, mode>> PROVE RecoveryAlone'
    BY <1>c DEF RecoveryAlone
  <1>1. ASSUME NEW p \in Proc, DriveRun(p) \/ EndDrive(p) \/ Reap(p) PROVE RecoveryAlone'
    BY <1>1, <1>c DEF DriveRun, EndDrive, Reap, reqVars
  <1>2. ASSUME NEW p \in Proc, NEW c \in Ckpt, PauseDrive(p, c) PROVE RecoveryAlone'
    BY <1>2, <1>c DEF PauseDrive, reqVars
  <1>3. ASSUME NEW p \in Proc, StartProcess(p) PROVE RecoveryAlone'
    BY <1>3 DEF StartProcess, Orderly, Resuming, RecoveryAlone, TypeOK, reqVars
  <1>4. ASSUME NEW p \in Proc, BeginServing(p) PROVE RecoveryAlone'
    <2>1. \A q \in Req : pc[q] \in {"reopen", "reread"} => at[q] # p
      BY <1>4 DEF BeginServing, InHandler
    <2> QED BY <1>4, <2>1 DEF BeginServing, RecoveryAlone, TypeOK, reqVars
  <1>5. ASSUME NEW p \in Proc, StopProcess(p) PROVE RecoveryAlone'
    BY <1>5 DEF StopProcess, RecoveryAlone, TypeOK, reqVars
  <1>6. ASSUME NEW p \in Proc, Crash(p) PROVE RecoveryAlone'
    <2> DEFINE Q == {q \in Req : at[q] = p}
    <2>1. Drop(Q) /\ mode' = [mode EXCEPT ![p] = "down"]
      BY <1>6 DEF Crash
    <2>2. \A q \in Req : q \in Q <=> at[q] = p
      OBVIOUS
    <2> HIDE DEF Q
    <2> QED BY <2>1, <2>2, DropFacts DEF RecoveryAlone, TypeOK
  <1>7. ASSUME NEW p \in Proc, NEW q \in Req, ListResolving(p, q) PROVE RecoveryAlone'
    BY <1>7 DEF ListResolving, Goto, RecoveryAlone, TypeOK
  <1>8. ASSUME NEW q \in Req, NEW p \in Proc, NEW a \in Answer, Receive(q, p, a)
        PROVE  RecoveryAlone'
    BY <1>8 DEF Receive, Goto, Orderly, RecoveryAlone, TypeOK
  <1>9. ASSUME NEW q \in Req, Reopen(q) \/ RecordDecision(q) \/ LaunchTask(q) \/ BeginTask(q)
        PROVE  RecoveryAlone'
    BY <1>9, <1>b DEF Reopen, RecordDecision, LaunchTask, BeginTask, Goto
  <1>10. ASSUME NEW q \in Req, Reread(q) PROVE RecoveryAlone'
    BY <1>10, <1>a, <1>b, RereadFacts DEF Reread
  <1>11. ASSUME NEW q \in Req, ClaimRun(q) PROVE RecoveryAlone'
    BY <1>11, <1>a, <1>b, ClaimRunFacts DEF ClaimRun
  <1>12. ASSUME NEW q \in Req, ClaimCheckpoint(q) PROVE RecoveryAlone'
    BY <1>12, <1>a, <1>b, ClaimCheckpointFacts DEF ClaimCheckpoint
  <1>13. ASSUME NEW q \in Req,
                \/ LoadCheckpoint(q) \/ ExecuteCall(q) \/ RecordCall(q)
                \/ ResolveCheckpoint(q) \/ \E c \in Ckpt : PauseTask(q, c)
         PROVE  RecoveryAlone'
    BY <1>13, <1>b
    DEF LoadCheckpoint, ExecuteCall, RecordCall, ResolveCheckpoint, PauseTask, Goto
  <1>14. ASSUME NEW q \in Req, LookupCall(q) PROVE RecoveryAlone'
    BY <1>14, <1>b, <1>c DEF LookupCall, Goto
  <1>15. ASSUME NEW q \in Req, FinishTask(q) \/ FailTask(q) \/ AbandonTask(q) \/ CancelTask(q)
         PROVE  RecoveryAlone'
    BY <1>15, <1>a DEF FinishTask, FailTask, AbandonTask, CancelTask
  <1>16. CASE LeaseRunsOut
    BY <1>16, <1>c DEF LeaseRunsOut
  <1>17. CASE UNCHANGED vars
    BY <1>17, <1>c DEF vars, reqVars
  <1> QED
    BY <1>1, <1>2, <1>3, <1>4, <1>5, <1>6, <1>7, <1>8, <1>9, <1>10, <1>11, <1>12,
       <1>13, <1>14, <1>15, <1>16, <1>17 DEF Next, RequestStep, TaskStep

-----------------------------------------------------------------------------
(* One resume per pause.                                                   *)

LEMMA NextOneResume ==
  TypeOK /\ RowIsFresh /\ OneResumePerPause /\ [Next]_vars => OneResumePerPause'
  <1> SUFFICES ASSUME TypeOK, RowIsFresh, OneResumePerPause, [Next]_vars
               PROVE  OneResumePerPause'
    OBVIOUS
  <1>a. ASSUME NEW Q, Drop(Q) PROVE OneResumePerPause'
    BY <1>a, DropFacts DEF OneResumePerPause, Claimed, InTask, InLoop
  <1>b. ASSUME NEW q \in Req, NEW l, pc[q] \in Claimed,
               pc' = [pc EXCEPT ![q] = l], UNCHANGED target
        PROVE  OneResumePerPause'
    BY <1>b DEF OneResumePerPause, TypeOK
  <1>c. ASSUME UNCHANGED <<pc, target>> PROVE OneResumePerPause'
    BY <1>c DEF OneResumePerPause
  <1>d. ASSUME NEW q \in Req, NEW l, l \notin Claimed, pc' = [pc EXCEPT ![q] = l],
               \A r \in Req \ {q} : target'[r] = target[r]
        PROVE  OneResumePerPause'
    BY <1>d DEF OneResumePerPause, TypeOK
  <1>1. ASSUME NEW p \in Proc,
               \/ DriveRun(p) \/ EndDrive(p) \/ Reap(p) \/ \E c \in Ckpt : PauseDrive(p, c)
               \/ StartProcess(p) \/ BeginServing(p) \/ StopProcess(p)
        PROVE  OneResumePerPause'
    BY <1>1, <1>c
    DEF DriveRun, EndDrive, Reap, PauseDrive, StartProcess, BeginServing, StopProcess, reqVars
  <1>2. ASSUME NEW p \in Proc, Crash(p) PROVE OneResumePerPause'
    BY <1>2, <1>a DEF Crash
  <1>3. ASSUME NEW p \in Proc, NEW q \in Req, ListResolving(p, q) PROVE OneResumePerPause'
    BY <1>3, <1>d DEF ListResolving, Goto, Claimed, InTask, InLoop
  <1>4. ASSUME NEW q \in Req, NEW p \in Proc, NEW a \in Answer, Receive(q, p, a)
        PROVE  OneResumePerPause'
    BY <1>4, <1>d DEF Receive, Goto, Claimed, InTask, InLoop, TypeOK
  <1>5. ASSUME NEW q \in Req, Reopen(q) PROVE OneResumePerPause'
    BY <1>5, <1>d DEF Reopen, Goto, Claimed, InTask, InLoop
  <1>6. ASSUME NEW q \in Req, Reread(q) PROVE OneResumePerPause'
    <2>1. "validated" \notin Claimed
      BY DEF Claimed, InTask, InLoop
    <2> QED BY <1>6, <2>1, <1>a, <1>d, RereadFacts DEF TypeOK
  <1>7. ASSUME NEW q \in Req, ClaimRun(q) PROVE OneResumePerPause'
    <2>1. pc[q] = "validated"
      BY <1>7 DEF ClaimRun
    <2>2. CASE Drop({q})
      BY <2>2, <1>a
    <2>3. CASE /\ run.status = "AWAITING_APPROVAL"
               /\ pc' = [pc EXCEPT ![q] = "claimed"] /\ UNCHANGED target
      BY <2>1, <2>3 DEF RowIsFresh, OneResumePerPause, TypeOK
    <2> QED BY <1>7, <2>2, <2>3, ClaimRunFacts
  <1>8. ASSUME NEW q \in Req, RecordDecision(q) \/ LaunchTask(q) \/ BeginTask(q)
        PROVE  OneResumePerPause'
    BY <1>8, <1>b DEF RecordDecision, LaunchTask, BeginTask, Goto, Claimed, InTask, InLoop
  <1>9. ASSUME NEW q \in Req, ClaimCheckpoint(q) PROVE OneResumePerPause'
    <2>1. pc[q] \in Claimed
      BY <1>9 DEF ClaimCheckpoint, Claimed, InTask, InLoop
    <2> QED BY <1>9, <2>1, <1>a, <1>b, ClaimCheckpointFacts
  <1>10. ASSUME NEW q \in Req,
                \/ LoadCheckpoint(q) \/ ExecuteCall(q) \/ RecordCall(q)
                \/ ResolveCheckpoint(q) \/ \E c \in Ckpt : PauseTask(q, c)
         PROVE  OneResumePerPause'
    BY <1>10, <1>b DEF LoadCheckpoint, ExecuteCall, RecordCall, ResolveCheckpoint,
                       PauseTask, Goto, Claimed, InTask, InLoop
  <1>11. ASSUME NEW q \in Req, LookupCall(q) PROVE OneResumePerPause'
    BY <1>11, <1>b, <1>c DEF LookupCall, Goto, Claimed, InTask, InLoop
  <1>12. ASSUME NEW q \in Req, FinishTask(q) \/ FailTask(q) \/ AbandonTask(q) \/ CancelTask(q)
         PROVE  OneResumePerPause'
    BY <1>12, <1>a DEF FinishTask, FailTask, AbandonTask, CancelTask
  <1>13. CASE LeaseRunsOut
    BY <1>13, <1>c DEF LeaseRunsOut
  <1>14. CASE UNCHANGED vars
    BY <1>14, <1>c DEF vars, reqVars
  <1> QED
    BY <1>1, <1>2, <1>3, <1>4, <1>5, <1>6, <1>7, <1>8, <1>9, <1>10, <1>11, <1>12,
       <1>13, <1>14 DEF Next, RequestStep, TaskStep

-----------------------------------------------------------------------------
(* The calls ahead of a resume have not run.                               *)

LEMMA NextCallsAhead ==
  TypeOK /\ HasCheckpoint /\ OwnCheckpoint /\ OneResumePerPause /\ CallsAhead
    /\ [Next]_vars => CallsAhead'
  <1> SUFFICES ASSUME TypeOK, HasCheckpoint, OwnCheckpoint, OneResumePerPause, CallsAhead,
                      [Next]_vars
               PROVE  CallsAhead'
    OBVIOUS
  <1> DEFINE Working == {"loading", "calls", "executing", "recording"}
  <1>a. ASSUME NEW Q, Drop(Q), UNCHANGED <<ck, effects>> PROVE CallsAhead'
    BY <1>a, DropFacts DEF CallsAhead, Ahead
  <1>b. ASSUME NEW q \in Req, NEW l, l \notin Working, pc' = [pc EXCEPT ![q] = l],
               UNCHANGED <<ck, effects, call>>, \A r \in Req \ {q} : target'[r] = target[r]
        PROVE  CallsAhead'
    BY <1>b DEF CallsAhead, Ahead, TypeOK
  <1>c. ASSUME UNCHANGED <<ck, effects, pc, target, call>> PROVE CallsAhead'
    BY <1>c DEF CallsAhead, Ahead
  <1>d. ASSUME NEW c \in Ckpt, NewCheckpoint(c), UNCHANGED <<effects, target, call>>,
               \A q \in Req : pc'[q] \in Working => pc'[q] = pc[q]
        PROVE  CallsAhead'
    BY <1>d, NewCheckpointFacts DEF CallsAhead, Ahead
  <1>1. ASSUME NEW p \in Proc,
               \/ DriveRun(p) \/ EndDrive(p) \/ Reap(p)
               \/ StartProcess(p) \/ BeginServing(p) \/ StopProcess(p)
        PROVE  CallsAhead'
    BY <1>1, <1>c DEF DriveRun, EndDrive, Reap, StartProcess, BeginServing, StopProcess,
                      reqVars, history
  <1>2. ASSUME NEW p \in Proc, NEW c \in Ckpt, PauseDrive(p, c) PROVE CallsAhead'
    BY <1>2, <1>d DEF PauseDrive, reqVars, history
  <1>3. ASSUME NEW p \in Proc, Crash(p) PROVE CallsAhead'
    BY <1>3, <1>a DEF Crash, history
  <1>4. ASSUME NEW p \in Proc, NEW q \in Req, ListResolving(p, q) PROVE CallsAhead'
    BY <1>4, <1>b DEF ListResolving, Goto, history
  <1>5. ASSUME NEW q \in Req, NEW p \in Proc, NEW a \in Answer, Receive(q, p, a)
        PROVE  CallsAhead'
    BY <1>5, <1>b DEF Receive, Goto, history, TypeOK
  <1>6. ASSUME NEW q \in Req, Reopen(q) \/ RecordDecision(q) \/ LaunchTask(q) \/ BeginTask(q)
        PROVE  CallsAhead'
    BY <1>6, <1>b DEF Reopen, RecordDecision, LaunchTask, BeginTask, Goto, history
  <1>7. ASSUME NEW q \in Req, Reread(q) PROVE CallsAhead'
    <2>1. UNCHANGED <<ck, effects>>
      BY <1>7 DEF Reread, history
    <2> QED BY <1>7, <2>1, <1>a, <1>b, RereadFacts DEF TypeOK
  <1>8. ASSUME NEW q \in Req, ClaimRun(q) PROVE CallsAhead'
    <2>1. UNCHANGED <<ck, effects>>
      BY <1>8 DEF ClaimRun
    <2> QED BY <1>8, <2>1, <1>a, <1>b, ClaimRunFacts
  <1>9. ASSUME NEW q \in Req, ClaimCheckpoint(q) PROVE CallsAhead'
    <2>1. pc[q] = "ready" /\ UNCHANGED effects
      BY <1>9 DEF ClaimCheckpoint, history
    <2>2. CASE Drop({q}) /\ UNCHANGED ck
      BY <2>1, <2>2, <1>a
    <2>3. CASE /\ ck' = [ck EXCEPT ![target[q]].status = "resolving"]
               /\ pc' = [pc EXCEPT ![q] = "loading"] /\ UNCHANGED <<target, call>>
      <3>1. target[q] \in Ckpt
        BY <2>1 DEF HasCheckpoint, Claimed, InTask, InLoop
      <3>2. \A k \in Call : effects[target[q]][k] = 0
        BY <2>1, <3>1 DEF OwnCheckpoint, Own, CallsAhead
      <3> QED BY <2>1, <2>3, <3>1, <3>2, ClaimedCheckpointFacts DEF CallsAhead, Ahead, TypeOK
    <2> QED BY <1>9, <2>2, <2>3, ClaimCheckpointFacts
  <1>10. ASSUME NEW q \in Req, LoadCheckpoint(q) PROVE CallsAhead'
    BY <1>10 DEF LoadCheckpoint, Goto, CallsAhead, Ahead, TypeOK, history
  <1>11. ASSUME NEW q \in Req, LookupCall(q) PROVE CallsAhead'
    <2>1. pc[q] = "calls" /\ call[q] \in Call /\ UNCHANGED <<ck, effects, target>>
      BY <1>11 DEF LookupCall, history
    <2>2. ASSUME NEW r \in Req \ {q} PROVE Ahead(r)'
      BY <1>11, <2>1, <2>2, LookupFacts DEF CallsAhead, Ahead, TypeOK
    <2>3. \A k \in Call : k >= call[q] => effects[target[q]][k] = 0
      BY <2>1 DEF CallsAhead, Ahead
    <2>4. \A k \in Call : k >= call[q] + 1 => k >= call[q]
      BY <2>1 DEF Call
    <2>5. Ahead(q)'
      BY <1>11, <2>1, <2>3, <2>4, LookupFacts DEF Ahead, TypeOK
    <2> QED BY <2>1, <2>2, <2>5 DEF CallsAhead
  <1>12. ASSUME NEW q \in Req, ExecuteCall(q) PROVE CallsAhead'
    <2>1. pc[q] = "executing" /\ UNCHANGED <<ck, target>>
      BY <1>12 DEF ExecuteCall
    <2>2. target[q] \in Ckpt /\ call[q] \in Call /\ ck[target[q]].status = "resolving"
      BY <1>12, <2>1, ExecuteFacts DEF OwnCheckpoint, Own
    <2>3. \A r \in Req \ {q} : pc[r] \in Working => target[r] # target[q]
      BY <2>1 DEF OneResumePerPause, Claimed, InTask, InLoop
    <2>4. \A r \in Req : pc[r] \in Working => target[r] \in Ckpt
      BY DEF HasCheckpoint, Claimed, InTask, InLoop
    <2>5. ASSUME NEW r \in Req \ {q} PROVE Ahead(r)'
      BY <1>12, <2>1, <2>2, <2>3, <2>4, <2>5, ExecuteFacts DEF CallsAhead, Ahead, TypeOK
    <2>6. \A k \in Call : k >= call[q] => effects[target[q]][k] = 0
      BY <2>1 DEF CallsAhead, Ahead
    <2>7. \A k \in Call :
             /\ k >= call[q] + 1 => k >= call[q]
             /\ k > call[q] => k >= call[q] /\ k # call[q]
      BY <2>2 DEF Call
    <2>8. Ahead(q)'
      <3>1. CASE pc'[q] = "recording" /\ call'[q] = call[q]
        <4>1. ASSUME NEW k \in Call, k > call[q] PROVE effects'[target[q]][k] = 0
          <5>1. k # call[q] /\ effects[target[q]][k] = 0
            BY <4>1, <2>6, <2>7
          <5>2. \A d \in Ckpt, j \in Call :
                   d # target[q] \/ j # call[q] => effects'[d][j] = effects[d][j]
            BY <1>12, ExecuteFacts
          <5> QED BY <2>2, <5>1, <5>2
        <4> QED BY <2>1, <3>1, <4>1 DEF Ahead
      <3>2. CASE pc'[q] = "calls" /\ effects' = effects /\ call'[q] = call[q] + 1
        <4>1. ASSUME NEW k \in Call, k >= call'[q] PROVE effects'[target'[q]][k] = 0
          BY <2>1, <3>2, <4>1, <2>6, <2>7
        <4> QED BY <3>2, <4>1 DEF Ahead
      <3> QED BY <1>12, <3>1, <3>2, ExecuteFacts DEF TypeOK
    <2>9. ASSUME NEW c \in Ckpt, ck'[c].status \in {"absent", "awaiting_approval"}, NEW k \in Call
          PROVE  effects'[c][k] = 0
      BY <1>12, <2>1, <2>2, <2>9, ExecuteFacts DEF CallsAhead
    <2> QED BY <2>5, <2>8, <2>9 DEF CallsAhead
  <1>13. ASSUME NEW q \in Req, RecordCall(q) PROVE CallsAhead'
    <2>1. /\ pc[q] = "recording" /\ pc' = [pc EXCEPT ![q] = "calls"]
          /\ UNCHANGED <<effects, target>>
      BY <1>13 DEF RecordCall, Goto, history
    <2>2. target[q] \in Ckpt /\ call[q] \in Call /\ ck'[target[q]].status = "resolving"
      BY <1>13, <2>1, RecordCallFacts DEF OwnCheckpoint, Own
    <2>3. ASSUME NEW r \in Req \ {q} PROVE Ahead(r)'
      BY <1>13, <2>1, <2>3, RecordCallFacts DEF CallsAhead, Ahead, TypeOK
    <2>4. \A k \in Call : k > call[q] => effects[target[q]][k] = 0
      BY <2>1 DEF CallsAhead, Ahead
    <2>5. \A k \in Call : k >= call[q] + 1 => k > call[q]
      BY <2>2 DEF Call
    <2>6. Ahead(q)'
      BY <1>13, <2>1, <2>4, <2>5, RecordCallFacts DEF Ahead, TypeOK
    <2> QED BY <1>13, <2>1, <2>2, <2>3, <2>6, RecordCallFacts DEF CallsAhead
  <1>14. ASSUME NEW q \in Req, ResolveCheckpoint(q) PROVE CallsAhead'
    <2>1. pc' = [pc EXCEPT ![q] = "continuing"] /\ UNCHANGED <<effects, target, call>>
      BY <1>14 DEF ResolveCheckpoint, Goto, history
    <2> QED BY <1>14, <2>1, ResolveFacts DEF CallsAhead, Ahead, TypeOK
  <1>15. ASSUME NEW q \in Req, NEW c \in Ckpt, PauseTask(q, c) PROVE CallsAhead'
    <2>1. /\ NewCheckpoint(c) /\ pc' = [pc EXCEPT ![q] = "pausing"]
          /\ UNCHANGED <<effects, target, call>>
      BY <1>15 DEF PauseTask, Goto, history
    <2> QED BY <2>1, <1>d DEF TypeOK
  <1>16. ASSUME NEW q \in Req, FinishTask(q) \/ FailTask(q) \/ AbandonTask(q) \/ CancelTask(q)
         PROVE  CallsAhead'
    BY <1>16, <1>a DEF FinishTask, FailTask, AbandonTask, CancelTask, history
  <1>17. CASE LeaseRunsOut
    BY <1>17, <1>c DEF LeaseRunsOut, history
  <1>18. CASE UNCHANGED vars
    BY <1>18, <1>c DEF vars, reqVars, history
  <1> QED
    BY <1>1, <1>2, <1>3, <1>4, <1>5, <1>6, <1>7, <1>8, <1>9, <1>10, <1>11, <1>12,
       <1>13, <1>14, <1>15, <1>16, <1>17, <1>18 DEF Next, RequestStep, TaskStep

\* Only an execution changes the history of effects, and it finds its own call
\* not yet executed.
LEMMA NextOnce ==
  TypeOK /\ HasCheckpoint /\ CallsAhead /\ AtMostOnceEffect /\ [Next]_vars
    => AtMostOnceEffect'
  <1> SUFFICES ASSUME TypeOK, HasCheckpoint, CallsAhead, AtMostOnceEffect, [Next]_vars
               PROVE  AtMostOnceEffect'
    OBVIOUS
  <1>1. ASSUME NEW q \in Req, ExecuteCall(q) PROVE AtMostOnceEffect'
    <2>1. pc[q] = "executing" /\ target[q] \in Ckpt /\ call[q] \in Call
      BY <1>1, ExecuteFacts DEF ExecuteCall
    <2>2. effects[target[q]][call[q]] = 0
      BY <2>1 DEF CallsAhead, Ahead, Call
    <2> QED BY <1>1, <2>1, <2>2, ExecuteFacts DEF AtMostOnceEffect
  <1>2. CASE ~\E q \in Req : ExecuteCall(q)
    <2>1. UNCHANGED effects
      BY <1>2 DEF Next, RequestStep, TaskStep, vars, history,
        DriveRun, PauseDrive, EndDrive, Reap, StartProcess, BeginServing, StopProcess, Crash,
        ListResolving, Receive, Reopen, Reread, ClaimRun, RecordDecision, LaunchTask,
        BeginTask, ClaimCheckpoint, LoadCheckpoint, LookupCall, RecordCall,
        ResolveCheckpoint, PauseTask, FinishTask, FailTask, AbandonTask, CancelTask,
        LeaseRunsOut
    <2> QED BY <2>1 DEF AtMostOnceEffect
  <1> QED BY <1>1, <1>2

-----------------------------------------------------------------------------
(* A resume works on a checkpoint of its own.                              *)

LEMMA NextOwnCheckpoint ==
  TypeOK /\ HasCheckpoint /\ RecoveryAlone /\ RowIsFresh /\ OneResumePerPause
    /\ OwnCheckpoint /\ [Next]_vars => OwnCheckpoint'
  <1> SUFFICES ASSUME TypeOK, HasCheckpoint, RecoveryAlone, RowIsFresh, OneResumePerPause,
                      OwnCheckpoint, [Next]_vars, NEW r \in Req
               PROVE  Own(r)'
    BY DEF OwnCheckpoint
  <1>0. Own(r)
    BY DEF OwnCheckpoint
  <1>00. /\ pc[r] \in Claimed => target[r] \in Ckpt
         /\ pc[r] = "reopen" => copy[r].ckpt \in Ckpt
    BY DEF HasCheckpoint
  <1> USE DEF Claimed, InTask, InLoop
  <1>a. ASSUME NEW Q, Drop(Q), UNCHANGED ck PROVE Own(r)'
    BY <1>0, <1>a, DropFacts DEF Own
  <1>b. ASSUME UNCHANGED <<ck, snap, target>>, pc'[r] = pc[r], copy'[r].ckpt = copy[r].ckpt
        PROVE  Own(r)'
    BY <1>0, <1>b DEF Own
  <1>c. ASSUME NEW c \in Ckpt, NewCheckpoint(c), UNCHANGED <<snap, target>>,
               \/ pc'[r] = pc[r] /\ copy'[r] = copy[r]
               \/ pc'[r] = "pausing"
        PROVE  Own(r)'
    BY <1>0, <1>00, <1>c, NewCheckpointFacts DEF Own
  \* A task that writes its checkpoint writes that of no other request.
  <1>d. ASSUME NEW q \in Req \ {r}, pc[q] \in InTask,
               \A d \in Ckpt \ {target[q]} : ck'[d] = ck[d],
               pc'[r] = pc[r], target'[r] = target[r], copy'[r] = copy[r], snap'[r] = snap[r]
        PROVE  Own(r)'
    <2>1. pc[r] \in Claimed => target[r] # target[q]
      BY <1>d DEF OneResumePerPause
    <2>2. pc[r] # "reopen"
      BY <1>d DEF RecoveryAlone
    <2> QED BY <1>0, <1>00, <1>d, <2>1, <2>2 DEF Own
  <1>1. ASSUME NEW p \in Proc,
               \/ DriveRun(p) \/ EndDrive(p) \/ Reap(p)
               \/ StartProcess(p) \/ BeginServing(p) \/ StopProcess(p)
        PROVE  Own(r)'
    BY <1>1, <1>b DEF DriveRun, EndDrive, Reap, StartProcess, BeginServing, StopProcess, reqVars
  <1>2. ASSUME NEW p \in Proc, NEW c \in Ckpt, PauseDrive(p, c) PROVE Own(r)'
    BY <1>2, <1>c DEF PauseDrive, reqVars
  <1>3. ASSUME NEW p \in Proc, Crash(p) PROVE Own(r)'
    BY <1>3, <1>a DEF Crash
  <1>4. ASSUME NEW p \in Proc, NEW q \in Req, ListResolving(p, q) PROVE Own(r)'
    <2>1. ck[run.ckpt].status = "awaiting_approval"
      BY <1>4 DEF ListResolving, RowIsFresh, Unresolved
    <2> QED BY <1>0, <1>4, <2>1 DEF ListResolving, Goto, Own, TypeOK
  <1>5. ASSUME NEW q \in Req, NEW p \in Proc, NEW a \in Answer, Receive(q, p, a) PROVE Own(r)'
    BY <1>0, <1>5 DEF Receive, Goto, Own, TypeOK
  <1>6. ASSUME NEW q \in Req, Reopen(q) \/ LaunchTask(q) \/ BeginTask(q) PROVE Own(r)'
    BY <1>0, <1>6 DEF Reopen, LaunchTask, BeginTask, Goto, Own, TypeOK
  <1>7. ASSUME NEW q \in Req, Reread(q) PROVE Own(r)'
    <2>1. UNCHANGED ck
      BY <1>7 DEF Reread
    <2>2. CASE Drop({q})
      BY <2>1, <2>2, <1>a
    <2>3. CASE ~Drop({q})
      BY <1>0, <1>7, <2>1, <2>3, RereadFacts DEF Own, TypeOK
    <2> QED BY <2>2, <2>3
  <1>8. ASSUME NEW q \in Req, ClaimRun(q) PROVE Own(r)'
    <2>1. UNCHANGED ck /\ pc[q] = "validated"
      BY <1>8 DEF ClaimRun
    <2>2. CASE Drop({q})
      BY <2>1, <2>2, <1>a
    <2>3. CASE ~Drop({q})
      BY <1>0, <1>8, <2>1, <2>3, ClaimRunFacts DEF Own, TypeOK, RowIsFresh, Unresolved
    <2> QED BY <2>2, <2>3
  <1>9. ASSUME NEW q \in Req, RecordDecision(q) PROVE Own(r)'
    <2>1. /\ pc[q] = "claimed" /\ pc' = [pc EXCEPT ![q] = "decided"]
          /\ UNCHANGED <<ck, target, snap>>
      BY <1>9 DEF RecordDecision, Goto
    <2> QED BY <1>0, <1>9, <2>1, RecordDecisionFacts DEF Own, TypeOK
  <1>10. ASSUME NEW q \in Req, ClaimCheckpoint(q) PROVE Own(r)'
    <2>1. pc[q] = "ready" /\ target[q] \in Ckpt
      BY <1>10 DEF ClaimCheckpoint, HasCheckpoint
    <2>2. CASE Drop({q}) /\ UNCHANGED ck
      BY <2>2, <1>a
    <2>3. CASE /\ ck' = [ck EXCEPT ![target[q]].status = "resolving"]
               /\ pc' = [pc EXCEPT ![q] = "loading"] /\ UNCHANGED <<target, copy, snap>>
      <3>1. CASE r = q
        BY <2>1, <2>3, <3>1, ClaimedCheckpointFacts DEF Own, TypeOK
      <3>2. CASE r # q
        BY <1>d, <2>1, <2>3, <3>2, ClaimedCheckpointFacts DEF TypeOK
      <3> QED BY <3>1, <3>2
    <2> QED BY <1>10, <2>2, <2>3, ClaimCheckpointFacts
  <1>11. ASSUME NEW q \in Req, LoadCheckpoint(q) PROVE Own(r)'
    BY <1>0, <1>11 DEF LoadCheckpoint, Goto, Own, TypeOK
  <1>12. ASSUME NEW q \in Req, LookupCall(q) PROVE Own(r)'
    <2>1. pc[q] = "calls" /\ UNCHANGED <<ck, target, copy>>
      BY <1>12 DEF LookupCall
    <2> QED BY <1>0, <1>12, <2>1, LookupFacts DEF Own, TypeOK
  <1>13. ASSUME NEW q \in Req, ExecuteCall(q) PROVE Own(r)'
    BY <1>0, <1>13 DEF ExecuteCall, Goto, Own, TypeOK
  <1>14. ASSUME NEW q \in Req, RecordCall(q) PROVE Own(r)'
    <2>1. /\ pc[q] = "recording" /\ pc' = [pc EXCEPT ![q] = "calls"]
          /\ UNCHANGED <<target, copy>>
      BY <1>14 DEF RecordCall, Goto
    <2>2. CASE r = q
      BY <1>0, <1>14, <2>1, <2>2, RecordCallFacts DEF Own, TypeOK
    <2>3. CASE r # q
      BY <1>d, <1>14, <2>1, <2>3, RecordCallFacts DEF TypeOK
    <2> QED BY <2>2, <2>3
  <1>15. ASSUME NEW q \in Req, ResolveCheckpoint(q) PROVE Own(r)'
    <2>1. /\ pc[q] = "calls" /\ pc' = [pc EXCEPT ![q] = "continuing"]
          /\ UNCHANGED <<target, copy, snap>>
      BY <1>15 DEF ResolveCheckpoint, Goto
    <2>2. CASE r = q
      BY <2>1, <2>2 DEF Own, TypeOK
    <2>3. CASE r # q
      BY <1>d, <1>15, <2>1, <2>3, ResolveFacts DEF TypeOK
    <2> QED BY <2>2, <2>3
  <1>16. ASSUME NEW q \in Req, NEW c \in Ckpt, PauseTask(q, c) PROVE Own(r)'
    <2>1. /\ NewCheckpoint(c) /\ pc' = [pc EXCEPT ![q] = "pausing"]
          /\ UNCHANGED <<target, snap>>
      BY <1>16 DEF PauseTask, Goto
    <2> QED BY <1>16, <2>1, <1>c, PauseTaskFacts DEF TypeOK
  <1>17. ASSUME NEW q \in Req, FinishTask(q) \/ FailTask(q) \/ AbandonTask(q) \/ CancelTask(q)
         PROVE  Own(r)'
    BY <1>17, <1>a DEF FinishTask, FailTask, AbandonTask, CancelTask
  <1>18. CASE LeaseRunsOut
    BY <1>18, <1>b, OutdatedFacts DEF LeaseRunsOut, TypeOK
  <1>19. CASE UNCHANGED vars
    BY <1>19, <1>b DEF vars, reqVars
  <1> QED
    BY <1>1, <1>2, <1>3, <1>4, <1>5, <1>6, <1>7, <1>8, <1>9, <1>10, <1>11, <1>12,
       <1>13, <1>14, <1>15, <1>16, <1>17, <1>18, <1>19 DEF Next, RequestStep, TaskStep

-----------------------------------------------------------------------------
(* How the checkpoint table changes.                                       *)

\* A checkpoint is created, or moved on by the task that claimed it.
Created(d) ==
    /\ ck[d].status = "absent"
    /\ ck'[d].status = "awaiting_approval" /\ ck'[d].ledger = {}
Worked(d) ==
    /\ \E q \in Req : pc[q] \in InTask /\ target[q] = d
    /\ ck[d].status \in {"awaiting_approval", "resolving"}
    /\ ck'[d].status \in {"resolving", "approved", "rejected"}
    /\ ck[d].ledger \subseteq ck'[d].ledger

LEMMA CheckpointStep ==
  ASSUME TypeOK, HasCheckpoint, OwnCheckpoint, [Next]_vars, NEW d \in Ckpt
  PROVE  ck'[d] = ck[d] \/ Created(d) \/ Worked(d)
  <1>1. ASSUME NEW c \in Ckpt, NewCheckpoint(c) PROVE ck'[d] = ck[d] \/ Created(d)
    BY <1>1, NewCheckpointFacts DEF Created
  <1>2. ASSUME NEW q \in Req, ClaimCheckpoint(q) PROVE ck'[d] = ck[d] \/ Worked(d)
    <2>1. pc[q] = "ready" /\ target[q] \in Ckpt
      BY <1>2 DEF ClaimCheckpoint, HasCheckpoint, Claimed, InTask, InLoop
    <2>2. CASE UNCHANGED ck
      BY <2>2
    <2>3. CASE /\ ck[target[q]].status \in {"awaiting_approval", "resolving"}
               /\ ck' = [ck EXCEPT ![target[q]].status = "resolving"]
      BY <2>1, <2>3, ClaimedCheckpointFacts DEF Worked, InTask, InLoop
    <2> QED BY <1>2, <2>2, <2>3, ClaimCheckpointFacts
  <1>3. ASSUME NEW q \in Req, RecordCall(q) PROVE ck'[d] = ck[d] \/ Worked(d)
    <2>1. /\ pc[q] = "recording"
          /\ ck[target[q]].status = "resolving" /\ snap[q].status = "resolving"
      BY <1>3 DEF RecordCall, OwnCheckpoint, Own
    <2> QED BY <1>3, <2>1, RecordCallFacts DEF Worked, InTask, InLoop
  <1>4. ASSUME NEW q \in Req, ResolveCheckpoint(q) PROVE ck'[d] = ck[d] \/ Worked(d)
    <2>1. /\ pc[q] = "calls" /\ ck[target[q]].status = "resolving"
          /\ ck[target[q]].ledger \subseteq snap[q].ledger
      BY <1>4 DEF ResolveCheckpoint, OwnCheckpoint, Own
    <2> QED BY <1>4, <2>1, ResolveFacts DEF Worked, InTask, InLoop
  <1>5. ASSUME NEW c \in Ckpt,
               \/ \E p \in Proc : PauseDrive(p, c)
               \/ \E q \in Req : PauseTask(q, c)
        PROVE  ck'[d] = ck[d] \/ Created(d)
    BY <1>1, <1>5 DEF PauseDrive, PauseTask
  <1>6. ASSUME NEW p \in Proc,
               \/ DriveRun(p) \/ EndDrive(p) \/ Reap(p)
               \/ StartProcess(p) \/ BeginServing(p) \/ StopProcess(p) \/ Crash(p)
        PROVE  UNCHANGED ck
    <2>1. DriveRun(p) \/ Reap(p) \/ StartProcess(p) => UNCHANGED ck
      BY DEF DriveRun, Reap, StartProcess
    <2>2. EndDrive(p) \/ BeginServing(p) \/ StopProcess(p) => UNCHANGED ck
      BY Zenon DEF EndDrive, BeginServing, StopProcess
    <2>3. Crash(p) => UNCHANGED ck
      BY DEF Crash
    <2> QED BY <1>6, <2>1, <2>2, <2>3
  <1>9. ASSUME NEW q \in Req, NEW p \in Proc,
               ListResolving(p, q) \/ \E a \in Answer : Receive(q, p, a)
        PROVE  UNCHANGED ck
    BY <1>9 DEF ListResolving, Receive
  <1>7. ASSUME NEW q \in Req,
               \/ RequestStep(q) \/ BeginTask(q) \/ LoadCheckpoint(q) \/ LookupCall(q)
               \/ ExecuteCall(q) \/ FinishTask(q) \/ FailTask(q) \/ AbandonTask(q)
               \/ CancelTask(q)
        PROVE  UNCHANGED ck
    BY <1>7 DEF RequestStep, Reopen, Reread, ClaimRun, RecordDecision, LaunchTask, BeginTask,
                LoadCheckpoint, LookupCall, ExecuteCall, FinishTask, FailTask, AbandonTask,
                CancelTask
  <1>8. CASE LeaseRunsOut \/ UNCHANGED vars
    BY <1>8 DEF LeaseRunsOut, vars
  <1> QED
    BY <1>2, <1>3, <1>4, <1>5, <1>6, <1>7, <1>8, <1>9 DEF Next, TaskStep

-----------------------------------------------------------------------------
(* A row that can be claimed points to an untouched checkpoint.            *)

LEMMA NextRowIsFresh ==
  Orderly /\ TypeOK /\ HasCheckpoint /\ RecoveryAlone /\ MakerOnly /\ RowIsFresh
    /\ OwnCheckpoint /\ OneResumePerPause /\ [Next]_vars => RowIsFresh'
  <1> SUFFICES ASSUME Orderly, TypeOK, HasCheckpoint, RecoveryAlone, MakerOnly, RowIsFresh,
                      OwnCheckpoint, OneResumePerPause, [Next]_vars
               PROVE  RowIsFresh'
    OBVIOUS
  <1> USE DEF Unresolved, InTaskOrWaiting, Claimed, InTask, InLoop
  \* What the steps that keep the row's checkpoint let a request do.
  <1> DEFINE Holds(q) == /\ target'[q] = target[q]
                         /\ pc'[q] = pc[q] /\ copy'[q].ckpt = copy[q].ckpt
             Advances(q) == /\ target'[q] = target[q]
                            /\ pc[q] \in InTaskOrWaiting /\ pc'[q] \in InTaskOrWaiting
             Stays == run'.status = run.status /\ run'.ckpt = run.ckpt
  <1>0. run.status \in Unresolved => run.ckpt \in Ckpt /\ ck'[run.ckpt] = ck[run.ckpt]
    <2> SUFFICES ASSUME run.status \in Unresolved
                 PROVE  run.ckpt \in Ckpt /\ ck'[run.ckpt] = ck[run.ckpt]
      OBVIOUS
    <2>1. run.ckpt \in Ckpt
      BY DEF HasCheckpoint
    <2>2. ~Created(run.ckpt) /\ ~Worked(run.ckpt)
      BY DEF RowIsFresh, Created, Worked
    <2> QED BY <2>1, <2>2, CheckpointStep
  <1>a. ASSUME run'.status \notin Unresolved PROVE RowIsFresh'
    BY <1>a DEF RowIsFresh
  <1>b. ASSUME Stays,
               \A q \in Req : pc'[q] \in {"idle", "reopen"} \/ Holds(q) \/ Advances(q)
        PROVE  RowIsFresh'
    BY <1>0, <1>b DEF RowIsFresh
  <1>c. ASSUME NEW Q, Drop(Q), UNCHANGED run PROVE RowIsFresh'
    <2>1. \A q \in Req : pc'[q] = "idle" \/ Holds(q)
      BY <1>c, DropFacts
    <2> QED BY <1>b, <1>c, <2>1
  \* The announcement of a new pause.
  <1>d. ASSUME Announceable, ck'[run'.ckpt].status = "awaiting_approval",
               \A q \in Req : target[q] # run'.ckpt,
               \A q \in Req : pc'[q] = "idle" \/ Holds(q)
        PROVE  RowIsFresh'
    <2>1. \A q \in Req : pc[q] # "validated"
      BY <1>d DEF Announceable, Orderly
    <2> QED BY <1>d, <2>1 DEF RowIsFresh
  <1>1. ASSUME NEW p \in Proc, DriveRun(p) PROVE RowIsFresh'
    BY <1>1, <1>a, DriveRunFacts
  <1>2. ASSUME NEW p \in Proc, NEW c \in Ckpt, PauseDrive(p, c) PROVE RowIsFresh'
    BY <1>2, <1>b DEF PauseDrive, reqVars
  <1>3. ASSUME NEW p \in Proc, EndDrive(p) PROVE RowIsFresh'
    <2>1. UNCHANGED <<ck, reqVars>>
      BY <1>3 DEF EndDrive
    <2>2. CASE run'.status \in {"SUCCEEDED", "FAILED"}
      BY <1>a, <2>2
    <2>3. CASE Announceable /\ draft[p].status = "AWAITING_APPROVAL"
      <3>1. Unannounced(draft[p].ckpt) /\ run'.ckpt = draft[p].ckpt
        BY <1>3, <2>3, EndDriveFacts DEF MakerOnly, DraftIsSecret
      <3>2. ck'[run'.ckpt].status = "awaiting_approval" /\ \A q \in Req : target[q] # run'.ckpt
        BY <2>1, <3>1 DEF Unannounced
      <3>3. \A q \in Req : Holds(q)
        BY <2>1 DEF reqVars
      <3> QED BY <1>d, <2>3, <3>2, <3>3
    <2> QED BY <1>3, <2>2, <2>3, EndDriveFacts
  <1>4. ASSUME NEW p \in Proc, Reap(p) \/ StartProcess(p) PROVE RowIsFresh'
    <2>1. run' = Requeued /\ UNCHANGED reqVars
      BY <1>4 DEF Reap, StartProcess, SaveRun
    <2>2. \A q \in Req : Holds(q)
      BY <2>1 DEF reqVars
    <2> QED BY <2>1, <2>2, <1>a, <1>b, RequeuedFacts
  <1>5. ASSUME NEW p \in Proc, BeginServing(p) \/ StopProcess(p) PROVE RowIsFresh'
    BY <1>5, <1>b DEF BeginServing, StopProcess, reqVars
  <1>6. ASSUME NEW p \in Proc, Crash(p) PROVE RowIsFresh'
    BY <1>6, <1>c DEF Crash
  <1>7. ASSUME NEW p \in Proc, NEW q \in Req, ListResolving(p, q) PROVE RowIsFresh'
    BY <1>7, <1>b DEF ListResolving, Goto, TypeOK
  <1>8. ASSUME NEW q \in Req, NEW p \in Proc, NEW a \in Answer, Receive(q, p, a)
        PROVE  RowIsFresh'
    BY <1>8 DEF Receive, Goto, RowIsFresh, TypeOK
  <1>9. ASSUME NEW q \in Req, Reopen(q) PROVE RowIsFresh'
    <2>1. pc[q] = "reopen" /\ pc' = [pc EXCEPT ![q] = "reread"] /\ UNCHANGED ck
      BY <1>9 DEF Reopen, Goto
    <2>2. ck'[run'.ckpt].status = "awaiting_approval"
      BY <1>9, <2>1, ReopenFacts DEF OwnCheckpoint, Own
    <2>3. \A r \in Req : pc'[r] \in {"idle", "reread"}
      BY <2>1 DEF RecoveryAlone, TypeOK
    <2> QED BY <2>2, <2>3 DEF RowIsFresh
  <1>10. ASSUME NEW q \in Req, Reread(q) PROVE RowIsFresh'
    <2>1. UNCHANGED <<run, ck>>
      BY <1>10 DEF Reread
    <2>2. CASE Drop({q})
      BY <2>1, <2>2, <1>c
    <2>3. CASE ~Drop({q})
      BY <1>10, <2>1, <2>3, RereadFacts DEF RowIsFresh, TypeOK
    <2> QED BY <2>2, <2>3
  <1>11. ASSUME NEW q \in Req, ClaimRun(q) PROVE RowIsFresh'
    <2>1. UNCHANGED ck /\ pc[q] = "validated"
      BY <1>11 DEF ClaimRun
    <2>2. CASE Drop({q}) /\ UNCHANGED run
      BY <2>2, <1>c
    <2>3. CASE ~(Drop({q}) /\ UNCHANGED run)
      BY <1>11, <2>1, <2>3, ClaimRunFacts DEF RowIsFresh, TypeOK
    <2> QED BY <2>2, <2>3
  <1>12. ASSUME NEW q \in Req, RecordDecision(q) PROVE RowIsFresh'
    <2>1. /\ pc[q] = "claimed" /\ pc' = [pc EXCEPT ![q] = "decided"]
          /\ UNCHANGED <<ck, target>>
      BY <1>12 DEF RecordDecision, Goto
    <2>2. run'.status = "RESOLVING" /\ run'.ckpt = target[q]
      BY <1>12, <2>1, RecordDecisionFacts DEF OwnCheckpoint, Own
    <2>3. ck[target[q]].status = "awaiting_approval"
      BY <2>1 DEF OwnCheckpoint, Own
    <2>4. \A r \in Req : pc'[r] \in InTaskOrWaiting => target[r] # target[q]
      BY <2>1 DEF OneResumePerPause, TypeOK
    <2> QED BY <2>1, <2>2, <2>3, <2>4 DEF RowIsFresh
  <1>13. ASSUME NEW q \in Req, LaunchTask(q) PROVE RowIsFresh'
    BY <1>13, <1>a, LaunchTaskFacts
  <1>14. ASSUME NEW q \in Req, BeginTask(q) PROVE RowIsFresh'
    BY <1>14, <1>b DEF BeginTask, Goto, TypeOK
  <1>15. ASSUME NEW q \in Req, ClaimCheckpoint(q) PROVE RowIsFresh'
    <2>1. UNCHANGED run /\ pc[q] = "ready"
      BY <1>15 DEF ClaimCheckpoint
    <2>2. CASE Drop({q})
      BY <2>1, <2>2, <1>c
    <2>3. CASE pc' = [pc EXCEPT ![q] = "loading"] /\ UNCHANGED <<target, copy>>
      <3>1. \A r \in Req : Holds(r) \/ Advances(r)
        BY <2>1, <2>3 DEF TypeOK
      <3> QED BY <1>b, <2>1, <3>1
    <2> QED BY <1>15, <2>2, <2>3, ClaimCheckpointFacts
  <1>16. ASSUME NEW q \in Req,
                LoadCheckpoint(q) \/ ExecuteCall(q) \/ RecordCall(q) \/ ResolveCheckpoint(q)
         PROVE  RowIsFresh'
    <2>1. /\ UNCHANGED <<run, target, copy>> /\ pc[q] \in InTask
          /\ \E l \in InTask : pc' = [pc EXCEPT ![q] = l]
      BY <1>16 DEF LoadCheckpoint, ExecuteCall, RecordCall, ResolveCheckpoint, Goto
    <2>2. \A r \in Req : Holds(r) \/ Advances(r)
      BY <2>1 DEF TypeOK
    <2> QED BY <1>b, <2>1, <2>2
  <1>17. ASSUME NEW q \in Req, LookupCall(q) PROVE RowIsFresh'
    <2>1. UNCHANGED <<run, target, copy>> /\ pc[q] = "calls"
      BY <1>17 DEF LookupCall
    <2>2. \A r \in Req : Holds(r) \/ Advances(r)
      BY <1>17, <2>1, LookupFacts DEF TypeOK
    <2> QED BY <1>b, <2>1, <2>2
  <1>18. ASSUME NEW q \in Req, NEW c \in Ckpt, PauseTask(q, c) PROVE RowIsFresh'
    <2>1. /\ UNCHANGED <<run, target>> /\ pc[q] = "continuing"
          /\ pc' = [pc EXCEPT ![q] = "pausing"]
      BY <1>18 DEF PauseTask, Goto
    <2>2. \A r \in Req : Holds(r) \/ Advances(r)
      BY <1>18, <2>1, PauseTaskFacts DEF TypeOK
    <2> QED BY <1>b, <2>1, <2>2
  <1>19. ASSUME NEW q \in Req, FinishTask(q) PROVE RowIsFresh'
    <2>1. Drop({q}) /\ UNCHANGED ck
      BY <1>19 DEF FinishTask
    <2>2. CASE run'.status = "SUCCEEDED"
      BY <1>a, <2>2
    <2>3. CASE pc[q] = "pausing" /\ Announceable /\ run' = copy[q]
      <3>1. Unannounced(copy[q].ckpt)
        BY <2>3 DEF MakerOnly, CopyIsSecret
      <3>2. ck'[run'.ckpt].status = "awaiting_approval" /\ \A r \in Req : target[r] # run'.ckpt
        BY <2>1, <2>3, <3>1 DEF Unannounced
      <3>3. \A r \in Req : pc'[r] = "idle" \/ Holds(r)
        BY <2>1, DropFacts
      <3> QED BY <1>d, <2>3, <3>2, <3>3
    <2> QED BY <1>19, <2>2, <2>3, FinishTaskFacts
  <1>20. ASSUME NEW q \in Req, FailTask(q) PROVE RowIsFresh'
    BY <1>20, <1>a, FailTaskFacts
  <1>21. ASSUME NEW q \in Req, AbandonTask(q) \/ CancelTask(q) PROVE RowIsFresh'
    BY <1>21, <1>c DEF AbandonTask, CancelTask
  <1>22. CASE LeaseRunsOut
    <2>1. Stays /\ \A q \in Req : Holds(q)
      BY <1>22, OutdatedFacts DEF LeaseRunsOut, SaveRun, TypeOK
    <2> QED BY <1>b, <2>1
  <1>23. CASE UNCHANGED vars
    BY <1>23, <1>b DEF vars, reqVars
  <1> QED
    BY <1>1, <1>2, <1>3, <1>4, <1>5, <1>6, <1>7, <1>8, <1>9, <1>10, <1>11, <1>12,
       <1>13, <1>14, <1>15, <1>16, <1>17, <1>18, <1>19, <1>20, <1>21, <1>22, <1>23
    DEF Next, RequestStep, TaskStep

-----------------------------------------------------------------------------
(* A checkpoint that no row points to is known to its maker only.          *)

\* References to checkpoints move along: from a record that its holder gives
\* up to the row, from the row to a copy, a target or a draft.
RowFrom(d) ==
    \/ run.ckpt = d
    \/ \E p \in Proc : draft[p].ckpt = d /\ draft'[p].status # "AWAITING_APPROVAL"
    \/ \E q \in Req : copy[q].ckpt = d /\ pc'[q] # "pausing"
DraftFlows(p) ==
    /\ draft'[p].ckpt \in {0, run.ckpt, draft[p].ckpt}
    /\ draft'[p].status = "AWAITING_APPROVAL" => draft'[p] = draft[p]
RequestFlows(q) ==
    /\ target'[q] \in {0, run.ckpt, target[q]}
    /\ copy'[q].ckpt \in {0, run.ckpt, copy[q].ckpt}
    /\ pc'[q] = "pausing" => pc[q] = "pausing" /\ copy'[q].ckpt = copy[q].ckpt
Flow ==
    /\ run'.ckpt # 0 => RowFrom(run'.ckpt)
    /\ \A p \in Proc : DraftFlows(p)
    /\ \A q \in Req : RequestFlows(q)

\* Nobody but the maker refers to a checkpoint that does not exist yet.
LEMMA AbsentUnknown ==
  ASSUME AllKnown, NEW c \in Ckpt, ck[c].status = "absent"
  PROVE  /\ run.ckpt # c /\ \A p \in Proc : draft[p].ckpt # c
         /\ \A q \in Req : copy[q].ckpt # c /\ target[q] # c
  BY Ranges DEF AllKnown, Known

LEMMA FlowKnown ==
  ASSUME TypeOK, HasCheckpoint, OwnCheckpoint, AllKnown, Flow, [Next]_vars
  PROVE  AllKnown'
  <1>0. /\ run.ckpt \in 0..MaxPauses /\ run'.ckpt \in 0..MaxPauses
        /\ \A p \in Proc : draft[p].ckpt \in 0..MaxPauses
        /\ \A q \in Req : copy[q].ckpt \in 0..MaxPauses /\ target[q] \in 0..MaxPauses
    BY NextType DEF TypeOK, RunRecord
  <1> DEFINE KnownNext(d) == d # 0 => ck'[d].status # "absent"
  <1>1. ASSUME NEW d \in 0..MaxPauses, Known(d) PROVE KnownNext(d)
    <2>1. d # 0 => d \in Ckpt
      BY BoundAssumption DEF Ckpt
    <2> QED BY <1>1, <2>1, CheckpointStep DEF Known, Created, Worked
  <1>2. KnownNext(0)
    OBVIOUS
  <1>3. KnownNext(run.ckpt) /\ (\A p \in Proc : KnownNext(draft[p].ckpt))
        /\ \A q \in Req : KnownNext(copy[q].ckpt) /\ KnownNext(target[q])
    BY <1>0, <1>1 DEF AllKnown
  <1> HIDE DEF KnownNext
  <1>4. /\ KnownNext(run'.ckpt) /\ \A p \in Proc : KnownNext(draft'[p].ckpt)
        /\ \A q \in Req : KnownNext(copy'[q].ckpt) /\ KnownNext(target'[q])
    BY <1>2, <1>3 DEF Flow, RowFrom, DraftFlows, RequestFlows
  <1>5. \A c \in Ckpt : ck'[c].status = "absent" => ck'[c].ledger = {}
    BY CheckpointStep DEF Created, Worked, AllKnown
  <1> QED BY <1>4, <1>5 DEF AllKnown, Known, KnownNext

LEMMA FlowSecret ==
  ASSUME TypeOK, HasCheckpoint, OwnCheckpoint, MakerOnly, Flow, [Next]_vars
  PROVE  (\A p \in Proc : DraftIsSecret(p)') /\ (\A q \in Req : CopyIsSecret(q)')
  <1>1. ASSUME NEW c \in Ckpt, Unannounced(c), run'.ckpt # c PROVE Unannounced(c)'
    <2>1. ck'[c].status = "awaiting_approval"
      BY <1>1, CheckpointStep DEF Unannounced, Created, Worked
    <2>2. \A r \in Req : target'[r] # c
      BY <1>1, Ranges DEF Unannounced, Flow, RequestFlows
    <2> QED BY <1>1, <2>1, <2>2 DEF Unannounced
  <1>2. ASSUME NEW p \in Proc PROVE DraftIsSecret(p)'
    <2> SUFFICES ASSUME draft'[p].status = "AWAITING_APPROVAL" PROVE DraftIsSecret(p)'
      BY DEF DraftIsSecret
    <2> DEFINE c == draft[p].ckpt
    <2>1. draft'[p] = draft[p] /\ draft[p].status = "AWAITING_APPROVAL"
      BY DEF Flow, DraftFlows
    <2>2. c \in Ckpt /\ c # 0
      BY <2>1, Ranges DEF HasCheckpoint, Unresolved
    <2>3. /\ Unannounced(c)
          /\ \A r \in Proc \ {p} : draft[r].ckpt # c
          /\ \A q \in Req : copy[q].ckpt # c
      BY <2>1 DEF MakerOnly, DraftIsSecret
    <2>4. run'.ckpt # c
      BY <2>1, <2>2, <2>3 DEF Flow, RowFrom, Unannounced
    <2>5. Unannounced(c)'
      BY <1>1, <2>1, <2>2, <2>3, <2>4
    <2>6. \A r \in Proc \ {p} : draft'[r].ckpt # c
      BY <2>2, <2>3 DEF Flow, DraftFlows, Unannounced
    <2>7. \A q \in Req : copy'[q].ckpt # c
      BY <2>2, <2>3 DEF Flow, RequestFlows, Unannounced
    <2> QED BY <2>1, <2>5, <2>6, <2>7 DEF DraftIsSecret
  <1>3. ASSUME NEW q \in Req PROVE CopyIsSecret(q)'
    <2> SUFFICES ASSUME pc'[q] = "pausing" PROVE CopyIsSecret(q)'
      BY DEF CopyIsSecret
    <2> DEFINE c == copy[q].ckpt
    <2>1. copy'[q].ckpt = c /\ pc[q] = "pausing"
      BY DEF Flow, RequestFlows
    <2>2. c \in Ckpt /\ c # 0
      BY <2>1, Ranges DEF HasCheckpoint
    <2>3. /\ Unannounced(c)
          /\ \A r \in Req \ {q} : copy[r].ckpt # c
          /\ \A p \in Proc : draft[p].ckpt # c
      BY <2>1 DEF MakerOnly, CopyIsSecret
    <2>4. run'.ckpt # c
      BY <2>1, <2>2, <2>3 DEF Flow, RowFrom, Unannounced
    <2>5. Unannounced(c)'
      BY <1>1, <2>1, <2>2, <2>3, <2>4
    <2>6. \A r \in Req \ {q} : copy'[r].ckpt # c
      BY <2>2, <2>3 DEF Flow, RequestFlows, Unannounced
    <2>7. \A p \in Proc : draft'[p].ckpt # c
      BY <2>2, <2>3 DEF Flow, DraftFlows, Unannounced
    <2> QED BY <2>1, <2>5, <2>6, <2>7 DEF CopyIsSecret
  <1> QED BY <1>2, <1>3

\* A new checkpoint is referred to by its maker, and by nobody else.
LEMMA PauseDriveMakerOnly ==
  ASSUME TypeOK, HasCheckpoint, OwnCheckpoint, MakerOnly,
         NEW p \in Proc, NEW c \in Ckpt, PauseDrive(p, c)
  PROVE  MakerOnly'
  <1>1. UNCHANGED <<run, reqVars>> /\ NewCheckpoint(c)
    BY DEF PauseDrive
  <1>2. /\ draft'[p].status = "AWAITING_APPROVAL" /\ draft'[p].ckpt = c
        /\ \A r \in Proc \ {p} : draft'[r] = draft[r]
    BY PauseDriveFacts
  <1>3. /\ ck[c].status = "absent"
        /\ ck'[c].status = "awaiting_approval" /\ ck'[c].ledger = {}
        /\ \A d \in Ckpt \ {c} : ck'[d] = ck[d]
    BY <1>1, NewCheckpointFacts
  <1>4. /\ run.ckpt # c /\ \A r \in Proc : draft[r].ckpt # c
        /\ \A q \in Req : copy[q].ckpt # c /\ target[q] # c
    BY <1>3, AbsentUnknown DEF MakerOnly
  <1>5. /\ \A r \in Proc : draft[r].status = "AWAITING_APPROVAL" => draft[r].ckpt \in Ckpt
        /\ \A q \in Req : pc[q] = "pausing" => copy[q].ckpt \in Ckpt
    BY DEF HasCheckpoint, Unresolved
  <1>6. AllKnown'
    <2>1. \A d : Known(d) => Known(d)'
      BY <1>1, <1>3 DEF Known, NewCheckpoint, TypeOK
    <2>2. Known(c)'
      BY <1>3 DEF Known
    <2> QED BY <1>1, <1>2, <1>3, <2>1, <2>2 DEF MakerOnly, AllKnown, Known, reqVars
  <1>7. ASSUME NEW r \in Proc PROVE DraftIsSecret(r)'
    BY <1>1, <1>2, <1>3, <1>4, <1>5 DEF MakerOnly, DraftIsSecret, Unannounced, reqVars
  <1>8. ASSUME NEW q \in Req PROVE CopyIsSecret(q)'
    BY <1>1, <1>2, <1>3, <1>4, <1>5 DEF MakerOnly, CopyIsSecret, Unannounced, reqVars
  <1> QED BY <1>6, <1>7, <1>8 DEF MakerOnly

LEMMA PauseTaskMakerOnly ==
  ASSUME TypeOK, HasCheckpoint, OwnCheckpoint, MakerOnly,
         NEW q \in Req, NEW c \in Ckpt, PauseTask(q, c)
  PROVE  MakerOnly'
  <1>1. /\ UNCHANGED <<run, draft, target>> /\ NewCheckpoint(c)
        /\ pc' = [pc EXCEPT ![q] = "pausing"]
    BY DEF PauseTask, Goto, driveVars
  <1>2. copy'[q].ckpt = c /\ \A r \in Req \ {q} : copy'[r] = copy[r] /\ pc'[r] = pc[r]
    BY <1>1, PauseTaskFacts DEF TypeOK
  <1>3. /\ ck[c].status = "absent"
        /\ ck'[c].status = "awaiting_approval" /\ ck'[c].ledger = {}
        /\ \A d \in Ckpt \ {c} : ck'[d] = ck[d]
    BY <1>1, NewCheckpointFacts
  <1>4. /\ run.ckpt # c /\ \A r \in Proc : draft[r].ckpt # c
        /\ \A r \in Req : copy[r].ckpt # c /\ target[r] # c
    BY <1>3, AbsentUnknown DEF MakerOnly
  <1>5. /\ \A r \in Proc : draft[r].status = "AWAITING_APPROVAL" => draft[r].ckpt \in Ckpt
        /\ \A r \in Req : pc[r] = "pausing" => copy[r].ckpt \in Ckpt
    BY DEF HasCheckpoint, Unresolved
  <1>6. AllKnown'
    <2>1. \A d : Known(d) => Known(d)'
      BY <1>1, <1>3 DEF Known, NewCheckpoint, TypeOK
    <2>2. Known(c)'
      BY <1>3 DEF Known
    <2> QED BY <1>1, <1>2, <1>3, <2>1, <2>2 DEF MakerOnly, AllKnown, Known
  <1>7. ASSUME NEW p \in Proc PROVE DraftIsSecret(p)'
    BY <1>1, <1>2, <1>3, <1>4, <1>5 DEF MakerOnly, DraftIsSecret, Unannounced
  <1>8. ASSUME NEW r \in Req PROVE CopyIsSecret(r)'
    BY <1>1, <1>2, <1>3, <1>4, <1>5 DEF MakerOnly, CopyIsSecret, Unannounced
  <1> QED BY <1>6, <1>7, <1>8 DEF MakerOnly

LEMMA NextMakerOnly ==
  TypeOK /\ HasCheckpoint /\ OwnCheckpoint /\ MakerOnly /\ [Next]_vars => MakerOnly'
  <1> SUFFICES ASSUME TypeOK, HasCheckpoint, OwnCheckpoint, MakerOnly, [Next]_vars
               PROVE  MakerOnly'
    OBVIOUS
  <1> USE NoRunFields
  <1>a. ASSUME Flow PROVE MakerOnly'
    BY <1>a, FlowKnown, FlowSecret DEF MakerOnly
  \* Steps that leave the requests, the drafts, or the row's reference alone.
  <1>b. ASSUME UNCHANGED <<pc, target, copy>> PROVE \A q \in Req : RequestFlows(q)
    BY <1>b DEF RequestFlows
  <1>c. ASSUME UNCHANGED draft PROVE \A p \in Proc : DraftFlows(p)
    BY <1>c DEF DraftFlows
  <1>d. ASSUME run'.ckpt = run.ckpt PROVE RowFrom(run'.ckpt)
    BY <1>d DEF RowFrom
  <1>e. ASSUME NEW Q, Drop(Q) PROVE \A q \in Req : RequestFlows(q)
    BY <1>e, DropFacts DEF RequestFlows
  <1>f. ASSUME NEW q \in Req, NEW l, l # "pausing", pc' = [pc EXCEPT ![q] = l],
               UNCHANGED <<target, copy>>
        PROVE  \A r \in Req : RequestFlows(r)
    BY <1>f DEF RequestFlows, TypeOK
  <1>g. ASSUME NEW q \in Req, run'.ckpt = copy[q].ckpt, pc'[q] # "pausing"
        PROVE  RowFrom(run'.ckpt)
    BY <1>g DEF RowFrom
  <1>1. ASSUME NEW p \in Proc, DriveRun(p) PROVE MakerOnly'
    <2>1. UNCHANGED reqVars
      BY <1>1 DEF DriveRun
    <2>2. \A r \in Proc : DraftFlows(r)
      BY <1>1, DriveRunFacts DEF DraftFlows
    <2> QED BY <1>1, <1>a, <1>b, <1>d, <2>1, <2>2, DriveRunFacts DEF Flow, reqVars
  <1>2. ASSUME NEW p \in Proc, EndDrive(p) PROVE MakerOnly'
    <2>1. UNCHANGED reqVars
      BY <1>2 DEF EndDrive
    <2>2. \A r \in Proc : DraftFlows(r)
      BY <1>2, EndDriveFacts DEF DraftFlows
    <2>3. RowFrom(run'.ckpt)
      BY <1>2, EndDriveFacts DEF RowFrom
    <2> QED BY <1>a, <1>b, <2>1, <2>2, <2>3 DEF Flow, reqVars
  <1>3. ASSUME NEW p \in Proc, Reap(p) \/ StartProcess(p) PROVE MakerOnly'
    <2>1. run' = Requeued /\ UNCHANGED <<driveVars, reqVars>>
      BY <1>3 DEF Reap, StartProcess, SaveRun
    <2> QED BY <1>a, <1>b, <1>c, <1>d, <2>1, RequeuedFacts DEF Flow, driveVars, reqVars
  <1>4. ASSUME NEW p \in Proc, BeginServing(p) \/ StopProcess(p) PROVE MakerOnly'
    <2>1. UNCHANGED <<run, driveVars, reqVars>>
      BY <1>4 DEF BeginServing, StopProcess
    <2> QED BY <1>a, <1>b, <1>c, <1>d, <2>1 DEF Flow, driveVars, reqVars
  <1>5. ASSUME NEW p \in Proc, Crash(p) PROVE MakerOnly'
    <2>1. UNCHANGED run /\ \A q \in Req : RequestFlows(q)
      BY <1>5, <1>e DEF Crash
    <2>2. \A r \in Proc : DraftFlows(r)
      BY <1>5 DEF Crash, DraftFlows, TypeOK
    <2> QED BY <1>a, <1>d, <2>1, <2>2 DEF Flow
  <1>6. ASSUME NEW p \in Proc, NEW q \in Req, ListResolving(p, q) PROVE MakerOnly'
    <2>1. UNCHANGED <<run, draft>>
      BY <1>6 DEF ListResolving, driveVars
    <2>2. \A r \in Req : RequestFlows(r)
      BY <1>6 DEF ListResolving, Goto, RequestFlows, TypeOK
    <2> QED BY <1>a, <1>c, <1>d, <2>1, <2>2 DEF Flow
  <1>7. ASSUME NEW q \in Req, NEW p \in Proc, NEW a \in Answer, Receive(q, p, a)
        PROVE  MakerOnly'
    <2>1. UNCHANGED <<run, draft>>
      BY <1>7 DEF Receive, driveVars
    <2>2. \A r \in Req : RequestFlows(r)
      BY <1>7 DEF Receive, Goto, RequestFlows, TypeOK
    <2> QED BY <1>a, <1>c, <1>d, <2>1, <2>2 DEF Flow
  <1>8. ASSUME NEW q \in Req, Reopen(q) \/ LaunchTask(q) PROVE MakerOnly'
    <2>1. UNCHANGED <<draft, target, copy>> /\ run'.ckpt = copy[q].ckpt
      BY <1>8, ReopenFacts, LaunchTaskFacts DEF Reopen, LaunchTask, driveVars
    <2>2. \E l \in {"reread", "waiting"} : pc' = [pc EXCEPT ![q] = l]
      BY <1>8 DEF Reopen, LaunchTask, Goto
    <2>3. pc'[q] # "pausing"
      BY <2>2 DEF TypeOK
    <2> QED BY <1>a, <1>c, <1>f, <1>g, <2>1, <2>2, <2>3 DEF Flow
  <1>9. ASSUME NEW q \in Req, Reread(q) PROVE MakerOnly'
    <2>1. UNCHANGED <<run, draft>>
      BY <1>9 DEF Reread, driveVars
    <2>2. CASE Drop({q})
      BY <1>a, <1>c, <1>d, <1>e, <2>1, <2>2 DEF Flow
    <2>3. CASE ~Drop({q})
      <3>1. \A r \in Req : RequestFlows(r)
        BY <1>9, <2>3, RereadFacts DEF RequestFlows, TypeOK
      <3> QED BY <1>a, <1>c, <1>d, <2>1, <3>1 DEF Flow
    <2> QED BY <2>2, <2>3
  <1>10. ASSUME NEW q \in Req, ClaimRun(q) PROVE MakerOnly'
    <2>1. UNCHANGED draft /\ run'.ckpt = run.ckpt
      BY <1>10, ClaimRunFacts DEF ClaimRun, driveVars
    <2> QED BY <1>10, <1>a, <1>c, <1>d, <1>e, <1>f, <2>1, ClaimRunFacts DEF Flow
  <1>11. ASSUME NEW q \in Req, RecordDecision(q) PROVE MakerOnly'
    <2>1. UNCHANGED <<draft, target>> /\ pc' = [pc EXCEPT ![q] = "decided"]
      BY <1>11 DEF RecordDecision, Goto, driveVars
    <2>2. run'.ckpt = copy[q].ckpt /\ pc'[q] # "pausing"
      BY <1>11, <2>1, RecordDecisionFacts DEF TypeOK
    <2>3. \A r \in Req : RequestFlows(r)
      BY <1>11, <2>1, RecordDecisionFacts DEF RequestFlows, TypeOK
    <2> QED BY <1>a, <1>c, <1>g, <2>1, <2>2, <2>3 DEF Flow
  <1>12. ASSUME NEW q \in Req, BeginTask(q) PROVE MakerOnly'
    <2>1. UNCHANGED <<run, draft>>
      BY <1>12 DEF BeginTask, driveVars
    <2>2. \A r \in Req : RequestFlows(r)
      BY <1>12 DEF BeginTask, Goto, RequestFlows, TypeOK
    <2> QED BY <1>a, <1>c, <1>d, <2>1, <2>2 DEF Flow
  <1>13. ASSUME NEW q \in Req, ClaimCheckpoint(q) PROVE MakerOnly'
    <2>1. UNCHANGED <<run, draft>>
      BY <1>13 DEF ClaimCheckpoint, driveVars
    <2> QED BY <1>13, <1>a, <1>c, <1>d, <1>e, <1>f, <2>1, ClaimCheckpointFacts DEF Flow
  <1>14. ASSUME NEW q \in Req,
                LoadCheckpoint(q) \/ ExecuteCall(q) \/ RecordCall(q) \/ ResolveCheckpoint(q)
         PROVE  MakerOnly'
    <2>1. /\ UNCHANGED <<run, draft, target, copy>>
          /\ \E l \in InLoop : pc' = [pc EXCEPT ![q] = l]
      BY <1>14
      DEF LoadCheckpoint, ExecuteCall, RecordCall, ResolveCheckpoint, Goto, InLoop, driveVars
    <2> QED BY <1>a, <1>c, <1>d, <1>f, <2>1 DEF Flow, InLoop
  <1>15. ASSUME NEW q \in Req, LookupCall(q) PROVE MakerOnly'
    <2>1. UNCHANGED <<run, draft, target, copy>>
      BY <1>15 DEF LookupCall, driveVars
    <2> QED BY <1>15, <1>a, <1>b, <1>c, <1>d, <1>f, <2>1, LookupFacts DEF Flow
  <1>16. ASSUME NEW q \in Req, FinishTask(q) \/ FailTask(q) PROVE MakerOnly'
    <2>1. Drop({q}) /\ UNCHANGED draft
      BY <1>16 DEF FinishTask, FailTask, driveVars
    <2>2. run'.ckpt = copy[q].ckpt /\ pc'[q] # "pausing"
      BY <1>16, <2>1, DropFacts, FinishTaskFacts, FailTaskFacts
    <2> QED BY <1>a, <1>c, <1>e, <1>g, <2>1, <2>2 DEF Flow
  <1>17. ASSUME NEW q \in Req, AbandonTask(q) \/ CancelTask(q) PROVE MakerOnly'
    <2>1. Drop({q}) /\ UNCHANGED <<run, draft>>
      BY <1>17 DEF AbandonTask, CancelTask, driveVars
    <2> QED BY <1>a, <1>c, <1>d, <1>e, <2>1 DEF Flow
  <1>18. CASE LeaseRunsOut
    <2>1. UNCHANGED draft /\ run'.ckpt = run.ckpt
      BY <1>18, OutdatedFacts DEF LeaseRunsOut, SaveRun, TypeOK, driveVars
    <2>2. \A q \in Req : RequestFlows(q)
      BY <1>18, OutdatedFacts DEF LeaseRunsOut, RequestFlows, TypeOK
    <2> QED BY <1>a, <1>c, <1>d, <2>1, <2>2 DEF Flow
  <1>19. CASE UNCHANGED vars
    BY <1>19, <1>a, <1>b, <1>c, <1>d DEF vars, driveVars, reqVars, Flow
  <1> QED
    BY <1>1, <1>2, <1>3, <1>4, <1>5, <1>6, <1>7, <1>8, <1>9, <1>10, <1>11, <1>12,
       <1>13, <1>14, <1>15, <1>16, <1>17, <1>18, <1>19,
       PauseDriveMakerOnly, PauseTaskMakerOnly DEF Next, RequestStep, TaskStep

-----------------------------------------------------------------------------
(* The theorems about orderly deployments.                                 *)

LEMMA InitDiscipline == Init => ResumeDiscipline /\ OneResumePerPause /\ AtMostOnceEffect
  <1> SUFFICES ASSUME Init PROVE ResumeDiscipline /\ OneResumePerPause /\ AtMostOnceEffect
    OBVIOUS
  <1> USE NoRunFields
  <1>1. HasCheckpoint
    BY InitHasCheckpoint
  <1>2. RecoveryAlone
    BY DEF Init, RecoveryAlone
  <1>3. MakerOnly
    BY DEF Init, MakerOnly, AllKnown, Known, DraftIsSecret, CopyIsSecret, NoCheckpoint
  <1>4. RowIsFresh
    BY DEF Init, RowIsFresh, Unresolved
  <1>5. OwnCheckpoint
    BY DEF Init, OwnCheckpoint, Own
  <1>6. CallsAhead
    BY DEF Init, CallsAhead, Ahead
  <1>7. OneResumePerPause
    BY DEF Init, OneResumePerPause, Claimed, InTask, InLoop
  <1>8. AtMostOnceEffect
    BY DEF Init, AtMostOnceEffect
  <1> QED BY <1>1, <1>2, <1>3, <1>4, <1>5, <1>6, <1>7, <1>8 DEF ResumeDiscipline

LEMMA NextDiscipline ==
  Orderly /\ TypeOK /\ ResumeDiscipline /\ OneResumePerPause /\ [Next]_vars
    => (ResumeDiscipline /\ OneResumePerPause)'
  BY NextHasCheckpoint, NextRecoveryAlone, NextMakerOnly, NextRowIsFresh, NextOwnCheckpoint,
     NextCallsAhead, NextOneResume DEF ResumeDiscipline

\* The inductive invariant behind exactly-once approval: recovery is alone, a
\* row that can be claimed points to an untouched checkpoint, a resume works on
\* a checkpoint of its own, and the calls ahead of it have not run.
THEOREM DisciplineHolds == Orderly => (Spec => []ResumeDiscipline)
  <1> SUFFICES ASSUME Orderly PROVE Spec => []ResumeDiscipline
    OBVIOUS
  <1> QED BY InitDiscipline, NextDiscipline, TypeCorrect, PTL DEF Spec

\* The compare-and-set of claim_run_for_resume does what run_drive.py says of
\* it: no two requests or tasks are ever past the claim of the same pause.
THEOREM OneResume == Orderly => (Spec => []OneResumePerPause)
  <1> SUFFICES ASSUME Orderly PROVE Spec => []OneResumePerPause
    OBVIOUS
  <1> QED BY InitDiscipline, NextDiscipline, TypeCorrect, PTL DEF Spec

\* Before a human stands a pause that nobody has answered: no late driver,
\* resume or recovery, and no lease that ran out under them, puts back a
\* record that points to a checkpoint somebody has worked on.
THEOREM PausesAreUnanswered == Orderly => (Spec => []PauseIsUnanswered)
  <1> SUFFICES ASSUME Orderly PROVE Spec => []PauseIsUnanswered
    OBVIOUS
  <1>1. ResumeDiscipline => PauseIsUnanswered
    BY DEF ResumeDiscipline, HasCheckpoint, RowIsFresh, PauseIsUnanswered, Unresolved
  <1> QED BY <1>1, DisciplineHolds, PTL

\* A gated call is executed at most once, whatever crashes, restarts, reapers,
\* lease expiries and double approvals come in between: the run-level claim,
\* the checkpoint's claim and its ledger together keep run_recovery.py's
\* promise.
THEOREM EffectsHappenOnce == Orderly => (Spec => []AtMostOnceEffect)
  <1> SUFFICES ASSUME Orderly PROVE Spec => []AtMostOnceEffect
    OBVIOUS
  <1>1. ResumeDiscipline => HasCheckpoint /\ CallsAhead
    BY DEF ResumeDiscipline
  <1> QED BY <1>1, InitDiscipline, NextOnce, TypeCorrect, DisciplineHolds, PTL DEF Spec

\* A resolved checkpoint keeps its answer, and no ledger ever loses an entry:
\* not to a second claim, nor to a put that saves a stale copy.
THEOREM ResolutionStands == Orderly => (Spec => ResolutionFinal)
  <1> SUFFICES ASSUME Orderly PROVE Spec => ResolutionFinal
    OBVIOUS
  <1>1. TypeOK /\ ResumeDiscipline /\ [Next]_vars =>
          [\A c \in Ckpt :
              /\ ck[c].ledger \subseteq ck'[c].ledger
              /\ ck[c].status \in Answer => ck'[c].status = ck[c].status]_vars
    <2> SUFFICES ASSUME TypeOK, ResumeDiscipline, [Next]_vars, NEW c \in Ckpt
                 PROVE  /\ ck[c].ledger \subseteq ck'[c].ledger
                        /\ ck[c].status \in Answer => ck'[c].status = ck[c].status
      OBVIOUS
    <2>1. ck'[c] = ck[c] \/ Created(c) \/ Worked(c)
      BY CheckpointStep DEF ResumeDiscipline
    <2>2. CASE Created(c)
      BY <2>2 DEF Created, Answer, ResumeDiscipline, MakerOnly, AllKnown
    <2> QED BY <2>1, <2>2 DEF Worked, Answer
  <1> QED BY <1>1, TypeCorrect, DisciplineHolds, PTL DEF Spec, ResolutionFinal
-----------------------------------------------------------------------------
(* One holder of the run, where leases hold.                               *)

\* A request or task that may write the row: past a claim, or re-opening it.
Holding == Claimed \cup {"reopen", "reread"}

\* What the row and a request's copy of it are while the request holds the run.
HoldsRow(q) ==
    /\ pc[q] \in {"reopen", "claimed", "decided"} => run.status = "RESOLVING"
    /\ pc[q] = "reread" => run.status = "AWAITING_APPROVAL"
    /\ pc[q] \in InTaskOrWaiting => run.status = "RUNNING" /\ run.lease = "live"
    /\ pc[q] \in {"reopen", "claimed", "decided"} \cup InTask => copy[q].lease = "live"
    /\ pc[q] = "validated" /\ run.status = "AWAITING_APPROVAL" => copy[q].lease = "live"

\* The run has one holder at most: a worker that drives it, or a request.
OneHolder ==
    /\ \A p \in Proc : driver[p] =>
          /\ run.status = "RUNNING" /\ run.lease = "live"
          /\ \A r \in Proc \ {p} : ~driver[r]
          /\ \A q \in Req : pc[q] \notin Holding
    /\ \A q, r \in Req : pc[q] \in Holding /\ pc[r] \in Holding => q = r
    /\ \A q \in Req : HoldsRow(q)
    /\ run.status \in Unresolved => run.lease = "live"

\* The labels of a request, by what it may do to the row.
LEMMA Labels ==
  /\ InTask = {"ready", "loading", "calls", "executing", "recording", "continuing", "pausing"}
  /\ InTaskOrWaiting = InTask \cup {"waiting"}
  /\ Holding = InTaskOrWaiting \cup {"claimed", "decided", "reopen", "reread"}
  BY DEF InTask, InLoop, InTaskOrWaiting, Holding, Claimed

LEMMA NextOneHolder ==
  ASSUME Orderly, LeaseHolds, TypeOK, HasCheckpoint, RecoveryAlone, OneHolder, [Next]_vars
  PROVE  OneHolder'
  <1> USE Labels
  <1>t. /\ run \in RunRecord /\ \A q \in Req : copy[q] \in RunRecord /\ at[q] \in Proc \cup {NoProc}
        /\ \A p \in Proc : draft[p] \in RunRecord
    BY DEF TypeOK
  \* Requests leave, and the row stays or is finished.
  <1>a. ASSUME NEW Q, Drop(Q), UNCHANGED <<run, driver>> PROVE OneHolder'
    BY <1>a, DropFacts DEF OneHolder, HoldsRow
  <1>b. ASSUME NEW q \in Req, pc[q] \in Holding, Drop({q}),
               run'.status \in {"SUCCEEDED", "FAILED"}, UNCHANGED driver
        PROVE  OneHolder'
    BY <1>b, DropFacts DEF OneHolder, HoldsRow, Unresolved
  \* A task goes on.
  <1>c. ASSUME NEW q \in Req, NEW l, pc[q] \in InTask, l \in InTask,
               pc' = [pc EXCEPT ![q] = l], UNCHANGED <<run, driver>>,
               \A r \in Req : copy'[r].lease = copy[r].lease
        PROVE  OneHolder'
    BY <1>c DEF OneHolder, HoldsRow, TypeOK
  <1>d. ASSUME UNCHANGED <<run, driver, pc, copy>> PROVE OneHolder'
    BY <1>d DEF OneHolder, HoldsRow
  \* The reaper finds a run without a holder.
  <1>e. ASSUME run' = Requeued, UNCHANGED <<driver, pc, copy>> PROVE OneHolder'
    <2>1. CASE run.status = "RUNNING" /\ run.lease = "expired"
      <3>1. (\A p \in Proc : ~driver[p]) /\ \A q \in Req : pc[q] \notin Holding
        BY <2>1 DEF OneHolder, HoldsRow
      <3>2. run'.status = "QUEUED"
        BY <1>e, <1>t, <2>1 DEF Requeued, RunRecord
      <3> QED BY <1>e, <3>1, <3>2 DEF OneHolder, HoldsRow, Unresolved
    <2>2. CASE ~(run.status = "RUNNING" /\ run.lease = "expired")
      BY <1>d, <1>e, <2>2 DEF Requeued
    <2> QED BY <2>1, <2>2
  <1>1. ASSUME NEW p \in Proc, DriveRun(p) PROVE OneHolder'
    <2>1. /\ run'.status = "RUNNING" /\ run'.lease = "live"
          /\ run.status = "QUEUED" /\ ~driver[p] /\ driver' = [driver EXCEPT ![p] = TRUE]
          /\ UNCHANGED <<pc, copy>>
      BY <1>1, <1>t DEF DriveRun, SaveRun, RunRecord, reqVars
    <2>2. (\A r \in Proc : ~driver[r]) /\ \A q \in Req : pc[q] \notin Holding
      BY <2>1 DEF OneHolder, HoldsRow
    <2> QED BY <2>1, <2>2 DEF OneHolder, HoldsRow, Unresolved, TypeOK
  <1>2. ASSUME NEW p \in Proc, NEW c \in Ckpt, PauseDrive(p, c) PROVE OneHolder'
    BY <1>2, <1>d DEF PauseDrive, reqVars
  <1>3. ASSUME NEW p \in Proc, EndDrive(p) PROVE OneHolder'
    <2>1. /\ driver[p] /\ driver' = [driver EXCEPT ![p] = FALSE]
          /\ UNCHANGED <<pc, copy>>
      BY <1>3 DEF EndDrive, reqVars
    <2>2. (\A r \in Proc \ {p} : ~driver[r]) /\ \A q \in Req : pc[q] \notin Holding
      BY <2>1 DEF OneHolder
    <2>3. run'.lease = "live"
      <3>1. \/ run' = [draft[p] EXCEPT !.lease = "live"]
            \/ \E s \in {"SUCCEEDED", "FAILED"} :
                  run' = [draft[p] EXCEPT !.status = s, !.lease = "live"]
        BY <1>3, Zenon DEF EndDrive, SaveRun
      <3> QED BY <3>1, <1>t DEF RunRecord
    <2>4. run'.status = "AWAITING_APPROVAL" => \A q \in Req : pc[q] # "validated"
      BY <1>3, EndDriveFacts DEF Announceable, Orderly
    <2>5. \A r \in Proc : ~driver'[r]
      BY <2>1, <2>2 DEF TypeOK
    <2> QED BY <2>1, <2>2, <2>3, <2>4, <2>5 DEF OneHolder, HoldsRow
  <1>4. ASSUME NEW p \in Proc, Reap(p) \/ StartProcess(p) PROVE OneHolder'
    BY <1>4, <1>e DEF Reap, StartProcess, SaveRun, driveVars, reqVars
  <1>5. ASSUME NEW p \in Proc, BeginServing(p) \/ StopProcess(p) PROVE OneHolder'
    BY <1>5, <1>d DEF BeginServing, StopProcess, driveVars, reqVars
  <1>6. ASSUME NEW p \in Proc, Crash(p) PROVE OneHolder'
    <2> DEFINE Q == {q \in Req : at[q] = p}
    <2>1. Drop(Q) /\ run' = run /\ driver' = [driver EXCEPT ![p] = FALSE]
      BY <1>6 DEF Crash
    <2> HIDE DEF Q
    <2>2. \A r \in Proc : driver'[r] => driver[r]
      BY <2>1 DEF TypeOK
    <2> QED BY <2>1, <2>2, DropFacts DEF OneHolder, HoldsRow
  <1>7. ASSUME NEW p \in Proc, NEW q \in Req, ListResolving(p, q) PROVE OneHolder'
    <2>1. /\ pc' = [pc EXCEPT ![q] = "reopen"] /\ copy' = [copy EXCEPT ![q] = run]
          /\ UNCHANGED <<run, driver>> /\ run.status = "RESOLVING"
      BY <1>7 DEF ListResolving, Goto, driveVars
    <2>2. \A r \in Req : pc[r] = "idle"
      BY <1>7 DEF ListResolving, RecoveryAlone
    <2>3. run.lease = "live" /\ \A r \in Proc : ~driver[r]
      BY <2>1 DEF OneHolder, Unresolved
    <2> QED BY <2>1, <2>2, <2>3 DEF OneHolder, HoldsRow, Unresolved, TypeOK
  <1>8. ASSUME NEW q \in Req, NEW p \in Proc, NEW a \in Answer, Receive(q, p, a)
        PROVE  OneHolder'
    <2>1. /\ pc' = [pc EXCEPT ![q] = "validated"] /\ copy' = [copy EXCEPT ![q] = run]
          /\ UNCHANGED <<run, driver>> /\ run.status = "AWAITING_APPROVAL" /\ pc[q] = "idle"
      BY <1>8 DEF Receive, Goto, driveVars
    <2>2. run.lease = "live"
      BY <2>1 DEF OneHolder, Unresolved
    <2> QED BY <2>1, <2>2 DEF OneHolder, HoldsRow, TypeOK
  <1>9. ASSUME NEW q \in Req, ClaimRun(q) PROVE OneHolder'
    <2>1. CASE Drop({q}) /\ UNCHANGED run
      BY <1>9, <1>a, <2>1 DEF ClaimRun, driveVars
    <2>2. CASE /\ run.status = "AWAITING_APPROVAL"
               /\ run'.status = "RESOLVING" /\ pc' = [pc EXCEPT ![q] = "claimed"]
               /\ UNCHANGED copy
      <3>1. run'.lease = run.lease /\ UNCHANGED driver /\ pc[q] = "validated"
        BY <1>9, <1>t, <2>2
        DEF ClaimRun, ClaimableForResume, SaveRun, RunRecord, Drop, driveVars, TypeOK
      <3>2. run.lease = "live" /\ copy[q].lease = "live" /\ \A r \in Proc : ~driver[r]
        BY <2>2, <3>1 DEF OneHolder, HoldsRow, Unresolved
      <3>3. \A r \in Req : pc[r] # "reread"
        BY <3>1 DEF RecoveryAlone
      <3>4. \A r \in Req : pc[r] \notin Holding
        BY <2>2, <3>3 DEF OneHolder, HoldsRow
      <3> QED BY <2>2, <3>1, <3>2, <3>4 DEF OneHolder, HoldsRow, Unresolved, TypeOK
    <2> QED BY <1>9, <2>1, <2>2, ClaimRunFacts
  \* What a request that holds the run writes to it.
  <1>f. ASSUME NEW q \in Req, NEW l, pc[q] \in Holding, pc' = [pc EXCEPT ![q] = l],
               UNCHANGED driver, \A r \in Req \ {q} : copy'[r] = copy[r],
               run'.status # "AWAITING_APPROVAL", HoldsRow(q)',
               run'.status \in Unresolved => run'.lease = "live",
               l \in Holding
        PROVE  OneHolder'
    <2>1. \A r \in Req \ {q} : pc'[r] = pc[r] /\ pc[r] \notin Holding
      BY <1>f DEF OneHolder, TypeOK
    <2>2. \A r \in Proc : ~driver[r]
      BY <1>f DEF OneHolder
    <2>3. \A r \in Req \ {q} : HoldsRow(r)'
      BY <1>f, <2>1 DEF HoldsRow
    <2> QED BY <1>f, <2>1, <2>2, <2>3 DEF OneHolder
  <1>10. ASSUME NEW q \in Req, RecordDecision(q) PROVE OneHolder'
    <2>1. /\ pc[q] = "claimed" /\ pc' = [pc EXCEPT ![q] = "decided"] /\ UNCHANGED driver
          /\ copy' = [copy EXCEPT ![q] = run']
          /\ run'.status = "RESOLVING" /\ run'.lease = copy[q].lease
      BY <1>10, <1>t DEF RecordDecision, SaveRun, Goto, RunRecord, driveVars
    <2>2. copy[q].lease = "live"
      BY <2>1 DEF OneHolder, HoldsRow
    <2>3. HoldsRow(q)'
      BY <2>1, <2>2 DEF HoldsRow, TypeOK
    <2> QED BY <1>f, <2>1, <2>2, <2>3 DEF TypeOK
  <1>11. ASSUME NEW q \in Req, LaunchTask(q) PROVE OneHolder'
    <2>1. /\ pc[q] = "decided" /\ pc' = [pc EXCEPT ![q] = "waiting"] /\ UNCHANGED <<driver, copy>>
          /\ run'.status = "RUNNING" /\ run'.lease = copy[q].lease
      BY <1>11, <1>t DEF LaunchTask, SaveRun, Goto, RunRecord, driveVars
    <2>2. copy[q].lease = "live"
      BY <2>1 DEF OneHolder, HoldsRow
    <2>3. HoldsRow(q)'
      BY <2>1, <2>2 DEF HoldsRow, TypeOK
    <2> QED BY <1>f, <2>1, <2>2, <2>3 DEF Unresolved
  <1>12. ASSUME NEW q \in Req, BeginTask(q) PROVE OneHolder'
    <2>1. /\ pc[q] = "waiting" /\ pc' = [pc EXCEPT ![q] = "ready"] /\ UNCHANGED <<run, driver>>
          /\ copy' = [copy EXCEPT ![q] = run]
      BY <1>12 DEF BeginTask, Goto, driveVars
    <2>2. run.status = "RUNNING" /\ run.lease = "live"
      BY <2>1 DEF OneHolder, HoldsRow
    <2>3. HoldsRow(q)'
      BY <2>1, <2>2 DEF HoldsRow, TypeOK
    <2> QED BY <1>f, <2>1, <2>2, <2>3 DEF TypeOK
  <1>13. ASSUME NEW q \in Req, Reopen(q) PROVE OneHolder'
    <2>1. /\ pc[q] = "reopen" /\ pc' = [pc EXCEPT ![q] = "reread"] /\ UNCHANGED <<driver, copy>>
          /\ run'.status = "AWAITING_APPROVAL" /\ run'.lease = copy[q].lease
      BY <1>13, <1>t DEF Reopen, SaveRun, Goto, RunRecord, driveVars
    <2>2. copy[q].lease = "live" /\ \A r \in Proc : ~driver[r]
      BY <2>1 DEF OneHolder, HoldsRow
    <2>3. \A r \in Req \ {q} : pc[r] = "idle"
      BY <2>1 DEF RecoveryAlone
    <2> QED BY <2>1, <2>2, <2>3 DEF OneHolder, HoldsRow, TypeOK
  <1>14. ASSUME NEW q \in Req, Reread(q) PROVE OneHolder'
    <2>1. pc[q] = "reread" /\ UNCHANGED <<run, driver>>
      BY <1>14 DEF Reread, driveVars
    <2>2. CASE Drop({q})
      BY <1>a, <2>1, <2>2
    <2>3. CASE /\ run.status = "AWAITING_APPROVAL"
               /\ pc' = [pc EXCEPT ![q] = "validated"] /\ copy' = [copy EXCEPT ![q] = run]
      BY <2>1, <2>3 DEF OneHolder, HoldsRow, Unresolved, TypeOK
    <2> QED BY <1>14, <2>2, <2>3, RereadFacts
  <1>15. ASSUME NEW q \in Req, ClaimCheckpoint(q) PROVE OneHolder'
    <2>1. pc[q] = "ready" /\ UNCHANGED <<run, driver>>
      BY <1>15 DEF ClaimCheckpoint, driveVars
    <2>2. CASE Drop({q})
      BY <1>a, <2>1, <2>2
    <2>3. CASE pc' = [pc EXCEPT ![q] = "loading"] /\ UNCHANGED copy
      BY <1>c, <2>1, <2>3
    <2> QED BY <1>15, <2>2, <2>3, ClaimCheckpointFacts
  <1>16. ASSUME NEW q \in Req,
                \/ LoadCheckpoint(q) \/ LookupCall(q) \/ ExecuteCall(q)
                \/ RecordCall(q) \/ ResolveCheckpoint(q)
         PROVE  OneHolder'
    <2>1. UNCHANGED <<run, driver, copy>> /\ pc[q] \in InTask
      BY <1>16 DEF LoadCheckpoint, LookupCall, ExecuteCall, RecordCall, ResolveCheckpoint, driveVars
    <2>2. pc' = pc \/ \E l \in InTask : pc' = [pc EXCEPT ![q] = l]
      BY <1>16 DEF LoadCheckpoint, LookupCall, ExecuteCall, RecordCall, ResolveCheckpoint, Goto
    <2> QED BY <1>c, <1>d, <2>1, <2>2
  <1>17. ASSUME NEW q \in Req, NEW c \in Ckpt, PauseTask(q, c) PROVE OneHolder'
    <2>1. /\ UNCHANGED <<run, driver>> /\ pc[q] = "continuing"
          /\ pc' = [pc EXCEPT ![q] = "pausing"]
          /\ \A r \in Req : copy'[r].lease = copy[r].lease
      BY <1>17, <1>t DEF PauseTask, Goto, driveVars, RunRecord, TypeOK
    <2> QED BY <1>c, <2>1
  <1>18. ASSUME NEW q \in Req, FinishTask(q) PROVE OneHolder'
    <2>1. Drop({q}) /\ UNCHANGED driver /\ pc[q] \in {"continuing", "pausing"}
      BY <1>18 DEF FinishTask, driveVars
    <2>2. CASE run'.status = "SUCCEEDED"
      BY <1>b, <2>1, <2>2
    <2>3. CASE pc[q] = "pausing" /\ Announceable /\ run' = copy[q]
      <3>1. run'.status = "AWAITING_APPROVAL" /\ run'.lease = "live"
            /\ (\A r \in Proc : ~driver[r])
        BY <2>3 DEF HasCheckpoint, OneHolder, HoldsRow
      <3>2. \A r \in Req : pc'[r] \notin Holding /\ pc'[r] # "validated"
        BY <2>1, <2>3, DropFacts DEF OneHolder, Announceable, Orderly
      <3> QED BY <2>1, <3>1, <3>2 DEF OneHolder, HoldsRow
    <2> QED BY <1>18, <2>2, <2>3, FinishTaskFacts
  <1>19. ASSUME NEW q \in Req, FailTask(q) PROVE OneHolder'
    <2>1. Drop({q}) /\ UNCHANGED driver /\ pc[q] \in Holding
      BY <1>19 DEF FailTask, InLoop, driveVars
    <2> QED BY <1>b, <1>19, <2>1, FailTaskFacts
  <1>20. ASSUME NEW q \in Req, AbandonTask(q) \/ CancelTask(q) PROVE OneHolder'
    BY <1>20, <1>a DEF AbandonTask, CancelTask, driveVars
  <1>21. CASE LeaseRunsOut
    <2>1. /\ run.status = "RUNNING" /\ \A p \in Proc : ~driver[p]
          /\ \A q \in Req : pc[q] \notin Claimed
          /\ UNCHANGED <<driver, pc>> /\ run' = Outdated(run)
      BY <1>21 DEF LeaseRunsOut, SaveRun, driveVars
    <2>2. run'.status = "RUNNING"
      BY <2>1, <1>t, OutdatedFacts
    <2>3. \A q \in Req : pc[q] \notin Holding
      BY <2>1 DEF OneHolder, HoldsRow, Holding
    <2> QED BY <2>1, <2>2, <2>3 DEF OneHolder, HoldsRow, Unresolved
  <1>22. CASE UNCHANGED vars
    BY <1>22, <1>d DEF vars, driveVars, reqVars
  <1> QED
    BY <1>1, <1>2, <1>3, <1>4, <1>5, <1>6, <1>7, <1>8, <1>9, <1>10, <1>11, <1>12, <1>13,
       <1>14, <1>15, <1>16, <1>17, <1>18, <1>19, <1>20, <1>21, <1>22
    DEF Next, RequestStep, TaskStep

LEMMA InitOneHolder == Init => OneHolder
  BY NoRunFields, Labels DEF Init, OneHolder, HoldsRow, Unresolved

-----------------------------------------------------------------------------
(* No call without an approval.                                            *)

\* Where an approval is carried along, a human gave it to that checkpoint, and
\* a task that is to run a call carries an approval.
Sanctioned(q) ==
    /\ answer[q] = "approved" =>
          /\ pc[q] \in Claimed => target[q] \in granted
          /\ pc[q] = "reopen" => copy[q].ckpt \in granted
          /\ pc[q] = "reread" => run.ckpt \in granted
          /\ pc[q] = "validated" /\ mode[at[q]] = "recovering" => target[q] \in granted
    /\ pc[q] \in {"calls", "executing", "recording"} /\ call[q] \in Call
          => answer[q] = "approved"

\* The decision in a row that recovery may take up is that of the human who
\* claimed it, unless the claimant is about to write its own.
DecisionSanctioned ==
    (run.status = "RESOLVING" /\ run.decision = "approved") =>
        run.ckpt \in granted \/ \E q \in Req : pc[q] = "claimed"

ApprovalTrail ==
    DecisionSanctioned /\ EffectApproved /\ \A q \in Req : Sanctioned(q)

LEMMA NextApprovalTrail ==
  ASSUME Orderly, ~CrashInClaim, TypeOK, HasCheckpoint, RecoveryAlone, OwnCheckpoint, OneHolder,
         ApprovalTrail, [Next]_vars
  PROVE  ApprovalTrail'
  <1> USE Labels
  <1>t. /\ run \in RunRecord /\ \A q \in Req : copy[q] \in RunRecord /\ at[q] \in Proc \cup {NoProc}
        /\ \A q \in Req : answer[q] \in Answer /\ call[q] \in 1..(MaxCalls + 1)
        /\ granted \subseteq Ckpt
    BY DEF TypeOK
  <1>c. Claimed = InTaskOrWaiting \cup {"claimed", "decided"}
    BY DEF Claimed, InTaskOrWaiting
  <1> DEFINE Gates == DecisionSanctioned' /\ EffectApproved'
             Trail == \A q \in Req : Sanctioned(q)'
  <1> SUFFICES Gates /\ Trail
    BY DEF ApprovalTrail
  <1> HIDE DEF Gates, Trail
  <1>g. ASSUME UNCHANGED <<effects, granted>> PROVE EffectApproved'
    BY <1>g DEF ApprovalTrail, EffectApproved
  <1>d. ASSUME run'.status = "RESOLVING" => /\ run'.decision = run.decision
                                            /\ run.status = "RESOLVING"
                                           /\ run'.ckpt = run.ckpt,
               granted \subseteq granted',
               \A q \in Req : pc[q] = "claimed" => pc'[q] = "claimed"
        PROVE  DecisionSanctioned'
    BY <1>d DEF ApprovalTrail, DecisionSanctioned
  \* Requests leave, and none of them has a claim to finish.
  <1>a. ASSUME NEW Q, Drop(Q), UNCHANGED <<run, effects, granted>>,
               \A q \in Req : pc[q] = "claimed" => q \notin Q,
               \A q \in Req : q \notin Q => mode'[at[q]] = mode[at[q]]
        PROVE  Gates /\ Trail
    <2>1. \A q \in Req : pc[q] = "claimed" => pc'[q] = "claimed"
      BY <1>a, DropFacts
    <2>2. Gates
      BY <1>a, <1>d, <1>g, <2>1 DEF Gates
    <2>3. \A q \in Req \ Q : answer'[q] = answer[q]
      BY <1>a DEF Drop
    <2>4. Trail
      BY <1>a, <2>3, DropFacts DEF Trail, Sanctioned, ApprovalTrail, Claimed, InTask, InLoop
    <2> QED BY <2>2, <2>4
  \* Nothing the trail speaks of changes but the row, which is not reopened.
  <1>b. ASSUME UNCHANGED <<pc, answer, target, call, at, effects, granted>>,
               \A q \in Req : copy'[q].ckpt = copy[q].ckpt,
               \A q \in Req : pc[q] = "validated" /\ mode'[at[q]] = "recovering"
                                => mode[at[q]] = "recovering",
               run'.status = "RESOLVING" => /\ run.status = "RESOLVING" /\ run'.ckpt = run.ckpt
                                            /\ run'.decision = run.decision,
               \A q \in Req : pc[q] = "reread" => run'.ckpt = run.ckpt
        PROVE  Gates /\ Trail
    <2>1. Gates
      BY <1>b, <1>d, <1>g DEF Gates
    <2>2. Trail
      BY <1>b DEF Trail, Sanctioned, ApprovalTrail
    <2> QED BY <2>1, <2>2
  \* A request goes on without a change to the row.
  <1>e. ASSUME NEW q \in Req, NEW l, pc[q] \in InTaskOrWaiting, l \in InTask,
               pc' = [pc EXCEPT ![q] = l],
               UNCHANGED <<run, mode, answer, target, at, effects, granted>>,
               \A r \in Req \ {q} : copy'[r] = copy[r] /\ call'[r] = call[r],
               l \in {"calls", "executing", "recording"} /\ call'[q] \in Call
                 => answer[q] = "approved"
        PROVE  Gates /\ Trail
    <2>1. /\ \A r \in Req \ {q} : pc'[r] = pc[r]
          /\ pc'[q] = l /\ pc[q] \in Claimed /\ pc'[q] \in InTask
      BY <1>e, <1>c DEF TypeOK
    <2>2. Gates
      BY <1>d, <1>e, <1>g, <2>1 DEF Gates
    <2>3. Sanctioned(q)'
      BY <1>e, <2>1 DEF Sanctioned, ApprovalTrail
    <2>4. \A r \in Req \ {q} : Sanctioned(r)'
      BY <1>e, <2>1 DEF Sanctioned, ApprovalTrail
    <2> QED BY <2>2, <2>3, <2>4 DEF Trail
  \* A task that has a call to run carries an approval.
  <1>f. \A q \in Req : pc[q] \in {"calls", "executing", "recording"} /\ call[q] \in Call
                         => answer[q] = "approved" /\ target[q] \in granted
    BY <1>c DEF ApprovalTrail, Sanctioned
  <1>h. \A k \in 1..(MaxCalls + 1) : k + 1 \in Call => k \in Call
    BY BoundAssumption DEF Call
  <1>1. ASSUME NEW p \in Proc, DriveRun(p) PROVE Gates /\ Trail
    <2>1. run'.status = "RUNNING" /\ run'.ckpt = run.ckpt
      BY <1>1, DriveRunFacts
    <2> QED BY <1>1, <1>b, <2>1 DEF DriveRun, reqVars, history
  <1>2. ASSUME NEW p \in Proc, NEW c \in Ckpt, PauseDrive(p, c) PROVE Gates /\ Trail
    BY <1>2, <1>b DEF PauseDrive, reqVars, history
  <1>3. ASSUME NEW p \in Proc, EndDrive(p) PROVE Gates /\ Trail
    <2>1. driver[p] /\ UNCHANGED <<mode, reqVars, history>>
      BY <1>3 DEF EndDrive
    <2>2. \A q \in Req : pc[q] # "reread"
      BY <2>1 DEF OneHolder
    <2>3. run'.status # "RESOLVING"
      BY <1>3, EndDriveFacts
    <2> QED BY <1>b, <2>1, <2>2, <2>3 DEF reqVars, history
  <1>4. ASSUME NEW p \in Proc, Reap(p) \/ StartProcess(p) PROVE Gates /\ Trail
    <2>1. run' = Requeued /\ UNCHANGED <<reqVars, history>>
      BY <1>4 DEF Reap, StartProcess, SaveRun
    <2>2. /\ run'.ckpt = run.ckpt
          /\ run'.status = "RESOLVING" => run' = run
      BY <2>1, <1>t DEF Requeued, RunRecord
    <2>3. \A q \in Req : pc[q] = "validated" => mode'[at[q]] = mode[at[q]]
      <3>1. CASE Reap(p)
        BY <3>1 DEF Reap
      <3>2. CASE StartProcess(p)
        BY <3>2 DEF StartProcess, Orderly, Resuming
      <3> QED BY <1>4, <3>1, <3>2
    <2> QED BY <1>b, <2>1, <2>2, <2>3 DEF reqVars, history
  <1>5. ASSUME NEW p \in Proc, BeginServing(p) \/ StopProcess(p) PROVE Gates /\ Trail
    <2>1. /\ UNCHANGED <<run, reqVars, history>>
          /\ \A r \in Proc : mode'[r] = "recovering" => mode[r] = "recovering"
      BY <1>5 DEF BeginServing, StopProcess, TypeOK
    <2>2. \A q \in Req : pc[q] = "validated" => at[q] \in Proc
      BY DEF RecoveryAlone
    <2> QED BY <1>b, <2>1, <2>2 DEF reqVars, history
  <1>6. ASSUME NEW p \in Proc, Crash(p) PROVE Gates /\ Trail
    <2> DEFINE Q == {q \in Req : at[q] = p}
    <2>1. /\ Drop(Q) /\ UNCHANGED <<run, effects, granted>>
          /\ mode' = [mode EXCEPT ![p] = "down"]
          /\ \A q \in Req : pc[q] = "claimed" => q \notin Q
      BY <1>6 DEF Crash, history
    <2>2. \A q \in Req : q \notin Q => mode'[at[q]] = mode[at[q]]
      BY <2>1 DEF TypeOK
    <2> HIDE DEF Q
    <2> QED BY <1>a, <2>1, <2>2
  <1>7. ASSUME NEW p \in Proc, NEW q \in Req, ListResolving(p, q) PROVE Gates /\ Trail
    <2>1. /\ pc' = [pc EXCEPT ![q] = "reopen"] /\ copy' = [copy EXCEPT ![q] = run]
          /\ answer' = [answer EXCEPT ![q] = run.decision]
          /\ UNCHANGED <<run, effects, granted>> /\ run.status = "RESOLVING"
      BY <1>7 DEF ListResolving, Goto, history
    <2>2. \A r \in Req : pc[r] = "idle"
      BY <1>7 DEF ListResolving, RecoveryAlone
    <2>3. run.decision = "approved" => run.ckpt \in granted
      BY <2>1, <2>2 DEF ApprovalTrail, DecisionSanctioned
    <2>4. Gates
      BY <1>d, <1>g, <2>1, <2>2 DEF Gates
    <2>5. /\ pc'[q] = "reopen" /\ copy'[q] = run /\ answer'[q] = run.decision
          /\ \A r \in Req \ {q} : pc'[r] = "idle"
      BY <2>1, <2>2 DEF TypeOK
    <2>6. Sanctioned(q)'
      BY <2>1, <2>3, <2>5, <1>c DEF Sanctioned
    <2>7. \A r \in Req \ {q} : Sanctioned(r)'
      BY <2>5, <1>c DEF Sanctioned
    <2> QED BY <2>4, <2>6, <2>7 DEF Trail
  \* A request that becomes validated, under a serving process or a sanction.
  <1>i. ASSUME NEW q \in Req, pc' = [pc EXCEPT ![q] = "validated"], pc[q] # "claimed",
               UNCHANGED <<run, mode, effects, granted>>,
               \A r \in Req \ {q} : /\ answer'[r] = answer[r] /\ target'[r] = target[r]
                                    /\ copy'[r] = copy[r] /\ call'[r] = call[r]
                                    /\ at'[r] = at[r],
               answer'[q] = "approved" /\ mode'[at'[q]] = "recovering" => target'[q] \in granted
        PROVE  Gates /\ Trail
    <2>1. pc'[q] = "validated" /\ \A r \in Req \ {q} : pc'[r] = pc[r]
      BY <1>i DEF TypeOK
    <2>2. Gates
      BY <1>d, <1>g, <1>i, <2>1 DEF Gates
    <2>3. Sanctioned(q)'
      BY <1>c, <1>i, <2>1 DEF Sanctioned
    <2>4. \A r \in Req \ {q} : Sanctioned(r)'
      BY <1>i, <2>1 DEF Sanctioned, ApprovalTrail
    <2> QED BY <2>2, <2>3, <2>4 DEF Trail
  <1>8. ASSUME NEW q \in Req, NEW p \in Proc, NEW a \in Answer, Receive(q, p, a)
        PROVE  Gates /\ Trail
    <2>1. /\ pc' = [pc EXCEPT ![q] = "validated"] /\ pc[q] = "idle" /\ mode[p] = "up"
          /\ at' = [at EXCEPT ![q] = p] /\ UNCHANGED <<run, mode, effects, granted, call>>
          /\ answer' = [answer EXCEPT ![q] = a] /\ copy' = [copy EXCEPT ![q] = run]
          /\ target' = [target EXCEPT ![q] = run.ckpt]
      BY <1>8 DEF Receive, Goto, history
    <2> QED BY <1>i, <2>1 DEF TypeOK
  <1>9. ASSUME NEW q \in Req, Reread(q) PROVE Gates /\ Trail
    <2>1. pc[q] = "reread" /\ UNCHANGED <<run, mode, effects, granted>>
      BY <1>9 DEF Reread, history
    <2>2. CASE Drop({q})
      BY <1>a, <2>1, <2>2
    <2>3. CASE /\ pc' = [pc EXCEPT ![q] = "validated"]
               /\ target' = [target EXCEPT ![q] = run.ckpt]
               /\ copy' = [copy EXCEPT ![q] = run]
               /\ UNCHANGED <<at, answer, snap, call>>
      <3>1. answer[q] = "approved" => run.ckpt \in granted
        BY <2>1 DEF ApprovalTrail, Sanctioned
      <3> QED BY <1>i, <2>1, <2>3, <3>1 DEF TypeOK
    <2> QED BY <1>9, <2>2, <2>3, RereadFacts
  <1>10. ASSUME NEW q \in Req, ClaimRun(q) PROVE Gates /\ Trail
    <2>1. pc[q] = "validated" /\ UNCHANGED <<mode, effects>>
      BY <1>10 DEF ClaimRun
    <2>2. CASE Drop({q}) /\ UNCHANGED <<run, granted>>
      BY <1>a, <2>1, <2>2
    <2>3. CASE /\ run' = [run EXCEPT !.status = "RESOLVING"]
               /\ granted' = IF answer[q] = "approved" /\ mode[at[q]] # "recovering"
                             THEN granted \cup {target[q]} ELSE granted
               /\ pc' = [pc EXCEPT ![q] = "claimed"]
               /\ UNCHANGED <<at, answer, target, copy, snap, call>>
      <3>1. pc'[q] = "claimed" /\ (\A r \in Req \ {q} : pc'[r] = pc[r]) /\ run'.ckpt = run.ckpt
        BY <1>t, <2>3 DEF RunRecord, TypeOK
      <3>2. granted \subseteq granted'
        BY <2>3
      <3>3. answer[q] = "approved" => target[q] \in granted'
        BY <2>1, <2>3 DEF ApprovalTrail, Sanctioned
      <3>4. DecisionSanctioned'
        BY <3>1 DEF DecisionSanctioned
      <3>5. EffectApproved'
        BY <2>1, <3>2 DEF ApprovalTrail, EffectApproved
      <3>6. Sanctioned(q)'
        BY <2>3, <3>1, <3>3 DEF Sanctioned
      <3>7. \A r \in Req \ {q} : Sanctioned(r)'
        BY <2>1, <2>3, <3>1, <3>2 DEF Sanctioned, ApprovalTrail
      <3> QED BY <3>4, <3>5, <3>6, <3>7 DEF Gates, Trail
    <2> QED BY <1>10, <2>2, <2>3 DEF ClaimRun, SaveRun, Goto
  \* A request writes the row it holds; no other request is in its way.
  <1>j. ASSUME NEW q \in Req, NEW l, pc[q] \in Holding, pc' = [pc EXCEPT ![q] = l],
               UNCHANGED <<mode, answer, target, at, call, effects, granted>>,
               \A r \in Req \ {q} : copy'[r] = copy[r],
               DecisionSanctioned', Sanctioned(q)'
        PROVE  Gates /\ Trail
    <2>1. \A r \in Req \ {q} : pc'[r] = pc[r] /\ pc[r] \notin Holding
      BY <1>j DEF OneHolder, TypeOK
    <2>2. \A r \in Req \ {q} : Sanctioned(r)'
      BY <1>c, <1>j, <2>1 DEF Sanctioned, ApprovalTrail
    <2> QED BY <1>g, <1>j, <2>2 DEF Gates, Trail
  <1>11. ASSUME NEW q \in Req, RecordDecision(q) PROVE Gates /\ Trail
    <2>1. /\ pc[q] = "claimed" /\ pc' = [pc EXCEPT ![q] = "decided"]
          /\ UNCHANGED <<mode, answer, target, at, call, effects, granted>>
          /\ run'.decision = answer[q] /\ run'.ckpt = copy[q].ckpt
          /\ copy' = [copy EXCEPT ![q] = run']
      BY <1>11, <1>t DEF RecordDecision, SaveRun, Goto, RunRecord, history
    <2>2. answer[q] = "approved" => target[q] \in granted
      BY <2>1, <1>c DEF ApprovalTrail, Sanctioned
    <2>3. copy[q].ckpt = target[q]
      BY <2>1 DEF OwnCheckpoint, Own
    <2>4. DecisionSanctioned'
      BY <2>1, <2>2, <2>3 DEF DecisionSanctioned
    <2>5. Sanctioned(q)'
      BY <2>1, <2>2 DEF Sanctioned, TypeOK
    <2> QED BY <1>j, <2>1, <2>4, <2>5 DEF TypeOK
  <1>12. ASSUME NEW q \in Req, LaunchTask(q) PROVE Gates /\ Trail
    <2>1. /\ pc[q] = "decided" /\ pc' = [pc EXCEPT ![q] = "waiting"]
          /\ UNCHANGED <<mode, answer, target, at, call, copy, effects, granted>>
      BY <1>12 DEF LaunchTask, Goto, history
    <2>2. DecisionSanctioned'
      BY <1>12, LaunchTaskFacts DEF DecisionSanctioned
    <2>3. Sanctioned(q)'
      BY <2>1, <1>c DEF Sanctioned, ApprovalTrail, TypeOK
    <2> QED BY <1>j, <2>1, <2>2, <2>3
  <1>13. ASSUME NEW q \in Req, Reopen(q) PROVE Gates /\ Trail
    <2>1. /\ pc[q] = "reopen" /\ pc' = [pc EXCEPT ![q] = "reread"]
          /\ UNCHANGED <<mode, answer, target, at, call, copy, effects, granted>>
      BY <1>13 DEF Reopen, Goto, history
    <2>2. DecisionSanctioned'
      BY <1>13, ReopenFacts DEF DecisionSanctioned
    <2>3. answer[q] = "approved" => run'.ckpt \in granted
      BY <1>13, <2>1, ReopenFacts DEF ApprovalTrail, Sanctioned
    <2>4. Sanctioned(q)'
      BY <2>1, <2>3, <1>c DEF Sanctioned, TypeOK
    <2> QED BY <1>j, <2>1, <2>2, <2>4
  <1>14. ASSUME NEW q \in Req, BeginTask(q) PROVE Gates /\ Trail
    <2>1. /\ pc[q] = "waiting" /\ pc' = [pc EXCEPT ![q] = "ready"]
          /\ \A r \in Req \ {q} : copy'[r] = copy[r]
          /\ UNCHANGED <<run, mode, answer, target, at, call, effects, granted>>
      BY <1>14 DEF BeginTask, Goto, history, TypeOK
    <2> QED BY <1>e, <2>1
  <1>15. ASSUME NEW q \in Req, ClaimCheckpoint(q) PROVE Gates /\ Trail
    <2>1. pc[q] = "ready" /\ UNCHANGED <<run, mode, effects, granted>>
      BY <1>15 DEF ClaimCheckpoint, history
    <2>2. CASE Drop({q})
      BY <1>a, <2>1, <2>2
    <2>3. CASE /\ pc' = [pc EXCEPT ![q] = "loading"]
               /\ UNCHANGED <<at, answer, target, copy, snap, call>>
      BY <1>e, <2>1, <2>3
    <2> QED BY <1>15, <2>2, <2>3, ClaimCheckpointFacts
  <1>16. ASSUME NEW q \in Req, LoadCheckpoint(q) PROVE Gates /\ Trail
    <2>1. /\ pc[q] = "loading" /\ pc' = [pc EXCEPT ![q] = "calls"]
          /\ call' = [call EXCEPT ![q] = IF answer[q] = "approved" THEN 1 ELSE MaxCalls + 1]
          /\ UNCHANGED <<run, mode, answer, target, at, copy, effects, granted>>
      BY <1>16 DEF LoadCheckpoint, Goto, history
    <2>2. call'[q] \in Call => answer[q] = "approved"
      BY <2>1, BoundAssumption DEF Call, TypeOK
    <2> QED BY <1>e, <2>1, <2>2 DEF TypeOK
  <1>17. ASSUME NEW q \in Req, LookupCall(q) PROVE Gates /\ Trail
    <2>1. /\ pc[q] = "calls" /\ call[q] \in Call
          /\ pc' = [pc EXCEPT ![q] = "calls"] \/ pc' = [pc EXCEPT ![q] = "executing"]
          /\ \A r \in Req \ {q} : call'[r] = call[r]
          /\ UNCHANGED <<run, mode, answer, target, at, copy, effects, granted>>
      BY <1>17 DEF LookupCall, Goto, history, TypeOK
    <2> QED BY <1>e, <1>f, <2>1
  <1>18. ASSUME NEW q \in Req, ExecuteCall(q) PROVE Gates /\ Trail
    <2>1. /\ pc[q] = "executing" /\ call[q] \in Call /\ target[q] \in Ckpt
          /\ UNCHANGED <<run, mode, answer, target, at, copy, granted>>
      BY <1>18 DEF ExecuteCall, HasCheckpoint, Claimed
    <2>2. answer[q] = "approved" /\ target[q] \in granted
      BY <1>f, <2>1
    <2>3. CASE effects' = effects
      <3>1. /\ pc' = [pc EXCEPT ![q] = "calls"] \/ pc' = [pc EXCEPT ![q] = "recording"]
            /\ \A r \in Req \ {q} : call'[r] = call[r]
        BY <1>18 DEF ExecuteCall, Goto, TypeOK
      <3> QED BY <1>e, <2>1, <2>2, <2>3, <3>1
    <2>4. CASE pc' = [pc EXCEPT ![q] = "recording"] /\ UNCHANGED call
      <3>1. EffectApproved'
        <4> SUFFICES ASSUME NEW c \in Ckpt, NEW k \in Call, effects'[c][k] > 0, c # target[q]
                     PROVE  c \in granted
          BY <2>1, <2>2 DEF EffectApproved
        <4>1. effects'[c][k] = effects[c][k]
          BY <1>18, ExecuteFacts
        <4> QED BY <4>1 DEF ApprovalTrail, EffectApproved
      <3>2. pc'[q] = "recording" /\ \A r \in Req \ {q} : pc'[r] = pc[r]
        BY <2>4 DEF TypeOK
      <3>3. DecisionSanctioned'
        BY <1>d, <2>1, <3>2
      <3>4. \A r \in Req : Sanctioned(r)'
        BY <2>1, <2>2, <2>4, <3>2 DEF Sanctioned, ApprovalTrail
      <3> QED BY <3>1, <3>3, <3>4 DEF Gates, Trail
    <2> QED BY <1>18, <2>3, <2>4, ExecuteFacts
  <1>19. ASSUME NEW q \in Req, RecordCall(q) PROVE Gates /\ Trail
    <2>1. /\ pc[q] = "recording" /\ pc' = [pc EXCEPT ![q] = "calls"]
          /\ UNCHANGED <<run, mode, answer, target, at, copy, effects, granted>>
          /\ call'[q] = call[q] + 1 /\ \A r \in Req \ {q} : call'[r] = call[r]
      BY <1>19, RecordCallFacts DEF RecordCall, Goto, history
    <2>2. call'[q] \in Call => answer[q] = "approved"
      BY <1>f, <1>h, <1>t, <2>1
    <2> QED BY <1>e, <2>1, <2>2
  <1>20. ASSUME NEW q \in Req, ResolveCheckpoint(q) PROVE Gates /\ Trail
    <2>1. /\ pc[q] = "calls" /\ pc' = [pc EXCEPT ![q] = "continuing"]
          /\ UNCHANGED <<run, mode, answer, target, at, call, copy, effects, granted>>
      BY <1>20 DEF ResolveCheckpoint, Goto, history
    <2> QED BY <1>e, <2>1
  <1>21. ASSUME NEW q \in Req, NEW c \in Ckpt, PauseTask(q, c) PROVE Gates /\ Trail
    <2>1. /\ pc[q] = "continuing" /\ pc' = [pc EXCEPT ![q] = "pausing"]
          /\ UNCHANGED <<run, mode, answer, target, at, call, effects, granted>>
      BY <1>21 DEF PauseTask, Goto, history
    <2> QED BY <1>21, <1>e, <2>1, PauseTaskFacts
  \* A task leaves with a write to the row.
  <1>k. ASSUME NEW q \in Req, pc[q] \in InTask, Drop({q}), run'.status # "RESOLVING",
               UNCHANGED <<mode, effects, granted>>
        PROVE  Gates /\ Trail
    <2>1. \A r \in Req \ {q} : pc[r] \notin Holding /\ pc'[r] = pc[r]
      BY <1>k, DropFacts DEF OneHolder
    <2>2. pc'[q] = "idle"
      BY <1>k, DropFacts
    <2>3. \A r \in Req \ {q} : answer'[r] = answer[r] /\ at'[r] = at[r] /\ target'[r] = target[r]
      BY <1>k DEF Drop
    <2>4. Trail
      BY <1>c, <1>k, <2>1, <2>2, <2>3 DEF Trail, Sanctioned, ApprovalTrail
    <2>5. DecisionSanctioned'
      BY <1>k DEF DecisionSanctioned
    <2> QED BY <1>g, <1>k, <2>4, <2>5 DEF Gates
  <1>22. ASSUME NEW q \in Req, FinishTask(q) PROVE Gates /\ Trail
    <2>1. /\ pc[q] \in InTask /\ Drop({q}) /\ UNCHANGED <<mode, effects, granted>>
      BY <1>22 DEF FinishTask, history
    <2>2. run'.status # "RESOLVING"
      BY <1>22, FinishTaskFacts DEF HasCheckpoint
    <2> QED BY <1>k, <2>1, <2>2
  <1>23. ASSUME NEW q \in Req, FailTask(q) PROVE Gates /\ Trail
    <2>1. /\ pc[q] \in InTask /\ Drop({q}) /\ UNCHANGED <<mode, effects, granted>>
      BY <1>23 DEF FailTask, InLoop, history
    <2> QED BY <1>23, <1>k, <2>1, FailTaskFacts
  <1>24. ASSUME NEW q \in Req, AbandonTask(q) \/ CancelTask(q) PROVE Gates /\ Trail
    BY <1>24, <1>a DEF AbandonTask, CancelTask, history
  <1>25. CASE LeaseRunsOut
    <2>1. /\ run' = Outdated(run) /\ \A q \in Req : copy'[q] = Outdated(copy[q])
          /\ UNCHANGED <<mode, pc, at, answer, target, call, effects, granted>>
      BY <1>25 DEF LeaseRunsOut, SaveRun, history
    <2>2. /\ run'.ckpt = run.ckpt /\ run'.status = run.status
          /\ run'.decision = run.decision
          /\ \A q \in Req : copy'[q].ckpt = copy[q].ckpt
      BY <1>t, <2>1 DEF Outdated, RunRecord
    <2> QED BY <1>b, <2>1, <2>2
  <1>26. CASE UNCHANGED vars
    BY <1>26, <1>b DEF vars, reqVars, history
  <1> QED
    BY <1>1, <1>2, <1>3, <1>4, <1>5, <1>6, <1>7, <1>8, <1>9, <1>10, <1>11, <1>12, <1>13,
       <1>14, <1>15, <1>16, <1>17, <1>18, <1>19, <1>20, <1>21, <1>22, <1>23, <1>24, <1>25,
       <1>26
    DEF Next, RequestStep, TaskStep

\* A gated tool runs only for a checkpoint that a human approved, where leases
\* hold and no process dies between its claim and its decision: recovery never
\* carries an approval from one pause to another.
THEOREM EffectsAreApproved ==
    Orderly /\ LeaseHolds /\ ~CrashInClaim => (Spec => []EffectApproved)
  <1> SUFFICES ASSUME Orderly, LeaseHolds, ~CrashInClaim PROVE Spec => []EffectApproved
    OBVIOUS
  <1>1. Init => ApprovalTrail
    <2> SUFFICES ASSUME Init PROVE ApprovalTrail
      OBVIOUS
    <2>1. EffectApproved
      BY DEF Init, EffectApproved
    <2>2. DecisionSanctioned
      BY NoRunFields DEF Init, DecisionSanctioned
    <2>3. \A q \in Req : pc[q] = "idle"
      BY DEF Init
    <2>4. "idle" \notin Claimed
      BY DEF Claimed, InTask, InLoop
    <2> QED BY <2>1, <2>2, <2>3, <2>4 DEF ApprovalTrail, Sanctioned
  <1>2. TypeOK /\ ResumeDiscipline /\ OneHolder /\ [Next]_vars => OneHolder'
    BY NextOneHolder DEF ResumeDiscipline
  <1>3. Spec => []OneHolder
    BY <1>2, InitOneHolder, TypeCorrect, DisciplineHolds, PTL DEF Spec
  <1>4. TypeOK /\ ResumeDiscipline /\ OneHolder /\ ApprovalTrail /\ [Next]_vars
          => ApprovalTrail'
    BY NextApprovalTrail DEF ResumeDiscipline
  <1>5. ApprovalTrail => EffectApproved
    BY DEF ApprovalTrail
  <1> QED BY <1>1, <1>3, <1>4, <1>5, TypeCorrect, DisciplineHolds, PTL DEF Spec

=============================================================================
