------------------------- MODULE RunAdmissionProofs -------------------------
(***************************************************************************)
(* Proofs about the admission of runs, for any finite sets of requests and *)
(* comparisons, any keys, any cap, any number of slots and any deployment. *)
(***************************************************************************)
EXTENDS RunAdmission, FiniteSetTheorems, TLAPS

-----------------------------------------------------------------------------
(* Type correctness.                                                       *)

RequestRecord ==
  [pc : Handling \cup {"idle", "done", "lost"}, key : Key \cup {NoKey},
   team : BOOLEAN, answer : Request \cup {NoAnswer, Refused}]
AnyStatus == {NoRow} \cup Terminal \cup Active

\* The type invariant, by the variables that actions change together.
StoreTyped ==
  /\ status \in [Request -> AnyStatus]
  /\ leased \in [Request -> BOOLEAN]
  /\ revived \subseteq Request
TasksTyped ==
  /\ driver \in [Request -> Driving]
  /\ beating \subseteq Request
  /\ resume \in [Request -> Resuming]
EnvTyped == world \in Worlds /\ up \in BOOLEAN /\ crashes \in 0..MaxCrashes
ResumesTyped == resumes \in [Request -> 0..MaxResumes]
ComparesTyped == compare \in [Compare -> {"off", "waiting", "running", "done"}]

LEMMA TypeParts ==
  TypeOK <=> /\ EnvTyped /\ StoreTyped /\ TasksTyped /\ ResumesTyped /\ ComparesTyped
             /\ req \in [Request -> RequestRecord] /\ outstanding \in 0..Cap
  BY DEF TypeOK, EnvTyped, StoreTyped, TasksTyped, ResumesTyped, ComparesTyped, RequestRecord,
     AnyStatus

LEMMA AnsweredType ==
  ASSUME TypeOK, NEW q \in Request, NEW a \in Request \cup {NoAnswer, Refused},
         Answer(q, a)
  PROVE  req' \in [Request -> RequestRecord]
  <1>1. [req[q] EXCEPT !.pc = "done", !.answer = a] \in RequestRecord
    BY TypeParts DEF RequestRecord
  <1>2. req' = [req EXCEPT ![q] = [req[q] EXCEPT !.pc = "done", !.answer = a]]
    BY TypeParts DEF Answer
  <1> QED BY <1>1, <1>2, TypeParts

LEMMA SaveRunType ==
  ASSUME TypeOK, NEW q \in Request, NEW s \in AnyStatus, NEW l \in BOOLEAN,
         SaveRun(q, s, l)
  PROVE  StoreTyped'
  BY DEF SaveRun, TypeOK, StoreTyped, AnyStatus

LEMMA CounterType ==
  ASSUME TypeOK
  PROVE  /\ Released \in 0..Cap
         /\ MayAdmit => Taken \in 0..Cap
  BY AdmissionAssumption DEF TypeOK, Released, MayAdmit, Taken

\* The stages of drivers and resumes.
LEMMA DriverType ==
  ASSUME TypeOK, NEW q \in Request, NEW at \in Driving
  PROVE  [driver EXCEPT ![q] = at] \in [Request -> Driving]
  BY DEF TypeOK

LEMMA ResumeType ==
  ASSUME TypeOK, NEW q \in Request
  PROVE  /\ resume[q] \in Resuming /\ resume[q].leased \in BOOLEAN
         /\ leased[q] \in BOOLEAN /\ Dispatch \in BOOLEAN
         /\ NoResume \in Resuming
         /\ \A r \in Resuming : [resume EXCEPT ![q] = r] \in [Request -> Resuming]
         /\ \A at \in {"claimed", "driving"}, l \in BOOLEAN :
              [at |-> at, leased |-> l] \in Resuming
         /\ [resume EXCEPT ![q].at = "waiting"] \in [Request -> Resuming]
  BY DEF TypeOK, Resuming, NoResume, Dispatch

LEMMA TypeInit == Init => TypeOK
  BY AdmissionAssumption DEF Init, TypeOK, Resuming, NoResume, Driving, NoRow

LEMMA TypeNext == TypeOK /\ [Next]_vars => TypeOK'
  <1> SUFFICES ASSUME TypeOK, [Next]_vars PROVE TypeOK'
    OBVIOUS
  <1>t. /\ EnvTyped /\ StoreTyped /\ TasksTyped /\ ResumesTyped /\ ComparesTyped
        /\ req \in [Request -> RequestRecord] /\ outstanding \in 0..Cap
    BY TypeParts
  <1>p. ASSUME /\ EnvTyped' /\ StoreTyped' /\ TasksTyped' /\ ResumesTyped' /\ ComparesTyped'
               /\ req' \in [Request -> RequestRecord] /\ outstanding' \in 0..Cap
        PROVE  TypeOK'
    BY <1>p DEF TypeOK, EnvTyped, StoreTyped, TasksTyped, ResumesTyped, ComparesTyped,
       RequestRecord, AnyStatus
  <1>s. {"QUEUED", "RUNNING", "AWAITING_APPROVAL", "RESOLVING", "FAILED"} \subseteq AnyStatus
        /\ Outcome \subseteq AnyStatus
    BY DEF AnyStatus, Terminal, Active, Outcome
  <1>d. {"none", "waiting", "driving", "saved"} \subseteq Driving
    BY DEF Driving
  <1>e. UNCHANGED envVars => EnvTyped'
    BY <1>t DEF envVars, EnvTyped
  <1>f. UNCHANGED taskVars => TasksTyped'
    BY <1>t DEF taskVars, TasksTyped
  <1>g. UNCHANGED quotaVars => ComparesTyped' /\ outstanding' \in 0..Cap
    BY <1>t DEF quotaVars, ComparesTyped
  <1>h. UNCHANGED storeVars => StoreTyped' /\ ResumesTyped'
    BY <1>t DEF storeVars, StoreTyped, ResumesTyped
  <1>i. UNCHANGED resumes => ResumesTyped'
    BY <1>t DEF ResumesTyped
  <1>j. UNCHANGED compare => ComparesTyped'
    BY <1>t DEF ComparesTyped
  <1>k. UNCHANGED <<status, leased, revived>> => StoreTyped'
    BY <1>t DEF StoreTyped
  <1>l. \A q \in Request, s \in AnyStatus, l \in BOOLEAN : SaveRun(q, s, l) => StoreTyped'
    BY SaveRunType
  <1>m. \A q \in Request :
          resume[q].leased \in BOOLEAN /\ leased[q] \in BOOLEAN /\ Dispatch \in BOOLEAN
    BY ResumeType
  <1>1. ASSUME NEW q \in Request, NEW k \in Key \cup {NoKey}, NEW team \in BOOLEAN,
               Submit(q, k, team)
        PROVE  TypeOK'
    <2>1. [req[q] EXCEPT !.pc = "store", !.key = k, !.team = team] \in RequestRecord
      BY <1>t DEF RequestRecord, Handling
    <2>2. req' \in [Request -> RequestRecord]
      BY <1>1, <1>t, <2>1 DEF Submit, RequestRecord
    <2> QED BY <1>1, <2>2, <1>p, <1>e, <1>f, <1>g, <1>h DEF Submit, procVars
  <1>2. ASSUME NEW q \in Request, SaveRunIfUnderQuota(q) PROVE TypeOK'
    <2>1. req' \in [Request -> RequestRecord]
      BY <1>2, AnsweredType DEF SaveRunIfUnderQuota, Replay, Prior
    <2>2. StoreTyped' /\ ResumesTyped'
      BY <1>2, <1>s, <1>h, <1>i, SaveRunType DEF SaveRunIfUnderQuota, Replay
    <2> QED BY <1>2, <2>1, <2>2, <1>p, <1>e, <1>f, <1>g DEF SaveRunIfUnderQuota, procVars
  <1>3. ASSUME NEW q \in Request, QuotaCheckFails(q) PROVE TypeOK'
    <2>1. req' \in [Request -> RequestRecord]
      BY <1>3, <1>t DEF QuotaCheckFails, RequestRecord, Handling
    <2> QED BY <1>3, <2>1, <1>p, <1>e, <1>f, <1>g, <1>h DEF QuotaCheckFails, procVars
  <1>4. ASSUME NEW q \in Request, FailOpenInsert(q) PROVE TypeOK'
    <2>1. req' \in [Request -> RequestRecord]
      BY <1>4, AnsweredType DEF FailOpenInsert
    <2>2. StoreTyped' /\ ResumesTyped'
      BY <1>4, <1>s, <1>h, <1>i, SaveRunType DEF FailOpenInsert
    <2> QED BY <1>4, <2>1, <2>2, <1>p, <1>e, <1>f, <1>g DEF FailOpenInsert, procVars
  <1>5. ASSUME NEW q \in Request, SaveRunIfAbsent(q) PROVE TypeOK'
    <2>1. req' \in [Request -> RequestRecord]
      <3>1. CASE Replay(q)
        BY <3>1, AnsweredType DEF Replay, Prior
      <3>2. CASE req' = [req EXCEPT ![q].pc = "admit"]
        BY <3>2, <1>t DEF RequestRecord, Handling
      <3> QED BY <1>5, <3>1, <3>2 DEF SaveRunIfAbsent
    <2>2. StoreTyped' /\ ResumesTyped'
      BY <1>5, <1>s, <1>h, <1>i, SaveRunType DEF SaveRunIfAbsent, Replay
    <2> QED BY <1>5, <2>1, <2>2, <1>p, <1>e, <1>f, <1>g DEF SaveRunIfAbsent, procVars
  <1>6. ASSUME NEW q \in Request, Launch(q) PROVE TypeOK'
    <2>1. req' \in [Request -> RequestRecord]
      <3>1. CASE Answer(q, q)
        BY <3>1, AnsweredType
      <3>2. CASE req' = [req EXCEPT ![q].pc = "reject"]
        BY <3>2, <1>t DEF RequestRecord, Handling
      <3> QED BY <1>6, <3>1, <3>2 DEF Launch
    <2>2. outstanding' \in 0..Cap
      BY <1>6, <1>t, CounterType DEF Launch
    <2>3. TasksTyped'
      BY <1>6, <1>t, <1>d, DriverType DEF Launch, TasksTyped
    <2> QED BY <1>6, <2>1, <2>2, <2>3, <1>p, <1>e, <1>h, <1>j DEF Launch
  <1>7. ASSUME NEW q \in Request, MarkRejected(q) PROVE TypeOK'
    <2>1. req' \in [Request -> RequestRecord]
      BY <1>7, AnsweredType DEF MarkRejected
    <2>2. StoreTyped'
      BY <1>7, <1>s, <1>k, SaveRunType DEF MarkRejected
    <2> QED BY <1>7, <2>1, <2>2, <1>p, <1>e, <1>f, <1>g, <1>i DEF MarkRejected, procVars
  <1>8. ASSUME NEW q \in Request, ClaimRun(q) PROVE TypeOK'
    <2>1. StoreTyped'
      BY <1>8, <1>s, <1>k, <1>l, <1>m DEF ClaimRun
    <2>2. TasksTyped'
      BY <1>8, <1>t, <1>d, DriverType DEF ClaimRun, TasksTyped
    <2> QED BY <1>8, <2>1, <2>2, <1>i, <1>t, <1>p, <1>e, <1>g DEF ClaimRun
  <1>9. ASSUME NEW q \in Request, StartDriving(q) PROVE TypeOK'
    <2>1. StoreTyped'
      BY <1>9, <1>s, <1>k, <1>l, <1>m DEF StartDriving
    <2>2. TasksTyped'
      BY <1>9, <1>t, <1>d, DriverType DEF StartDriving, TasksTyped
    <2> QED BY <1>9, <2>1, <2>2, <1>i, <1>t, <1>p, <1>e, <1>g DEF StartDriving
  <1>10. ASSUME NEW q \in Request, SaveOutcome(q) PROVE TypeOK'
    <2>1. StoreTyped'
      BY <1>10, <1>s, <1>k, <1>l, <1>m DEF SaveOutcome
    <2>2. TasksTyped'
      BY <1>10, <1>t, <1>d, DriverType DEF SaveOutcome, TasksTyped
    <2> QED BY <1>10, <2>1, <2>2, <1>i, <1>t, <1>p, <1>e, <1>g DEF SaveOutcome
  <1>12. ASSUME NEW q \in Request, Redrive(q) PROVE TypeOK'
    BY <1>12, <1>t, <1>p, <1>s, <1>e, <1>f, <1>g, <1>i, SaveRunType DEF Redrive, procVars
  <1>13. ASSUME NEW q \in Request, Requeue(q) PROVE TypeOK'
    BY <1>13, <1>t, <1>p, <1>s, <1>e, <1>f, <1>g, <1>i, SaveRunType DEF Requeue, procVars
  <1>25. ASSUME NEW q \in Request, Recover(q) PROVE TypeOK'
    <2>2. TasksTyped'
      BY <1>25, <1>t, ResumeType DEF Recover, TasksTyped
    <2> QED BY <1>25, <2>2, <1>h, <1>t, <1>p, <1>e, <1>g DEF Recover
  <1>15. ASSUME NEW q \in Request, LaunchResume(q) PROVE TypeOK'
    <2>1. StoreTyped'
      BY <1>15, <1>s, <1>k, <1>l, <1>m DEF LaunchResume
    <2>2. TasksTyped'
      BY <1>15, <1>t, ResumeType DEF LaunchResume, TasksTyped
    <2> QED BY <1>15, <2>1, <2>2, <1>i, <1>t, <1>p, <1>e, <1>g DEF LaunchResume
  <1>26. ASSUME NEW q \in Request, StartResume(q) PROVE TypeOK'
    <2>2. TasksTyped'
      BY <1>26, <1>t, ResumeType DEF StartResume, TasksTyped
    <2> QED BY <1>26, <2>2, <1>h, <1>t, <1>p, <1>e, <1>g DEF StartResume
  <1>27. ASSUME NEW q \in Request, FinishResume(q) PROVE TypeOK'
    <2>1. StoreTyped'
      BY <1>27, <1>s, <1>k, <1>l, <1>m DEF FinishResume, EndsSilently
    <2>2. TasksTyped'
      BY <1>27, <1>t, ResumeType DEF FinishResume, TasksTyped
    <2> QED BY <1>27, <2>1, <2>2, <1>i, <1>t, <1>p, <1>e, <1>g DEF FinishResume
  <1>11. ASSUME NEW q \in Request, FinishDriving(q) PROVE TypeOK'
    <2>1. outstanding' \in 0..Cap
      BY <1>11, <1>t, CounterType DEF FinishDriving
    <2>2. StoreTyped' /\ ResumesTyped'
      BY <1>11, <1>s, <1>h, <1>i, SaveRunType DEF FinishDriving
    <2>3. TasksTyped'
      BY <1>11, <1>t, <1>d, DriverType DEF FinishDriving, TasksTyped
    <2> QED BY <1>11, <2>1, <2>2, <2>3, <1>t, <1>p, <1>e, <1>j DEF FinishDriving
  <1>14. ASSUME NEW q \in Request, ClaimForResume(q) PROVE TypeOK'
    <2>1. StoreTyped'
      BY <1>14, <1>s, <1>l, <1>m DEF ClaimForResume
    <2>2. TasksTyped'
      BY <1>14, <1>t, ResumeType DEF ClaimForResume, TasksTyped
    <2>3. ResumesTyped'
      BY <1>14, <1>t, AdmissionAssumption DEF ClaimForResume, ResumesTyped
    <2> QED BY <1>14, <2>1, <2>2, <2>3, <1>t, <1>p, <1>e, <1>g DEF ClaimForResume
  <1>28. ASSUME NEW q \in Request, StopBeating(q) PROVE TypeOK'
    <2>1. TasksTyped'
      BY <1>28, <1>t DEF StopBeating, TasksTyped
    <2> QED BY <1>28, <2>1, <1>t, <1>p, <1>e, <1>g, <1>h DEF StopBeating
  <1>16. ASSUME NEW c \in Compare, CompareAdmit(c) PROVE TypeOK'
    <2>1. ComparesTyped' /\ outstanding' \in 0..Cap
      BY <1>16, <1>t, CounterType DEF CompareAdmit, ComparesTyped
    <2> QED BY <1>16, <2>1, <1>t, <1>p, <1>e, <1>f, <1>h DEF CompareAdmit
  <1>17. ASSUME NEW c \in Compare, CompareRuns(c) PROVE TypeOK'
    <2>1. ComparesTyped'
      BY <1>17, <1>t DEF CompareRuns, ComparesTyped
    <2> QED BY <1>17, <2>1, <1>t, <1>p, <1>e, <1>f, <1>h DEF CompareRuns
  <1>18. ASSUME NEW c \in Compare, CompareEnds(c) PROVE TypeOK'
    <2>1. ComparesTyped' /\ outstanding' \in 0..Cap
      BY <1>18, <1>t, CounterType DEF CompareEnds, ComparesTyped
    <2> QED BY <1>18, <2>1, <1>t, <1>p, <1>e, <1>f, <1>h DEF CompareEnds
  <1>19. ASSUME ForgetProcess
         PROVE  /\ EnvTyped' /\ TasksTyped' /\ ComparesTyped' /\ ResumesTyped'
                /\ outstanding' \in 0..Cap
                /\ leased' = leased /\ revived' = revived
    <2>4. crashes' \in 0..MaxCrashes
      BY <1>19, <1>t, AdmissionAssumption DEF ForgetProcess, EnvTyped
    <2>5. outstanding' \in 0..Cap
      BY <1>19, AdmissionAssumption DEF ForgetProcess
    <2>1. EnvTyped' /\ outstanding' \in 0..Cap
      BY <1>19, <1>t, <2>4, <2>5 DEF ForgetProcess, EnvTyped
    <2>2. TasksTyped'
      BY <1>19 DEF ForgetProcess, TasksTyped, Driving, Resuming, NoResume
    <2>3. ComparesTyped'
      BY <1>19, <1>t DEF ForgetProcess, ComparesTyped
    <2> QED BY <1>19, <2>1, <2>2, <2>3, <1>i DEF ForgetProcess
  <1>20. CASE Crash
    <2>1. req' \in [Request -> RequestRecord]
      BY <1>20, <1>t DEF Crash, RequestRecord
    <2> QED BY <1>20, <2>1, <1>19, <1>k, <1>p DEF Crash
  <1>21. CASE Drain
    <2>1. StoreTyped'
      BY <1>21, <1>t, <1>s, <1>19 DEF Drain, StoreTyped
    <2> QED BY <1>21, <2>1, <1>t, <1>19, <1>p DEF Drain
  <1>22. CASE Restart
    <2>1. StoreTyped'
      BY <1>22, <1>t, <1>s DEF Restart, StoreTyped
    <2>2. EnvTyped'
      BY <1>22, <1>t DEF Restart, EnvTyped
    <2> QED BY <1>22, <2>1, <2>2, <1>t, <1>p, <1>f, <1>g, <1>i DEF Restart, procVars
  <1>23. CASE UNCHANGED vars
    BY <1>23, <1>t, <1>p, <1>e, <1>f, <1>g, <1>h DEF vars, procVars
  <1> QED
    BY <1>1, <1>2, <1>3, <1>4, <1>5, <1>6, <1>7, <1>8, <1>9, <1>10, <1>11, <1>12,
       <1>13, <1>14, <1>15, <1>16, <1>17, <1>18, <1>20, <1>21, <1>22, <1>23,
       <1>25, <1>26, <1>27, <1>28
       DEF Next, HandlerStep, DriverStep, ResumeStep

\* The records of the store and the counter of the process keep their types;
\* the counter stays between 0 and the cap.
THEOREM TypeCorrect == Spec => []TypeOK
  BY TypeInit, TypeNext, PTL DEF Spec

-----------------------------------------------------------------------------
(* The inductive invariant that ties a request, its record and its driver  *)
(* together.                                                               *)

\* A handler owns its record until it answers: before the insert there is no
\* record, after the insert of the inline path it is queued and undriven.
HandlerOwnsRecord(q) ==
  /\ req[q].pc \in Handling => up
  /\ req[q].pc \in {"idle", "store", "fallback"} => status[q] = NoRow
  /\ req[q].pc \in {"admit", "reject"} => ~Dispatch /\ status[q] = "QUEUED" /\ Idle(q)
  /\ req[q].pc # "done" => req[q].answer = NoAnswer
  /\ req[q].pc = "fallback" => world.flaky
  /\ req[q].team => world.teams

\* Drivers and resumes are at work on records that exist; a dead process has
\* none.
DriverHasRecord(q) == ~Idle(q) => up /\ status[q] # NoRow

\* The record of a refused request, if there is one, has no driver and is in
\* no status from which somebody would start one.
RefusedHasNoDriver(q) ==
  req[q].answer = Refused =>
    /\ Idle(q)
    /\ \/ status[q] = NoRow
       \/ ~Dispatch /\ status[q] = "FAILED"
       \/ ~Dispatch /\ status[q] = "QUEUED" /\ world.flaky

Ownership ==
  \A q \in Request :
    HandlerOwnsRecord(q) /\ DriverHasRecord(q) /\ RefusedHasNoDriver(q)

LEMMA OwnershipInit == Init => Ownership
  BY AdmissionAssumption DEF Init, Ownership, HandlerOwnsRecord, DriverHasRecord,
     RefusedHasNoDriver, Handling, Idle, NoResume

LEMMA OwnershipNext == TypeOK /\ Ownership /\ [Next]_vars => Ownership'
  <1> SUFFICES ASSUME TypeOK, Ownership, [Next]_vars, NEW p \in Request
               PROVE  /\ HandlerOwnsRecord(p)' /\ DriverHasRecord(p)'
                      /\ RefusedHasNoDriver(p)'
    BY DEF Ownership
  <1> DEFINE Owned == HandlerOwnsRecord(p) /\ DriverHasRecord(p) /\ RefusedHasNoDriver(p)
  <1>a. Owned
    BY DEF Ownership
  <1>b. TypeOK
    OBVIOUS
  <1> USE <1>a, <1>b, AdmissionAssumption
          DEF HandlerOwnsRecord, DriverHasRecord, RefusedHasNoDriver, Dispatch, Handling,
              NoRow, Terminal, Active, Idle, TypeOK, taskVars, quotaVars
  <1>1. ASSUME NEW q \in Request, NEW k \in Key \cup {NoKey}, NEW team \in BOOLEAN,
               Submit(q, k, team)
        PROVE  Owned'
    BY <1>1 DEF Submit, storeVars, procVars, envVars
  <1>2. ASSUME NEW q \in Request, SaveRunIfUnderQuota(q) PROVE Owned'
    BY <1>2 DEF SaveRunIfUnderQuota, Replay, Prior, Answer, SaveRun, storeVars, procVars, envVars
  <1>3. ASSUME NEW q \in Request, QuotaCheckFails(q) PROVE Owned'
    BY <1>3 DEF QuotaCheckFails, storeVars, procVars, envVars
  <1>4. ASSUME NEW q \in Request, FailOpenInsert(q) PROVE Owned'
    <2>1. CASE Answer(q, Refused) /\ UNCHANGED storeVars
      BY <1>4, <2>1 DEF FailOpenInsert, Answer, storeVars, procVars, envVars
    <2>2. CASE SaveRun(q, "QUEUED", FALSE) /\ Answer(q, q)
      BY <1>4, <2>2 DEF FailOpenInsert, Answer, SaveRun, procVars, envVars
    <2> QED BY <1>4, <2>1, <2>2 DEF FailOpenInsert
  <1>5. ASSUME NEW q \in Request, SaveRunIfAbsent(q) PROVE Owned'
    BY <1>5 DEF SaveRunIfAbsent, Replay, Prior, Answer, SaveRun, storeVars, procVars, envVars
  <1>6. ASSUME NEW q \in Request, Launch(q) PROVE Owned'
    BY <1>6 DEF Launch, Answer, storeVars, envVars
  <1>7. ASSUME NEW q \in Request, MarkRejected(q) PROVE Owned'
    BY <1>7 DEF MarkRejected, Answer, SaveRun, procVars, envVars
  <1>8. ASSUME NEW q \in Request, ClaimRun(q) PROVE Owned'
    BY <1>8 DEF ClaimRun, SaveRun, envVars
  <1>9. ASSUME NEW q \in Request, StartDriving(q) PROVE Owned'
    BY <1>9 DEF StartDriving, SaveRun, envVars
  <1>10. ASSUME NEW q \in Request, SaveOutcome(q) PROVE Owned'
    BY <1>10 DEF SaveOutcome, SaveRun, Outcome, envVars
  <1>11. ASSUME NEW q \in Request, FinishDriving(q) PROVE Owned'
    BY <1>11 DEF FinishDriving, SaveRun, storeVars, envVars
  <1>12. ASSUME NEW q \in Request, Redrive(q) PROVE Owned'
    BY <1>12 DEF Redrive, SaveRun, procVars, envVars
  <1>13. ASSUME NEW q \in Request, Requeue(q) PROVE Owned'
    BY <1>13 DEF Requeue, SaveRun, procVars, envVars
  <1>14. ASSUME NEW q \in Request, ClaimForResume(q) PROVE Owned'
    BY <1>14 DEF ClaimForResume, SaveRun, envVars
  <1>15. ASSUME NEW q \in Request, LaunchResume(q) PROVE Owned'
    BY <1>15 DEF LaunchResume, SaveRun, envVars
  <1>25. ASSUME NEW q \in Request, Recover(q) PROVE Owned'
    BY <1>25 DEF Recover, storeVars, envVars
  <1>26. ASSUME NEW q \in Request, StartResume(q) PROVE Owned'
    BY <1>26 DEF StartResume, storeVars, envVars
  <1>27. ASSUME NEW q \in Request, FinishResume(q) PROVE Owned'
    BY <1>27 DEF FinishResume, SaveRun, Outcome, EndsSilently, NoResume, envVars
  <1>28. ASSUME NEW q \in Request, StopBeating(q) PROVE Owned'
    BY <1>28 DEF StopBeating, storeVars, envVars
  <1>16. ASSUME NEW c \in Compare, CompareAdmit(c) PROVE Owned'
    BY <1>16 DEF CompareAdmit, storeVars, envVars
  <1>17. ASSUME NEW c \in Compare, CompareRuns(c) PROVE Owned'
    BY <1>17 DEF CompareRuns, storeVars, envVars
  <1>18. ASSUME NEW c \in Compare, CompareEnds(c) PROVE Owned'
    BY <1>18 DEF CompareEnds, storeVars, envVars
  <1>19. CASE Crash
    BY <1>19 DEF Crash, ForgetProcess, NoResume
  <1>20. CASE Drain
    BY <1>20 DEF Drain, ForgetProcess, NoResume, AtWork
  <1>21. CASE Restart
    BY <1>21 DEF Restart, Swept, procVars
  <1>22. CASE UNCHANGED vars
    BY <1>22 DEF vars, storeVars, procVars, envVars
  <1> QED
    BY <1>1, <1>2, <1>3, <1>4, <1>5, <1>6, <1>7, <1>8, <1>9, <1>10, <1>11, <1>12,
       <1>13, <1>14, <1>15, <1>16, <1>17, <1>18, <1>19, <1>20, <1>21, <1>22,
       <1>25, <1>26, <1>27, <1>28
       DEF Next, HandlerStep, DriverStep, ResumeStep


-----------------------------------------------------------------------------
(* Idempotency keys.                                                       *)

\* A record is never deleted and keeps its key; it is created where no record
\* with its key is; an answer that names a record names a record of the key.
KeptRecord(p) == status[p] # NoRow => status'[p] # NoRow /\ req'[p].key = req[p].key
NewRecord(p) ==
  status[p] = NoRow /\ status'[p] # NoRow =>
    /\ Prior(p) = {} /\ req'[p].key = req[p].key
    /\ \A r \in Request \ {p} : req'[r] = req[r] /\ status'[r] = status[r]
NewAnswer(p) ==
  req'[p].answer \in Request =>
    /\ req'[p].key = req[p].key
    /\ \/ req'[p].answer = req[p].answer
       \/ req'[p].answer = p /\ status'[p] # NoRow
       \/ req'[p].answer \in Prior(p)

LEMMA RecordStep ==
  ASSUME TypeOK, Ownership, [Next]_vars, NEW p \in Request
  PROVE  KeptRecord(p) /\ NewRecord(p) /\ NewAnswer(p)
  <1> DEFINE Goal == KeptRecord(p) /\ NewRecord(p) /\ NewAnswer(p)
  <1>a. \A q \in Request : HandlerOwnsRecord(q) /\ DriverHasRecord(q)
    BY DEF Ownership
  <1>b. TypeOK
    OBVIOUS
  <1> USE <1>a, <1>b, AdmissionAssumption
          DEF HandlerOwnsRecord, DriverHasRecord, Handling, NoRow, Terminal, Active, Idle,
              TypeOK, KeptRecord, NewRecord, NewAnswer
  <1>1. ASSUME NEW q \in Request, NEW k \in Key \cup {NoKey}, NEW team \in BOOLEAN,
               Submit(q, k, team)
        PROVE  Goal
    BY <1>1 DEF Submit, storeVars
  <1>2. ASSUME NEW q \in Request, SaveRunIfUnderQuota(q) PROVE Goal
    <2>1. CASE Replay(q)
      <3>1. PICK r \in Prior(q) : Answer(q, r)
        BY <2>1 DEF Replay
      <3>2. status' = status /\ req[q].answer = NoAnswer
        BY <1>2, <2>1 DEF SaveRunIfUnderQuota, Replay, storeVars
      <3> QED BY <3>1, <3>2 DEF Answer
    <2>2. CASE Answer(q, Refused) /\ UNCHANGED storeVars
      BY <1>2, <2>2 DEF SaveRunIfUnderQuota, Answer, storeVars
    <2>3. CASE Prior(q) = {} /\ SaveRun(q, "QUEUED", FALSE) /\ Answer(q, q)
      BY <1>2, <2>3 DEF SaveRunIfUnderQuota, Answer, SaveRun
    <2> QED BY <1>2, <2>1, <2>2, <2>3 DEF SaveRunIfUnderQuota
  <1>3. ASSUME NEW q \in Request, QuotaCheckFails(q) PROVE Goal
    BY <1>3 DEF QuotaCheckFails, storeVars
  <1>4. ASSUME NEW q \in Request, FailOpenInsert(q) PROVE Goal
    BY <1>4 DEF FailOpenInsert, Answer, SaveRun, storeVars
  <1>5. ASSUME NEW q \in Request, SaveRunIfAbsent(q) PROVE Goal
    BY <1>5 DEF SaveRunIfAbsent, Replay, Answer, SaveRun, storeVars
  <1>6. ASSUME NEW q \in Request, Launch(q) PROVE Goal
    <2>1. status' = status /\ status[q] # NoRow
      BY <1>6 DEF Launch, storeVars
    <2>2. CASE Answer(q, q)
      BY <2>1, <2>2 DEF Answer
    <2>3. CASE req' = [req EXCEPT ![q].pc = "reject"]
      BY <2>1, <2>3
    <2> QED BY <1>6, <2>2, <2>3 DEF Launch
  <1>7. ASSUME NEW q \in Request, MarkRejected(q) PROVE Goal
    BY <1>7 DEF MarkRejected, Answer, SaveRun
  <1>8. ASSUME NEW q \in Request, ClaimRun(q) PROVE Goal
    BY <1>8 DEF ClaimRun, SaveRun
  <1>9. ASSUME NEW q \in Request, StartDriving(q) PROVE Goal
    BY <1>9 DEF StartDriving, SaveRun
  <1>10. ASSUME NEW q \in Request, SaveOutcome(q) PROVE Goal
    BY <1>10 DEF SaveOutcome, SaveRun, Outcome
  <1>11. ASSUME NEW q \in Request, FinishDriving(q) PROVE Goal
    BY <1>11 DEF FinishDriving, SaveRun, storeVars
  <1>12. ASSUME NEW q \in Request, Redrive(q) PROVE Goal
    BY <1>12 DEF Redrive, SaveRun
  <1>13. ASSUME NEW q \in Request, Requeue(q) PROVE Goal
    BY <1>13 DEF Requeue, SaveRun
  <1>14. ASSUME NEW q \in Request, ClaimForResume(q) PROVE Goal
    BY <1>14 DEF ClaimForResume, SaveRun
  <1>15. ASSUME NEW q \in Request, LaunchResume(q) PROVE Goal
    BY <1>15 DEF LaunchResume, SaveRun
  <1>25. ASSUME NEW q \in Request, Recover(q) PROVE Goal
    BY <1>25 DEF Recover, storeVars
  <1>26. ASSUME NEW q \in Request, StartResume(q) PROVE Goal
    BY <1>26 DEF StartResume, storeVars
  <1>27. ASSUME NEW q \in Request, FinishResume(q) PROVE Goal
    BY <1>27 DEF FinishResume, SaveRun, Outcome, EndsSilently
  <1>28. ASSUME NEW q \in Request, StopBeating(q) PROVE Goal
    BY <1>28 DEF StopBeating, storeVars
  <1>16. ASSUME NEW c \in Compare, CompareAdmit(c) PROVE Goal
    BY <1>16 DEF CompareAdmit, storeVars
  <1>17. ASSUME NEW c \in Compare, CompareRuns(c) PROVE Goal
    BY <1>17 DEF CompareRuns, storeVars
  <1>18. ASSUME NEW c \in Compare, CompareEnds(c) PROVE Goal
    BY <1>18 DEF CompareEnds, storeVars
  <1>19. CASE Crash
    BY <1>19 DEF Crash
  <1>20. CASE Drain
    BY <1>20 DEF Drain, AtWork
  <1>21. CASE Restart
    BY <1>21 DEF Restart, Swept
  <1>22. CASE UNCHANGED vars
    BY <1>22 DEF vars, storeVars
  <1> QED
    BY <1>1, <1>2, <1>3, <1>4, <1>5, <1>6, <1>7, <1>8, <1>9, <1>10, <1>11, <1>12,
       <1>13, <1>14, <1>15, <1>16, <1>17, <1>18, <1>19, <1>20, <1>21, <1>22,
       <1>25, <1>26, <1>27, <1>28
       DEF Next, HandlerStep, DriverStep, ResumeStep

LEMMA KeysNext ==
  TypeOK /\ Ownership /\ OneRunPerKey /\ [Next]_vars => OneRunPerKey'
  <1> SUFFICES ASSUME TypeOK, Ownership, OneRunPerKey, [Next]_vars PROVE OneRunPerKey'
    OBVIOUS
  <1>a. \A q \in Request : KeptRecord(q) /\ NewRecord(q) /\ NewAnswer(q)
    BY RecordStep
  <1>1. ASSUME NEW q \in Request, NEW r \in Request, q # r,
               status'[q] # NoRow, status'[r] # NoRow
        PROVE  req'[q].key = NoKey \/ req'[q].key # req'[r].key
    <2>1. CASE status[q] = NoRow
      BY <1>a, <1>1, <2>1 DEF NewRecord, Prior
    <2>2. CASE status[r] = NoRow
      BY <1>a, <1>1, <2>2 DEF NewRecord, Prior
    <2>3. CASE status[q] # NoRow /\ status[r] # NoRow
      BY <1>a, <1>1, <2>3 DEF KeptRecord, OneRunPerKey
    <2> QED BY <2>1, <2>2, <2>3
  <1>2. ASSUME NEW q \in Request, req'[q].answer \in Request
        PROVE  LET r == req'[q].answer
               IN  /\ status'[r] # NoRow /\ req'[r].key = req'[q].key
                   /\ req'[q].key = NoKey => r = q
    <2>1. CASE req'[q].answer = req[q].answer
      BY <1>a, <1>2, <2>1 DEF NewAnswer, KeptRecord, OneRunPerKey
    <2>2. CASE req'[q].answer = q /\ status'[q] # NoRow
      BY <2>2
    <2>3. CASE req'[q].answer \in Prior(q)
      BY <1>a, <1>2, <2>3 DEF NewAnswer, KeptRecord, Prior
    <2> QED BY <1>a, <1>2, <2>1, <2>2, <2>3 DEF NewAnswer
  <1> QED BY <1>1, <1>2 DEF OneRunPerKey

LEMMA KeysInit == Init => OneRunPerKey
  BY AdmissionAssumption DEF Init, OneRunPerKey

\* Whatever creates, retries and crashes are interleaved, a handler, its
\* record and its driver stay together.
THEOREM OwnershipHolds == Spec => []Ownership
  <1>1. Init => TypeOK /\ Ownership
    BY TypeInit, OwnershipInit
  <1>2. TypeOK /\ Ownership /\ [Next]_vars => (TypeOK /\ Ownership)'
    BY TypeNext, OwnershipNext
  <1> QED BY <1>1, <1>2, PTL DEF Spec

\* Two requests with one idempotency key never both create a record, and the
\* caller of each is given the record of the key.
THEOREM RunsAreKeyed == Spec => []OneRunPerKey
  <1>1. Init => OneRunPerKey
    BY KeysInit
  <1>2. TypeOK /\ Ownership /\ OneRunPerKey /\ [Next]_vars => OneRunPerKey'
    BY KeysNext
  <1> QED BY <1>1, <1>2, TypeCorrect, OwnershipHolds, PTL DEF Spec

\* A request that is told 429 has no driver, and no record that anybody would
\* start one for.
THEOREM RefusedStaysIdle == Spec => []RefusedNeverRuns
  <1>1. Ownership => RefusedNeverRuns
    BY DEF Ownership, RefusedHasNoDriver, RefusedNeverRuns
  <1> QED BY <1>1, OwnershipHolds, PTL


-----------------------------------------------------------------------------
(* The counter of the process.                                             *)

LEMMA CountAdded ==
  ASSUME NEW S, NEW x, IsFiniteSet(S), x \notin S
  PROVE  Cardinality(S \cup {x}) = Cardinality(S) + 1
  BY FS_AddElement

LEMMA CountRemoved ==
  ASSUME NEW S, NEW x, IsFiniteSet(S), x \in S
  PROVE  Cardinality(S \ {x}) = Cardinality(S) - 1
  BY FS_RemoveElement

LEMMA CountedSets ==
  /\ IsFiniteSet(Pending) /\ Cardinality(Pending) \in Nat
  /\ IsFiniteSet(Launched) /\ Cardinality(Launched) \in Nat
  <1>1. Pending \in SUBSET Compare /\ Launched \in SUBSET Request
    BY DEF Pending, Launched
  <1> QED BY <1>1, AdmissionAssumption, FS_Subset, FS_CardinalityType

LEMMA SlotsInit == Init => SlotsAccounted
  <1> SUFFICES ASSUME Init PROVE SlotsAccounted
    OBVIOUS
  <1>1. Pending = {} /\ Launched = {} /\ outstanding = 0
    BY DEF Init, Pending, Launched
  <1> QED BY <1>1, FS_EmptySet DEF SlotsAccounted

LEMMA SlotsNext ==
  TypeOK /\ Ownership /\ SlotsAccounted /\ [Next]_vars => SlotsAccounted'
  <1> SUFFICES ASSUME TypeOK, Ownership, SlotsAccounted, [Next]_vars PROVE SlotsAccounted'
    OBVIOUS
  <1> USE CountedSets
  <1>t. driver \in [Request -> Driving]
    BY DEF TypeOK
  <1>n. outstanding \in Nat
    BY AdmissionAssumption DEF TypeOK
  <1>0. ASSUME UNCHANGED <<world, Pending, Launched, outstanding>> PROVE SlotsAccounted'
    BY <1>0 DEF SlotsAccounted, Dispatch
  <1>1. ASSUME UNCHANGED <<world, driver, compare, outstanding>> PROVE SlotsAccounted'
    BY <1>1, <1>0 DEF Pending, Launched
  <1>2. ASSUME NEW q \in Request, Launch(q) PROVE SlotsAccounted'
    <2>1. CASE UNCHANGED <<driver, outstanding>>
      BY <1>2, <2>1, <1>1 DEF Launch, envVars
    <2>2. CASE outstanding' = Taken /\ driver' = [driver EXCEPT ![q] = "waiting"]
      <3>1. ~Dispatch /\ driver[q] = "none"
        BY <1>2 DEF Launch, Ownership, HandlerOwnsRecord, Idle
      <3>2. Launched' = Launched \cup {q} /\ q \notin Launched
        BY <2>2, <3>1, <1>t DEF Launched
      <3>3. Pending' = Pending /\ world' = world
        BY <1>2 DEF Launch, Pending, envVars
      <3> QED BY <2>2, <3>1, <3>2, <3>3, <1>n, CountAdded DEF SlotsAccounted, Taken, Dispatch
    <2> QED BY <1>2, <2>1, <2>2 DEF Launch
  <1>3. ASSUME NEW q \in Request, ClaimRun(q) PROVE SlotsAccounted'
    <2>1. Pending' = Pending /\ UNCHANGED <<outstanding, world>> /\ Dispatch
      BY <1>3 DEF ClaimRun, Pending, envVars, quotaVars
    <2> QED BY <2>1 DEF SlotsAccounted, Dispatch
  <1>4. ASSUME NEW q \in Request, StartDriving(q) \/ SaveOutcome(q) PROVE SlotsAccounted'
    <2>1. PICK a \in {"driving", "saved"} :
            driver' = [driver EXCEPT ![q] = a] /\ driver[q] # "none"
      BY <1>4 DEF StartDriving, SaveOutcome
    <2>2. Launched' = Launched
      BY <2>1, <1>t DEF Launched
    <2> QED BY <1>4, <2>2, <1>0 DEF StartDriving, SaveOutcome, Pending, envVars, quotaVars
  <1>5. ASSUME NEW q \in Request, FinishDriving(q) PROVE SlotsAccounted'
    <2>1. Pending' = Pending /\ world' = world
      BY <1>5 DEF FinishDriving, Pending, envVars
    <2>2. driver[q] = "saved" /\ driver' = [driver EXCEPT ![q] = "none"]
      BY <1>5 DEF FinishDriving
    <2>3. CASE Dispatch
      <3>1. Releases(q) => world.teams
        BY <2>3 DEF Releases, Ownership, HandlerOwnsRecord
      <3> QED BY <1>5, <2>1, <2>3, <3>1 DEF FinishDriving, SlotsAccounted, Dispatch
    <2>4. CASE ~Dispatch
      <3>1. Launched' = Launched \ {q} /\ q \in Launched
        BY <2>2, <1>t DEF Launched
      <3>2. outstanding' = Released
        BY <1>5, <2>4 DEF FinishDriving, Releases
      <3>3. /\ Cardinality(Launched') = Cardinality(Launched) - 1
            /\ Cardinality(Launched) \in Nat \ {0}
        BY <3>1, CountRemoved, FS_EmptySet
      <3> QED BY <2>1, <2>4, <3>2, <3>3, <1>n DEF SlotsAccounted, Released, Dispatch
    <2> QED BY <2>3, <2>4
  <1>6. ASSUME NEW q \in Request, ResumeStep(q) PROVE SlotsAccounted'
    BY <1>6, <1>1 DEF ResumeStep, Recover, LaunchResume, StartResume, FinishResume, envVars,
       quotaVars
  <1>7. ASSUME NEW c \in Compare, CompareAdmit(c) PROVE SlotsAccounted'
    <2>1. Pending' = Pending \cup {c} /\ c \notin Pending
      BY <1>7 DEF CompareAdmit, Pending, TypeOK
    <2>2. Launched' = Launched /\ world' = world /\ outstanding' = Taken
      BY <1>7 DEF CompareAdmit, Launched, envVars, taskVars
    <2> QED BY <2>1, <2>2, <1>n, CountAdded DEF SlotsAccounted, Taken, Dispatch
  <1>8. ASSUME NEW c \in Compare, CompareRuns(c) PROVE SlotsAccounted'
    <2>1. Pending' = Pending
      BY <1>8 DEF CompareRuns, Pending, TypeOK
    <2> QED BY <1>8, <2>1, <1>0 DEF CompareRuns, Launched, envVars, taskVars
  <1>9. ASSUME NEW c \in Compare, CompareEnds(c) PROVE SlotsAccounted'
    <2>1. Pending' = Pending \ {c} /\ c \in Pending
      BY <1>9 DEF CompareEnds, Pending, TypeOK
    <2>2. Launched' = Launched /\ world' = world /\ outstanding' = Released
      BY <1>9 DEF CompareEnds, Launched, envVars, taskVars
    <2>3. Cardinality(Pending') = Cardinality(Pending) - 1 /\ Cardinality(Pending) \in Nat \ {0}
      BY <2>1, CountRemoved, FS_EmptySet
    <2> QED BY <2>2, <2>3, <1>n DEF SlotsAccounted, Released, Dispatch
  <1>10. ASSUME ForgetProcess PROVE SlotsAccounted'
    <2>1. Pending' = {}
      BY <1>10 DEF ForgetProcess, Pending, TypeOK
    <2>2. Launched' = {} /\ outstanding' = 0
      BY <1>10 DEF ForgetProcess, Launched
    <2> QED BY <2>1, <2>2, FS_EmptySet DEF SlotsAccounted
  <1>11. ASSUME NEW q \in Request
         PROVE  /\ \A k \in Key \cup {NoKey}, team \in BOOLEAN :
                     Submit(q, k, team) => SlotsAccounted'
                /\ SaveRunIfUnderQuota(q) \/ QuotaCheckFails(q) \/ FailOpenInsert(q)
                   \/ SaveRunIfAbsent(q) \/ MarkRejected(q) => SlotsAccounted'
                /\ Redrive(q) \/ Requeue(q) \/ ClaimForResume(q) \/ StopBeating(q)
                     => SlotsAccounted'
    BY <1>1 DEF Submit, SaveRunIfUnderQuota, QuotaCheckFails, FailOpenInsert, SaveRunIfAbsent,
       MarkRejected, Redrive, Requeue, ClaimForResume, StopBeating, envVars, procVars, taskVars,
       quotaVars
  <1>12. CASE Crash \/ Drain
    BY <1>12, <1>10 DEF Crash, Drain
  <1>13. CASE Restart \/ UNCHANGED vars
    BY <1>13, <1>1 DEF Restart, vars, envVars, procVars, taskVars, quotaVars
  <1> QED
    BY <1>2, <1>3, <1>4, <1>5, <1>6, <1>7, <1>8, <1>9, <1>11, <1>12, <1>13
       DEF Next, HandlerStep, DriverStep

\* No path through a failure, a pause, a cancellation or a restart keeps a
\* slot or gives one back twice: the counter is the number of drivers and
\* comparisons that the process has launched.
THEOREM CounterIsExact == Spec => []SlotsAccounted
  <1>1. TypeOK /\ Ownership /\ SlotsAccounted /\ [Next]_vars => SlotsAccounted'
    BY SlotsNext
  <1> QED BY <1>1, SlotsInit, TypeCorrect, OwnershipHolds, PTL DEF Spec


-----------------------------------------------------------------------------
(* The cap.                                                                *)

ActiveRuns == {q \in Request : status[q] \in Active}

\* The part of OutstandingUnderCap about the insert under quota.
ActiveUnderCap ==
  Dispatch /\ ~world.flaky => Cardinality(ActiveRuns \ revived) <= Cap

LEMMA ActiveCounted ==
  /\ IsFiniteSet(ActiveRuns) /\ IsFiniteSet(ActiveRuns \ revived)
  /\ Cardinality(ActiveRuns) \in Nat /\ Cardinality(ActiveRuns \ revived) \in Nat
  /\ Cardinality(ActiveRuns \ revived) <= Cardinality(ActiveRuns)
  <1>1. ActiveRuns \in SUBSET Request /\ ActiveRuns \ revived \in SUBSET ActiveRuns
    BY DEF ActiveRuns
  <1>2. IsFiniteSet(ActiveRuns)
    BY <1>1, AdmissionAssumption, FS_Subset
  <1> QED BY <1>1, <1>2, FS_Subset, FS_CardinalityType

\* A record becomes active, and is not one that was active again after it had
\* finished, only by an insert under quota; the store fails open where it is
\* flaky.
LEMMA ActiveStep ==
  ASSUME TypeOK, Ownership, [Next]_vars, Dispatch, ~world.flaky
  PROVE  \/ ActiveRuns' \ revived' \subseteq ActiveRuns \ revived
         \/ /\ UnderQuota
            /\ \E q \in Request : ActiveRuns' \ revived' \subseteq (ActiveRuns \ revived) \cup {q}
  <1> DEFINE Fewer == ActiveRuns' \ revived' \subseteq ActiveRuns \ revived
             OneMore == /\ UnderQuota
                        /\ \E q \in Request :
                             ActiveRuns' \ revived' \subseteq (ActiveRuns \ revived) \cup {q}
  <1>a. \A q \in Request : HandlerOwnsRecord(q) /\ DriverHasRecord(q)
    BY DEF Ownership
  <1>b. status \in [Request -> {NoRow} \cup Terminal \cup Active]
    BY DEF TypeOK
  <1>1. ASSUME NEW q \in Request, SaveRunIfUnderQuota(q) PROVE Fewer \/ OneMore
    <2>1. CASE UNCHANGED storeVars
      BY <2>1 DEF storeVars, ActiveRuns
    <2>2. CASE UnderQuota /\ SaveRun(q, "QUEUED", FALSE)
      BY <2>2, <1>b DEF SaveRun, ActiveRuns
    <2> QED BY <1>1, <2>1, <2>2 DEF SaveRunIfUnderQuota, Replay
  <1>2. ASSUME NEW q \in Request,
               FailOpenInsert(q) \/ QuotaCheckFails(q) \/ SaveRunIfAbsent(q)
               \/ Launch(q) \/ MarkRejected(q)
        PROVE  FALSE
    BY <1>2, <1>a DEF FailOpenInsert, QuotaCheckFails, SaveRunIfAbsent, Launch, MarkRejected,
       HandlerOwnsRecord
  <1>3. ASSUME NEW q \in Request, status[q] # NoRow, NEW s, NEW l, SaveRun(q, s, l)
        PROVE  Fewer
    BY <1>3, <1>b DEF SaveRun, ActiveRuns
  <1>4. ASSUME UNCHANGED <<status, revived>> PROVE Fewer
    BY <1>4 DEF ActiveRuns
  <1>5. ASSUME NEW q \in Request, ~Idle(q) PROVE status[q] # NoRow
    BY <1>5, <1>a DEF DriverHasRecord
  <1>6. ASSUME NEW q \in Request, StartDriving(q) \/ SaveOutcome(q) \/ FinishDriving(q) PROVE Fewer
    <2>1. status[q] # NoRow
      BY <1>6, <1>5 DEF StartDriving, SaveOutcome, FinishDriving, Idle
    <2> QED BY <1>6, <2>1, <1>3, <1>4 DEF StartDriving, SaveOutcome, FinishDriving, storeVars
  <1>7. ASSUME NEW q \in Request, LaunchResume(q) \/ FinishResume(q) PROVE Fewer
    <2>1. status[q] # NoRow
      BY <1>7, <1>5 DEF LaunchResume, FinishResume, Idle
    <2> QED BY <1>7, <2>1, <1>3, <1>4 DEF LaunchResume, FinishResume, EndsSilently
  <1>8. ASSUME NEW q \in Request, ClaimRun(q) \/ Redrive(q) \/ Requeue(q) \/ ClaimForResume(q)
        PROVE  Fewer
    <2>1. status[q] # NoRow
      BY <1>8 DEF ClaimRun, Redrive, Requeue, ClaimForResume, NoRow
    <2> QED BY <1>8, <2>1, <1>3 DEF ClaimRun, Redrive, Requeue, ClaimForResume
  <1>9. ASSUME NEW q \in Request, StopBeating(q) \/ Recover(q) \/ StartResume(q) PROVE Fewer
    BY <1>9, <1>4 DEF StopBeating, Recover, StartResume, storeVars
  <1>11. CASE \E q \in Request, k \in Key \cup {NoKey}, team \in BOOLEAN : Submit(q, k, team)
    BY <1>11, <1>4 DEF Submit, storeVars
  <1>12. CASE \E c \in Compare : CompareAdmit(c) \/ CompareRuns(c) \/ CompareEnds(c)
    BY <1>12, <1>4 DEF CompareAdmit, CompareRuns, CompareEnds, storeVars
  <1>13. CASE Crash \/ Drain
    BY <1>13, <1>4 DEF Crash, Drain, ForgetProcess
  <1>14. CASE Restart
    BY <1>14, <1>b DEF Restart, Swept, ActiveRuns
  <1>15. CASE UNCHANGED vars
    BY <1>15, <1>4 DEF vars, storeVars
  <1> QED
    BY <1>1, <1>2, <1>6, <1>7, <1>8, <1>9, <1>11, <1>12, <1>13, <1>14, <1>15
       DEF Next, HandlerStep, DriverStep, ResumeStep

LEMMA CapNext ==
  TypeOK /\ Ownership /\ ActiveUnderCap /\ [Next]_vars => ActiveUnderCap'
  <1> SUFFICES ASSUME TypeOK, Ownership, ActiveUnderCap, [Next]_vars, Dispatch', ~world'.flaky
               PROVE  Cardinality(ActiveRuns' \ revived') <= Cap
    BY DEF ActiveUnderCap
  <1>1. world' = world
    BY DEF Next, vars, envVars, HandlerStep, Submit, SaveRunIfUnderQuota, QuotaCheckFails,
       FailOpenInsert, SaveRunIfAbsent, Launch, MarkRejected, ClaimRun, StartDriving,
       SaveOutcome, FinishDriving, StopBeating, DriverStep, Redrive, Requeue, ClaimForResume,
       Recover, LaunchResume, StartResume, FinishResume, ResumeStep,
       CompareAdmit, CompareRuns, CompareEnds, Crash, Drain, ForgetProcess, Restart
  <1>2. Dispatch /\ ~world.flaky
    BY <1>1 DEF Dispatch
  <1>3. ActiveCounted'
    BY ActiveCounted, PTL
  <1>4. CASE ActiveRuns' \ revived' \subseteq ActiveRuns \ revived
    <2>1. Cardinality(ActiveRuns' \ revived') <= Cardinality(ActiveRuns \ revived)
      BY <1>4, ActiveCounted, FS_Subset
    <2> QED BY <1>2, <1>3, <2>1, ActiveCounted, AdmissionAssumption DEF ActiveUnderCap
  <1>5. ASSUME UnderQuota, NEW q \in Request,
               ActiveRuns' \ revived' \subseteq (ActiveRuns \ revived) \cup {q}
        PROVE  Cardinality(ActiveRuns' \ revived') <= Cap
    <2>1. Cardinality(ActiveRuns) < Cap
      BY <1>5 DEF UnderQuota, ActiveRuns
    <2>2. Cardinality((ActiveRuns \ revived) \cup {q}) <= Cardinality(ActiveRuns \ revived) + 1
          /\ IsFiniteSet((ActiveRuns \ revived) \cup {q})
      BY ActiveCounted, FS_AddElement
    <2>3. Cardinality(ActiveRuns' \ revived') <= Cardinality((ActiveRuns \ revived) \cup {q})
          /\ Cardinality((ActiveRuns \ revived) \cup {q}) \in Nat
      BY <1>5, <2>2, FS_Subset, FS_CardinalityType
    <2> QED BY <1>3, <2>1, <2>2, <2>3, ActiveCounted, AdmissionAssumption
  <1> QED BY <1>2, <1>4, <1>5, ActiveStep

LEMMA CapInit == Init => ActiveUnderCap
  <1> SUFFICES ASSUME Init PROVE Cardinality(ActiveRuns \ revived) <= Cap
    BY DEF ActiveUnderCap
  <1>1. ActiveRuns \ revived = {}
    BY DEF Init, ActiveRuns, Active, NoRow
  <1> QED BY <1>1, FS_EmptySet, AdmissionAssumption

\* Concurrent creates stop at the cap, in either mode.
THEOREM CreatesStopAtCap == Spec => []OutstandingUnderCap
  <1>1. TypeOK /\ Ownership /\ ActiveUnderCap /\ [Next]_vars => ActiveUnderCap'
    BY CapNext
  <1>2. TypeOK /\ SlotsAccounted /\ ActiveUnderCap => OutstandingUnderCap
    BY CountedSets DEF TypeOK, SlotsAccounted, ActiveUnderCap, ActiveRuns, OutstandingUnderCap
  <1> QED BY <1>1, <1>2, CapInit, TypeCorrect, OwnershipHolds, CounterIsExact, PTL DEF Spec

=============================================================================
