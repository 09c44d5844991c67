-------------------------- MODULE AgentLoopProofs --------------------------
(***************************************************************************)
(* Proofs about one run of an agent, for any limits, any number of retries *)
(* in the three layers, any number of calls per reply and any number of    *)
(* pauses, in every installation.                                          *)
(***************************************************************************)
EXTENDS AgentLoop, FiniteSetTheorems, WellFoundedInduction, TLAPS

-----------------------------------------------------------------------------
(* The inductive invariants.                                               *)

\* The turns and the cost of the run are those of the drive with its offsets,
\* or, between two drives, those of the checkpoint; and there is room for the
\* turn that is under way.
Tallied ==
  /\ total \in Nat /\ bill \in Nat
  /\ pc # "apply" => total = offset + turns /\ bill = spent
  /\ pc \in {"paused", "apply"} =>
       /\ total = checkpoint.turns /\ bill = checkpoint.spent
       /\ reason = "awaiting_approval"
  /\ pc = "judge" => reason = "none"
  /\ pc \in {"infer", "calls"} => reason \in {"none", "synthesized"}
  /\ pc \in {"infer", "calls"} =>
       /\ total < MaxTurns + pauses + Synthesized
       /\ bill < CostBudget + pauses + Synthesized
  /\ pc = "apply" => total < MaxTurns + pauses /\ bill < CostBudget + pauses
  /\ LimitsHold

\* The gated calls that the human approved and that are not answered yet.
GatedLeft == {k \in todo : checkpoint.pending[k] = "gated"}

\* The effects of the present call are charged to the approval of a gated one.
Charged == IF todo # {} /\ Present = "gated" THEN landed ELSE 0

\* Each of them still has its approval, but for what its attempts have used of
\* it, and nobody else has one.
Licensed ==
  /\ licence \in Int
  /\ pc = "apply" /\ checkpoint.approved =>
       licence + Charged >= MayLand * Cardinality(GatedLeft)
  /\ ~(pc = "apply" /\ checkpoint.approved) => licence = 0

\* A gated call of a reply is denied, or it is not executed yet.
Asked ==
  /\ pc \in {"calls", "judge"} =>
       \A k \in DOMAIN reply.calls : reply.calls[k] = "gated" => k \in todo \cup denied
  /\ pc = "judge" => todo = {}
  /\ pc \in {"calls", "judge"} /\ reason = "synthesized" => reply.calls = <<>>
  /\ pc = "stopped" /\ HasCall("gated") => reply.failed

\* Only a call that is tried again has effects behind it.  In a resume, and
\* where the upstreams tell whether they did the work, it is a LOCAL write,
\* and its attempts are those of the tool service.
Landed ==
  /\ landed \in Nat
  /\ landed > 0 => pc \in {"calls", "apply"} /\ todo # {}
  /\ landed > 0 /\ (pc = "apply" \/ ~world.ambiguous) =>
       Present \in Writes /\ world.local /\ landed <= tries.service

-----------------------------------------------------------------------------
(* The order of the calls.                                                 *)

Less == OpToRel(<, Nat)

\* The next call is one that is not executed yet.
LEMMA FirstIsOne ==
  ASSUME NEW S \in SUBSET Nat, S # {}
  PROVE  First(S) \in S
  <1>1. IsWellFoundedOn(Less, Nat)
    BY NatLessThanWellFounded DEF Less
  <1>2. PICK x \in S : \A y \in S : ~(<<y, x>> \in Less)
    BY <1>1, WFMin
  <1>3. ASSUME NEW y \in S PROVE x <= y
    <2>1. y < x => <<y, x>> \in Less
      BY DEF Less, OpToRel
    <2> QED BY <1>2, <2>1
  <1> QED BY <1>3 DEF First

LEMMA Sizes ==
  /\ MaxTurns \in Nat /\ MaxTurns > 0 /\ CostBudget \in Nat /\ CostBudget > 0
  /\ Retries \in Nat /\ ToolRetries \in Nat /\ HintAttempts \in Nat /\ HintAttempts > 0
  /\ MaxCalls \in Nat /\ MaxPauses \in Nat
  BY LoopAssumption

\* The records that stand for nothing.
LEMMA Empties ==
  /\ NoReply \in Reply /\ [NoReply EXCEPT !.failed = TRUE] \in Reply
  /\ NoReply.calls = <<>> /\ [NoReply EXCEPT !.failed = TRUE].calls = <<>>
  /\ DOMAIN <<>> = {} /\ NoCheckpoint \in Checkpoint
  /\ NoTries \in [service : 0..(HintAttempts - 1), turn : 0..ToolRetries]
  <1>1. <<>> \in [1..0 -> Tool] /\ <<>> \in [{} -> Tool] /\ DOMAIN <<>> = {}
    OBVIOUS
  <1>2. <<>> \in Calls
    BY <1>1, Sizes DEF Calls
  <1>3. <<>> \in Picked
    BY <1>1 DEF Picked
  <1>4. NoReply \in Reply /\ [NoReply EXCEPT !.failed = TRUE] \in Reply
    BY <1>2 DEF NoReply, Reply
  <1>5. NoCheckpoint \in Checkpoint
    BY <1>3 DEF NoCheckpoint, Checkpoint
  <1>6. NoTries \in [service : 0..(HintAttempts - 1), turn : 0..ToolRetries]
    BY Sizes DEF NoTries
  <1> QED BY <1>1, <1>4, <1>5, <1>6 DEF NoReply

-----------------------------------------------------------------------------
(* Type correctness.                                                       *)

\* A step of a call: it is tried once more, or it is over.
CallStep ==
  DenyCall \/ BlockCall \/ RefuseCall \/ RejectCall \/ \E outcome \in Outcome : Dispatch(outcome)

LEMMA CallSteps ==
  ASSUME TypeOK, CallStep
  PROVE  /\ UNCHANGED <<world, pc, attempt, reply, loopVars, checkpoint, pauses, tally>>
         /\ pc \in {"calls", "apply"} /\ todo # {} /\ First(todo) \in todo
         /\ \/ UNCHANGED <<todo, denied>>
            \/ /\ todo' = todo \ {First(todo)}
               /\ denied' \in {denied, denied \cup {First(todo)}}
         /\ tries' \in [service : 0..(HintAttempts - 1), turn : 0..ToolRetries]
  <1>1. pc \in {"calls", "apply"} /\ todo # {}
    BY DEF CallStep, DenyCall, BlockCall, RefuseCall, RejectCall, Dispatch, Calling
  <1>2. First(todo) \in todo
    BY <1>1, FirstIsOne, Sizes DEF TypeOK, Position
  <1>3. ASSUME NEW outcome, Return(outcome)
        PROVE  /\ UNCHANGED <<world, pc, attempt, reply, loopVars, checkpoint, pauses, tally>>
               /\ todo' = todo \ {First(todo)}
               /\ denied' \in {denied, denied \cup {First(todo)}}
               /\ tries' \in [service : 0..(HintAttempts - 1), turn : 0..ToolRetries]
    BY <1>3, Empties DEF Return
  <1>4. ASSUME NEW outcome \in Outcome, Dispatch(outcome), ~Return(outcome)
        PROVE  /\ Again
               /\ tries' \in [service : 0..(HintAttempts - 1), turn : 0..ToolRetries]
    <2>1. tries \in [service : 0..(HintAttempts - 1), turn : 0..ToolRetries]
      BY DEF TypeOK
    <2>2. CASE ServiceRetries(Present, outcome)
      BY <1>4, <2>1, <2>2, Sizes DEF Dispatch, ServiceRetries, AttemptsLeft
    <2>3. CASE ~ServiceRetries(Present, outcome) /\ TurnRetries(Present, outcome)
      BY <1>4, <2>1, <2>3, Sizes DEF Dispatch, TurnRetries
    <2> QED BY <1>4, <2>2, <2>3 DEF Dispatch
  <1> QED
    BY <1>1, <1>2, <1>3, <1>4
       DEF CallStep, DenyCall, BlockCall, RefuseCall, RejectCall, Again

\* An installation does not change.
LEMMA WorldStays ==
  ASSUME TypeOK, [Next]_vars
  PROVE  world' = world
  BY CallSteps
     DEF Next, Step, CallStep, Answer, FailInference, RejectReply, EndTurn, Continue, Pause,
     Synthesize, Stop, ResolveCheckpoint, AnswerPause, vars

LEMMA TypeInit == Init => TypeOK
  <1> SUFFICES ASSUME Init PROVE TypeOK
    OBVIOUS
  <1>1. attempt \in 0..Retries /\ pauses \in 0..MaxPauses /\ turns \in Nat /\ offset \in Nat
        /\ spent \in Nat
    BY Sizes DEF Init
  <1>2. reply \in Reply /\ checkpoint \in Checkpoint
        /\ tries \in [service : 0..(HintAttempts - 1), turn : 0..ToolRetries]
    BY Empties DEF Init
  <1> QED BY <1>1, <1>2 DEF Init, TypeOK

\* The calls of a reply and those of a checkpoint are at positions of a reply.
LEMMA CallsTyped ==
  ASSUME TypeOK
  PROVE  /\ reply.calls \in Calls /\ DOMAIN reply.calls \subseteq Position
         /\ \A k \in DOMAIN reply.calls : reply.calls[k] \in Tool
         /\ reply.cost \in {0, 1} /\ reply.failed \in BOOLEAN
         /\ checkpoint.pending \in Picked /\ DOMAIN checkpoint.pending \subseteq Position
         /\ checkpoint.turns \in Nat /\ checkpoint.spent \in Nat
  <1>1. reply.calls \in Calls /\ checkpoint.pending \in Picked /\ reply.cost \in {0, 1}
        /\ reply.failed \in BOOLEAN /\ checkpoint.turns \in Nat /\ checkpoint.spent \in Nat
    BY DEF TypeOK, Reply, Checkpoint
  <1>2. PICK n \in 0..MaxCalls : reply.calls \in [1..n -> Tool]
    BY <1>1 DEF Calls
  <1>3. PICK S \in SUBSET Position : checkpoint.pending \in [S -> Tool]
    BY <1>1 DEF Picked
  <1>4. DOMAIN reply.calls \subseteq Position
    BY <1>2, Sizes DEF Position
  <1>5. \A k \in DOMAIN reply.calls : reply.calls[k] \in Tool
    BY <1>2
  <1> QED BY <1>1, <1>3, <1>4, <1>5

\* What a pause keeps is some calls of the reply.
LEMMA PendingTyped ==
  ASSUME TypeOK, pc = "judge"
  PROVE  Pending \in Picked
  <1>1. denied \subseteq DOMAIN reply.calls /\ denied \subseteq Position
    BY DEF TypeOK
  <1>2. Pending \in [denied -> Tool]
    BY <1>1, CallsTyped DEF Pending
  <1> QED BY <1>1, <1>2 DEF Picked

LEMMA TypeNext == TypeOK /\ [Next]_vars => TypeOK'
  <1> SUFFICES ASSUME TypeOK, [Next]_vars PROVE TypeOK'
    OBVIOUS
  <1> USE DEF loopVars, callVars, tally, effects
  <1>n. ASSUME NewTurn PROVE attempt' \in 0..Retries /\ reply' \in Reply
        /\ tries' \in [service : 0..(HintAttempts - 1), turn : 0..ToolRetries]
        /\ todo' = {} /\ denied' = {} /\ pc' = "infer"
    BY <1>n, Empties, Sizes DEF NewTurn
  <1>1. ASSUME NEW r \in Reply, Answer(r) PROVE TypeOK'
    <2>1. DOMAIN r.calls \subseteq Position
      <3>1. PICK n \in 0..MaxCalls : r.calls \in [1..n -> Tool]
        BY DEF Reply, Calls
      <3> QED BY <3>1, Sizes DEF Position
    <2> QED BY <1>1, <2>1, Empties DEF Answer, TypeOK
  <1>2. ASSUME NEW code, FailInference(code) PROVE TypeOK'
    <2>1. reply' \in Reply /\ pc' \in {"infer", "calls"}
      BY <1>2, Empties DEF FailInference, Retried, GivenUp
    <2>2. attempt' \in 0..Retries
      BY <1>2, Sizes DEF FailInference, Retried, GivenUp, TypeOK
    <2> QED BY <1>2, <2>1, <2>2, Empties DEF FailInference, TypeOK
  <1>2b. CASE RejectReply
    <2>1. reply' \in Reply /\ reply'.calls = reply.calls
      BY <1>2b DEF RejectReply, TypeOK, Reply
    <2> QED BY <1>2b, <2>1 DEF RejectReply, TypeOK
  <1>3. CASE CallStep
    BY <1>3, CallSteps DEF TypeOK
  <1>4. CASE EndTurn
    <2>1. turns' \in Nat /\ spent' \in Nat /\ used' \in BOOLEAN
      BY <1>4, CallsTyped DEF EndTurn, TypeOK
    <2> QED BY <1>4, <2>1 DEF EndTurn, TypeOK
  <1>5. CASE Continue \/ Synthesize
    BY <1>5, <1>n DEF Continue, Synthesize, TypeOK
  <1>6. CASE Pause
    <2>1. checkpoint' \in Checkpoint
      BY <1>6, PendingTyped DEF Pause, Checkpoint, TypeOK
    <2> QED BY <1>6, <2>1 DEF Pause, TypeOK
  <1>7. CASE Stop
    BY <1>7 DEF Stop, TypeOK
  <1>8. CASE ResolveCheckpoint
    <2>1. offset' \in Nat /\ spent' \in Nat
      BY <1>8, CallsTyped DEF ResolveCheckpoint
    <2> QED BY <1>8, <1>n, <2>1, Empties DEF ResolveCheckpoint, TypeOK
  <1>9. ASSUME NEW approved \in BOOLEAN, AnswerPause(approved) PROVE TypeOK'
    <2>1. checkpoint' \in Checkpoint /\ checkpoint'.pending = checkpoint.pending
      BY <1>9 DEF AnswerPause, TypeOK, Checkpoint
    <2>2. attempt' \in 0..Retries /\ pauses' \in 0..MaxPauses
      BY <1>9, Sizes DEF AnswerPause, TypeOK
    <2> QED BY <1>9, <2>1, <2>2, Empties, CallsTyped DEF AnswerPause, TypeOK
  <1>10. CASE UNCHANGED vars
    BY <1>10 DEF vars, TypeOK
  <1> QED
    BY <1>1, <1>2, <1>2b, <1>3, <1>4, <1>5, <1>6, <1>7, <1>8, <1>9, <1>10
       DEF Next, Step, CallStep

\* The retries of every layer stay under their limits, and the calls that are
\* left to execute are calls of the reply or of the checkpoint.
THEOREM TypeCorrect == Spec => []TypeOK
  <1> QED BY TypeInit, TypeNext, PTL DEF Spec

-----------------------------------------------------------------------------
(* The limits of the run.                                                  *)

LEMMA TalliedInit == Init => Tallied
  BY Sizes DEF Init, Tallied, LimitsHold, Synthesized

LEMMA TalliedNext ==
  ASSUME TypeOK, Tallied, [Next]_vars
  PROVE  Tallied'
  <1> USE DEF loopVars, callVars, tally, effects
  <1>a. /\ turns \in Nat /\ offset \in Nat /\ spent \in Nat /\ pauses \in Nat
        /\ total \in Nat /\ bill \in Nat
    BY Sizes DEF TypeOK, Tallied
  <1>1. ASSUME UNCHANGED <<loopVars, tally, pauses, checkpoint>>,
               pc' = pc \/ (pc \in {"infer", "calls"} /\ pc' \in {"infer", "calls"})
        PROVE  Tallied'
    BY <1>1, <1>a DEF Tallied, LimitsHold, Synthesized
  <1>2. ASSUME NEW r \in Reply, Answer(r) PROVE Tallied'
    BY <1>1, <1>2 DEF Answer
  <1>3. ASSUME NEW code, FailInference(code) PROVE Tallied'
    BY <1>1, <1>3 DEF FailInference, Retried, GivenUp
  <1>3b. CASE RejectReply
    BY <1>1, <1>3b DEF RejectReply
  <1>4. CASE CallStep
    BY <1>1, <1>4, CallSteps
  <1>5. CASE EndTurn
    <2>1. /\ total' = total + 1 /\ turns' = turns + 1 /\ UNCHANGED <<offset, reason, pauses>>
          /\ bill' = bill + reply.cost /\ spent' = spent + reply.cost /\ reply.cost \in {0, 1}
          /\ pc = "calls" /\ pc' = IF reason = "synthesized" THEN "stopped" ELSE "judge"
      BY <1>5, CallsTyped DEF EndTurn
    <2>2. /\ total < MaxTurns + pauses + Synthesized /\ bill < CostBudget + pauses + Synthesized
          /\ reason \in {"none", "synthesized"} /\ total = offset + turns /\ bill = spent
      BY <2>1 DEF Tallied
    <2>3. Synthesized \in {0, 1} /\ Synthesized' = Synthesized
      BY <2>1 DEF Synthesized
    <2> QED BY <1>a, <2>1, <2>2, <2>3, Sizes DEF Tallied, LimitsHold
  <1>6. CASE Continue
    <2>1. Exhausted = "continue"
      BY <1>6 DEF Continue, StopReason
    <2>2. offset + turns < MaxTurns /\ spent < CostBudget
      BY <2>1, <1>a, Sizes DEF Exhausted
    <2> QED BY <1>6, <1>a, <2>2, Sizes DEF Continue, NewTurn, Tallied, LimitsHold, Synthesized
  <1>7. CASE Synthesize
    BY <1>7, <1>a, Sizes DEF Synthesize, NewTurn, Tallied, LimitsHold, Synthesized
  <1>8. CASE Pause
    BY <1>8, <1>a DEF Pause, Tallied, LimitsHold, Synthesized
  <1>9. CASE Stop
    <2>1. StopReason # "synthesized"
      BY DEF StopReason, Exhausted
    <2> QED BY <1>9, <2>1, <1>a DEF Stop, Tallied, LimitsHold, Synthesized
  <1>10. CASE ResolveCheckpoint
    <2>1. /\ pc = "apply" /\ pc' = "infer" /\ reason' = "none" /\ UNCHANGED <<total, bill, pauses>>
          /\ turns' = 0 /\ offset' = checkpoint.turns /\ spent' = checkpoint.spent
      BY <1>10 DEF ResolveCheckpoint, NewTurn
    <2>2. total = checkpoint.turns /\ bill = checkpoint.spent
          /\ total < MaxTurns + pauses /\ bill < CostBudget + pauses
      BY <2>1 DEF Tallied
    <2> QED BY <1>a, <2>1, <2>2, Sizes DEF Tallied, LimitsHold, Synthesized
  <1>11. ASSUME NEW approved \in BOOLEAN, AnswerPause(approved) PROVE Tallied'
    <2>1. checkpoint'.turns = checkpoint.turns /\ checkpoint'.spent = checkpoint.spent
      BY <1>11 DEF AnswerPause, TypeOK, Checkpoint
    <2> QED BY <1>11, <2>1, <1>a, Sizes DEF AnswerPause, Tallied, LimitsHold, Synthesized
  <1>12. CASE UNCHANGED vars
    BY <1>12, <1>1 DEF vars
  <1> QED
    BY <1>2, <1>3, <1>3b, <1>4, <1>5, <1>6, <1>7, <1>8, <1>9, <1>10, <1>11, <1>12
       DEF Next, Step, CallStep

\* max_turns and cost_budget bound a run across its pauses, with one turn more
\* for each answer of a human and one for the rescue of an empty answer.
THEOREM LimitsAreKept == Spec => []LimitsHold
  <1>1. Tallied => LimitsHold
    BY DEF Tallied
  <1>2. TypeOK /\ Tallied /\ [Next]_vars => Tallied'
    BY TalliedNext
  <1> QED BY <1>1, <1>2, TalliedInit, TypeCorrect, PTL DEF Spec

-----------------------------------------------------------------------------
(* The approvals.                                                          *)

LEMMA GatedFinite ==
  ASSUME TypeOK
  PROVE  IsFiniteSet(GatedLeft) /\ Cardinality(GatedLeft) \in Nat
  <1>1. IsFiniteSet(1..MaxCalls)
    BY Sizes, FS_Interval
  <1> QED BY <1>1, FS_Subset, FS_CardinalityType DEF GatedLeft, TypeOK, Position

\* A call that is tried again.
TriedAgain(outcome) ==
  \/ ServiceRetries(Present, outcome) /\ tries' = [tries EXCEPT !.service = @ + 1]
  \/ TurnRetries(Present, outcome) /\ tries' = [service |-> 0, turn |-> tries.turn + 1]

\* What one dispatch does to the histories.
LEMMA Dispatched ==
  ASSUME TypeOK, Landed, NEW outcome \in Outcome, Dispatch(outcome)
  PROVE  \E e \in {0, 1} :
           /\ e \in Effects(Present, outcome)
           /\ doubled' = (doubled \/ landed + e > MayLand)
           /\ licence' = licence - IF Present = "gated" THEN e ELSE 0
           /\ \/ Return(outcome)
              \/ Again /\ landed' = landed + e /\ TriedAgain(outcome)
           /\ pc = "apply" \/ ~world.ambiguous => landed + e <= MayLand
  <1>1. PICK e \in Effects(Present, outcome) :
          /\ doubled' = (doubled \/ landed + e > MayLand)
          /\ licence' = licence - IF Present = "gated" THEN e ELSE 0
          /\ \/ Return(outcome)
             \/ Again /\ landed' = landed + e /\ TriedAgain(outcome)
    BY DEF Dispatch, TriedAgain
  <1>2. e \in {0, 1}
    BY <1>1 DEF Effects
  <1>3. ASSUME pc = "apply" \/ ~world.ambiguous PROVE landed + e <= MayLand
    <2>1. landed \in Nat /\ (landed > 0 => world.local /\ landed <= tries.service)
      BY <1>3 DEF Landed
    <2>2. tries.service \in 0..(HintAttempts - 1)
      BY DEF TypeOK
    <2>3. CASE landed > 0
      BY <1>2, <2>1, <2>2, <2>3, Sizes DEF MayLand
    <2>4. CASE landed = 0
      BY <1>2, <2>4, Sizes DEF MayLand
    <2> QED BY <2>1, <2>3, <2>4
  <1> QED BY <1>1, <1>2, <1>3

LEMMA LandedInit == Init => Landed
  BY DEF Init, Landed

\* An attempt with an effect is repeated only by the tool service, in LOCAL
\* tools.
LEMMA LandedDispatch ==
  ASSUME TypeOK, Landed, NEW outcome \in Outcome, Dispatch(outcome)
  PROVE  Landed'
  <1>1. PICK e \in {0, 1} :
          /\ e \in Effects(Present, outcome)
          /\ Return(outcome) \/ (Again /\ landed' = landed + e /\ TriedAgain(outcome))
    BY Dispatched
  <1>2. CASE Return(outcome)
    BY <1>2 DEF Return, Landed
  <1>3. CASE Again /\ landed' = landed + e /\ TriedAgain(outcome)
    <2>1. /\ UNCHANGED <<world, pc, todo, reply, checkpoint>> /\ landed' = landed + e
          /\ pc \in {"calls", "apply"} /\ todo # {}
      BY <1>3, CallSteps DEF Again, CallStep
    <2>2. Present' = Present
      BY <2>1 DEF Present, Due
    <2>3. landed' \in Nat
      BY <1>1, <2>1 DEF Landed
    <2>4. ASSUME landed' > 0, pc = "apply" \/ ~world.ambiguous
          PROVE  Present \in Writes /\ world.local /\ landed' <= tries'.service
      <3>1. landed > 0 => Present \in Writes /\ world.local /\ landed <= tries.service
        BY <2>4 DEF Landed
      <3>2. landed > 0 \/ e = 1
        BY <1>1, <2>1, <2>4 DEF Landed
      <3>3. e = 1 => Present \in Writes
        BY <1>1 DEF Effects
      <3>4. Possible(Present, outcome) /\ outcome \in Transient
        BY <1>3 DEF Dispatch, TriedAgain, ServiceRetries, TurnRetries
      <3>5. CASE ServiceRetries(Present, outcome) /\ tries' = [tries EXCEPT !.service = @ + 1]
        <4>1. e = 1 => world.local
          BY <1>1, <2>4, <3>3, <3>4, <3>5
             DEF ServiceRetries, RetrySafe, Effects, Writes, Transient
        <4>2. tries'.service = tries.service + 1 /\ tries.service \in Nat
          BY <3>5, Sizes DEF TypeOK
        <4> QED BY <1>1, <2>1, <3>1, <3>2, <3>3, <4>1, <4>2 DEF Landed
      <3>6. CASE TurnRetries(Present, outcome)
        <4>1. Present \in Writes
          BY <3>1, <3>2, <3>3, <1>1
        <4>2. outcome \in {"unavailable", "rate_limited"} /\ pc = "calls"
          BY <3>6, <4>1 DEF TurnRetries, RefireSafe, Transient, Writes
        <4>3. ~world.local
          BY <3>4, <4>1, <4>2 DEF Possible
        <4>4. e = 1
          BY <3>1, <3>2, <4>3
        <4>5. FALSE
          BY <1>1, <2>4, <4>1, <4>2, <4>4 DEF Effects
        <4> QED BY <4>5
      <3> QED BY <1>3, <3>5, <3>6 DEF TriedAgain
    <2> QED BY <2>1, <2>2, <2>3, <2>4 DEF Landed
  <1> QED BY <1>1, <1>2, <1>3

LEMMA LandedNext ==
  ASSUME TypeOK, Landed, [Next]_vars
  PROVE  Landed'
  <1> USE DEF loopVars, callVars, tally, effects
  <1>1. ASSUME NEW outcome \in Outcome, Dispatch(outcome) PROVE Landed'
    BY <1>1, LandedDispatch
  <1>2. CASE UNCHANGED vars
    BY <1>2 DEF vars, Landed, Present, Due
  <1>3. CASE landed' = 0
    BY <1>3 DEF Landed
  <1>4. CASE DenyCall \/ BlockCall \/ RefuseCall \/ RejectCall
    BY <1>3, <1>4 DEF DenyCall, BlockCall, RefuseCall, RejectCall, Return
  <1>5. ASSUME NEW r \in Reply, Answer(r) PROVE Landed'
    BY <1>3, <1>5 DEF Answer
  <1>6. ASSUME NEW code, FailInference(code) PROVE Landed'
    BY <1>3, <1>6 DEF FailInference
  <1>7. CASE RejectReply \/ EndTurn \/ Continue \/ Pause \/ Synthesize \/ Stop
             \/ ResolveCheckpoint
    <2>1. landed' = landed /\ landed = 0
      BY <1>7
         DEF RejectReply, EndTurn, Continue, Pause, Synthesize, Stop, ResolveCheckpoint, Landed
    <2> QED BY <1>3, <2>1
  <1>8. ASSUME NEW approved \in BOOLEAN, AnswerPause(approved) PROVE Landed'
    BY <1>3, <1>8 DEF AnswerPause, Landed
  <1> QED
    BY <1>1, <1>2, <1>4, <1>5, <1>6, <1>7, <1>8 DEF Next, Step

LEMMA LicensedInit == Init => Licensed
  BY DEF Init, Licensed

LEMMA MayLandNat == MayLand \in Nat
  BY Sizes DEF MayLand

\* Under an approval a gated call has no more effects than it may have, and
\* what is over is not tried again.
LEMMA LicensedDispatch ==
  ASSUME TypeOK, Landed, Licensed, NEW outcome \in Outcome, Dispatch(outcome)
  PROVE  Licensed'
  <1>1. /\ UNCHANGED <<world, pc, checkpoint, reply>> /\ pc \in {"calls", "apply"}
        /\ First(todo) \in todo
    BY CallSteps DEF CallStep
  <1>2. PICK e \in {0, 1} :
          /\ licence' = licence - IF Present = "gated" THEN e ELSE 0
          /\ Return(outcome) \/ (Again /\ landed' = landed + e)
          /\ pc = "apply" \/ ~world.ambiguous => landed + e <= MayLand
    BY Dispatched
  <1>3. licence \in Int /\ landed \in Nat /\ MayLand \in Nat
    BY MayLandNat DEF Licensed, Landed
  <1>4. ~NeedsApproval(Present) /\ (pc = "calls" \/ checkpoint.approved)
    BY DEF Dispatch, Calling
  <1>5. CASE pc = "calls"
    <2>1. Present # "gated"
      BY <1>4, <1>5 DEF NeedsApproval
    <2> QED BY <1>1, <1>2, <1>3, <1>5, <2>1 DEF Licensed
  <1>6. CASE pc = "apply"
    <2>1. Present = checkpoint.pending[First(todo)]
      BY <1>6 DEF Present, Due
    <2>2. licence + Charged >= MayLand * Cardinality(GatedLeft) /\ checkpoint.approved
      BY <1>4, <1>6 DEF Licensed
    <2>3. IsFiniteSet(GatedLeft) /\ Cardinality(GatedLeft) \in Nat
      BY GatedFinite
    <2>4. Charged = IF Present = "gated" THEN landed ELSE 0
      BY <1>1 DEF Charged
    <2>5. MayLand' = MayLand
      BY <1>1 DEF MayLand
    <2>6. licence' \in Int
      BY <1>2, <1>3
    <2>7. CASE Return(outcome)
      <3>1. GatedLeft' = GatedLeft \ {First(todo)}
        BY <1>1, <2>7 DEF Return, GatedLeft
      <3>2. Charged' = 0
        BY <2>7 DEF Return, Charged
      <3>3. CASE Present = "gated"
        <4>1. First(todo) \in GatedLeft
          BY <1>1, <2>1, <3>3 DEF GatedLeft
        <4>2. Cardinality(GatedLeft') = Cardinality(GatedLeft) - 1
          BY <2>3, <3>1, <4>1, FS_RemoveElement
        <4>3. MayLand * Cardinality(GatedLeft') = MayLand * Cardinality(GatedLeft) - MayLand
          BY <1>3, <2>3, <4>2
        <4>4. licence' + Charged' >= MayLand * Cardinality(GatedLeft')
          <5> DEFINE Left == MayLand * Cardinality(GatedLeft)
          <5>1. Left \in Int
            BY <1>3, <2>3
          <5>2. licence + landed >= Left /\ landed + e <= MayLand /\ licence' = licence - e
            BY <1>2, <1>6, <2>2, <2>4, <3>3
          <5>3. MayLand * Cardinality(GatedLeft') = Left - MayLand
            BY <4>3
          <5> HIDE DEF Left
          <5> QED BY <1>2, <1>3, <3>2, <5>1, <5>2, <5>3
        <4> QED BY <1>1, <1>6, <2>2, <2>5, <2>6, <4>4 DEF Licensed
      <3>4. CASE Present # "gated"
        <4>1. GatedLeft' = GatedLeft
          BY <1>1, <2>1, <3>1, <3>4 DEF GatedLeft
        <4>2. licence' = licence /\ Charged' = Charged
          BY <1>2, <1>3, <2>4, <3>2, <3>4
        <4> QED BY <1>1, <1>6, <2>2, <2>5, <2>6, <4>1, <4>2 DEF Licensed
      <3> QED BY <3>3, <3>4
    <2>8. CASE Again /\ landed' = landed + e
      <3>1. todo' = todo /\ Present' = Present /\ GatedLeft' = GatedLeft
        BY <1>1, <2>8 DEF Again, Present, Due, GatedLeft
      <3>2. licence' + Charged' = licence + Charged
        BY <1>1, <1>2, <1>3, <2>8, <3>1 DEF Charged
      <3> QED BY <1>1, <1>6, <2>2, <2>5, <2>6, <3>1, <3>2 DEF Licensed
    <2> QED BY <1>2, <2>7, <2>8
  <1> QED BY <1>1, <1>5, <1>6

LEMMA LicensedNext ==
  ASSUME TypeOK, Landed, Licensed, [Next]_vars
  PROVE  Licensed'
  <1> USE DEF loopVars, callVars, tally, effects
  <1>1. ASSUME UNCHANGED licence, pc # "apply", pc' # "apply" PROVE Licensed'
    BY <1>1 DEF Licensed
  <1>2. ASSUME NEW r \in Reply, Answer(r) PROVE Licensed'
    BY <1>1, <1>2 DEF Answer
  <1>3. ASSUME NEW code, FailInference(code) PROVE Licensed'
    BY <1>1, <1>3 DEF FailInference, Retried, GivenUp
  <1>4. CASE DenyCall \/ BlockCall \/ RefuseCall \/ RejectCall
    <2>1. CASE ~(pc = "apply" /\ checkpoint.approved)
      BY <1>4, <2>1
         DEF DenyCall, BlockCall, RefuseCall, RejectCall, Return, Licensed
    <2>2. CASE pc = "apply" /\ checkpoint.approved
      <3>1. BlockCall \/ RefuseCall
        BY <1>4, <2>2 DEF DenyCall, RejectCall, NeedsApproval
      <3>2. PICK outcome : Return(outcome) /\ licence' = licence
        BY <3>1 DEF BlockCall, RefuseCall
      <3>3. /\ UNCHANGED <<world, pc, checkpoint, licence>> /\ todo' = todo \ {First(todo)}
            /\ Charged' = 0
        BY <3>2 DEF Return, Charged
      <3>4. First(todo) \in todo /\ Present = checkpoint.pending[First(todo)]
        BY <1>4, <2>2, CallSteps DEF CallStep, Present, Due
      <3>5. /\ MayLand' = MayLand /\ MayLand \in Nat /\ landed \in Nat
            /\ landed <= MayLand /\ licence \in Int
        <4>1. tries.service \in 0..(HintAttempts - 1)
          BY DEF TypeOK
        <4>2. landed > 0 => world.local /\ landed <= tries.service
          BY <2>2 DEF Landed
        <4>3. landed \in Nat
          BY DEF Landed
        <4> QED BY <3>3, <4>1, <4>2, <4>3, MayLandNat, Sizes DEF MayLand, Licensed
      <3>6. IsFiniteSet(GatedLeft) /\ Cardinality(GatedLeft) \in Nat
        BY GatedFinite
      <3>7. licence + Charged >= MayLand * Cardinality(GatedLeft)
        BY <2>2 DEF Licensed
      <3>8. CASE Present = "gated"
        <4>1. Cardinality(GatedLeft') = Cardinality(GatedLeft) - 1
          <5>1. First(todo) \in GatedLeft /\ GatedLeft' = GatedLeft \ {First(todo)}
            BY <3>3, <3>4, <3>8 DEF GatedLeft
          <5> QED BY <3>6, <5>1, FS_RemoveElement
        <4>2. MayLand * Cardinality(GatedLeft') = MayLand * Cardinality(GatedLeft) - MayLand
          BY <3>5, <3>6, <4>1
        <4>3. licence' + Charged' >= MayLand * Cardinality(GatedLeft')
          <5> DEFINE Left == MayLand * Cardinality(GatedLeft)
          <5>1. Left \in Int
            BY <3>5, <3>6
          <5>2. licence + landed >= Left
            BY <3>4, <3>7, <3>8 DEF Charged
          <5>3. MayLand * Cardinality(GatedLeft') = Left - MayLand
            BY <4>2
          <5> HIDE DEF Left
          <5> QED BY <3>3, <3>5, <5>1, <5>2, <5>3
        <4> QED BY <2>2, <3>3, <3>5, <4>3 DEF Licensed
      <3>9. CASE Present # "gated"
        <4>1. GatedLeft' = GatedLeft
          BY <3>3, <3>4, <3>9 DEF GatedLeft
        <4>2. Charged = 0
          BY <3>9 DEF Charged
        <4> QED BY <2>2, <3>3, <3>5, <3>7, <4>1, <4>2 DEF Licensed
      <3> QED BY <3>8, <3>9
    <2> QED BY <2>1, <2>2
  <1>5. ASSUME NEW outcome \in Outcome, Dispatch(outcome) PROVE Licensed'
    BY <1>5, LicensedDispatch
  <1>6. CASE RejectReply \/ EndTurn \/ Continue \/ Pause \/ Synthesize \/ Stop
    BY <1>1, <1>6 DEF RejectReply, EndTurn, Continue, Pause, Synthesize, Stop, NewTurn
  <1>7. CASE ResolveCheckpoint
    BY <1>7 DEF ResolveCheckpoint, NewTurn, Licensed
  <1>8. ASSUME NEW approved \in BOOLEAN, AnswerPause(approved) PROVE Licensed'
    <2>1. /\ pc' = "apply" /\ checkpoint'.approved = approved
          /\ checkpoint'.pending = checkpoint.pending /\ todo' = DOMAIN checkpoint.pending
      BY <1>8 DEF AnswerPause, TypeOK, Checkpoint
    <2>2. GatedLeft' = {k \in DOMAIN checkpoint.pending : checkpoint.pending[k] = "gated"}
      BY <2>1 DEF GatedLeft
    <2>3. Cardinality(GatedLeft') \in Nat
      <3>1. IsFiniteSet(1..MaxCalls)
        BY Sizes, FS_Interval
      <3>2. GatedLeft' \subseteq 1..MaxCalls
        BY <2>2, CallsTyped DEF Position
      <3> QED BY <3>1, <3>2, FS_Subset, FS_CardinalityType
    <2>4. /\ MayLand' = MayLand /\ MayLand \in Nat
          /\ licence' = IF approved THEN MayLand * Cardinality(GatedLeft') ELSE 0
      BY <1>8, <2>2, MayLandNat DEF AnswerPause, MayLand
    <2>5. Charged' = 0
      <3>1. landed' = 0
        BY <1>8 DEF AnswerPause, Landed
      <3> QED BY <3>1 DEF Charged
    <2>6. MayLand * Cardinality(GatedLeft') \in Int
      BY <2>3, <2>4
    <2> QED BY <2>1, <2>4, <2>5, <2>6 DEF Licensed
  <1>9. CASE UNCHANGED vars
    BY <1>9 DEF vars, Licensed, GatedLeft, Charged, Present, Due, MayLand
  <1> QED
    BY <1>2, <1>3, <1>4, <1>5, <1>6, <1>7, <1>8, <1>9 DEF Next, Step

\* A gated tool takes effect only in the resume of an approved pause, and for
\* each call that was approved there at most once if it is a POST, and as
\* often as its hints allow attempts if it is LOCAL; in every installation,
\* the ones with an ambiguous upstream included.
THEOREM ApprovalsBoundEffects == Spec => []EffectsUnderApproval
  <1>1. TypeOK /\ Landed /\ Licensed => EffectsUnderApproval
    <2> SUFFICES ASSUME TypeOK, Landed, Licensed PROVE licence >= 0
      BY DEF EffectsUnderApproval
    <2>1. CASE ~(pc = "apply" /\ checkpoint.approved)
      BY <2>1 DEF Licensed
    <2>2. CASE pc = "apply" /\ checkpoint.approved
      <3>1. /\ Cardinality(GatedLeft) \in Nat /\ IsFiniteSet(GatedLeft)
            /\ licence + Charged >= MayLand * Cardinality(GatedLeft)
            /\ licence \in Int /\ MayLand \in Nat
        BY <2>2, GatedFinite, MayLandNat DEF Licensed
      <3>2. MayLand * Cardinality(GatedLeft) \in Nat
        BY <3>1
      <3>3. CASE Charged = 0
        BY <3>1, <3>2, <3>3
      <3>4. CASE Charged # 0
        <4>1. todo # {} /\ Present = "gated" /\ Charged = landed /\ landed \in Nat
          BY <3>4 DEF Charged, Landed
        <4>2. landed <= MayLand
          <5>1. tries.service \in 0..(HintAttempts - 1)
            BY DEF TypeOK
          <5>2. landed > 0 => world.local /\ landed <= tries.service
            BY <2>2 DEF Landed
          <5> QED BY <3>4, <4>1, <5>1, <5>2, Sizes DEF MayLand
        <4>3. First(todo) \in GatedLeft
          <5>1. First(todo) \in todo
            BY <4>1, FirstIsOne, Sizes DEF TypeOK, Position
          <5> QED BY <2>2, <4>1, <5>1 DEF Present, Due, GatedLeft
        <4>4. Cardinality(GatedLeft) >= 1
          BY <3>1, <4>3, FS_EmptySet
        <4>5. MayLand * Cardinality(GatedLeft) >= MayLand
          BY <3>1, <4>4
        <4> DEFINE Left == MayLand * Cardinality(GatedLeft)
        <4>6. Left \in Nat /\ Left >= MayLand /\ licence + landed >= Left
          BY <3>1, <3>2, <4>1, <4>5
        <4> HIDE DEF Left
        <4> QED BY <3>1, <4>1, <4>2, <4>6
      <3> QED BY <3>3, <3>4
    <2> QED BY <2>1, <2>2
  <1>2. TypeOK /\ Landed /\ Licensed /\ [Next]_vars => Licensed'
    BY LicensedNext
  <1>3. TypeOK /\ Landed /\ [Next]_vars => Landed'
    BY LandedNext
  <1> QED BY <1>1, <1>2, <1>3, LicensedInit, LandedInit, TypeCorrect, PTL DEF Spec

-----------------------------------------------------------------------------
(* Nobody is left out.                                                     *)

LEMMA AskedInit == Init => Asked
  BY Empties DEF Init, Asked

LEMMA AskedNext ==
  ASSUME TypeOK, Tallied, Asked, world.manager = "calls", world.hitl, [Next]_vars
  PROVE  Asked'
  <1> USE DEF loopVars, callVars, tally, effects
  <1>1. ASSUME pc' \in {"infer", "paused", "apply"} PROVE Asked'
    BY <1>1 DEF Asked
  <1>2. ASSUME NEW r \in Reply, Answer(r) PROVE Asked'
    BY <1>2 DEF Answer, Asked
  <1>3. ASSUME NEW code, FailInference(code) PROVE Asked'
    <2>1. CASE Retried(code)
      BY <1>1, <2>1 DEF Retried
    <2>2. CASE GivenUp(code)
      BY <1>3, <2>2, Empties DEF FailInference, GivenUp, Asked
    <2> QED BY <1>3, <2>1, <2>2 DEF FailInference
  <1>3b. CASE RejectReply
    BY <1>3b, CallsTyped DEF RejectReply, Asked, TypeOK, Reply
  <1>4. CASE CallStep /\ pc = "calls"
    <2>1. /\ UNCHANGED <<pc, reply, reason>> /\ First(todo) \in todo
      BY <1>4, CallSteps
    <2>2. ASSUME NEW k \in DOMAIN reply.calls, reply.calls[k] = "gated", k \in todo \cup denied
          PROVE  k \in todo' \cup denied'
      <3>1. CASE DenyCall
        BY <2>2, <3>1 DEF DenyCall, Return, Recorded
      <3>2. CASE ~DenyCall
        <4>1. ~NeedsApproval(Present)
          BY <1>4, <3>2 DEF CallStep, BlockCall, RefuseCall, RejectCall, Dispatch
        <4>2. k # First(todo)
          BY <1>4, <2>2, <4>1 DEF NeedsApproval, Present, Due
        <4> QED BY <1>4, <2>2, <4>2, CallSteps
      <3> QED BY <3>1, <3>2
    <2> QED BY <1>4, <2>1, <2>2 DEF Asked
  <1>5. CASE CallStep /\ pc = "apply"
    BY <1>1, <1>5, CallSteps
  <1>6. CASE EndTurn
    BY <1>6 DEF EndTurn, Asked, HasCall
  <1>7. CASE Continue \/ Synthesize \/ Pause \/ ResolveCheckpoint
    BY <1>1, <1>7 DEF Continue, Synthesize, Pause, ResolveCheckpoint, NewTurn
  <1>8. CASE Stop
    <2>1. /\ pc = "judge" /\ pc' = "stopped" /\ UNCHANGED reply /\ StopReason # "awaiting_approval"
      BY <1>8 DEF Stop
    <2>2. reply.failed \/ denied = {}
      BY <2>1 DEF StopReason
    <2>3. HasCall("gated") => reply.failed
      BY <2>1, <2>2 DEF Asked, HasCall
    <2> QED BY <2>1, <2>3 DEF Asked, HasCall
  <1>9. ASSUME NEW approved \in BOOLEAN, AnswerPause(approved) PROVE Asked'
    BY <1>1, <1>9 DEF AnswerPause
  <1>10. CASE UNCHANGED vars
    BY <1>10 DEF vars, Asked, HasCall
  <1> QED
    BY <1>2, <1>3, <1>3b, <1>4, <1>5, <1>6, <1>7, <1>8, <1>9, <1>10, CallSteps
       DEF Next, Step, CallStep

\* With hitl and a manager that executes the calls of one reply a run does not
\* end on a gated call without having asked a human, whatever limit is
\* reached on that turn, unless the turn failed.
THEOREM ApprovalsAreAsked == Spec => []ApprovalNeverSkipped
  <1> DEFINE Inv == world.hitl /\ world.manager = "calls" => Asked
  <1>1. Init => Inv
    BY AskedInit
  <1>2. Inv => ApprovalNeverSkipped
    BY DEF Asked, ApprovalNeverSkipped
  <1>3. TypeOK /\ Tallied /\ Inv /\ [Next]_vars => Inv'
    <2> SUFFICES ASSUME TypeOK, Tallied, Inv, [Next]_vars PROVE Inv'
      OBVIOUS
    <2> QED BY WorldStays, AskedNext
  <1>4. TypeOK /\ Tallied /\ [Next]_vars => Tallied'
    BY TalliedNext
  <1> QED BY <1>1, <1>2, <1>3, <1>4, TalliedInit, TypeCorrect, PTL DEF Spec

-----------------------------------------------------------------------------
(* Writes.                                                                 *)

\* No upstream answers 5xx, or drops the connection, after doing the work.
UpstreamsTell == \A w \in Worlds : ~w.ambiguous

LEMMA DoubledNext ==
  ASSUME TypeOK, ~world.ambiguous, Landed, ~doubled, [Next]_vars
  PROVE  ~doubled'
  <1>1. ASSUME NEW outcome \in Outcome, Dispatch(outcome) PROVE ~doubled'
    <2>1. PICK e \in {0, 1} :
            doubled' = (doubled \/ landed + e > MayLand) /\ landed + e <= MayLand
      BY <1>1, Dispatched
    <2>2. ~(landed + e > MayLand)
      BY <2>1, MayLandNat DEF Landed
    <2> QED BY <2>1, <2>2, Zenon
  <1>2. ASSUME doubled' = doubled PROVE ~doubled'
    BY <1>2
  <1> QED
    BY <1>1, <1>2
       DEF Next, Step, Answer, FailInference, RejectReply, DenyCall, BlockCall, RefuseCall,
       EndTurn, Continue, Pause, Synthesize, Stop, RejectCall, ResolveCheckpoint, AnswerPause,
       vars, effects

\* Where the upstreams tell whether they did the work, the turn's retry never
\* multiplies the effects of a call: it leaves a timed-out write alone, and
\* the tool service repeats a POST after a 429 only and a LOCAL tool as often
\* as its hints allow.
THEOREM WritesAreNotMultiplied ==
  ASSUME UpstreamsTell
  PROVE  Spec => []WriteNotMultiplied
  <1> DEFINE Inv == world \in Worlds /\ ~doubled
  <1>1. Init => Inv
    BY DEF Init
  <1>2. Inv => WriteNotMultiplied
    BY DEF WriteNotMultiplied
  <1>3. TypeOK /\ Landed /\ Inv /\ [Next]_vars => Inv'
    <2> SUFFICES ASSUME TypeOK, Landed, Inv, [Next]_vars PROVE Inv'
      OBVIOUS
    <2> QED BY WorldStays, DoubledNext DEF UpstreamsTell
  <1>4. TypeOK /\ Landed /\ [Next]_vars => Landed'
    BY LandedNext
  <1> QED BY <1>1, <1>2, <1>3, <1>4, LandedInit, TypeCorrect, PTL DEF Spec

=============================================================================
