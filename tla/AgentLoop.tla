------------------------------ MODULE AgentLoop ------------------------------
(***************************************************************************)
(* One run of an agent: the turns of run_agent_loop and drive_loop         *)
(* (himmy/runtime/single_agent.py, loop.py), the inference call of a turn  *)
(* with its retries (services/inference/service.py), the tool calls that a *)
(* client manager executes inside that call with two more layers of        *)
(* retries (runtime/tool_exchange.py, services/tools/service.py), the      *)
(* pause for an approval and the resume after it (runtime/resume.py).      *)
(*                                                                         *)
(* What a model writes is reduced to the tools it calls and to whether it  *)
(* writes text.  A dispatch of a tool has an outcome and may have an       *)
(* effect in the world, which the outcome need not tell.  Crashes and      *)
(* concurrent resumes of one checkpoint are the subject of HitlResume.     *)
(***************************************************************************)
EXTENDS Integers, FiniteSets

CONSTANTS
    MaxTurns,        \* max_turns of the loop
    CostBudget,      \* cost_budget, in units that one turn costs at most
    Retries,         \* max_retries of the inference service
    ToolRetries,     \* tool_retry_attempts of the turn
    HintAttempts,    \* max_attempts of the tool's retry_hints
    MaxCalls,        \* bound on the tool calls of one reply
    MaxPauses,       \* bound on the answers a human gives
    Worlds           \* the installations considered, see World

\* read:   declared read_only, without effects.
\* write:  a tool with an effect, see World.
\* gated:  such a tool with requires_approval.
\* answer: the final_answer tool.
Tool == {"read", "write", "gated", "answer"}
Writes == {"write", "gated"}

\* manager:   "calls" executes the tool calls of one reply; "round_trip" is
\*            pydantic-ai, which goes on until the model has answered.
\* hitl:      the loop pauses for approvals.
\* local:     the writing tools are LOCAL handlers; otherwise they are HTTP
\*            POSTs without an idempotency key.
\* schema:    the turn asks for a structured reply, which is validated.
\* ambiguous: an upstream that answers 5xx or drops the connection may have
\*            done the work.
World == [manager : {"calls", "round_trip"}, hitl : BOOLEAN, local : BOOLEAN,
          schema : BOOLEAN, ambiguous : BOOLEAN]

ASSUME LoopAssumption ==
    /\ MaxTurns \in Nat \ {0} /\ CostBudget \in Nat \ {0}
    /\ Retries \in Nat /\ ToolRetries \in Nat /\ HintAttempts \in Nat \ {0}
    /\ MaxCalls \in Nat /\ MaxPauses \in Nat
    /\ Worlds \subseteq World

VARIABLES
    world,
    pc,              \* what the loop is doing
    attempt,         \* retries of the inference call of this turn
    reply,           \* what the model answered
    todo,            \* the calls that are not executed yet
    denied,          \* the calls whose recorded outcome is a denial
    tries,           \* retries of the present call, per layer
    turns,           \* turns of this drive, len(turns)
    offset,          \* turns_offset of the drive
    spent,           \* cost_offset and the cost of the turns of the drive
    used,            \* some turn of the drive called a tool
    checkpoint,      \* the checkpoint of the last pause
    reason,          \* stopped_reason
    pauses,          \* answers given so far
    \* History: turns run and their cost in the whole run, effects of the
    \* present call, whether a call had more of them than it may have, and what
    \* is left of the approvals of this resume after the effects of its gated
    \* calls.
    total, bill, landed, doubled, licence
loopVars == <<turns, offset, spent, used, reason>>
callVars == <<attempt, reply, todo, denied, tries>>
tally == <<total, bill>>
effects == <<landed, doubled, licence>>
vars == <<world, pc, callVars, loopVars, checkpoint, pauses, tally, effects>>

Transient == {"timeout", "unavailable", "rate_limited"}
Outcome == {"ok", "error"} \cup Transient
Position == 1..MaxCalls
Calls == UNION {[1..n -> Tool] : n \in 0..MaxCalls}
Picked == UNION {[S -> Tool] : S \in SUBSET Position}      \* some calls of a reply

Reply == [failed : BOOLEAN, calls : Calls, text : BOOLEAN, cost : {0, 1}]
NoReply == [failed |-> FALSE, calls |-> <<>>, text |-> FALSE, cost |-> 0]
NoTries == [service |-> 0, turn |-> 0]
Checkpoint == [pending : Picked, turns : Nat, spent : Nat, approved : BOOLEAN]
NoCheckpoint == [pending |-> <<>>, turns |-> 0, spent |-> 0, approved |-> FALSE]

TypeOK ==
  /\ world \in Worlds
  /\ pc \in {"infer", "calls", "judge", "paused", "apply", "stopped"}
  /\ attempt \in 0..Retries
  /\ reply \in Reply
  /\ todo \subseteq Position /\ denied \subseteq Position
  /\ tries \in [service : 0..(HintAttempts - 1), turn : 0..ToolRetries]
  /\ turns \in Nat /\ offset \in Nat /\ spent \in Nat /\ used \in BOOLEAN
  /\ checkpoint \in Checkpoint
  /\ pauses \in 0..MaxPauses
  /\ pc \in {"calls", "judge"} => todo \cup denied \subseteq DOMAIN reply.calls
  /\ pc = "apply" => todo \subseteq DOMAIN checkpoint.pending

Init ==
  /\ world \in Worlds
  /\ pc = "infer"
  /\ attempt = 0 /\ reply = NoReply /\ todo = {} /\ denied = {} /\ tries = NoTries
  /\ turns = 0 /\ offset = 0 /\ spent = 0 /\ used = FALSE /\ reason = "none"
  /\ checkpoint = NoCheckpoint /\ pauses = 0
  /\ total = 0 /\ bill = 0 /\ landed = 0 /\ doubled = FALSE /\ licence = 0

-----------------------------------------------------------------------------
(* The inference call of a turn: InferenceService.run.                     *)

\* The model answers.  The synthesis turn binds no tools; a manager that
\* makes the whole round trip comes back with text.
Answer(r) ==
  /\ pc = "infer"
  /\ ~r.failed
  /\ reason = "synthesized" => r.calls = <<>>
  /\ world.manager = "round_trip" => r.text
  /\ reply' = r /\ todo' = DOMAIN r.calls /\ denied' = {} /\ tries' = NoTries /\ landed' = 0
  /\ pc' = "calls"
  /\ UNCHANGED <<world, attempt, loopVars, checkpoint, pauses, tally, doubled, licence>>

\* Mutant: the retries are not counted.
RetriedUncounted(code) ==
  /\ code \in Transient
  /\ pc' = "infer" /\ reply' = NoReply /\ UNCHANGED attempt

\* A transient failure is retried from scratch, up to max_retries times.
Retried(code) ==
  /\ code \in Transient /\ attempt < Retries
  /\ attempt' = attempt + 1
  /\ pc' = "infer" /\ reply' = NoReply

GivenUp(code) ==
  /\ code \notin Transient \/ attempt = Retries
  /\ reply' = [NoReply EXCEPT !.failed = TRUE]
  /\ pc' = "calls" /\ UNCHANGED attempt

\* The provider fails, or the ceiling of the whole call expires: before the
\* reply or while its tools are being executed, which are then forgotten.
FailInference(code) ==
  /\ ~reply.failed
  /\ \/ pc = "infer"
     \/ pc = "calls" /\ code = "timeout" /\ todo # {}
     \/ pc = "calls" /\ world.manager = "round_trip" /\ reply.calls # <<>>
  /\ Retried(code) \/ GivenUp(code)
  /\ todo' = {} /\ denied' = {} /\ tries' = NoTries /\ landed' = 0
  /\ UNCHANGED <<world, loopVars, checkpoint, pauses, tally, doubled, licence>>

\* _validate_structured_reply, after the manager has executed the calls: the
\* reply has failed, and keeps its calls and what they returned.
RejectReply ==
  /\ pc = "calls" /\ todo = {} /\ ~reply.failed
  /\ world.schema
  /\ reply' = [reply EXCEPT !.failed = TRUE]
  /\ UNCHANGED <<world, pc, attempt, todo, denied, tries, loopVars, checkpoint, pauses, tally,
                 effects>>

-----------------------------------------------------------------------------
(* Tool calls, of a reply or, after an approval, of a checkpoint.          *)

Due == IF pc = "apply" THEN checkpoint.pending ELSE reply.calls
Calling ==
  /\ pc = "calls" \/ (pc = "apply" /\ checkpoint.approved)
  /\ todo # {}

\* The calls are executed in their order.
First(S) == CHOOSE k \in S : \A j \in S : k <= j
Present == Due[First(todo)]

\* What the turn keeps of a return is whether it is a denial.  pydantic-ai
\* hands on what a tool returned and not its outcome, so that there every
\* return counts as a success.
Recorded(outcome) ==
  IF outcome = "denied" /\ world.manager = "calls" THEN "denied" ELSE "other"

\* The call is over.
Return(outcome) ==
  /\ todo' = todo \ {First(todo)}
  /\ denied' = IF Recorded(outcome) = "denied" THEN denied \cup {First(todo)} ELSE denied
  /\ tries' = NoTries /\ landed' = 0
  /\ UNCHANGED <<world, pc, attempt, reply, loopVars, checkpoint, pauses, tally>>

\* Mutant: the approval gate is missing.
NeedsApprovalNever(t) == FALSE

\* The executor of a manager never carries an approval.
NeedsApproval(t) == t = "gated" /\ pc = "calls"

DenyCall ==
  /\ Calling
  /\ NeedsApproval(Present)
  /\ Return("denied")
  /\ UNCHANGED <<doubled, licence>>

\* The policy hook blocks the call, approved or not, with the outcome and the
\* code of the approval gate.
BlockCall ==
  /\ Calling
  /\ ~NeedsApproval(Present)
  /\ Return("denied")
  /\ UNCHANGED <<doubled, licence>>

\* The caller lacks the capability, or the arguments do not fit the schema.
RefuseCall ==
  /\ Calling
  /\ ~NeedsApproval(Present)
  /\ Return("refused")
  /\ UNCHANGED <<doubled, licence>>

\* What a dispatch with this outcome may have done to the world.
Effects(t, outcome) ==
  IF t \notin Writes THEN {0}
  ELSE IF outcome = "ok" THEN {1}
  ELSE IF outcome \in {"timeout", "error"}
            \/ (outcome = "unavailable" /\ world.ambiguous) THEN {0, 1}
  ELSE {0}

\* Mutant: one attempt more than the hints say.
AttemptsLeftOneMore == tries.service < HintAttempts

AttemptsLeft == tries.service < HintAttempts - 1

\* _is_retry_safe: a LOCAL tool is always repeated, a POST without a key after
\* a 429 only.
RetrySafe(t, outcome) == t \notin Writes \/ world.local \/ outcome = "rate_limited"
ServiceRetries(t, outcome) ==
  outcome \in Transient /\ AttemptsLeft /\ RetrySafe(t, outcome)

\* Mutant: a timed-out tool is fired again whatever it is.
RefireSafeAny(t, outcome) == TRUE

\* The turn's retry leaves a timed-out tool alone unless it only reads.
RefireSafe(t, outcome) == outcome = "timeout" => t = "read"
TurnRetries(t, outcome) ==
  /\ pc = "calls" /\ outcome \in Transient /\ tries.turn < ToolRetries
  /\ RefireSafe(t, outcome)

\* The effects a call may have: what the tool service repeats it repeats in
\* full, be it a write.
MayLand == IF world.local THEN HintAttempts ELSE 1

\* A LOCAL handler raises or it is too slow; the other failures are those of
\* an upstream.
Possible(t, outcome) ==
  t \in Writes /\ world.local => outcome \notin {"unavailable", "rate_limited"}

Again ==
  UNCHANGED <<world, pc, attempt, reply, todo, denied, loopVars, checkpoint, pauses, tally>>

\* One dispatch of the tool.  The tool service repeats it first; what it
\* gives up on, the executor of the turn may start over.
Dispatch(outcome) ==
  /\ Calling
  /\ ~NeedsApproval(Present)
  /\ Possible(Present, outcome)
  /\ \E e \in Effects(Present, outcome) :
       /\ doubled' = (doubled \/ landed + e > MayLand)
       /\ licence' = licence - IF Present = "gated" THEN e ELSE 0
       /\ \/ /\ ServiceRetries(Present, outcome)
             /\ tries' = [tries EXCEPT !.service = @ + 1]
             /\ landed' = landed + e /\ Again
          \/ /\ ~ServiceRetries(Present, outcome) /\ TurnRetries(Present, outcome)
             /\ tries' = [service |-> 0, turn |-> tries.turn + 1]
             /\ landed' = landed + e /\ Again
          \/ /\ ~ServiceRetries(Present, outcome) /\ ~TurnRetries(Present, outcome)
             /\ Return(outcome)

-----------------------------------------------------------------------------
(* The turns: run_agent_loop, drive_loop and maybe_synthesize.             *)

\* The turn is appended to the turns of the drive.
EndTurn ==
  /\ pc = "calls" /\ todo = {}
  /\ turns' = turns + 1
  /\ spent' = spent + reply.cost
  /\ used' = (used \/ reply.calls # <<>>)
  /\ total' = total + 1 /\ bill' = bill + reply.cost
  /\ pc' = IF reason = "synthesized" THEN "stopped" ELSE "judge"
  /\ UNCHANGED <<world, callVars, offset, reason, checkpoint, pauses, effects>>

\* _pending_approvals: the calls whose recorded outcome is a denial.
Pending == [k \in denied |-> reply.calls[k]]

HasCall(t) == \E k \in DOMAIN reply.calls : reply.calls[k] = t

Exhausted ==
  IF offset + turns >= MaxTurns THEN "max_turns"
  ELSE IF spent >= CostBudget THEN "budget"
  ELSE "continue"

\* Mutant: the limits are looked at before the approvals.
StopReasonLimitsFirst ==
  IF reply.failed THEN "error"
  ELSE IF Exhausted # "continue" THEN Exhausted
  ELSE IF world.hitl /\ denied # {} THEN "awaiting_approval"
  ELSE IF reply.calls = <<>> \/ world.manager = "round_trip" THEN "final"
  ELSE IF HasCall("answer") THEN "final_answer"
  ELSE "continue"

\* The checks of drive_loop after a turn, in their order.
StopReason ==
  IF reply.failed THEN "error"
  ELSE IF world.hitl /\ denied # {} THEN "awaiting_approval"
  ELSE IF reply.calls = <<>> \/ world.manager = "round_trip" THEN "final"
  ELSE IF HasCall("answer") THEN "final_answer"
  ELSE Exhausted

\* _build_request and the call of the inference service.
NewTurn ==
  /\ pc' = "infer" /\ attempt' = 0 /\ reply' = NoReply
  /\ todo' = {} /\ denied' = {} /\ tries' = NoTries

\* _continue_turn.
Continue ==
  /\ pc = "judge" /\ StopReason = "continue"
  /\ NewTurn
  /\ UNCHANGED <<world, loopVars, checkpoint, pauses, tally, effects>>

\* save_checkpoint, with the turns and the cost of the run so far.
Pause ==
  /\ pc = "judge" /\ StopReason = "awaiting_approval"
  /\ checkpoint' = [pending |-> Pending, turns |-> offset + turns, spent |-> spent,
                    approved |-> FALSE]
  /\ reason' = "awaiting_approval" /\ pc' = "paused"
  /\ UNCHANGED <<world, callVars, turns, offset, spent, used, pauses, tally, effects>>

\* maybe_synthesize is called by run_agent_loop only, never after a resume.
Silent ==
  /\ pauses = 0
  /\ StopReason \in {"final", "max_turns"}
  /\ ~reply.text /\ used

Synthesize ==
  /\ pc = "judge" /\ Silent
  /\ reason' = "synthesized"
  /\ NewTurn
  /\ UNCHANGED <<world, turns, offset, spent, used, checkpoint, pauses, tally, effects>>

Stop ==
  /\ pc = "judge"
  /\ StopReason \notin {"continue", "awaiting_approval"} /\ ~Silent
  /\ reason' = StopReason /\ pc' = "stopped"
  /\ UNCHANGED <<world, callVars, turns, offset, spent, used, checkpoint, pauses, tally,
                 effects>>

-----------------------------------------------------------------------------
(* The resume: resume_agent_loop_locked.                                   *)

\* A human answers and the resume claims the checkpoint.
AnswerPause(approved) ==
  /\ pc = "paused" /\ pauses < MaxPauses
  /\ pauses' = pauses + 1
  /\ checkpoint' = [checkpoint EXCEPT !.approved = approved]
  /\ licence' = IF approved
                THEN MayLand * Cardinality({k \in DOMAIN checkpoint.pending :
                                              checkpoint.pending[k] = "gated"})
                ELSE 0
  /\ attempt' = 0 /\ reply' = NoReply /\ tries' = NoTries
  /\ todo' = DOMAIN checkpoint.pending /\ denied' = {}
  /\ pc' = "apply"
  /\ UNCHANGED <<world, loopVars, tally, landed, doubled>>

\* A rejected call is answered without being executed.
RejectCall ==
  /\ pc = "apply" /\ ~checkpoint.approved /\ todo # {}
  /\ Return("refused")
  /\ UNCHANGED <<doubled, licence>>

\* Mutant: the drive starts with all its budget.
ResolveAtCostZero ==
  /\ pc = "apply" /\ todo = {}
  /\ turns' = 0 /\ used' = FALSE /\ reason' = "none"
  /\ offset' = checkpoint.turns /\ spent' = 0
  /\ checkpoint' = NoCheckpoint /\ licence' = 0 /\ NewTurn
  /\ UNCHANGED <<world, pauses, tally, landed, doubled>>

\* Every pending call has its answer: a new drive starts with one turn more,
\* whatever is left of the turns and of the budget.
ResolveCheckpoint ==
  /\ pc = "apply" /\ todo = {}
  /\ turns' = 0 /\ used' = FALSE /\ reason' = "none"
  /\ offset' = checkpoint.turns /\ spent' = checkpoint.spent
  /\ checkpoint' = NoCheckpoint /\ licence' = 0 /\ NewTurn
  /\ UNCHANGED <<world, pauses, tally, landed, doubled>>

-----------------------------------------------------------------------------
\* What the process itself does, and what the tools and the model do to it.
Step ==
  \/ \E r \in Reply : Answer(r)
  \/ \E code \in Transient \cup {"error"} : FailInference(code)
  \/ RejectReply
  \/ DenyCall \/ BlockCall \/ RefuseCall
  \/ \E outcome \in Outcome : Dispatch(outcome)
  \/ EndTurn \/ Continue \/ Pause \/ Synthesize \/ Stop
  \/ RejectCall \/ ResolveCheckpoint

Next == Step \/ \E approved \in BOOLEAN : AnswerPause(approved)

\* Every call is awaited under a timeout, so that the process always gets on;
\* the human need not answer.
Spec == Init /\ [][Next]_vars /\ WF_vars(Step)

-----------------------------------------------------------------------------
Synthesized == IF reason = "synthesized" THEN 1 ELSE 0

\* max_turns and cost_budget bound a run across its pauses: it has at most
\* MaxTurns turns, one more for each answer (a resume runs one turn before it
\* looks at the bounds) and the one that rescues an empty answer, and it costs
\* no more than the budget and those turns.
LimitsHold ==
  /\ total <= MaxTurns + pauses + Synthesized
  /\ bill <= CostBudget + pauses + Synthesized

\* A gated tool takes effect only in the resume of a pause that a human
\* approved.  For each call approved there a POST takes effect at most once,
\* whatever is retried on the way; a LOCAL tool that times out is repeated by
\* the tool service, so that one approval may yield as many effects as the
\* tool's hints allow attempts.
EffectsUnderApproval == licence >= 0

\* The turn's retry never multiplies the effects of one call: a POST takes
\* effect at most once, for neither the tool service nor the turn resends
\* what may have landed, and a LOCAL write as often as its hints allow
\* attempts, for the tool service repeats it after a timeout and the turn
\* does not.
WriteNotMultiplied == ~doubled

\* With hitl and a manager that executes the calls of one reply, the loop does
\* not end on a gated call without having asked a human, unless that turn
\* failed as a whole.  A reply that fails its schema is such a turn: the loop
\* ends with "error", and its denied calls are dropped.  pydantic-ai hands no
\* denial on, so that a run with it never asks.
ApprovalNeverSkipped ==
  pc = "stopped" /\ world.hitl /\ world.manager = "calls" /\ HasCall("gated") => reply.failed

\* The retries of three layers, the turns and the rescue come to an end: the
\* run stops or waits for a human.
EventuallyStops == []<>(pc \in {"paused", "stopped"})
=============================================================================
