------------------------- MODULE TriggerDedupProofs -------------------------
(***************************************************************************)
(* Proofs about TriggerDedup, for any number of server processes, posts    *)
(* and faults and any lease and time to live: the request that handles a   *)
(* delivery is alone with it, and the table implements DeliveryContract.   *)
(***************************************************************************)
EXTENDS TriggerDedup, TLAPS

\* The hypothesis of the refinement: in every world that is considered a
\* handler is done with its row before the lease runs out.
AllTimely == \A w \in Worlds : w.timely

-----------------------------------------------------------------------------
(* The type invariant.                                                     *)

\* Every row that a claim, a completion or a release writes is a row.
LEMMA RowsAreRows ==
  ClaimedRow \in Row /\ CompletedRow \in Row /\ NoRow \in Row
    /\ (row \in Row => ReleasedRow \in Row)
  BY DedupAssumption DEF ClaimedRow, CompletedRow, ReleasedRow, NoRow, Row

\* A row that has time left is a row when some of it is gone.
LEMMA TickedRow ==
  ASSUME row \in Row, row.left > 0
  PROVE  /\ [row EXCEPT !.left = @ - 1] \in Row
         /\ [row EXCEPT !.left = @ - 1].state = row.state
         /\ [row EXCEPT !.left = @ - 1].left = row.left - 1
  BY DedupAssumption DEF Row, NoRow

\* The time left of a row is a number.
LEMMA RowFacts ==
  ASSUME row \in Row
  PROVE  /\ row.left \in Nat
         /\ row.state \in {"absent", "inflight", "done"}
         /\ row.state = "absent" => row.left = 0
  BY DedupAssumption DEF Row, NoRow

\* The empty table and the unsent posts are well typed.
LEMMA TypeInit == Init => TypeOK
<1> SUFFICES ASSUME Init PROVE TypeOK
  OBVIOUS
<1>1. faults \in 0..MaxFaults
  BY DedupAssumption DEF Init
<1>2. row \in Row
  BY RowsAreRows DEF Init
<1> QED
  BY <1>1, <1>2 DEF Init, TypeOK, PC, Outstanding, Handling, Accepted

\* Every action keeps the types.
LEMMA TypeNext == TypeOK /\ [Next]_vars => TypeOK'
<1> SUFFICES ASSUME TypeOK, [Next]_vars PROVE TypeOK'
  OBVIOUS
<1> USE DEF TypeOK
<1>1. ASSUME NEW p \in Post, NEW n \in Node, Send(p, n) PROVE TypeOK'
  BY <1>1 DEF Send, PC, Outstanding, Handling
<1>2. ASSUME NEW p \in Post, WinClaim(p) PROVE TypeOK'
  BY <1>2, RowsAreRows DEF WinClaim, PC, Outstanding, Handling
<1>3. ASSUME NEW p \in Post, LoseClaim(p) PROVE TypeOK'
  BY <1>3 DEF LoseClaim, PC, Outstanding, Handling, Accepted
<1>4. ASSUME NEW p \in Post, Return(p) PROVE TypeOK'
  BY <1>4 DEF Return, PC, Outstanding, Handling
<1>5. ASSUME NEW p \in Post, Raise(p) PROVE TypeOK'
  <2>1. PICK how \in {"failed", "throttled"} : pc' = [pc EXCEPT ![p] = how]
    BY <1>5 DEF Raise
  <2>2. faults' \in 0..MaxFaults
    BY <1>5, DedupAssumption DEF Raise
  <2> QED
    BY <1>5, <2>1, <2>2 DEF Raise, PC, Outstanding, Handling
<1>6. ASSUME NEW p \in Post, Complete(p) PROVE TypeOK'
  BY <1>6, RowsAreRows DEF Complete, PC, Outstanding, Handling
<1>7. ASSUME NEW p \in Post, Release(p) PROVE TypeOK'
  BY <1>7, RowsAreRows DEF Release, PC, Outstanding, Handling, Accepted
<1>8. ASSUME NEW p \in Post, Deliver(p) PROVE TypeOK'
  BY <1>8 DEF Deliver, PC, Outstanding, Handling, Accepted
<1>9. CASE Sweep
  BY <1>9, RowsAreRows DEF Sweep
<1>10. ASSUME NEW n \in Node, Crash(n) PROVE TypeOK'
  <2>1. faults' \in 0..MaxFaults
    BY <1>10, DedupAssumption DEF Crash
  <2> QED
    BY <1>10, <2>1 DEF Crash, PC, Outstanding, Handling
<1>11. ASSUME NEW n \in Node, Restart(n) PROVE TypeOK'
  BY <1>11 DEF Restart
<1>12. CASE Tick
  BY <1>12, TickedRow DEF Tick
<1>13. CASE UNCHANGED vars
  BY <1>13 DEF vars
<1> QED
  BY <1>1, <1>2, <1>3, <1>4, <1>5, <1>6, <1>7, <1>8, <1>9, <1>10, <1>11,
     <1>12, <1>13 DEF Next

\* Type correctness: a request that is being served has a live process, and
\* no claim, completion, crash or expiry writes a row that is none.
THEOREM TypeCorrect == Spec => []TypeOK
  BY TypeInit, TypeNext, PTL DEF Spec

-----------------------------------------------------------------------------
(* Exclusion.                                                              *)

\* Nobody handles anything at first.
LEMMA AloneInit == Init => OneHandler
  BY DEF Init, OneHandler, Handling

\* OneHandler is inductive: a claim succeeds only when nobody's lease lives,
\* and a lease does not run out under a timely handler.
LEMMA AloneNext == TypeOK /\ OneHandler /\ [Next]_vars => OneHandler'
<1> SUFFICES ASSUME TypeOK, OneHandler, [Next]_vars, world'.timely PROVE OneHandler'
  BY DEF OneHandler
<1> USE DEF OneHandler
<1>0. world' = world
  BY DEF Next, vars, Send, WinClaim, LoseClaim, Return, Raise, Complete,
         Release, Deliver, Sweep, Crash, Restart, Tick
<1>t. pc \in [Post -> PC] /\ row \in Row
  BY DEF TypeOK
<1>1. ASSUME NEW p \in Post, NEW n \in Node, Send(p, n) PROVE OneHandler'
  BY <1>0, <1>t, <1>1 DEF Send, Handling
<1>2. ASSUME NEW p \in Post, WinClaim(p) PROVE OneHandler'
  <2>1. \A q \in Post : pc[q] \notin Handling
    BY <1>0, <1>2 DEF WinClaim, ClaimWins, LiveRow
  <2>2. row'.state = "inflight" /\ row'.left > 0
    BY <1>2, DedupAssumption DEF WinClaim, ClaimedRow
  <2> QED
    BY <1>2, <1>t, <2>1, <2>2 DEF WinClaim
<1>3. ASSUME NEW p \in Post, LoseClaim(p) PROVE OneHandler'
  BY <1>0, <1>t, <1>3 DEF LoseClaim, Handling
<1>4. ASSUME NEW p \in Post, Return(p) PROVE OneHandler'
  BY <1>0, <1>t, <1>4 DEF Return, Handling
<1>5. ASSUME NEW p \in Post, Raise(p) PROVE OneHandler'
  <2>1. PICK how \in {"failed", "throttled"} : pc' = [pc EXCEPT ![p] = how]
    BY <1>5 DEF Raise
  <2> QED
    BY <1>0, <1>t, <1>5, <2>1 DEF Raise, Handling
<1>6. ASSUME NEW p \in Post, Complete(p) PROVE OneHandler'
  <2>1. \A q \in Post : pc'[q] \notin Handling
    BY <1>0, <1>t, <1>6 DEF Complete, Handling
  <2> QED
    BY <2>1
<1>7. ASSUME NEW p \in Post, Release(p) PROVE OneHandler'
  <2>1. \A q \in Post : pc'[q] \notin Handling
    BY <1>0, <1>t, <1>7 DEF Release, Handling
  <2> QED
    BY <2>1
<1>8. ASSUME NEW p \in Post, Deliver(p) PROVE OneHandler'
  BY <1>0, <1>t, <1>8 DEF Deliver, Handling
<1>9. CASE Sweep
  BY <1>0, <1>9 DEF Sweep
<1>10. ASSUME NEW n \in Node, Crash(n) PROVE OneHandler'
  <2>1. \A q \in Post : pc'[q] \in Handling => pc[q] \in Handling
    BY <1>10 DEF Crash, Handling
  <2> QED
    BY <1>0, <1>10, <2>1 DEF Crash
<1>11. ASSUME NEW n \in Node, Restart(n) PROVE OneHandler'
  BY <1>0, <1>11 DEF Restart
<1>12. CASE Tick
  <2>1. row'.state = row.state /\ row'.left = row.left - 1 /\ row.left \in Nat
    BY <1>t, <1>12, TickedRow, RowFacts DEF Tick
  <2>2. ASSUME NEW p \in Post, pc[p] \in Handling
        PROVE  row.left # 1
    BY <1>0, <1>12, <2>2 DEF Tick, InGoodTime
  <2> QED
    BY <1>0, <1>12, <2>1, <2>2 DEF Tick
<1>13. CASE UNCHANGED vars
  BY <1>13 DEF vars
<1> QED
  BY <1>1, <1>2, <1>3, <1>4, <1>5, <1>6, <1>7, <1>8, <1>9, <1>10, <1>11,
     <1>12, <1>13 DEF Next

\* Where handlers are timely, the request that runs the handler is the only
\* one and owns the in-flight row, so that run_once_async's complete and
\* release, which do not look at the owner, cannot hit another one's row.
THEOREM HandlersAreAlone == Spec => []OneHandler
  BY TypeInit, TypeNext, AloneInit, AloneNext, PTL DEF Spec

-----------------------------------------------------------------------------
(* The refinement.                                                         *)

\* Nothing has been sent: the delivery is open and no window protects it.
LEMMA ContractStarts == Init => Contract!ContractInit
  BY DEF Init, Contract!ContractInit, phase, left, NoRow, Handling

\* One case per action: the claim begins, completion succeeds, release and
\* crash fail, the sweep forgets, and all the rest does not show.
LEMMA ContractStep ==
  ASSUME TypeOK, OneHandler, world.timely, [Next]_vars
  PROVE  [Contract!ContractNext]_(Contract!contractVars)
<1> DEFINE busy == \E p \in Post : pc[p] \in Handling
<1> USE DEF Contract!contractVars, Contract!ContractNext
<1>t. pc \in [Post -> PC] /\ row \in Row
  BY DEF TypeOK
<1>r. /\ row.left \in Nat /\ row.state \in {"absent", "inflight", "done"}
      /\ row.state = "absent" => row.left = 0
      /\ busy => row.state = "inflight" /\ row.left > 0
  BY <1>t, RowFacts DEF OneHandler
\* Requests that neither enter nor leave the handler do not show.
<1>s. ASSUME UNCHANGED row, busy' = busy PROVE UNCHANGED <<phase, left>>
  BY <1>s DEF phase, left
<1>1. ASSUME NEW p \in Post, NEW n \in Node, Send(p, n) PROVE UNCHANGED <<phase, left>>
  BY <1>t, <1>s, <1>1 DEF Send, Handling
<1>2. ASSUME NEW p \in Post, WinClaim(p) PROVE Contract!Begin
  <2>1. ~busy /\ left = 0
    BY <1>2, <1>r DEF WinClaim, ClaimWins, LiveRow, left
  <2>2. busy' /\ left' = 0
    BY <1>t, <1>2 DEF WinClaim, ClaimedRow, left, Handling
  <2> QED
    BY <2>1, <2>2 DEF Contract!Begin, phase
<1>3. ASSUME NEW p \in Post, LoseClaim(p) PROVE UNCHANGED <<phase, left>>
  BY <1>t, <1>s, <1>3 DEF LoseClaim, Handling
<1>4. ASSUME NEW p \in Post, Return(p) PROVE UNCHANGED <<phase, left>>
  BY <1>t, <1>s, <1>4 DEF Return, Handling
<1>5. ASSUME NEW p \in Post, Raise(p) PROVE UNCHANGED <<phase, left>>
  <2>1. PICK how \in {"failed", "throttled"} : pc' = [pc EXCEPT ![p] = how]
    BY <1>5 DEF Raise
  <2> QED
    BY <1>t, <1>s, <1>5, <2>1 DEF Raise, Handling
<1>6. ASSUME NEW p \in Post, Complete(p) PROVE Contract!Succeed
  <2>1. busy /\ ~busy'
    BY <1>t, <1>6 DEF Complete, Handling, OneHandler
  <2>2. row'.state = "done" /\ row'.left = Ttl
    BY <1>6 DEF Complete, CompletedRow
  <2> QED
    BY <2>1, <2>2 DEF Contract!Succeed, phase, left
<1>7. ASSUME NEW p \in Post, Release(p) PROVE Contract!Fail
  <2>1. busy /\ ~busy'
    BY <1>t, <1>7 DEF Release, Handling, OneHandler
  <2>2. row.state = "inflight" /\ row'.state = "absent"
    BY <1>7, <2>1, <1>r DEF Release, ReleasedRow, NoRow
  <2> QED
    BY <2>1, <2>2 DEF Contract!Fail, phase, left
<1>8. ASSUME NEW p \in Post, Deliver(p) PROVE UNCHANGED <<phase, left>>
  BY <1>t, <1>s, <1>8 DEF Deliver, Handling
<1>9. ASSUME Sweep PROVE Contract!Forget \/ UNCHANGED <<phase, left>>
  <2>1. ~busy /\ ~busy'
    BY <1>9, <1>r DEF Sweep
  <2>2. row.left = 0 /\ row'.state = "absent"
    BY <1>9 DEF Sweep, NoRow
  <2> QED
    BY <2>1, <2>2 DEF Contract!Forget, phase, left
<1>10. ASSUME NEW n \in Node, Crash(n)
       PROVE  Contract!Fail \/ UNCHANGED <<phase, left>>
  <2>1. busy' => busy
    BY <1>10 DEF Crash, Handling
  <2>2. CASE busy /\ ~busy'
    BY <1>10, <1>r, <2>2 DEF Crash, Contract!Fail, phase, left
  <2>3. CASE busy' = busy
    BY <1>10, <1>s, <2>3 DEF Crash
  <2> QED
    BY <2>1, <2>2, <2>3
<1>11. ASSUME NEW n \in Node, Restart(n) PROVE UNCHANGED <<phase, left>>
  BY <1>s, <1>11 DEF Restart
<1>12. ASSUME Tick PROVE Contract!Elapse \/ UNCHANGED <<phase, left>>
  <2>1. row'.state = row.state /\ row'.left = row.left - 1
    BY <1>t, <1>12, TickedRow DEF Tick
  <2>2. busy' = busy
    BY <1>12 DEF Tick
  <2>3. phase' = phase
    BY <2>1, <2>2 DEF phase
  <2>4. row.left > 0
    BY <1>12 DEF Tick
  <2> QED
    BY <1>r, <2>1, <2>3, <2>4 DEF Contract!Elapse, left
<1>13. ASSUME UNCHANGED vars PROVE UNCHANGED <<phase, left>>
  BY <1>s, <1>13 DEF vars
<1> QED
  BY <1>1, <1>2, <1>3, <1>4, <1>5, <1>6, <1>7, <1>8, <1>9, <1>10, <1>11,
     <1>12, <1>13 DEF Next

\* The dedup table, its leases, the requests and the crashes of their
\* processes implement the contract of one delivery id: seen through the
\* mapping of phase and left, every behaviour is one of DeliveryContract
\* (run_once_async, dedup_try_claim, dedup_complete, dedup_release).
THEOREM ImplementsContract ==
  ASSUME AllTimely
  PROVE  Spec => KeepsContract
<1>1. TypeOK => world.timely
  BY AllTimely DEF AllTimely, TypeOK
<1>2. TypeOK /\ OneHandler /\ [Next]_vars
        => [Contract!ContractNext]_(Contract!contractVars)
  BY <1>1, ContractStep
<1> QED
  BY <1>2, ContractStarts, TypeCorrect, HandlersAreAlone, PTL
     DEF Spec, KeepsContract, Contract!ContractSpec
=============================================================================
