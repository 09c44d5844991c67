---------------------------- MODULE TriggerDedup ----------------------------
(***************************************************************************)
(* De-duplication of signed webhook deliveries: handle_webhook of          *)
(* himmy/connectors/webhook.py around DurableIdempotencyStore              *)
(* .run_once_async (himmy/services/storage/trigger_dedup.py) and the       *)
(* trigger_dedup table of the shared store.                                *)
(*                                                                         *)
(* One delivery id is modelled: every statement but the sweep is keyed by  *)
(* (scope, key), so ids do not interact.  A post is one HTTP request that  *)
(* carries the id and has passed the signature, payload and allow-list     *)
(* checks (the others never reach the table).  It reaches one of several   *)
(* server processes, which share the table and crash independently.        *)
(*                                                                         *)
(* The store's operations are atomic (BEGIN IMMEDIATE).  A deadline is     *)
(* kept as the time left to it; a row whose time is 0 has expired.         *)
(***************************************************************************)
EXTENDS Naturals, FiniteSets

CONSTANTS
    Node,            \* server processes that mount the webhook route
    Post,            \* requests that carry the delivery id
    NoNode,          \* a post that has not been sent
    Lease,           \* DEFAULT_INFLIGHT_LEASE_SECONDS, in ticks
    Ttl,             \* DEFAULT_COMPLETED_TTL_SECONDS, in ticks
    Worlds,          \* the senders and handlers considered, see World
    MaxFaults        \* bound on crashes and failing handlers

\* sender:    "duplicating": it, or the network, posts again at any time;
\*            "retrying": it posts again when the last post was answered
\*            with an error or not at all; "patient": it also waits until
\*            the lease of a dead handler has run out.
\* throttled: a failing handler may fail with ConnectorError, as the rate
\*            limiter of the connector does.
\* timely:    a handler is done with the row before its lease runs out.
World == [sender : {"duplicating", "retrying", "patient"},
          throttled : BOOLEAN, timely : BOOLEAN]

ASSUME DedupAssumption ==
    /\ NoNode \notin Node
    /\ Lease \in Nat /\ Lease > 1
    /\ Ttl \in Nat /\ Ttl > 0
    /\ Worlds \subseteq World
    /\ MaxFaults \in Nat
    \* At least one post is left for the attempt that nothing disturbs.
    /\ IsFiniteSet(Post) /\ Cardinality(Post) > MaxFaults

VARIABLES
    world,           \* the kind of sender and handler, fixed for ever
    row,             \* the trigger_dedup row of the id
    pc,              \* where the request of each post is
    host,            \* the process that serves it
    up,              \* the processes that run
    faults,          \* faults so far
    handled          \* the handler of the id has run to its end and was
                     \* recorded (history)
vars == <<world, row, pc, host, up, faults, handled>>

\* result IS NULL marks an in-flight row, a string a completed one.
NoRow == [state |-> "absent", left |-> 0]
Row == {NoRow} \cup [state : {"inflight"}, left : 0..Lease]
               \cup [state : {"done"}, left : 0..Ttl]

Handling == {"running", "returned", "throttled", "failed"}
Outstanding == Handling \cup {"received", "completed"}
Accepted == {"answered", "duplicate"}          \* an HTTP 200 or 202 was sent
PC == Outstanding \cup Accepted \cup {"unsent", "error", "lost"}

TypeOK ==
  /\ world \in Worlds
  /\ row \in Row
  /\ pc \in [Post -> PC]
  /\ host \in [Post -> Node \cup {NoNode}]
  /\ up \subseteq Node
  /\ faults \in 0..MaxFaults
  /\ handled \in BOOLEAN
  /\ \A p \in Post : pc[p] \in Outstanding => host[p] \in up

Init ==
  /\ world \in Worlds
  /\ row = NoRow
  /\ pc = [p \in Post |-> "unsent"]
  /\ host = [p \in Post |-> NoNode]
  /\ up = Node
  /\ faults = 0
  /\ handled = FALSE

-----------------------------------------------------------------------------
(* The sender.                                                             *)

LiveRow == row.state # "absent" /\ row.left > 0

SenderPosts ==
  /\ world.sender # "duplicating" =>
       \A p \in Post : pc[p] \notin Outstanding \cup Accepted
  /\ world.sender = "patient" => ~(row.state = "inflight" /\ row.left > 0)

Send(p, n) ==
  /\ pc[p] = "unsent" /\ n \in up
  /\ SenderPosts
  /\ pc' = [pc EXCEPT ![p] = "received"]
  /\ host' = [host EXCEPT ![p] = n]
  /\ UNCHANGED <<world, row, up, faults, handled>>

-----------------------------------------------------------------------------
(* run_once_async inside handle_webhook.                                   *)

\* Mutant: try_claim looks for completed rows only.
ClaimWinsOverInflight == row.state # "done" \/ row.left = 0

\* dedup_try_claim: an absent or expired row is claimed afresh.
ClaimWins == ~LiveRow

\* Mutants: the delivery is marked before it is run; the claim is given the
\* time to live of a completed row.
ClaimedRowMarked == [state |-> "done", left |-> Ttl]
ClaimedRowTtl == [state |-> "inflight", left |-> Ttl]

ClaimedRow == [state |-> "inflight", left |-> Lease]

WinClaim(p) ==
  /\ pc[p] = "received"
  /\ ClaimWins
  /\ row' = ClaimedRow
  /\ pc' = [pc EXCEPT ![p] = "running"]
  /\ UNCHANGED <<world, host, up, faults, handled>>

\* CLAIM_DONE and CLAIM_IN_FLIGHT end alike: the route answers 200 with
\* deduplicated=True and does not run the agent.
LoseClaim(p) ==
  /\ pc[p] = "received"
  /\ ~ClaimWins
  /\ pc' = [pc EXCEPT ![p] = "duplicate"]
  /\ UNCHANGED <<world, row, host, up, faults, handled>>

\* The agent turn returns its reply.
Return(p) ==
  /\ pc[p] = "running"
  /\ pc' = [pc EXCEPT ![p] = "returned"]
  /\ UNCHANGED <<world, row, host, up, faults, handled>>

\* The agent turn raises, is cancelled, or is refused by the rate limiter.
Raise(p) ==
  /\ pc[p] = "running" /\ faults < MaxFaults
  /\ faults' = faults + 1
  /\ \E how \in {"failed"} \cup (IF world.throttled THEN {"throttled"} ELSE {}) :
        pc' = [pc EXCEPT ![p] = how]
  /\ UNCHANGED <<world, row, host, up, handled>>

\* Mutant: the completed row keeps the expiry of the claim.
CompletedRowLease == [state |-> "done", left |-> row.left]

\* dedup_complete replaces whatever row is there.
CompletedRow == [state |-> "done", left |-> Ttl]

Complete(p) ==
  /\ pc[p] = "returned"
  /\ row' = CompletedRow
  /\ handled' = TRUE
  /\ pc' = [pc EXCEPT ![p] = "completed"]
  /\ UNCHANGED <<world, host, up, faults>>

\* dedup_release deletes an in-flight row, whoever claimed it.
ReleasedRow == IF row.state = "inflight" THEN NoRow ELSE row

\* The exception then leaves run_once_async: a ConnectorError is taken for a
\* concurrent duplicate and answered 200, anything else becomes a 500.
Release(p) ==
  /\ pc[p] \in {"failed", "throttled"}
  /\ row' = ReleasedRow
  /\ pc' = [pc EXCEPT ![p] = IF pc[p] = "throttled" THEN "duplicate" ELSE "error"]
  /\ UNCHANGED <<world, host, up, faults, handled>>

\* _deliver: the reply inline, or posted to the callback without a retry.
Deliver(p) ==
  /\ pc[p] = "completed"
  /\ pc' = [pc EXCEPT ![p] = "answered"]
  /\ UNCHANGED <<world, row, host, up, faults, handled>>

-----------------------------------------------------------------------------
(* The sweep loop, the processes and the clock.                            *)

Sweep ==
  /\ row.state # "absent" /\ row.left = 0
  /\ row' = NoRow
  /\ UNCHANGED <<world, pc, host, up, faults, handled>>

Crash(n) ==
  /\ n \in up /\ faults < MaxFaults
  /\ up' = up \ {n}
  /\ faults' = faults + 1
  /\ pc' = [p \in Post |-> IF host[p] = n /\ pc[p] \in Outstanding
                           THEN "lost" ELSE pc[p]]
  /\ UNCHANGED <<world, row, host, handled>>

Restart(n) ==
  /\ n \notin up
  /\ up' = up \cup {n}
  /\ UNCHANGED <<world, row, pc, host, faults, handled>>

InGoodTime ==
  world.timely =>
    (row.state = "inflight" /\ row.left = 1
       => \A p \in Post : pc[p] \notin Handling)

Tick ==
  /\ row.left > 0
  /\ InGoodTime
  /\ row' = [row EXCEPT !.left = @ - 1]
  /\ UNCHANGED <<world, pc, host, up, faults, handled>>

Serve(p) == WinClaim(p) \/ LoseClaim(p) \/ Return(p) \/ Complete(p)
            \/ Release(p) \/ Deliver(p)

Next ==
  \/ \E p \in Post, n \in Node : Send(p, n)
  \/ \E p \in Post : WinClaim(p) \/ LoseClaim(p) \/ Return(p) \/ Raise(p)
                     \/ Complete(p) \/ Release(p) \/ Deliver(p)
  \/ Sweep
  \/ \E n \in Node : Crash(n) \/ Restart(n)
  \/ Tick

\* A live process goes on with its requests, a dead one is started again and
\* time passes.  The sender of a delivery repeats it until it is accepted.
Fairness ==
  /\ \A p \in Post : WF_vars(Serve(p))
  /\ \A n \in Node : WF_vars(Restart(n))
  /\ WF_vars(\E p \in Post, n \in Node : Send(p, n))
  /\ WF_vars(Tick)

Spec == Init /\ [][Next]_vars /\ Fairness

-----------------------------------------------------------------------------
(* Properties.                                                             *)

\* The contract, seen through the requests and the row.
phase == IF \E p \in Post : pc[p] \in Handling THEN "running"
         ELSE IF row.state = "done" THEN "handled" ELSE "open"
left == IF row.state = "done" THEN row.left ELSE 0

Contract == INSTANCE DeliveryContract WITH Window <- Ttl

\* In timely worlds the table, the claims of the requests and the crashes of
\* their processes together keep the contract: one handler at a time, a
\* failed one leaves the id open, a finished one closes it for its window
\* (run_once_async, dedup_try_claim, dedup_complete, dedup_release).
KeepsContract == Contract!ContractSpec

\* What makes the contract hold: in timely worlds a request that handles the
\* id is alone, and the in-flight row with a live lease is its own, so that
\* its complete or release cannot hit somebody else's row.
OneHandler ==
  world.timely =>
    \A p \in Post : pc[p] \in Handling =>
      /\ row.state = "inflight" /\ row.left > 0
      /\ \A q \in Post \ {p} : pc[q] \notin Handling

\* A sender that waits out the lease of a dead handler and repeats the
\* delivery until it is accepted gets it handled, although processes crash
\* before, inside and after the handler and handlers fail (the lease expiry
\* in dedup_try_claim and the release on failure).
EventuallyHandled ==
  world.sender = "patient" /\ ~world.throttled => <>handled
=============================================================================
