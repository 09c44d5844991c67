--------------------------- MODULE GraphRunProofs ---------------------------
(***************************************************************************)
(* Proofs about orchestration runs, for pipelines of any length and any    *)
(* number of executions, pauses and crashes, in every deployment.          *)
(***************************************************************************)
EXTENDS GraphRun, FiniteSetTheorems, TLAPS

-----------------------------------------------------------------------------
(* The inductive invariant.                                                *)

Resting == {"off", "policy"}
Waiting == {"AWAITING_APPROVAL", "RESOLVING"}

\* A driver works on a graph that was begun, at the node that the stored
\* graph is at; only the worker of the dispatcher comes to the retry policy,
\* and only a resume splices.
DriverAtFrontier(d) ==
  /\ drv[d].pc \in Resting => drv[d] = [Off EXCEPT !.pc = drv[d].pc]
  /\ drv[d].pc \notin Resting =>
       /\ up /\ drv[d].id \in 1..graphs
       /\ drv[d].at = graph[drv[d].id].at
  /\ drv[d].pc = "policy" => d = "execute" /\ Dispatch
  /\ drv[d].pc \in InSplice => d = "resume"
  /\ drv[d].pc \in {"ran", "paused"} \cup InSplice => drv[d].at \in Node
  /\ drv[d].pause <= pauses

\* In the loop the stored graph is not paused and not completed.
DriverInLoop(d) ==
  /\ drv[d].pc \in InLoop =>
       graph[drv[d].id].pause = 0 /\ graph[drv[d].id].status # "completed"
  /\ drv[d].pc \in {"loop", "ran", "completed"} => drv[d].pause = 0
  /\ drv[d].pc = "completed" =>
       graph[drv[d].id].status = "completed" /\ graph[drv[d].id].pause = 0
  /\ drv[d].pc = "interrupted" /\ ~world.cancels => drv[d].pause # 0

\* A pause that is not saved yet is newer than the one that is stored.
DriverPausing(d) ==
  /\ drv[d].pc \in {"paused", "repaused"} =>
       /\ drv[d].pause # 0 /\ member[drv[d].pause] = "awaiting"
       /\ drv[d].pause > graph[drv[d].id].pause
       /\ graph[drv[d].id].status # "completed"
  /\ drv[d].pc = "interrupted" /\ drv[d].pause # 0 =>
       /\ drv[d].at \in Node
       /\ graph[drv[d].id].status = "interrupted"
       /\ graph[drv[d].id].pause = drv[d].pause
       /\ member[drv[d].pause] = "awaiting"

\* A resume holds the member that the stored graph is paused on, and finds
\* it waiting when it claims it.
DriverSplicing(d) ==
  drv[d].pc \in {"claim", "tool", "splice"} =>
    /\ graph[drv[d].id].status = "interrupted"
    /\ drv[d].pause # 0 /\ drv[d].pause = graph[drv[d].id].pause
    /\ drv[d].pc = "claim" => member[drv[d].pause] = "awaiting"
    /\ drv[d].pc = "tool" => member[drv[d].pause] = "resolving"

\* A graph that was not begun is empty, a completed one is at its end.
GraphsInOrder ==
  \A g \in Graph :
    /\ g > graphs => graph[g] = NoGraph
    /\ graph[g].status = "completed" => graph[g].at = N + 1
    /\ graph[g].pause <= pauses

\* The two drivers never share a graph, and no two graphs or drivers of
\* different graphs share a member checkpoint.
NothingShared ==
  /\ drv["execute"].id # 0 =>
       drv["execute"].id # drv["resume"].id /\ drv["execute"].id # run.graph
  /\ drv["execute"].pause # 0 => drv["execute"].pause # drv["resume"].pause
  /\ \A g, h \in Graph :
       g # h /\ graph[g].pause # 0 => graph[g].pause # graph[h].pause
  /\ \A d \in Driver, g \in Graph :
       drv[d].pause # 0 /\ g # drv[d].id => graph[g].pause # drv[d].pause

\* A run that waits for a decision, or whose decision was claimed, leads to a
\* paused graph that no driver works on.
RunWaits ==
  /\ run.graph <= graphs
  /\ run.status \in Waiting =>
       /\ run.graph # 0
       /\ graph[run.graph].status = "interrupted"
       /\ graph[run.graph].at \in Node
       /\ graph[run.graph].pause # 0
       /\ member[graph[run.graph].pause] = "awaiting"
       /\ \A d \in Driver : drv[d].id # run.graph

\* Inline, a run is executed once.
InlineOnce ==
  ~Dispatch => graphs <= 1 /\ (run.status = "QUEUED" => graphs = 0)

\* The members before a frontier have done their work.
WorkBehind ==
  /\ \A g \in Graph, n \in Node : n < graph[g].at => done[n] > 0
  /\ \A d \in Driver : drv[d].pc \in {"ran", "splice"} => done[drv[d].at] > 0
  /\ run.status = "SUCCEEDED" /\ ~world.cancels =>
       \E g \in Graph : graph[g].status = "completed"

DriverShape(d) ==
  DriverAtFrontier(d) /\ DriverInLoop(d) /\ DriverPausing(d) /\ DriverSplicing(d)

Shape ==
  /\ \A d \in Driver : DriverShape(d)
  /\ GraphsInOrder /\ NothingShared /\ RunWaits /\ InlineOnce

\* Node n of graph g may still be run: somebody works on the graph or will
\* resume it, and the node is not done there.
Alive(g) ==
  \/ run.graph = g /\ run.status \in Waiting
  \/ \E d \in Driver : /\ drv[d].id = g
                       /\ \/ drv[d].pc \in InLoop \cup InSplice
                          \/ drv[d].pc = "interrupted" /\ drv[d].pause # 0
DoneThere(g, n) ==
  \E d \in Driver : drv[d].id = g /\ drv[d].pc \in {"ran", "splice"} /\ drv[d].at = n
Open(n) ==
  {g \in 1..graphs : Alive(g) /\ n >= graph[g].at /\ ~DoneThere(g, n)}

\* Each execution of the run makes at most one work of each member possible.
WorkAccounted ==
  \A n \in Node : done[n] + Cardinality(Open(n)) <= graphs

-----------------------------------------------------------------------------
(* Facts about the records.                                                *)

DriverRecord ==
  [pc : {"off", "policy"} \cup InLoop \cup InSplice \cup Outcome,
   id : Graph \cup {0}, at : 1..(N + 1), pause : Pause \cup {0}]

LEMMA Ranges ==
  /\ N \in Nat /\ N > 0 /\ MaxGraphs \in Nat /\ MaxPauses \in Nat /\ MaxCrashes \in Nat
  /\ NoGraph \in GraphCheckpoint /\ Off \in DriverRecord
  /\ [Off EXCEPT !.pc = "policy"] \in DriverRecord
  BY GraphAssumption DEF NoGraph, GraphCheckpoint, Off, DriverRecord

LEMMA Typed ==
  ASSUME TypeOK
  PROVE  /\ drv \in [Driver -> DriverRecord]
         /\ graph \in [Graph -> GraphCheckpoint]
         /\ run \in [status : RunStatus, graph : Graph \cup {0}]
         /\ member \in [Pause -> {"absent", "awaiting", "resolving", "resolved"}]
         /\ graphs \in 0..MaxGraphs /\ pauses \in 0..MaxPauses
         /\ graphs \in Nat /\ pauses \in Nat
  BY Ranges DEF TypeOK, DriverRecord

\* A driver that is not resting has a graph; its pause, if any, is known.
LEMMA Busy ==
  ASSUME TypeOK, Shape, NEW d \in Driver, drv[d].pc \notin Resting
  PROVE  /\ drv[d].id \in Graph /\ drv[d].id \in 1..graphs /\ up
         /\ drv[d].at = graph[drv[d].id].at /\ drv[d].at \in 1..(N + 1)
         /\ drv[d].pause \in Pause \cup {0} /\ drv[d].pause <= pauses
         /\ drv[d].pc # "policy" /\ drv[d].pc # "off"
  BY Typed, Ranges DEF Shape, DriverShape, DriverAtFrontier, DriverRecord, Resting, Graph

\* A driver keeps what the invariant says of it as long as nobody touches its
\* graph and its member checkpoint.
LEMMA DriverFrame ==
  ASSUME TypeOK, Shape, NEW e \in Driver, drv'[e] = drv[e],
         UNCHANGED <<world, up>>, graphs' \in Nat, graphs' >= graphs,
         pauses' \in Nat, pauses' >= pauses,
         drv[e].id # 0 => graph'[drv[e].id] = graph[drv[e].id],
         drv[e].pause # 0 => member'[drv[e].pause] = member[drv[e].pause]
  PROVE  DriverShape(e)'
  <1>1. DriverShape(e) /\ drv[e] \in DriverRecord /\ graphs \in Nat /\ pauses \in Nat
    BY Typed DEF Shape
  <1>2. drv[e].pc \notin Resting => drv[e].id # 0 /\ drv[e].id \in 1..graphs'
    BY <1>1, Typed DEF DriverShape, DriverAtFrontier
  <1>3. drv[e].pause \in Nat
    BY <1>1, Ranges DEF DriverRecord, Pause
  <1>4. DriverAtFrontier(e)'
    BY <1>1, <1>2, <1>3 DEF DriverShape, DriverAtFrontier, Dispatch
  <1>5. DriverInLoop(e)'
    BY <1>1, <1>2 DEF DriverShape, DriverInLoop, InLoop, Resting
  <1>6. DriverPausing(e)'
    BY <1>1, <1>2 DEF DriverShape, DriverPausing, Resting
  <1>7. DriverSplicing(e)'
    BY <1>1, <1>2 DEF DriverShape, DriverSplicing, Resting
  <1> QED BY <1>4, <1>5, <1>6, <1>7 DEF DriverShape

\* What two drivers hold is apart.
LEMMA Apart ==
  ASSUME TypeOK, Shape, NEW d \in Driver, NEW e \in Driver, d # e
  PROVE  /\ drv[d].id # 0 => drv[d].id # drv[e].id
         /\ drv[d].pause # 0 => drv[d].pause # drv[e].pause
         /\ drv[d].pause # 0 /\ drv[e].id # 0 => graph[drv[e].id].pause # drv[d].pause
  <1>1. drv[e].id # 0 => drv[e].id \in Graph
    BY Typed DEF DriverRecord
  <1>2. drv[d].pause # 0 => drv[d].id # 0
    BY Typed, Ranges DEF Shape, DriverShape, DriverAtFrontier, Off, Resting
  <1> QED BY <1>1, <1>2 DEF Shape, NothingShared, Driver

\* A step of one driver on its own graph and its own member disturbs nothing
\* that concerns the other driver or the run.
OwnStep(d) ==
  /\ drv[d].pc \notin Resting
  /\ \A e \in Driver \ {d} : drv'[e] = drv[e]
  /\ drv'[d].id = drv[d].id
  /\ \A g \in Graph \ {drv[d].id} : graph'[g] = graph[g]
  /\ graph'[drv[d].id].pause \in {0, drv[d].pause, graph[drv[d].id].pause}
  /\ \A c \in Pause : c <= pauses /\ c # drv[d].pause => member'[c] = member[c]
  /\ \/ pauses' = pauses /\ drv'[d].pause \in {0, drv[d].pause}
     \/ pauses' = pauses + 1 /\ drv'[d].pause \in {0, drv[d].pause, pauses + 1}
  /\ UNCHANGED <<world, up, graphs, run>>

LEMMA OwnStepFrame ==
  ASSUME TypeOK, Shape, NEW d \in Driver, OwnStep(d)
  PROVE  /\ \A e \in Driver \ {d} : DriverShape(e)'
         /\ NothingShared' /\ RunWaits' /\ InlineOnce'
         /\ \A g \in Graph \ {drv[d].id} :
              /\ g > graphs' => graph'[g] = NoGraph
              /\ graph'[g].status = "completed" => graph'[g].at = N + 1
         /\ \A g \in Graph : graph'[g].pause <= pauses'
  <1>a. /\ drv \in [Driver -> DriverRecord] /\ graph \in [Graph -> GraphCheckpoint]
        /\ graphs \in Nat /\ pauses \in Nat /\ run.graph \in Graph \cup {0}
    BY Typed
  <1>b. drv[d].id \in Graph /\ drv[d].pause <= pauses /\ drv[d].pause \in Nat
    BY Busy, Ranges DEF OwnStep, Pause
  <1>c. \A g \in Graph : graph[g].pause \in Nat /\ graph[g].pause \in Pause \cup {0}
                         /\ graph[g].pause <= pauses
    BY <1>a, Ranges DEF GraphCheckpoint, Pause, Shape, GraphsInOrder
  <1>d. \A e \in Driver : /\ drv[e].pause \in Nat /\ drv[e].pause \in Pause \cup {0}
                          /\ drv[e].pause <= pauses /\ drv[e].id \in Graph \cup {0}
    BY <1>a, Ranges DEF DriverRecord, Pause, Shape, DriverShape, DriverAtFrontier
  <1>1. ASSUME NEW e \in Driver \ {d} PROVE DriverShape(e)'
    <2>1. drv[e].id # 0 => graph'[drv[e].id] = graph[drv[e].id]
      BY <1>1, <1>b, <1>d, Apart DEF OwnStep
    <2>2. drv[e].pause # 0 => member'[drv[e].pause] = member[drv[e].pause]
      BY <1>1, <1>d, Apart DEF OwnStep
    <2>3. graphs' \in Nat /\ graphs' >= graphs /\ pauses' \in Nat /\ pauses' >= pauses
          /\ UNCHANGED <<world, up>> /\ drv'[e] = drv[e]
      BY <1>1, <1>a DEF OwnStep
    <2> QED BY <1>1, <2>1, <2>2, <2>3, DriverFrame
  <1>2. \A g \in Graph : graph'[g].pause <= pauses'
    BY <1>a, <1>b, <1>c DEF OwnStep
  <1>3. \A g \in Graph \ {drv[d].id} :
              /\ g > graphs' => graph'[g] = NoGraph
              /\ graph'[g].status = "completed" => graph'[g].at = N + 1
    BY DEF OwnStep, Shape, GraphsInOrder
  <1>4. RunWaits'
    <2>1. run.status \in Waiting =>
            /\ run.graph \in Graph \ {drv[d].id}
            /\ graph[run.graph].pause # drv[d].pause
      BY <1>a, <1>b DEF Shape, RunWaits, NothingShared
    <2>2. run.status \in Waiting =>
            /\ graph'[run.graph] = graph[run.graph]
            /\ member'[graph[run.graph].pause] = member[graph[run.graph].pause]
      BY <2>1, <1>c DEF OwnStep, Shape, RunWaits
    <2>3. \A e \in Driver : drv'[e].id = drv[e].id
      BY DEF OwnStep
    <2> QED BY <2>2, <2>3 DEF OwnStep, Shape, RunWaits
  <1>5. InlineOnce'
    BY DEF OwnStep, Shape, InlineOnce, Dispatch
  <1>6. NothingShared'
    <2>1. \A e \in Driver : drv'[e].id = drv[e].id
      BY DEF OwnStep
    <2>2. drv'["execute"].id # 0 =>
            drv'["execute"].id # drv'["resume"].id /\ drv'["execute"].id # run'.graph
      BY <2>1 DEF OwnStep, Shape, NothingShared, Driver
    <2>3. drv'["execute"].pause # 0 => drv'["execute"].pause # drv'["resume"].pause
      <3>1. "execute" \in Driver /\ "resume" \in Driver
        BY DEF Driver
      <3>2. drv["execute"].pause # 0 => drv["execute"].pause # drv["resume"].pause
        BY DEF Shape, NothingShared
      <3>3. CASE d = "execute"
        BY <3>1, <3>2, <3>3, <1>a, <1>d DEF OwnStep
      <3>4. CASE d = "resume"
        BY <3>1, <3>2, <3>4, <1>a, <1>d DEF OwnStep
      <3> QED BY <3>3, <3>4 DEF Driver
    <2>4. ASSUME NEW g \in Graph, NEW h \in Graph, g # h, graph'[g].pause # 0
          PROVE  graph'[g].pause # graph'[h].pause
      BY <2>4, <1>b DEF OwnStep, Shape, NothingShared
    <2>5. ASSUME NEW e \in Driver, NEW g \in Graph, drv'[e].pause # 0, g # drv'[e].id
          PROVE  graph'[g].pause # drv'[e].pause
      <3>1. CASE e = d
        BY <2>5, <3>1, <1>a, <1>c DEF OwnStep, Shape, NothingShared
      <3>2. CASE e # d /\ g # drv[d].id
        BY <2>5, <3>2 DEF OwnStep, Shape, NothingShared
      <3>3. CASE e # d /\ g = drv[d].id
        <4>1. drv[e].pause # 0 /\ drv'[e].pause = drv[e].pause
          BY <2>5, <3>3 DEF OwnStep
        <4>2. drv[e].pause # drv[d].pause /\ graph[drv[d].id].pause # drv[e].pause
          BY <3>3, <4>1, <1>b, Apart, Ranges DEF Graph
        <4> QED BY <3>3, <4>1, <4>2 DEF OwnStep
      <3> QED BY <3>1, <3>2, <3>3
    <2> QED BY <2>2, <2>3, <2>4, <2>5 DEF NothingShared
  <1> QED BY <1>1, <1>2, <1>3, <1>4, <1>5, <1>6

\* What is left to show of such a step.
LEMMA OwnStepShape ==
  ASSUME TypeOK, Shape, NEW d \in Driver, OwnStep(d), DriverShape(d)',
         graph'[drv[d].id].status = "completed" => graph'[drv[d].id].at = N + 1
  PROVE  Shape'
  <1>1. drv[d].id \in Graph /\ ~(drv[d].id > graphs)
    BY Busy, Typed DEF OwnStep
  <1>2. graphs' = graphs
    BY DEF OwnStep
  <1>3. GraphsInOrder'
    BY <1>1, <1>2, OwnStepFrame DEF GraphsInOrder
  <1> QED BY <1>3, OwnStepFrame DEF Shape


-----------------------------------------------------------------------------
(* The steps of a driver on its own graph.                                 *)

LEMMA GotoFacts ==
  ASSUME TypeOK, NEW d \in Driver, NEW label, Goto(d, label)
  PROVE  /\ \A e \in Driver \ {d} : drv'[e] = drv[e]
         /\ drv'[d].pc = label /\ drv'[d].id = drv[d].id
         /\ drv'[d].at = drv[d].at /\ drv'[d].pause = drv[d].pause
  BY Typed DEF Goto, DriverRecord

LEMMA SaveGraphFacts ==
  ASSUME TypeOK, NEW g \in Graph, NEW st, NEW a, NEW c, SaveGraph(g, st, a, c)
  PROVE  /\ \A h \in Graph \ {g} : graph'[h] = graph[h]
         /\ graph'[g].status = st /\ graph'[g].at = a /\ graph'[g].pause = c
  BY Typed DEF SaveGraph

LEMMA RunNodeShape ==
  ASSUME TypeOK, Shape, NEW d \in Driver, RunNode(d)
  PROVE  Shape'
  <1>1. /\ drv[d].pc = "loop" /\ drv[d].at \in Node /\ drv[d].pc \notin Resting
        /\ UNCHANGED <<world, up, graphs, run>> /\ up
    BY DEF RunNode, Resting, InLoop, InSplice, Outcome, storeVars, envVars
  <1>2. /\ drv[d].id \in Graph /\ drv[d].id \in 1..graphs /\ drv[d].id \in Nat
        /\ drv[d].at = graph[drv[d].id].at
        /\ drv[d].pause \in Pause \cup {0} /\ drv[d].pause <= pauses
        /\ graphs \in Nat /\ pauses \in Nat /\ pauses <= MaxPauses
    BY <1>1, Busy, Typed, Ranges DEF Graph
  <1>3. DriverShape(d)
    BY DEF Shape
  <1>4. /\ \A e \in Driver \ {d} : drv'[e] = drv[e]
        /\ drv'[d].pc = "ran" /\ drv'[d].id = drv[d].id
        /\ drv'[d].at = drv[d].at /\ drv'[d].pause = drv[d].pause
        /\ graph' = graph /\ member' = member /\ pauses' = pauses
    BY <1>1, <1>2, GotoFacts DEF RunNode, storeVars
  <1>5. OwnStep(d)
    BY <1>1, <1>2, <1>4 DEF OwnStep
  <1>6. DriverAtFrontier(d)'
    BY <1>1, <1>2, <1>3, <1>4, Ranges DEF DriverShape, DriverAtFrontier, DriverPausing,
       Resting, InLoop, InSplice, Node, Dispatch
  <1>7. DriverInLoop(d)'
    BY <1>1, <1>2, <1>3, <1>4 DEF DriverShape, DriverInLoop, DriverPausing,
       DriverSplicing, Resting, InLoop, InSplice
  <1>8. DriverPausing(d)'
    BY <1>1, <1>2, <1>3, <1>4, Ranges DEF DriverShape, DriverAtFrontier, DriverInLoop,
       DriverPausing, DriverSplicing, InLoop, InSplice, Pause
  <1>9. DriverSplicing(d)'
    BY <1>1, <1>2, <1>3, <1>4 DEF DriverShape, DriverSplicing
  <1>10. graph'[drv[d].id].status = "completed" => graph'[drv[d].id].at = N + 1
    BY <1>1, <1>2, <1>4 DEF Shape, GraphsInOrder
  <1> QED BY <1>5, <1>6, <1>7, <1>8, <1>9, <1>10, OwnStepShape DEF DriverShape

LEMMA FailNodeShape ==
  ASSUME TypeOK, Shape, NEW d \in Driver, FailNode(d)
  PROVE  Shape'
  <1>1. /\ drv[d].pc = "loop" /\ drv[d].at \in Node /\ drv[d].pc \notin Resting
        /\ UNCHANGED <<world, up, graphs, run>> /\ up
    BY DEF FailNode, Resting, InLoop, InSplice, Outcome, storeVars, envVars
  <1>2. /\ drv[d].id \in Graph /\ drv[d].id \in 1..graphs /\ drv[d].id \in Nat
        /\ drv[d].at = graph[drv[d].id].at
        /\ drv[d].pause \in Pause \cup {0} /\ drv[d].pause <= pauses
        /\ graphs \in Nat /\ pauses \in Nat /\ pauses <= MaxPauses
    BY <1>1, Busy, Typed, Ranges DEF Graph
  <1>3. DriverShape(d)
    BY DEF Shape
  <1>4. /\ \A e \in Driver \ {d} : drv'[e] = drv[e]
        /\ drv'[d].pc = "failed" /\ drv'[d].id = drv[d].id
        /\ drv'[d].at = drv[d].at /\ drv'[d].pause = drv[d].pause
        /\ graph' = graph /\ member' = member /\ pauses' = pauses
    BY <1>1, <1>2, GotoFacts DEF FailNode, storeVars
  <1>5. OwnStep(d)
    BY <1>1, <1>2, <1>4 DEF OwnStep
  <1>6. DriverAtFrontier(d)'
    BY <1>1, <1>2, <1>3, <1>4, Ranges DEF DriverShape, DriverAtFrontier, DriverPausing,
       Resting, InLoop, InSplice, Node, Dispatch
  <1>7. DriverInLoop(d)'
    BY <1>1, <1>2, <1>3, <1>4 DEF DriverShape, DriverInLoop, DriverPausing,
       DriverSplicing, Resting, InLoop, InSplice
  <1>8. DriverPausing(d)'
    BY <1>1, <1>2, <1>3, <1>4, Ranges DEF DriverShape, DriverAtFrontier, DriverInLoop,
       DriverPausing, DriverSplicing, InLoop, InSplice, Pause
  <1>9. DriverSplicing(d)'
    BY <1>1, <1>2, <1>3, <1>4 DEF DriverShape, DriverSplicing
  <1>10. graph'[drv[d].id].status = "completed" => graph'[drv[d].id].at = N + 1
    BY <1>1, <1>2, <1>4 DEF Shape, GraphsInOrder
  <1> QED BY <1>5, <1>6, <1>7, <1>8, <1>9, <1>10, OwnStepShape DEF DriverShape

LEMMA PauseNodeShape ==
  ASSUME TypeOK, Shape, NEW d \in Driver, PauseNode(d)
  PROVE  Shape'
  <1>1. /\ drv[d].pc = "loop" /\ drv[d].at \in Node /\ pauses < MaxPauses
        /\ drv[d].pc \notin Resting
        /\ UNCHANGED <<world, up, graphs, run>> /\ up
    BY DEF PauseNode, Resting, InLoop, InSplice, Outcome, storeVars, envVars
  <1>2. /\ drv[d].id \in Graph /\ drv[d].id \in 1..graphs /\ drv[d].id \in Nat
        /\ drv[d].at = graph[drv[d].id].at
        /\ drv[d].pause \in Pause \cup {0} /\ drv[d].pause <= pauses
        /\ graphs \in Nat /\ pauses \in Nat /\ pauses <= MaxPauses
    BY <1>1, Busy, Typed, Ranges DEF Graph
  <1>3. DriverShape(d)
    BY DEF Shape
  <1>4. /\ \A e \in Driver \ {d} : drv'[e] = drv[e]
        /\ drv'[d].pc = "paused" /\ drv'[d].id = drv[d].id
        /\ drv'[d].at = drv[d].at /\ drv'[d].pause = pauses + 1
        /\ pauses + 1 \in Pause /\ member'[pauses + 1] = "awaiting"
        /\ \A c \in Pause : c <= pauses => member'[c] = member[c]
        /\ graph' = graph /\ pauses' = pauses + 1
    BY <1>1, <1>2, Typed, Ranges DEF PauseNode, DriverRecord, Pause
  <1>5. OwnStep(d)
    BY <1>1, <1>2, <1>4 DEF OwnStep
  <1>6. DriverAtFrontier(d)'
    BY <1>1, <1>2, <1>3, <1>4, Ranges DEF DriverShape, DriverAtFrontier, DriverPausing,
       Resting, InLoop, InSplice, Node, Dispatch
  <1>7. DriverInLoop(d)'
    BY <1>1, <1>2, <1>3, <1>4 DEF DriverShape, DriverInLoop, DriverPausing,
       DriverSplicing, Resting, InLoop, InSplice
  <1>8. DriverPausing(d)'
    BY <1>1, <1>2, <1>3, <1>4, Ranges DEF DriverShape, DriverAtFrontier, DriverInLoop,
       DriverPausing, DriverSplicing, InLoop, InSplice, Pause
  <1>9. DriverSplicing(d)'
    BY <1>1, <1>2, <1>3, <1>4 DEF DriverShape, DriverSplicing
  <1>10. graph'[drv[d].id].status = "completed" => graph'[drv[d].id].at = N + 1
    BY <1>1, <1>2, <1>4 DEF Shape, GraphsInOrder
  <1> QED BY <1>5, <1>6, <1>7, <1>8, <1>9, <1>10, OwnStepShape DEF DriverShape

LEMMA SaveInterruptShape ==
  ASSUME TypeOK, Shape, NEW d \in Driver, SaveInterrupt(d)
  PROVE  Shape'
  <1>1. /\ drv[d].pc \in {"paused", "repaused"} /\ drv[d].pc \notin Resting
        /\ UNCHANGED <<world, up, graphs, run>> /\ up
    BY DEF SaveInterrupt, Resting, InLoop, InSplice, Outcome, storeVars, envVars
  <1>2. /\ drv[d].id \in Graph /\ drv[d].id \in 1..graphs /\ drv[d].id \in Nat
        /\ drv[d].at = graph[drv[d].id].at
        /\ drv[d].pause \in Pause \cup {0} /\ drv[d].pause <= pauses
        /\ graphs \in Nat /\ pauses \in Nat /\ pauses <= MaxPauses
    BY <1>1, Busy, Typed, Ranges DEF Graph
  <1>3. DriverShape(d)
    BY DEF Shape
  <1>4. /\ \A e \in Driver \ {d} : drv'[e] = drv[e]
        /\ drv'[d].pc = "interrupted" /\ drv'[d].id = drv[d].id
        /\ drv'[d].at = drv[d].at /\ drv'[d].pause = drv[d].pause
        /\ \A g \in Graph \ {drv[d].id} : graph'[g] = graph[g]
        /\ graph'[drv[d].id].status = "interrupted" /\ graph'[drv[d].id].at = drv[d].at
        /\ graph'[drv[d].id].pause = drv[d].pause
        /\ member' = member /\ pauses' = pauses
    BY <1>1, <1>2, GotoFacts, SaveGraphFacts DEF SaveInterrupt
  <1>5. OwnStep(d)
    BY <1>1, <1>2, <1>4 DEF OwnStep
  <1>6. DriverAtFrontier(d)'
    BY <1>1, <1>2, <1>3, <1>4, Ranges DEF DriverShape, DriverAtFrontier, DriverPausing,
       Resting, InLoop, InSplice, Node, Dispatch
  <1>7. DriverInLoop(d)'
    BY <1>1, <1>2, <1>3, <1>4 DEF DriverShape, DriverInLoop, DriverPausing,
       DriverSplicing, Resting, InLoop, InSplice
  <1>8. DriverPausing(d)'
    BY <1>1, <1>2, <1>3, <1>4, Ranges DEF DriverShape, DriverAtFrontier, DriverInLoop,
       DriverPausing, DriverSplicing, InLoop, InSplice, Pause
  <1>9. DriverSplicing(d)'
    BY <1>1, <1>2, <1>3, <1>4 DEF DriverShape, DriverSplicing
  <1>10. graph'[drv[d].id].status = "completed" => graph'[drv[d].id].at = N + 1
    BY <1>1, <1>2, <1>4
  <1> QED BY <1>5, <1>6, <1>7, <1>8, <1>9, <1>10, OwnStepShape DEF DriverShape

LEMMA SaveSuperstepShape ==
  ASSUME TypeOK, Shape, NEW d \in Driver, SaveSuperstep(d)
  PROVE  Shape'
  <1>1. /\ drv[d].pc = "ran" /\ drv[d].pc \notin Resting
        /\ UNCHANGED <<world, up, graphs, run>> /\ up
    BY DEF SaveSuperstep, Resting, InLoop, InSplice, Outcome, storeVars, envVars
  <1>2. /\ drv[d].id \in Graph /\ drv[d].id \in 1..graphs /\ drv[d].id \in Nat
        /\ drv[d].at = graph[drv[d].id].at
        /\ drv[d].pause \in Pause \cup {0} /\ drv[d].pause <= pauses
        /\ graphs \in Nat /\ pauses \in Nat /\ pauses <= MaxPauses
    BY <1>1, Busy, Typed, Ranges DEF Graph
  <1>3. DriverShape(d)
    BY DEF Shape
  <1>4. /\ \A e \in Driver \ {d} : drv'[e] = drv[e]
        /\ drv'[d].pc = "loop" /\ drv'[d].id = drv[d].id
        /\ drv'[d].at = drv[d].at + 1 /\ drv'[d].pause = drv[d].pause
        /\ \A g \in Graph \ {drv[d].id} : graph'[g] = graph[g]
        /\ graph'[drv[d].id].status = "running" /\ graph'[drv[d].id].at = drv[d].at + 1
        /\ graph'[drv[d].id].pause = 0
        /\ member' = member /\ pauses' = pauses
    BY <1>1, <1>2, SaveGraphFacts, Typed DEF SaveSuperstep, DriverRecord
  <1>5. OwnStep(d)
    BY <1>1, <1>2, <1>4 DEF OwnStep
  <1>6. DriverAtFrontier(d)'
    BY <1>1, <1>2, <1>3, <1>4, Ranges DEF DriverShape, DriverAtFrontier, DriverPausing,
       Resting, InLoop, InSplice, Node, Dispatch
  <1>7. DriverInLoop(d)'
    BY <1>1, <1>2, <1>3, <1>4 DEF DriverShape, DriverInLoop, DriverPausing,
       DriverSplicing, Resting, InLoop, InSplice
  <1>8. DriverPausing(d)'
    BY <1>1, <1>2, <1>3, <1>4, Ranges DEF DriverShape, DriverAtFrontier, DriverInLoop,
       DriverPausing, DriverSplicing, InLoop, InSplice, Pause
  <1>9. DriverSplicing(d)'
    BY <1>1, <1>2, <1>3, <1>4 DEF DriverShape, DriverSplicing
  <1>10. graph'[drv[d].id].status = "completed" => graph'[drv[d].id].at = N + 1
    BY <1>1, <1>2, <1>4
  <1> QED BY <1>5, <1>6, <1>7, <1>8, <1>9, <1>10, OwnStepShape DEF DriverShape

LEMMA SaveCompletedShape ==
  ASSUME TypeOK, Shape, NEW d \in Driver, SaveCompleted(d)
  PROVE  Shape'
  <1>1. /\ drv[d].pc = "loop" /\ drv[d].at = N + 1 /\ drv[d].pc \notin Resting
        /\ UNCHANGED <<world, up, graphs, run>> /\ up
    BY DEF SaveCompleted, FrontierEmpty, Resting, InLoop, InSplice, Outcome, storeVars,
       envVars
  <1>2. /\ drv[d].id \in Graph /\ drv[d].id \in 1..graphs /\ drv[d].id \in Nat
        /\ drv[d].at = graph[drv[d].id].at
        /\ drv[d].pause \in Pause \cup {0} /\ drv[d].pause <= pauses
        /\ graphs \in Nat /\ pauses \in Nat /\ pauses <= MaxPauses
    BY <1>1, Busy, Typed, Ranges DEF Graph
  <1>3. DriverShape(d)
    BY DEF Shape
  <1>4. /\ \A e \in Driver \ {d} : drv'[e] = drv[e]
        /\ drv'[d].pc = "completed" /\ drv'[d].id = drv[d].id
        /\ drv'[d].at = drv[d].at /\ drv'[d].pause = drv[d].pause
        /\ \A g \in Graph \ {drv[d].id} : graph'[g] = graph[g]
        /\ graph'[drv[d].id].status = "completed" /\ graph'[drv[d].id].at = drv[d].at
        /\ graph'[drv[d].id].pause = 0
        /\ member' = member /\ pauses' = pauses
    BY <1>1, <1>2, GotoFacts, SaveGraphFacts DEF SaveCompleted
  <1>5. OwnStep(d)
    BY <1>1, <1>2, <1>4 DEF OwnStep
  <1>6. DriverAtFrontier(d)'
    BY <1>1, <1>2, <1>3, <1>4, Ranges DEF DriverShape, DriverAtFrontier, DriverPausing,
       Resting, InLoop, InSplice, Node, Dispatch
  <1>7. DriverInLoop(d)'
    BY <1>1, <1>2, <1>3, <1>4 DEF DriverShape, DriverInLoop, DriverPausing,
       DriverSplicing, Resting, InLoop, InSplice
  <1>8. DriverPausing(d)'
    BY <1>1, <1>2, <1>3, <1>4, Ranges DEF DriverShape, DriverAtFrontier, DriverInLoop,
       DriverPausing, DriverSplicing, InLoop, InSplice, Pause
  <1>9. DriverSplicing(d)'
    BY <1>1, <1>2, <1>3, <1>4 DEF DriverShape, DriverSplicing
  <1>10. graph'[drv[d].id].status = "completed" => graph'[drv[d].id].at = N + 1
    BY <1>1, <1>2, <1>4
  <1> QED BY <1>5, <1>6, <1>7, <1>8, <1>9, <1>10, OwnStepShape DEF DriverShape

LEMMA CancelLoopShape ==
  ASSUME TypeOK, Shape, NEW d \in Driver, CancelLoop(d)
  PROVE  Shape'
  <1>1. /\ drv[d].pc \in InLoop \cup {"completed"} /\ world.cancels /\ drv[d].pc \notin Resting
        /\ UNCHANGED <<world, up, graphs, run>> /\ up
    BY DEF CancelLoop, Resting, InLoop, InSplice, Outcome, storeVars, envVars
  <1>2. /\ drv[d].id \in Graph /\ drv[d].id \in 1..graphs /\ drv[d].id \in Nat
        /\ drv[d].at = graph[drv[d].id].at
        /\ drv[d].pause \in Pause \cup {0} /\ drv[d].pause <= pauses
        /\ graphs \in Nat /\ pauses \in Nat /\ pauses <= MaxPauses
    BY <1>1, Busy, Typed, Ranges DEF Graph
  <1>3. DriverShape(d)
    BY DEF Shape
  <1>4. /\ \A e \in Driver \ {d} : drv'[e] = drv[e]
        /\ drv'[d].pc = "interrupted" /\ drv'[d].id = drv[d].id
        /\ drv'[d].at = drv[d].at /\ drv'[d].pause = 0
        /\ \A g \in Graph \ {drv[d].id} : graph'[g] = graph[g]
        /\ graph'[drv[d].id].status = "interrupted" /\ graph'[drv[d].id].at = drv[d].at
        /\ graph'[drv[d].id].pause = 0
        /\ member' = member /\ pauses' = pauses
    BY <1>1, <1>2, SaveGraphFacts, Typed DEF CancelLoop, DriverRecord
  <1>5. OwnStep(d)
    BY <1>1, <1>2, <1>4 DEF OwnStep
  <1>6. DriverAtFrontier(d)'
    BY <1>1, <1>2, <1>3, <1>4, Ranges DEF DriverShape, DriverAtFrontier, DriverPausing,
       Resting, InLoop, InSplice, Node, Dispatch
  <1>7. DriverInLoop(d)'
    BY <1>1, <1>2, <1>3, <1>4 DEF DriverShape, DriverInLoop, DriverPausing,
       DriverSplicing, Resting, InLoop, InSplice
  <1>8. DriverPausing(d)'
    BY <1>1, <1>2, <1>3, <1>4, Ranges DEF DriverShape, DriverAtFrontier, DriverInLoop,
       DriverPausing, DriverSplicing, InLoop, InSplice, Pause
  <1>9. DriverSplicing(d)'
    BY <1>1, <1>2, <1>3, <1>4 DEF DriverShape, DriverSplicing
  <1>10. graph'[drv[d].id].status = "completed" => graph'[drv[d].id].at = N + 1
    BY <1>1, <1>2, <1>4
  <1> QED BY <1>5, <1>6, <1>7, <1>8, <1>9, <1>10, OwnStepShape DEF DriverShape

LEMMA ClaimMemberShape ==
  ASSUME TypeOK, Shape, ClaimMember
  PROVE  Shape'
  <1> DEFINE d == "resume"
  <1>d. d \in Driver
    BY DEF Driver
  <1>1. /\ drv[d].pc = "claim" /\ drv[d].pc \notin Resting
        /\ UNCHANGED <<world, up, graphs, run>> /\ up
    BY <1>d DEF ClaimMember, Resting, InLoop, InSplice, Outcome, storeVars, envVars
  <1>2. /\ drv[d].id \in Graph /\ drv[d].id \in 1..graphs /\ drv[d].id \in Nat
        /\ drv[d].at = graph[drv[d].id].at
        /\ drv[d].pause \in Pause \cup {0} /\ drv[d].pause <= pauses
        /\ graphs \in Nat /\ pauses \in Nat /\ pauses <= MaxPauses
    BY <1>d, <1>1, Busy, Typed, Ranges DEF Graph
  <1>3. DriverShape(d)
    BY <1>d DEF Shape
  <1>4. /\ \A e \in Driver \ {d} : drv'[e] = drv[e]
        /\ drv'[d].pc = "tool" /\ drv'[d].id = drv[d].id
        /\ drv'[d].at = drv[d].at /\ drv'[d].pause = drv[d].pause
        /\ member' = [member EXCEPT ![drv[d].pause] = "resolving"]
        /\ graph' = graph /\ pauses' = pauses
    BY <1>d, <1>1, <1>2, <1>3, Typed, GotoFacts DEF ClaimMember, DriverShape,
       DriverSplicing
  <1>5. OwnStep(d)
    BY <1>d, <1>1, <1>2, <1>4, Typed DEF OwnStep
  <1>6. DriverAtFrontier(d)'
    BY <1>1, <1>2, <1>3, <1>4, Ranges DEF DriverShape, DriverAtFrontier, DriverPausing,
       Resting, InLoop, InSplice, Node, Dispatch
  <1>7. DriverInLoop(d)'
    BY <1>1, <1>2, <1>3, <1>4 DEF DriverShape, DriverInLoop, DriverPausing,
       DriverSplicing, Resting, InLoop, InSplice
  <1>8. DriverPausing(d)'
    BY <1>1, <1>2, <1>3, <1>4, Ranges DEF DriverShape, DriverAtFrontier, DriverInLoop,
       DriverPausing, DriverSplicing, InLoop, InSplice, Pause
  <1>9. DriverSplicing(d)'
    BY <1>1, <1>2, <1>3, <1>4, Typed DEF DriverShape, DriverSplicing
  <1>10. graph'[drv[d].id].status = "completed" => graph'[drv[d].id].at = N + 1
    BY <1>1, <1>2, <1>4 DEF Shape, GraphsInOrder
  <1> QED BY <1>d, <1>5, <1>6, <1>7, <1>8, <1>9, <1>10, OwnStepShape DEF DriverShape

LEMMA FinishMemberShape ==
  ASSUME TypeOK, Shape, FinishMember
  PROVE  Shape'
  <1> DEFINE d == "resume"
  <1>d. d \in Driver
    BY DEF Driver
  <1>1. /\ drv[d].pc = "tool" /\ drv[d].pc \notin Resting
        /\ UNCHANGED <<world, up, graphs, run>> /\ up
    BY <1>d DEF FinishMember, Resting, InLoop, InSplice, Outcome, storeVars, envVars
  <1>2. /\ drv[d].id \in Graph /\ drv[d].id \in 1..graphs /\ drv[d].id \in Nat
        /\ drv[d].at = graph[drv[d].id].at
        /\ drv[d].pause \in Pause \cup {0} /\ drv[d].pause <= pauses
        /\ graphs \in Nat /\ pauses \in Nat /\ pauses <= MaxPauses
    BY <1>d, <1>1, Busy, Typed, Ranges DEF Graph
  <1>3. DriverShape(d)
    BY <1>d DEF Shape
  <1>4. /\ \A e \in Driver \ {d} : drv'[e] = drv[e]
        /\ drv'[d].pc = "splice" /\ drv'[d].id = drv[d].id
        /\ drv'[d].at = drv[d].at /\ drv'[d].pause = drv[d].pause
        /\ member' = [member EXCEPT ![drv[d].pause] = "resolved"]
        /\ graph' = graph /\ pauses' = pauses
    BY <1>d, <1>1, <1>2, GotoFacts DEF FinishMember
  <1>5. OwnStep(d)
    BY <1>d, <1>1, <1>2, <1>4, Typed DEF OwnStep
  <1>6. DriverAtFrontier(d)'
    BY <1>1, <1>2, <1>3, <1>4, Ranges DEF DriverShape, DriverAtFrontier, DriverPausing,
       Resting, InLoop, InSplice, Node, Dispatch
  <1>7. DriverInLoop(d)'
    BY <1>1, <1>2, <1>3, <1>4 DEF DriverShape, DriverInLoop, DriverPausing,
       DriverSplicing, Resting, InLoop, InSplice
  <1>8. DriverPausing(d)'
    BY <1>1, <1>2, <1>3, <1>4, Ranges DEF DriverShape, DriverAtFrontier, DriverInLoop,
       DriverPausing, DriverSplicing, InLoop, InSplice, Pause
  <1>9. DriverSplicing(d)'
    BY <1>1, <1>2, <1>3, <1>4, Typed DEF DriverShape, DriverSplicing
  <1>10. graph'[drv[d].id].status = "completed" => graph'[drv[d].id].at = N + 1
    BY <1>1, <1>2, <1>4 DEF Shape, GraphsInOrder
  <1> QED BY <1>d, <1>5, <1>6, <1>7, <1>8, <1>9, <1>10, OwnStepShape DEF DriverShape

LEMMA PauseMemberShape ==
  ASSUME TypeOK, Shape, PauseMember
  PROVE  Shape'
  <1> DEFINE d == "resume"
  <1>d. d \in Driver
    BY DEF Driver
  <1>1. /\ drv[d].pc = "tool" /\ pauses < MaxPauses /\ drv[d].pc \notin Resting
        /\ UNCHANGED <<world, up, graphs, run>> /\ up
    BY <1>d DEF PauseMember, Resting, InLoop, InSplice, Outcome, storeVars, envVars
  <1>2. /\ drv[d].id \in Graph /\ drv[d].id \in 1..graphs /\ drv[d].id \in Nat
        /\ drv[d].at = graph[drv[d].id].at
        /\ drv[d].pause \in Pause \cup {0} /\ drv[d].pause <= pauses
        /\ graphs \in Nat /\ pauses \in Nat /\ pauses <= MaxPauses
    BY <1>d, <1>1, Busy, Typed, Ranges DEF Graph
  <1>3. DriverShape(d)
    BY <1>d DEF Shape
  <1>4. /\ \A e \in Driver \ {d} : drv'[e] = drv[e]
        /\ drv'[d].pc = "repaused" /\ drv'[d].id = drv[d].id
        /\ drv'[d].at = drv[d].at /\ drv'[d].pause = pauses + 1
        /\ pauses + 1 \in Pause /\ member'[pauses + 1] = "awaiting"
        /\ \A c \in Pause : c <= pauses /\ c # drv[d].pause => member'[c] = member[c]
        /\ graph' = graph /\ pauses' = pauses + 1
    <2>1. pauses + 1 \in Pause /\ pauses + 1 # drv[d].pause
      BY <1>1, <1>2, Ranges DEF Pause
    <2>2. /\ \A e \in Driver \ {d} : drv'[e] = drv[e]
          /\ drv'[d].pc = "repaused" /\ drv'[d].id = drv[d].id
          /\ drv'[d].at = drv[d].at /\ drv'[d].pause = pauses + 1
      BY <1>d, Typed DEF PauseMember, DriverRecord
    <2>3. /\ member'[pauses + 1] = "awaiting"
          /\ \A c \in Pause : c # pauses + 1 /\ c # drv[d].pause => member'[c] = member[c]
      BY <2>1, Typed DEF PauseMember
    <2>4. \A c \in Pause : c <= pauses => c # pauses + 1
      BY <1>2, Ranges DEF Pause
    <2> QED BY <2>1, <2>2, <2>3, <2>4 DEF PauseMember
  <1>5. OwnStep(d)
    BY <1>d, <1>1, <1>2, <1>4 DEF OwnStep
  <1>6. DriverAtFrontier(d)'
    BY <1>1, <1>2, <1>3, <1>4, Ranges DEF DriverShape, DriverAtFrontier, DriverPausing,
       Resting, InLoop, InSplice, Node, Dispatch
  <1>7. DriverInLoop(d)'
    BY <1>1, <1>2, <1>3, <1>4 DEF DriverShape, DriverInLoop, DriverPausing,
       DriverSplicing, Resting, InLoop, InSplice
  <1>8. DriverPausing(d)'
    BY <1>1, <1>2, <1>3, <1>4, Ranges DEF DriverShape, DriverAtFrontier, DriverInLoop,
       DriverPausing, DriverSplicing, InLoop, InSplice, Pause
  <1>9. DriverSplicing(d)'
    BY <1>1, <1>2, <1>3, <1>4 DEF DriverShape, DriverSplicing
  <1>10. graph'[drv[d].id].status = "completed" => graph'[drv[d].id].at = N + 1
    BY <1>1, <1>2, <1>4 DEF Shape, GraphsInOrder
  <1> QED BY <1>d, <1>5, <1>6, <1>7, <1>8, <1>9, <1>10, OwnStepShape DEF DriverShape

LEMMA FailMemberShape ==
  ASSUME TypeOK, Shape, FailMember
  PROVE  Shape'
  <1> DEFINE d == "resume"
  <1>d. d \in Driver
    BY DEF Driver
  <1>1. /\ drv[d].pc = "tool" /\ drv[d].pc \notin Resting
        /\ UNCHANGED <<world, up, graphs, run>> /\ up
    BY <1>d DEF FailMember, Resting, InLoop, InSplice, Outcome, storeVars, envVars
  <1>2. /\ drv[d].id \in Graph /\ drv[d].id \in 1..graphs /\ drv[d].id \in Nat
        /\ drv[d].at = graph[drv[d].id].at
        /\ drv[d].pause \in Pause \cup {0} /\ drv[d].pause <= pauses
        /\ graphs \in Nat /\ pauses \in Nat /\ pauses <= MaxPauses
    BY <1>d, <1>1, Busy, Typed, Ranges DEF Graph
  <1>3. DriverShape(d)
    BY <1>d DEF Shape
  <1>4. /\ \A e \in Driver \ {d} : drv'[e] = drv[e]
        /\ drv'[d].pc = "failed" /\ drv'[d].id = drv[d].id
        /\ drv'[d].at = drv[d].at /\ drv'[d].pause = drv[d].pause
        /\ graph' = graph /\ member' = member /\ pauses' = pauses
    BY <1>d, <1>1, <1>2, GotoFacts DEF FailMember, storeVars
  <1>5. OwnStep(d)
    BY <1>d, <1>1, <1>2, <1>4 DEF OwnStep
  <1>6. DriverAtFrontier(d)'
    BY <1>1, <1>2, <1>3, <1>4, Ranges DEF DriverShape, DriverAtFrontier, DriverPausing,
       Resting, InLoop, InSplice, Node, Dispatch
  <1>7. DriverInLoop(d)'
    BY <1>1, <1>2, <1>3, <1>4 DEF DriverShape, DriverInLoop, DriverPausing,
       DriverSplicing, Resting, InLoop, InSplice
  <1>8. DriverPausing(d)'
    BY <1>1, <1>2, <1>3, <1>4, Ranges DEF DriverShape, DriverAtFrontier, DriverInLoop,
       DriverPausing, DriverSplicing, InLoop, InSplice, Pause
  <1>9. DriverSplicing(d)'
    BY <1>1, <1>2, <1>3, <1>4 DEF DriverShape, DriverSplicing
  <1>10. graph'[drv[d].id].status = "completed" => graph'[drv[d].id].at = N + 1
    BY <1>1, <1>2, <1>4 DEF Shape, GraphsInOrder
  <1> QED BY <1>d, <1>5, <1>6, <1>7, <1>8, <1>9, <1>10, OwnStepShape DEF DriverShape

LEMMA SpliceShape ==
  ASSUME TypeOK, Shape, Splice
  PROVE  Shape'
  <1> DEFINE d == "resume"
  <1>d. d \in Driver
    BY DEF Driver
  <1>1. /\ drv[d].pc = "splice" /\ drv[d].pc \notin Resting
        /\ UNCHANGED <<world, up, graphs, run>> /\ up
    BY <1>d DEF Splice, Resting, InLoop, InSplice, Outcome, storeVars, envVars
  <1>2. /\ drv[d].id \in Graph /\ drv[d].id \in 1..graphs /\ drv[d].id \in Nat
        /\ drv[d].at = graph[drv[d].id].at
        /\ drv[d].pause \in Pause \cup {0} /\ drv[d].pause <= pauses
        /\ graphs \in Nat /\ pauses \in Nat /\ pauses <= MaxPauses
    BY <1>d, <1>1, Busy, Typed, Ranges DEF Graph
  <1>3. DriverShape(d)
    BY <1>d DEF Shape
  <1>4. /\ \A e \in Driver \ {d} : drv'[e] = drv[e]
        /\ drv'[d].pc = "loop" /\ drv'[d].id = drv[d].id
        /\ drv'[d].at = drv[d].at + 1 /\ drv'[d].pause = 0
        /\ \A g \in Graph \ {drv[d].id} : graph'[g] = graph[g]
        /\ graph'[drv[d].id].status = "running" /\ graph'[drv[d].id].at = drv[d].at + 1
        /\ graph'[drv[d].id].pause = 0
        /\ member' = member /\ pauses' = pauses
    BY <1>d, <1>1, <1>2, SaveGraphFacts, Typed DEF Splice, SpliceNext, DriverRecord
  <1>5. OwnStep(d)
    BY <1>d, <1>1, <1>2, <1>4 DEF OwnStep
  <1>6. DriverAtFrontier(d)'
    BY <1>1, <1>2, <1>3, <1>4, Ranges DEF DriverShape, DriverAtFrontier, DriverPausing,
       Resting, InLoop, InSplice, Node, Dispatch
  <1>7. DriverInLoop(d)'
    BY <1>1, <1>2, <1>3, <1>4 DEF DriverShape, DriverInLoop, DriverPausing,
       DriverSplicing, Resting, InLoop, InSplice
  <1>8. DriverPausing(d)'
    BY <1>1, <1>2, <1>3, <1>4, Ranges DEF DriverShape, DriverAtFrontier, DriverInLoop,
       DriverPausing, DriverSplicing, InLoop, InSplice, Pause
  <1>9. DriverSplicing(d)'
    BY <1>1, <1>2, <1>3, <1>4 DEF DriverShape, DriverSplicing
  <1>10. graph'[drv[d].id].status = "completed" => graph'[drv[d].id].at = N + 1
    BY <1>1, <1>2, <1>4
  <1> QED BY <1>d, <1>5, <1>6, <1>7, <1>8, <1>9, <1>10, OwnStepShape DEF DriverShape

LEMMA CancelSpliceShape ==
  ASSUME TypeOK, Shape, CancelSplice
  PROVE  Shape'
  <1> DEFINE d == "resume"
  <1>d. d \in Driver
    BY DEF Driver
  <1>1. /\ drv[d].pc \in InSplice /\ drv[d].pc \notin Resting
        /\ UNCHANGED <<world, up, graphs, run>> /\ up
    BY <1>d DEF CancelSplice, Resting, InLoop, InSplice, Outcome, storeVars, envVars
  <1>2. /\ drv[d].id \in Graph /\ drv[d].id \in 1..graphs /\ drv[d].id \in Nat
        /\ drv[d].at = graph[drv[d].id].at
        /\ drv[d].pause \in Pause \cup {0} /\ drv[d].pause <= pauses
        /\ graphs \in Nat /\ pauses \in Nat /\ pauses <= MaxPauses
    BY <1>d, <1>1, Busy, Typed, Ranges DEF Graph
  <1>3. DriverShape(d)
    BY <1>d DEF Shape
  <1>4. /\ \A e \in Driver \ {d} : drv'[e] = drv[e]
        /\ drv'[d].pc = "failed" /\ drv'[d].id = drv[d].id
        /\ drv'[d].at = drv[d].at /\ drv'[d].pause = drv[d].pause
        /\ graph' = graph /\ member' = member /\ pauses' = pauses
    BY <1>d, <1>1, <1>2, GotoFacts DEF CancelSplice, storeVars
  <1>5. OwnStep(d)
    BY <1>d, <1>1, <1>2, <1>4 DEF OwnStep
  <1>6. DriverAtFrontier(d)'
    BY <1>1, <1>2, <1>3, <1>4, Ranges DEF DriverShape, DriverAtFrontier, DriverPausing,
       Resting, InLoop, InSplice, Node, Dispatch
  <1>7. DriverInLoop(d)'
    BY <1>1, <1>2, <1>3, <1>4 DEF DriverShape, DriverInLoop, DriverPausing,
       DriverSplicing, Resting, InLoop, InSplice
  <1>8. DriverPausing(d)'
    BY <1>1, <1>2, <1>3, <1>4, Ranges DEF DriverShape, DriverAtFrontier, DriverInLoop,
       DriverPausing, DriverSplicing, InLoop, InSplice, Pause
  <1>9. DriverSplicing(d)'
    BY <1>1, <1>2, <1>3, <1>4 DEF DriverShape, DriverSplicing
  <1>10. graph'[drv[d].id].status = "completed" => graph'[drv[d].id].at = N + 1
    BY <1>1, <1>2, <1>4 DEF Shape, GraphsInOrder
  <1> QED BY <1>d, <1>5, <1>6, <1>7, <1>8, <1>9, <1>10, OwnStepShape DEF DriverShape


-----------------------------------------------------------------------------
(* The steps on the run.                                                   *)

\* A step that touches only the status of the run.
LEMMA StatusFrame ==
  ASSUME TypeOK, Shape, UNCHANGED <<world, up, drv, graph, member, graphs, pauses>>,
         run'.graph = run.graph,
         run'.status \in Waiting => run.status \in Waiting,
         run'.status = "QUEUED" => Dispatch \/ run.status = "QUEUED"
  PROVE  Shape'
  <1>1. \A d \in Driver : DriverShape(d)'
    BY DriverFrame, Typed
  <1>2. GraphsInOrder' /\ NothingShared'
    BY DEF Shape, GraphsInOrder, NothingShared
  <1>3. RunWaits' /\ InlineOnce'
    BY DEF Shape, RunWaits, InlineOnce, Dispatch
  <1> QED BY <1>1, <1>2, <1>3 DEF Shape

LEMMA RunFields ==
  ASSUME TypeOK, NEW s, SaveStatus(s)
  PROVE  run'.status = s /\ run'.graph = run.graph
  BY Typed DEF SaveStatus

LEMMA ExecuteShape ==
  ASSUME TypeOK, Shape, Execute
  PROVE  Shape'
  <1>1. /\ graphs \in Nat /\ pauses \in Nat /\ graphs + 1 \in Graph
        /\ graphs' = graphs + 1 /\ UNCHANGED <<world, up, graph, member, pauses>> /\ up
        /\ run.status = "QUEUED" /\ run'.status = "RUNNING" /\ run'.graph = run.graph
    BY Typed, Ranges, RunFields DEF Execute, Graph, envVars
  <1>2. /\ drv'["execute"] = [pc |-> "loop", id |-> graphs + 1, at |-> 1, pause |-> 0]
        /\ drv'["resume"] = drv["resume"]
        /\ drv["execute"] = Off
    BY Typed DEF Execute, Driver, Shape, DriverShape, DriverAtFrontier, Resting, Off
  <1>3. graph[graphs + 1] = NoGraph /\ run.graph <= graphs /\ run.graph \in Nat
    BY <1>1, Typed, Ranges DEF Shape, GraphsInOrder, RunWaits, Graph
  <1>4. drv["resume"].id # graphs + 1
    BY <1>1, Typed, Busy DEF Driver, Shape, DriverShape, DriverAtFrontier, Off
  <1>5. DriverShape("resume")'
    BY <1>1, <1>2, DriverFrame DEF Driver
  <1>6. DriverShape("execute")'
    BY <1>1, <1>2, <1>3, Ranges DEF DriverShape, DriverAtFrontier, DriverInLoop,
       DriverPausing, DriverSplicing, Resting, InLoop, InSplice, NoGraph
  <1>7. GraphsInOrder'
    BY <1>1, Ranges DEF Shape, GraphsInOrder, Graph
  <1>8. NothingShared'
    <2>1. \A g \in Graph : graph[g].pause = 0 \/ graph[g].pause # 0
      OBVIOUS
    <2> QED BY <1>1, <1>2, <1>3, <1>4 DEF Shape, NothingShared, Driver
  <1>9. RunWaits' /\ InlineOnce'
    BY <1>1, <1>3 DEF Shape, RunWaits, InlineOnce, Dispatch, Waiting
  <1> QED BY <1>5, <1>6, <1>7, <1>8, <1>9 DEF Shape, Driver

LEMMA ApplyRetryPolicyShape ==
  ASSUME TypeOK, Shape, ApplyRetryPolicy
  PROVE  Shape'
  <1>1. "execute" \in Driver /\ DriverShape("execute") /\ drv["execute"].pc = "policy"
    BY DEF ApplyRetryPolicy, Shape, Driver
  <1>2. Dispatch /\ drv["execute"] = [Off EXCEPT !.pc = "policy"]
    BY <1>1 DEF DriverShape, DriverAtFrontier, Resting
  <1>3. drv'["execute"] = Off /\ drv'["resume"] = drv["resume"]
    BY <1>1, <1>2, Typed DEF ApplyRetryPolicy, Goto, Driver, Off
  <1>4. /\ run'.graph = run.graph
        /\ run'.status = run.status \/ run'.status = "QUEUED"
    BY RunFields DEF ApplyRetryPolicy
  <1>5. UNCHANGED <<world, up, graph, member, graphs, pauses>>
    BY DEF ApplyRetryPolicy, envVars
  <1>6. DriverShape("resume")'
    BY <1>3, <1>5, Typed, DriverFrame DEF Driver
  <1>7. DriverShape("execute")'
    BY <1>3, <1>5, Typed DEF DriverShape, DriverAtFrontier, DriverInLoop, DriverPausing,
       DriverSplicing, Resting, InLoop, InSplice, Off
  <1>8. GraphsInOrder'
    BY <1>5 DEF Shape, GraphsInOrder
  <1>9. NothingShared'
    BY <1>2, <1>3, <1>4, <1>5 DEF Shape, NothingShared, Driver, Off
  <1>10. RunWaits' /\ InlineOnce'
    BY <1>2, <1>3, <1>4, <1>5 DEF Shape, RunWaits, InlineOnce, Dispatch, Waiting, Driver, Off
  <1> QED BY <1>6, <1>7, <1>8, <1>9, <1>10 DEF Shape, Driver

LEMMA ClaimRunShape ==
  ASSUME TypeOK, Shape, ClaimRun
  PROVE  Shape'
  BY StatusFrame, RunFields DEF ClaimRun, Claimable, Waiting, envVars

LEMMA RequeueShape ==
  ASSUME TypeOK, Shape, Requeue
  PROVE  Shape'
  BY StatusFrame, RunFields DEF Requeue, Waiting, envVars

LEMMA LaunchResumeShape ==
  ASSUME TypeOK, Shape, LaunchResume
  PROVE  Shape'
  <1> DEFINE g == run.graph
  <1>1. /\ UNCHANGED <<world, up, graph, member, graphs, pauses>> /\ up
        /\ run.status = "RESOLVING" /\ run'.status = "RUNNING" /\ run'.graph = run.graph
    BY RunFields DEF LaunchResume, envVars
  <1>2. /\ g \in Graph /\ g \in 1..graphs /\ graphs \in Nat /\ pauses \in Nat
        /\ graph[g].status = "interrupted" /\ graph[g].at \in Node
        /\ graph[g].pause # 0 /\ graph[g].pause <= pauses
        /\ member[graph[g].pause] = "awaiting"
        /\ \A d \in Driver : drv[d].id # g
    BY <1>1, Typed, Ranges DEF Shape, RunWaits, GraphsInOrder, Waiting, Graph
  <1>3. /\ drv'["resume"] = [pc |-> "claim", id |-> g, at |-> graph[g].at,
                             pause |-> graph[g].pause]
        /\ drv'["execute"] = drv["execute"]
        /\ drv["resume"] = Off
    BY Typed DEF LaunchResume, Driver, Shape, DriverShape, DriverAtFrontier, Resting, Off
  <1>4. drv["execute"].pause # 0 => drv["execute"].pause # graph[g].pause
    BY <1>2 DEF Shape, NothingShared, Driver
  <1>5. DriverShape("execute")'
    BY <1>1, <1>2, <1>3, DriverFrame DEF Driver
  <1>6. DriverShape("resume")'
    BY <1>1, <1>2, <1>3 DEF DriverShape, DriverAtFrontier, DriverInLoop,
       DriverPausing, DriverSplicing, Resting, InLoop, InSplice
  <1>7. GraphsInOrder'
    BY <1>1 DEF Shape, GraphsInOrder
  <1>8. NothingShared'
    BY <1>1, <1>2, <1>3, <1>4 DEF Shape, NothingShared, Driver
  <1>9. RunWaits' /\ InlineOnce'
    BY <1>1 DEF Shape, RunWaits, InlineOnce, Dispatch, Waiting
  <1> QED BY <1>5, <1>6, <1>7, <1>8, <1>9 DEF Shape, Driver

\* A driver that ends leaves a run that waits only if its graph is paused.
LEMMA ApplyOutcomeShape ==
  ASSUME TypeOK, Shape, NEW d \in Driver, ApplyOutcome(d)
  PROVE  Shape'
  <1> DEFINE g == drv[d].id
             Paused == drv[d].pc = "interrupted" /\ drv[d].pause # 0
  <1>1. /\ drv[d].pc \in Outcome /\ drv[d].pc \notin Resting
        /\ UNCHANGED <<world, up, graph, member, graphs, pauses>> /\ up
    BY DEF ApplyOutcome, Outcome, Resting, envVars
  <1>2. /\ g \in Graph /\ g \in 1..graphs /\ graphs \in Nat /\ pauses \in Nat
        /\ g # 0 /\ drv[d].pause \in Pause \cup {0}
    BY <1>1, Busy, Typed, Ranges DEF Graph
  <1>3. /\ \A e \in Driver \ {d} : drv'[e] = drv[e]
        /\ \/ drv'[d] = Off
           \/ d = "execute" /\ Dispatch /\ drv'[d] = [Off EXCEPT !.pc = "policy"]
    BY Typed DEF ApplyOutcome
  <1>4. drv'[d].id = 0 /\ drv'[d].pause = 0 /\ drv'[d].pc \in Resting
    BY <1>3 DEF Off, Resting
  <1>5. \/ Paused /\ run'.status = "AWAITING_APPROVAL" /\ run'.graph = g
        \/ run'.status \in {"FAILED", "SUCCEEDED"} /\ run'.graph = run.graph
    BY <1>1, Typed DEF ApplyOutcome, OutcomeRun, Outcome
  <1>6. ASSUME NEW e \in Driver PROVE DriverShape(e)'
    <2>1. CASE e = d
      BY <2>1, <1>1, <1>2, <1>3 DEF DriverShape, DriverAtFrontier, DriverInLoop, DriverPausing,
         DriverSplicing, Resting, InLoop, InSplice, Off, Dispatch
    <2>2. CASE e # d
      BY <2>2, <1>1, <1>2, <1>3, DriverFrame
    <2> QED BY <2>1, <2>2
  <1>7. GraphsInOrder'
    BY <1>1 DEF Shape, GraphsInOrder
  <1>8. NothingShared'
    <2>1. drv'["execute"].id # 0 => d = "resume" /\ drv'["execute"] = drv["execute"]
      BY <1>3, <1>4 DEF Driver
    <2>2. drv'["execute"].id # 0 =>
            drv'["execute"].id # drv'["resume"].id /\ drv'["execute"].id # run'.graph
      BY <2>1, <1>4, <1>5 DEF Shape, NothingShared
    <2>3. drv'["execute"].pause # 0 => drv'["execute"].pause # drv'["resume"].pause
      BY <1>3, <1>4 DEF Shape, NothingShared, Driver
    <2>4. \A e \in Driver, h \in Graph :
            drv'[e].pause # 0 /\ h # drv'[e].id => graph'[h].pause # drv'[e].pause
      BY <1>1, <1>3, <1>4 DEF Shape, NothingShared
    <2> QED BY <2>2, <2>3, <2>4, <1>1 DEF Shape, NothingShared
  <1>9. RunWaits'
    <2>1. CASE Paused /\ run'.status = "AWAITING_APPROVAL" /\ run'.graph = g
      <3>1. DriverPausing(d)
        BY DEF Shape, DriverShape
      <3>2. graph[g].status = "interrupted" /\ graph[g].pause # 0 /\ graph[g].at \in Node
            /\ member[graph[g].pause] = "awaiting"
        BY <2>1, <3>1, <1>1, Busy DEF DriverPausing
      <3>3. \A e \in Driver : drv'[e].id # g
        BY <1>2, <1>3, <1>4, Apart
      <3> QED BY <2>1, <3>2, <3>3, <1>1, <1>2 DEF RunWaits
    <2>2. CASE run'.status \in {"FAILED", "SUCCEEDED"} /\ run'.graph = run.graph
      BY <2>2, <1>1 DEF Shape, RunWaits, Waiting
    <2> QED BY <1>5, <2>1, <2>2
  <1>10. InlineOnce'
    BY <1>1, <1>5 DEF Shape, InlineOnce, Dispatch
  <1> QED BY <1>6, <1>7, <1>8, <1>9, <1>10 DEF Shape

LEMMA CrashShape ==
  ASSUME TypeOK, Shape, Crash
  PROVE  Shape'
  <1>1. /\ UNCHANGED <<world, run, graph, member, graphs, pauses>>
        /\ \A d \in Driver : drv'[d] = Off
    BY DEF Crash, storeVars
  <1>2. \A d \in Driver : DriverShape(d)'
    BY <1>1, Typed DEF DriverShape, DriverAtFrontier, DriverInLoop, DriverPausing,
       DriverSplicing, Resting, InLoop, InSplice, Off
  <1>3. NothingShared'
    BY <1>1 DEF Shape, NothingShared, Driver, Off
  <1>4. RunWaits'
    BY <1>1 DEF Shape, RunWaits, Off
  <1>5. GraphsInOrder' /\ InlineOnce'
    BY <1>1 DEF Shape, GraphsInOrder, InlineOnce, Dispatch
  <1> QED BY <1>2, <1>3, <1>4, <1>5 DEF Shape

LEMMA RestartShape ==
  ASSUME TypeOK, Shape, Restart
  PROVE  Shape'
  <1>1. /\ UNCHANGED <<world, drv, graph, member, graphs, pauses>> /\ ~up
        /\ run'.graph = run.graph /\ run'.status \in {run.status, "FAILED"}
    BY RunFields DEF Restart, SweptStatus
  <1>2. \A d \in Driver : drv[d].pc \in Resting
    BY <1>1 DEF Shape, DriverShape, DriverAtFrontier
  <1>3. ASSUME NEW d \in Driver PROVE DriverShape(d)'
    BY <1>1, <1>2 DEF Shape, DriverShape, DriverAtFrontier, DriverInLoop, DriverPausing,
       DriverSplicing, Resting, InLoop, InSplice, Dispatch
  <1>4. GraphsInOrder' /\ NothingShared'
    BY <1>1 DEF Shape, GraphsInOrder, NothingShared
  <1>5. RunWaits' /\ InlineOnce'
    BY <1>1 DEF Shape, RunWaits, InlineOnce, Dispatch, Waiting
  <1> QED BY <1>3, <1>4, <1>5 DEF Shape

LEMMA ShapeInit == Init => Shape
  BY Ranges DEF Init, Shape, DriverShape, DriverAtFrontier, DriverInLoop, DriverPausing,
     DriverSplicing, GraphsInOrder, NothingShared, RunWaits, InlineOnce, Off, NoGraph,
     Resting, Waiting, InLoop, InSplice, Graph, Pause, Driver

LEMMA ShapeNext == TypeOK /\ Shape /\ [Next]_vars => Shape'
  <1> SUFFICES ASSUME TypeOK, Shape, [Next]_vars PROVE Shape'
    OBVIOUS
  <1>1. ASSUME NEW d \in Driver, DriverStep(d) PROVE Shape'
    BY <1>1, RunNodeShape, FailNodeShape, PauseNodeShape, SaveInterruptShape,
       SaveSuperstepShape, SaveCompletedShape, CancelLoopShape, ApplyOutcomeShape
       DEF DriverStep
  <1>2. CASE SpliceStep
    BY <1>2, ClaimMemberShape, FinishMemberShape, PauseMemberShape, FailMemberShape,
       SpliceShape, CancelSpliceShape DEF SpliceStep
  <1>3. CASE UNCHANGED vars
    BY <1>3, StatusFrame DEF vars, storeVars, envVars
  <1> QED
    BY <1>1, <1>2, <1>3, ExecuteShape, ApplyRetryPolicyShape, ClaimRunShape,
       LaunchResumeShape, RequeueShape, CrashShape, RestartShape DEF Next


-----------------------------------------------------------------------------
(* Type correctness.                                                       *)

LEMMA TypeInit == Init => TypeOK
  BY GraphAssumption, Ranges DEF Init, TypeOK, RunStatus, DriverRecord

\* Drivers only get labels, graphs, nodes and pauses that exist.
LEMMA DriversTyped ==
  ASSUME TypeOK, Shape, [Next]_vars
  PROVE  drv' \in [Driver -> DriverRecord]
  <1> USE Typed, Ranges DEF InLoop, InSplice, Outcome, DriverRecord
  <1>0. ASSUME NEW d \in Driver, drv[d].pc \notin Resting
        PROVE  drv[d].id \in Graph /\ drv[d].at \in 1..(N + 1) /\ drv[d].at \in Nat
    BY <1>0, Busy
  <1>1. ASSUME NEW d \in Driver, NEW label \in {"ran", "failed", "interrupted", "completed",
               "off", "tool", "splice", "loop"}, Goto(d, label)
        PROVE  drv' \in [Driver -> DriverRecord]
    BY <1>1 DEF Goto
  <1>2. CASE Execute
    <2>1. graphs + 1 \in Graph
      BY <1>2 DEF Execute, Graph
    <2>2. [pc |-> "loop", id |-> graphs + 1, at |-> 1, pause |-> 0] \in DriverRecord
      BY <2>1
    <2> QED BY <1>2, <2>2 DEF Execute
  <1>3. CASE LaunchResume
    <2>1. run.graph \in Graph
      BY <1>3 DEF LaunchResume, Shape, RunWaits, Waiting
    <2>2. graph[run.graph] \in GraphCheckpoint
      BY <2>1
    <2>3. [pc |-> "claim", id |-> run.graph, at |-> graph[run.graph].at,
           pause |-> graph[run.graph].pause] \in DriverRecord
      BY <2>1, <2>2 DEF GraphCheckpoint
    <2> QED BY <1>3, <2>3 DEF LaunchResume
  <1>4. ASSUME NEW d \in Driver, PauseNode(d) \/ (PauseMember /\ d = "resume")
        PROVE  drv' \in [Driver -> DriverRecord]
    <2>1. pauses + 1 \in Pause
      BY <1>4 DEF PauseNode, PauseMember, Pause
    <2> QED BY <1>4, <2>1 DEF PauseNode, PauseMember
  <1>5. ASSUME NEW d \in Driver, SaveSuperstep(d) \/ (Splice /\ d = "resume")
        PROVE  drv' \in [Driver -> DriverRecord]
    <2>1. drv[d].at \in Node
      BY <1>5 DEF SaveSuperstep, Splice, Shape, DriverShape, DriverAtFrontier
    <2>2. drv[d].at + 1 \in 1..(N + 1)
      BY <2>1 DEF Node
    <2> QED BY <1>5, <2>2 DEF SaveSuperstep, Splice, SpliceNext
  <1>6. ASSUME NEW d \in Driver, CancelLoop(d) \/ ApplyOutcome(d)
        PROVE  drv' \in [Driver -> DriverRecord]
    BY <1>6 DEF CancelLoop, ApplyOutcome
  <1>7. CASE Crash
    BY <1>7 DEF Crash
  <1>8. CASE ClaimMember
    BY <1>8, <1>1 DEF ClaimMember, Driver
  <1>9. ASSUME NEW d \in Driver,
               RunNode(d) \/ FailNode(d) \/ SaveInterrupt(d) \/ SaveCompleted(d)
        PROVE  drv' \in [Driver -> DriverRecord]
    BY <1>9, <1>1 DEF RunNode, FailNode, SaveInterrupt, SaveCompleted
  <1>10. CASE ApplyRetryPolicy \/ FinishMember \/ FailMember \/ CancelSplice
    BY <1>10, <1>1 DEF ApplyRetryPolicy, FinishMember, FailMember, CancelSplice, Driver
  <1>11. CASE ClaimRun \/ Requeue \/ Restart \/ UNCHANGED vars
    BY <1>11 DEF ClaimRun, Requeue, Restart, vars
  <1> QED
    BY <1>2, <1>3, <1>4, <1>5, <1>6, <1>7, <1>8, <1>9, <1>10, <1>11
       DEF Next, DriverStep, SpliceStep, Driver

\* What a step makes of a stored graph.
GraphStep(g, d) ==
  /\ drv[d].id = g /\ drv[d].at = graph[g].at /\ graph[g].at \in Nat
  /\ \/ /\ drv[d].pc \in {"ran", "splice"} /\ drv[d].at \in Node
        /\ graph'[g] = [status |-> "running", at |-> graph[g].at + 1, pause |-> 0]
     \/ /\ drv[d].pc \in {"paused", "repaused"}
        /\ graph'[g] = [status |-> "interrupted", at |-> graph[g].at, pause |-> drv[d].pause]
     \/ /\ drv[d].pc = "loop" /\ graph[g].at = N + 1
        /\ graph'[g] = [status |-> "completed", at |-> graph[g].at, pause |-> 0]
     \/ /\ drv[d].pc \in InLoop \cup {"completed"} /\ world.cancels
        /\ graph'[g] = [status |-> "interrupted", at |-> graph[g].at, pause |-> 0]

\* Only a driver of a graph changes it, from the node it is at.
LEMMA GraphSteps ==
  ASSUME TypeOK, Shape, [Next]_vars, NEW g \in Graph, graph'[g] # graph[g]
  PROVE  \E d \in Driver : GraphStep(g, d)
  <1>1. PICK d \in Driver : \/ SaveInterrupt(d) \/ SaveSuperstep(d) \/ SaveCompleted(d)
                            \/ CancelLoop(d) \/ (Splice /\ d = "resume")
    BY DEF Next, DriverStep, SpliceStep, Execute, ApplyRetryPolicy, ClaimRun, LaunchResume,
       RunNode, FailNode, PauseNode, ApplyOutcome, ClaimMember, FinishMember, PauseMember,
       FailMember, CancelSplice, Requeue, Crash, Restart, vars, storeVars, Driver
  <1>2. drv[d].pc \in InLoop \cup {"completed", "splice", "repaused"}
    BY <1>1 DEF SaveInterrupt, SaveSuperstep, SaveCompleted, CancelLoop, Splice, InLoop
  <1>3. drv[d].id \in Graph /\ drv[d].at = graph[drv[d].id].at /\ drv[d].at \in Nat
    BY <1>2, Busy, Ranges DEF Resting, InLoop
  <1>4. drv[d].id = g
    BY <1>1, <1>3, Typed DEF SaveGraph, SaveInterrupt, SaveSuperstep, SaveCompleted,
       CancelLoop, Splice
  <1>5. drv[d].pc \in {"ran", "splice"} => drv[d].at \in Node
    BY DEF Shape, DriverShape, DriverAtFrontier, InSplice
  <1>6. CASE SaveInterrupt(d)
    BY <1>3, <1>4, <1>6, Typed DEF SaveInterrupt, SaveGraph, GraphStep
  <1>7. CASE SaveSuperstep(d)
    BY <1>3, <1>4, <1>5, <1>7, Typed DEF SaveSuperstep, SaveGraph, GraphStep
  <1>8. CASE SaveCompleted(d)
    BY <1>3, <1>4, <1>8, Typed DEF SaveCompleted, FrontierEmpty, SaveGraph, GraphStep
  <1>9. CASE CancelLoop(d)
    BY <1>3, <1>4, <1>9, Typed DEF CancelLoop, SaveGraph, GraphStep
  <1>10. CASE Splice /\ d = "resume"
    BY <1>3, <1>4, <1>5, <1>10, Typed DEF Splice, SpliceNext, SaveGraph, GraphStep
  <1> QED BY <1>1, <1>6, <1>7, <1>8, <1>9, <1>10

LEMMA GraphsTyped ==
  ASSUME TypeOK, Shape, [Next]_vars
  PROVE  graph' \in [Graph -> GraphCheckpoint]
  <1>1. ASSUME NEW g \in Graph PROVE graph'[g] \in GraphCheckpoint
    <2>1. CASE graph'[g] = graph[g]
      BY <2>1, Typed
    <2>2. CASE graph'[g] # graph[g]
      <3>1. PICK d \in Driver : GraphStep(g, d)
        BY <2>2, GraphSteps
      <3>2. graph[g].at \in 1..(N + 1) /\ drv[d].pause \in Pause \cup {0}
        BY Typed DEF GraphCheckpoint, DriverRecord
      <3> QED BY <3>1, <3>2, Ranges DEF GraphStep, GraphCheckpoint, Node
    <2> QED BY <2>1, <2>2
  <1>2. \/ graph' = graph
        \/ \E h, st, a, c : SaveGraph(h, st, a, c)
    BY DEF Next, DriverStep, SpliceStep, Execute, ApplyRetryPolicy, ClaimRun, LaunchResume,
       RunNode, FailNode, PauseNode, ApplyOutcome, ClaimMember, FinishMember, PauseMember,
       FailMember, CancelSplice, Requeue, Crash, Restart, vars, storeVars, SaveInterrupt,
       SaveSuperstep, SaveCompleted, CancelLoop, Splice
  <1>3. DOMAIN graph' = Graph /\ graph' = [g \in Graph |-> graph'[g]]
    <2>1. CASE graph' = graph
      BY <2>1, Typed
    <2>2. CASE graph' # graph
      <3>1. PICK h, st, a, c : SaveGraph(h, st, a, c)
        BY <1>2, <2>2
      <3> QED BY <3>1, Typed DEF SaveGraph
    <2> QED BY <2>1, <2>2
  <1> QED BY <1>1, <1>3


LEMMA TypeNext == TypeOK /\ Shape /\ [Next]_vars => TypeOK'
  <1> SUFFICES ASSUME TypeOK, Shape, [Next]_vars PROVE TypeOK'
    OBVIOUS
  <1> USE Ranges, Typed
  <1> DEFINE Rest == /\ world' \in Worlds
                     /\ run' \in [status : RunStatus, graph : Graph \cup {0}]
                     /\ member' \in [Pause -> {"absent", "awaiting", "resolving", "resolved"}]
                     /\ graphs' \in 0..MaxGraphs /\ pauses' \in 0..MaxPauses
                     /\ up' \in BOOLEAN /\ crashes' \in 0..MaxCrashes
                     /\ done' \in [Node -> Nat]
  <1>a. {"QUEUED", "RUNNING", "AWAITING_APPROVAL", "RESOLVING", "SUCCEEDED", "FAILED"}
           \subseteq RunStatus
    BY DEF RunStatus
  <1>b. ASSUME NEW s \in RunStatus, SaveStatus(s)
        PROVE  run' \in [status : RunStatus, graph : Graph \cup {0}]
    BY <1>b DEF SaveStatus
  <1>c. world \in Worlds /\ up \in BOOLEAN /\ crashes \in 0..MaxCrashes /\ done \in [Node -> Nat]
    BY DEF TypeOK
  <1>1. ASSUME Execute PROVE Rest
    BY <1>1, <1>a, <1>b, <1>c DEF Execute, envVars
  <1>2. ASSUME ApplyRetryPolicy PROVE Rest
    BY <1>2, <1>a, <1>b, <1>c DEF ApplyRetryPolicy, envVars
  <1>3. ASSUME ClaimRun \/ LaunchResume \/ Requeue PROVE Rest
    BY <1>3, <1>a, <1>b, <1>c DEF ClaimRun, LaunchResume, Requeue, envVars
  <1>4. ASSUME NEW d \in Driver, RunNode(d) \/ (FinishMember /\ d = "resume") PROVE Rest
    <2>1. drv[d].at \in Nat
      BY Busy, <1>4 DEF RunNode, FinishMember, Resting
    <2>2. done' \in [Node -> Nat]
      BY <1>4, <1>c DEF RunNode, FinishMember
    <2> QED BY <1>4, <2>2, <1>c DEF RunNode, FinishMember, storeVars, envVars
  <1>5. ASSUME NEW d \in Driver, FailNode(d) \/ SaveInterrupt(d) \/ SaveSuperstep(d)
               \/ SaveCompleted(d) \/ CancelLoop(d)
        PROVE  Rest
    BY <1>5, <1>c DEF FailNode, SaveInterrupt, SaveSuperstep, SaveCompleted, CancelLoop,
       storeVars, envVars
  <1>6. ASSUME NEW d \in Driver, PauseNode(d) PROVE Rest
    <2>1. pauses + 1 \in Pause /\ pauses' \in 0..MaxPauses
      BY <1>6 DEF PauseNode, Pause
    <2>2. member' \in [Pause -> {"absent", "awaiting", "resolving", "resolved"}]
      BY <1>6, <2>1 DEF PauseNode
    <2> QED BY <1>6, <2>1, <2>2, <1>c DEF PauseNode, envVars
  <1>7. ASSUME NEW d \in Driver, ApplyOutcome(d) PROVE Rest
    <2>1. OutcomeRun(d) \in [status : RunStatus, graph : Graph \cup {0}]
      BY <1>a DEF OutcomeRun, DriverRecord
    <2> QED BY <1>7, <2>1, <1>c DEF ApplyOutcome, envVars
  <1>8. ASSUME ClaimMember \/ FailMember \/ Splice \/ CancelSplice PROVE Rest
    <2>1. member' \in [Pause -> {"absent", "awaiting", "resolving", "resolved"}]
      BY <1>8 DEF ClaimMember, FailMember, Splice, CancelSplice, storeVars
    <2> QED BY <1>8, <2>1, <1>c
            DEF ClaimMember, FailMember, Splice, CancelSplice, storeVars, envVars
  <1>9. ASSUME PauseMember PROVE Rest
    <2>1. pauses' \in 0..MaxPauses
      BY <1>9 DEF PauseMember
    <2>2. member' \in [Pause -> {"absent", "awaiting", "resolving", "resolved"}]
      BY <1>9 DEF PauseMember
    <2> QED BY <1>9, <2>1, <2>2, <1>c DEF PauseMember, envVars
  <1>10. ASSUME Crash PROVE Rest
    <2>1. crashes' \in 0..MaxCrashes
      BY <1>10, <1>c DEF Crash
    <2> QED BY <1>10, <2>1, <1>c DEF Crash, storeVars
  <1>11. ASSUME Restart PROVE Rest
    BY <1>11, <1>a, <1>b, <1>c DEF Restart, SweptStatus
  <1>12. ASSUME UNCHANGED vars PROVE Rest
    BY <1>12, <1>c DEF vars, storeVars, envVars
  <1>13. Rest
    BY <1>1, <1>2, <1>3, <1>4, <1>5, <1>6, <1>7, <1>8, <1>9, <1>10, <1>11, <1>12
       DEF Next, DriverStep, SpliceStep, Driver
  <1>14. drv' \in [Driver -> DriverRecord] /\ graph' \in [Graph -> GraphCheckpoint]
    BY DriversTyped, GraphsTyped
  <1> QED BY <1>13, <1>14 DEF TypeOK, DriverRecord

\* The records, the checkpoints and the drivers keep their types, and a driver
\* and its graph stay together whatever crashes, is cancelled or is reaped.
THEOREM TypeCorrect == Spec => []TypeOK
  <1>1. Init => TypeOK /\ Shape
    BY TypeInit, ShapeInit
  <1>2. TypeOK /\ Shape /\ [Next]_vars => (TypeOK /\ Shape)'
    BY TypeNext, ShapeNext
  <1> QED BY <1>1, <1>2, PTL DEF Spec

THEOREM ShapeHolds == Spec => []Shape
  <1>1. Init => TypeOK /\ Shape
    BY TypeInit, ShapeInit
  <1>2. TypeOK /\ Shape /\ [Next]_vars => (TypeOK /\ Shape)'
    BY TypeNext, ShapeNext
  <1> QED BY <1>1, <1>2, PTL DEF Spec

\* While a run waits for an approval its record leads to a graph that is
\* paused on a member that waits as well, beside whatever second driver the
\* reaper has started.
THEOREM PausesAreResumable == Spec => []PauseIsResumable
  <1>1. Shape => PauseIsResumable
    BY DEF Shape, RunWaits, Waiting, PauseIsResumable
  <1> QED BY <1>1, ShapeHolds, PTL

\* A resume of the run finds the member it claims waiting: the branch of
\* _resume_member that advances past a member that an earlier resume had
\* resolved is not reached through the run, because the run is RUNNING and no
\* longer RESOLVING when the member is claimed, and a crash after that leads to
\* the sweep or to a new graph, not to a second resume.
ClaimFindsMemberWaiting ==
  drv["resume"].pc = "claim" =>
    drv["resume"].pause # 0 /\ member[drv["resume"].pause] = "awaiting"

THEOREM ResumesFindTheirMember == Spec => []ClaimFindsMemberWaiting
  <1>1. Shape => ClaimFindsMemberWaiting
    BY DEF Shape, DriverShape, DriverSplicing, ClaimFindsMemberWaiting, Driver
  <1> QED BY <1>1, ShapeHolds, PTL

\* A stored graph never goes back and leaves a pause only for a later node or
\* a later pause.
THEOREM GraphsAdvance == Spec => GraphAdvances
  <1>1. ASSUME TypeOK, Shape, [Next]_vars, NEW g \in Graph
        PROVE  /\ graph'[g].at >= graph[g].at
               /\ (graph[g].pause # 0 /\ graph'[g].pause # graph[g].pause) =>
                    \/ graph'[g].at > graph[g].at
                    \/ graph'[g].pause > graph[g].pause
    <2>1. CASE graph'[g] = graph[g]
      BY <1>1, <2>1, Typed, Ranges DEF GraphCheckpoint
    <2>2. CASE graph'[g] # graph[g]
      <3>1. PICK d \in Driver : GraphStep(g, d)
        BY <1>1, <2>2, GraphSteps
      <3>2. DriverShape(d)
        BY <1>1 DEF Shape
      <3> QED BY <3>1, <3>2, Typed, Ranges
              DEF GraphStep, DriverShape, DriverInLoop, DriverPausing, InLoop
    <2> QED BY <2>1, <2>2
  <1>2. TypeOK /\ Shape /\ [Next]_vars =>
          [\A g \in Graph :
             /\ graph'[g].at >= graph[g].at
             /\ (graph[g].pause # 0 /\ graph'[g].pause # graph[g].pause) =>
                  \/ graph'[g].at > graph[g].at
                  \/ graph'[g].pause > graph[g].pause]_vars
    BY <1>1
  <1> QED BY <1>2, TypeCorrect, ShapeHolds, PTL DEF Spec, GraphAdvances

-----------------------------------------------------------------------------
(* The work of the members.                                                *)

\* A step records the work of at most one member: the one at the frontier of
\* a driver, which holds the work as done until it saves the next frontier.
LEMMA DoneSteps ==
  ASSUME TypeOK, Shape, [Next]_vars, done' # done
  PROVE  \E d \in Driver :
           /\ drv[d].pc \in {"loop", "tool"} /\ drv[d].at \in Node
           /\ done' = [done EXCEPT ![drv[d].at] = @ + 1]
           /\ drv'[d].pc \in {"ran", "splice"}
           /\ drv'[d].at = drv[d].at /\ drv'[d].id = drv[d].id
           /\ \A e \in Driver \ {d} : drv'[e] = drv[e]
           /\ UNCHANGED <<run, graph, graphs, world>>
  <1>1. PICK d \in Driver : RunNode(d) \/ (FinishMember /\ d = "resume")
    BY DEF Next, DriverStep, SpliceStep, Execute, ApplyRetryPolicy, ClaimRun, LaunchResume,
       FailNode, PauseNode, SaveInterrupt, SaveSuperstep, SaveCompleted, CancelLoop,
       ApplyOutcome, ClaimMember, PauseMember, FailMember, Splice, CancelSplice, Requeue,
       Crash, Restart, vars, Driver
  <1>2. CASE RunNode(d)
    BY <1>2, GotoFacts DEF RunNode, storeVars, envVars
  <1>3. CASE FinishMember /\ d = "resume"
    <2>1. drv[d].at \in Node
      BY <1>3 DEF FinishMember, Shape, DriverShape, DriverAtFrontier, InSplice
    <2> QED BY <1>3, <2>1, GotoFacts DEF FinishMember, envVars
  <1> QED BY <1>1, <1>2, <1>3

LEMMA DoneGrows ==
  ASSUME TypeOK, Shape, [Next]_vars, NEW n \in Node
  PROVE  done'[n] \in Nat /\ done[n] \in Nat /\ done'[n] >= done[n]
  <1>1. done \in [Node -> Nat]
    BY DEF TypeOK
  <1> QED BY <1>1, DoneSteps

\* The stored graphs do not go back.
LEMMA GraphsGrow ==
  ASSUME TypeOK, Shape, [Next]_vars, NEW g \in Graph
  PROVE  graph[g].at \in Nat /\ graph'[g].at \in Nat /\ graph'[g].at >= graph[g].at
  <1>1. graph[g].at \in Nat
    BY Typed, Ranges DEF GraphCheckpoint
  <1>2. CASE graph'[g] = graph[g]
    BY <1>1, <1>2
  <1>3. CASE graph'[g] # graph[g]
    <2>1. PICK d \in Driver : GraphStep(g, d)
      BY <1>3, GraphSteps
    <2> QED BY <1>1, <2>1 DEF GraphStep
  <1> QED BY <1>2, <1>3

\* Whoever holds a work as done has done it, or holds it since before.
LEMMA RanSteps ==
  ASSUME TypeOK, Shape, [Next]_vars, NEW d \in Driver, drv'[d].pc \in {"ran", "splice"}
  PROVE  \/ drv'[d] = drv[d]
         \/ /\ drv'[d].at = drv[d].at /\ drv[d].at \in Node
            /\ done' = [done EXCEPT ![drv[d].at] = @ + 1]
  <1> USE DEF Driver
  <1>1. CASE RunNode(d) \/ (FinishMember /\ d = "resume")
    <2>1. drv[d].at \in Node
      BY <1>1 DEF RunNode, FinishMember, Shape, DriverShape, DriverAtFrontier, InSplice
    <2> QED BY <1>1, <2>1, GotoFacts DEF RunNode, FinishMember
  <1>2. CASE UNCHANGED drv
    BY <1>2
  <1>3. CASE Execute \/ LaunchResume \/ ApplyRetryPolicy \/ Crash
    BY <1>3, Typed DEF Execute, LaunchResume, ApplyRetryPolicy, Crash, Goto, Off, DriverRecord
  <1>4. CASE ClaimMember
    <2>1. drv["resume"].pause # 0 /\ member[drv["resume"].pause] = "awaiting"
      BY <1>4 DEF ClaimMember, Shape, DriverShape, DriverSplicing
    <2>2. Goto("resume", "tool")
      BY <1>4, <2>1 DEF ClaimMember
    <2> QED BY <2>2, GotoFacts
  <1>5. CASE PauseMember \/ FailMember \/ Splice \/ CancelSplice
    BY <1>5, Typed DEF PauseMember, FailMember, Splice, CancelSplice, Goto, DriverRecord
  <1>6. ASSUME NEW e \in Driver, FailNode(e) \/ PauseNode(e) \/ SaveInterrupt(e)
        PROVE  drv'[d] = drv[d]
    BY <1>6, Typed DEF FailNode, PauseNode, SaveInterrupt, Goto, DriverRecord
  <1>7. ASSUME NEW e \in Driver, SaveSuperstep(e) \/ SaveCompleted(e) \/ CancelLoop(e)
        PROVE  drv'[d] = drv[d]
    BY <1>7, Typed DEF SaveSuperstep, SaveCompleted, CancelLoop, Goto, DriverRecord
  <1>8. ASSUME NEW e \in Driver, ApplyOutcome(e) PROVE drv'[d] = drv[d]
    BY <1>8, Typed DEF ApplyOutcome, Off, DriverRecord
  <1>9. ASSUME NEW e \in Driver \ {d}, RunNode(e) \/ (FinishMember /\ e = "resume")
        PROVE  drv'[d] = drv[d]
    BY <1>9, GotoFacts DEF RunNode, FinishMember
  <1> QED
    BY <1>1, <1>2, <1>3, <1>4, <1>5, <1>6, <1>7, <1>8, <1>9
       DEF Next, DriverStep, SpliceStep, ClaimRun, Requeue, Restart, vars

\* Where nothing is cancelled, a completed graph is not written again.
LEMMA CompletedStays ==
  ASSUME TypeOK, Shape, [Next]_vars, ~world.cancels,
         NEW g \in Graph, graph[g].status = "completed"
  PROVE  graph'[g].status = "completed"
  <1>1. CASE graph'[g] = graph[g]
    BY <1>1
  <1>2. CASE graph'[g] # graph[g]
    <2>1. PICK d \in Driver : GraphStep(g, d)
      BY <1>2, GraphSteps
    <2>2. DriverShape(d)
      BY DEF Shape
    <2> QED BY <2>1, <2>2
            DEF GraphStep, DriverShape, DriverInLoop, DriverPausing, DriverSplicing, InLoop
  <1> QED BY <1>1, <1>2

\* A run becomes SUCCEEDED through the outcome of a driver.
LEMMA SucceedSteps ==
  ASSUME TypeOK, Shape, [Next]_vars, ~world.cancels, run'.status = "SUCCEEDED"
  PROVE  \/ run.status = "SUCCEEDED"
         \/ \E g \in Graph : graph[g].status = "completed"
  <1>1. CASE \E s \in RunStatus \ {"SUCCEEDED"} : SaveStatus(s)
    BY <1>1, Typed DEF SaveStatus
  <1>2. CASE UNCHANGED run
    BY <1>2
  <1>3. CASE Restart
    BY <1>3, Typed DEF Restart, SaveStatus, SweptStatus
  <1>4. ASSUME NEW d \in Driver, ApplyOutcome(d)
        PROVE  \/ run.status = "SUCCEEDED"
               \/ \E g \in Graph : graph[g].status = "completed"
    <2>1. drv[d].pc \in Outcome /\ drv[d].pc \notin Resting
      BY <1>4 DEF ApplyOutcome, Outcome, Resting
    <2>2. drv[d].id \in Graph /\ DriverInLoop(d)
      BY <2>1, Busy DEF Shape, DriverShape
    <2>3. drv[d].pc = "completed"
      BY <1>4, <2>1, <2>2, Typed DEF ApplyOutcome, OutcomeRun, Outcome, DriverInLoop
    <2> QED BY <2>2, <2>3 DEF DriverInLoop
  <1> QED
    BY <1>1, <1>2, <1>3, <1>4
       DEF Next, DriverStep, SpliceStep, Execute, ApplyRetryPolicy, ClaimRun, LaunchResume,
       Requeue, RunNode, FailNode, PauseNode, SaveInterrupt, SaveSuperstep, SaveCompleted,
       CancelLoop, ClaimMember, FinishMember, PauseMember, FailMember, Splice,
       CancelSplice, Crash, vars, storeVars, envVars, RunStatus

LEMMA WorkBehindInit == Init => WorkBehind
  BY Ranges DEF Init, WorkBehind, Node, Off, NoGraph

LEMMA WorkBehindNext ==
  ASSUME TypeOK, Shape, WorkBehind, [Next]_vars
  PROVE  WorkBehind'
  <1>1. ASSUME NEW g \in Graph, NEW n \in Node, n < graph'[g].at
        PROVE  done'[n] > 0
    <2>1. CASE n < graph[g].at
      BY <2>1, DoneGrows DEF WorkBehind
    <2>2. CASE ~(n < graph[g].at)
      <3>1. graph'[g] # graph[g]
        BY <1>1, <2>2
      <3>2. PICK d \in Driver : GraphStep(g, d)
        BY <3>1, GraphSteps
      <3>3. drv[d].pc \in {"ran", "splice"} /\ drv[d].at = n
        BY <1>1, <2>2, <3>2, Ranges DEF GraphStep, Node
      <3> QED BY <3>3, DoneGrows DEF WorkBehind
    <2> QED BY <2>1, <2>2
  <1>2. ASSUME NEW d \in Driver, drv'[d].pc \in {"ran", "splice"}
        PROVE  done'[drv'[d].at] > 0
    <2>1. CASE drv'[d] = drv[d]
      <3>1. drv[d].at \in Node
        BY <1>2, <2>1 DEF Shape, DriverShape, DriverAtFrontier, InSplice
      <3> QED BY <1>2, <2>1, <3>1, DoneGrows DEF WorkBehind
    <2>2. CASE drv'[d] # drv[d]
      <3>1. done \in [Node -> Nat]
        BY DEF TypeOK
      <3> QED BY <1>2, <2>2, <3>1, RanSteps
    <2> QED BY <2>1, <2>2
  <1>3. ASSUME run'.status = "SUCCEEDED", ~world'.cancels
        PROVE  \E g \in Graph : graph'[g].status = "completed"
    <2>1. ~world.cancels
      BY <1>3 DEF Next, DriverStep, SpliceStep, Execute, ApplyRetryPolicy, ClaimRun,
         LaunchResume, Requeue, RunNode, FailNode, PauseNode, SaveInterrupt, SaveSuperstep,
         SaveCompleted, CancelLoop, ApplyOutcome, ClaimMember, FinishMember, PauseMember,
         FailMember, Splice, CancelSplice, Crash, Restart, vars, envVars
    <2>2. PICK g \in Graph : graph[g].status = "completed"
      BY <1>3, <2>1, SucceedSteps DEF WorkBehind
    <2> QED BY <2>1, <2>2, CompletedStays
  <1> QED BY <1>1, <1>2, <1>3 DEF WorkBehind

\* Where nothing cancels a driver, a run is recorded as SUCCEEDED only when a
\* graph of it has completed and every member has done its work, through
\* pauses, resumes, crashes, retries and reaped drivers.
THEOREM SuccessIsComplete == Spec => []SucceededIfUncancelled
  <1>1. TypeOK /\ Shape /\ WorkBehind => SucceededIfUncancelled
    BY Ranges DEF Shape, GraphsInOrder, WorkBehind, SucceededIfUncancelled,
       SucceededMeansComplete, Node
  <1>2. TypeOK /\ Shape /\ WorkBehind /\ [Next]_vars => WorkBehind'
    BY WorkBehindNext
  <1> QED BY <1>1, <1>2, WorkBehindInit, TypeCorrect, ShapeHolds, PTL DEF Spec

-----------------------------------------------------------------------------
(* How often a member works.                                               *)

\* A driver that may still run nodes of its graph.
Live(d) ==
  \/ drv[d].pc \in InLoop \cup InSplice
  \/ drv[d].pc = "interrupted" /\ drv[d].pause # 0

\* A driver comes to life by an execution, on a graph of its own, or by a
\* resume, on the graph that the run waits with.
LEMMA LiveSteps ==
  ASSUME TypeOK, Shape, [Next]_vars, NEW d \in Driver, Live(d)'
  PROVE  \/ drv'[d].id = graphs + 1 /\ Execute
         \/ drv'[d].id = run.graph /\ run.status = "RESOLVING"
         \/ drv'[d].id = drv[d].id /\ Live(d)
  <1> USE DEF Driver, InLoop, InSplice
  <1>1. CASE UNCHANGED drv
    BY <1>1 DEF Live
  <1>2. CASE Execute
    BY <1>2, Typed DEF Execute, Live
  <1>3. CASE LaunchResume
    BY <1>3, Typed DEF LaunchResume, Live
  <1>4. ASSUME NEW e \in Driver, NEW label, Goto(e, label),
               Live(e) \/ label \in {"off", "failed", "completed"}
        PROVE  drv'[d].id = drv[d].id /\ Live(d)
    BY <1>4, Typed, GotoFacts DEF Live
  <1>5. ASSUME NEW e \in Driver,
               RunNode(e) \/ FailNode(e) \/ SaveInterrupt(e) \/ SaveCompleted(e)
        PROVE  drv'[d].id = drv[d].id /\ Live(d)
    BY <1>5, <1>4 DEF RunNode, FailNode, SaveInterrupt, SaveCompleted, Live
  <1>6. ASSUME NEW e \in Driver, PauseNode(e) \/ SaveSuperstep(e)
        PROVE  drv'[d].id = drv[d].id /\ Live(d)
    BY <1>6, Typed DEF PauseNode, SaveSuperstep, Live, DriverRecord
  <1>7. ASSUME NEW e \in Driver, CancelLoop(e)
        PROVE  drv'[d].id = drv[d].id /\ Live(d)
    BY <1>7, Typed DEF CancelLoop, Live, DriverRecord
  <1>8. ASSUME NEW e \in Driver, ApplyOutcome(e)
        PROVE  drv'[d].id = drv[d].id /\ Live(d)
    BY <1>8, Typed DEF ApplyOutcome, Live, Off, DriverRecord
  <1>9. CASE ClaimMember
    BY <1>9, <1>4, Typed DEF ClaimMember, Live, Off, DriverRecord
  <1>10. CASE FinishMember \/ FailMember \/ CancelSplice \/ ApplyRetryPolicy
    BY <1>10, <1>4 DEF FinishMember, FailMember, CancelSplice, ApplyRetryPolicy, Live
  <1>11. CASE PauseMember \/ Splice
    BY <1>11, Typed DEF PauseMember, Splice, Live, DriverRecord
  <1>12. CASE Crash
    BY <1>12 DEF Crash, Live, Off
  <1> QED
    BY <1>1, <1>2, <1>3, <1>5, <1>6, <1>7, <1>8, <1>9, <1>10, <1>11, <1>12
       DEF Next, DriverStep, SpliceStep, ClaimRun, Requeue, Restart, vars

\* A graph that may still be run was so before, or is the graph of an
\* execution that begins.
LEMMA AliveSteps ==
  ASSUME TypeOK, Shape, [Next]_vars, NEW g \in Graph, Alive(g)'
  PROVE  Alive(g) \/ (Execute /\ g = graphs + 1)
  <1>1. CASE \E d \in Driver : drv'[d].id = g /\ Live(d)'
    BY <1>1, LiveSteps DEF Alive, Live, Waiting
  <1>2. CASE run'.graph = g /\ run'.status \in Waiting
    <2>1. CASE run'.graph = run.graph /\ run.status \in Waiting
      BY <1>2, <2>1 DEF Alive
    <2>2. ASSUME NEW d \in Driver, ApplyOutcome(d) PROVE Alive(g)
      <3>1. \/ run'.graph = drv[d].id /\ drv[d].pc = "interrupted" /\ drv[d].pause # 0
            \/ run'.status \in {"FAILED", "SUCCEEDED"}
        BY <2>2, Typed DEF ApplyOutcome, OutcomeRun
      <3> QED BY <1>2, <3>1 DEF Alive, Waiting
    <2>3. \/ run'.graph = run.graph /\ run.status \in Waiting
          \/ \E d \in Driver : ApplyOutcome(d)
      BY <1>2, Typed
         DEF Next, DriverStep, SpliceStep, Execute, ApplyRetryPolicy, ClaimRun, Claimable,
         LaunchResume, Requeue, RunNode, FailNode, PauseNode, SaveInterrupt, SaveSuperstep,
         SaveCompleted, CancelLoop, ClaimMember, FinishMember, PauseMember, FailMember,
         Splice, CancelSplice, Crash, Restart, SweptStatus, SaveStatus, vars, storeVars,
         envVars, Waiting
    <2> QED BY <2>1, <2>2, <2>3
  <1> QED BY <1>1, <1>2 DEF Alive, Live

\* A work that is held as done on a graph that may still be run stays done
\* there, or the graph has gone on.
LEMMA DoneThereSteps ==
  ASSUME TypeOK, Shape, [Next]_vars, NEW g \in Graph, NEW n \in Node,
         DoneThere(g, n), Alive(g)', graph'[g].at <= n
  PROVE  DoneThere(g, n)'
  <1> USE DEF Driver
  <1>1. PICK d \in Driver : drv[d].id = g /\ drv[d].pc \in {"ran", "splice"} /\ drv[d].at = n
    BY DEF DoneThere
  <1>2. graph[g].at = n /\ g # 0 /\ n \in Nat /\ up
    BY <1>1, Busy, Typed, Ranges DEF Resting, Node, Graph
  <1>3. SUFFICES ASSUME drv'[d] # drv[d] PROVE FALSE
    BY <1>1 DEF DoneThere
  <1>4. \A e \in Driver \ {d} : drv[e].id # g
    BY <1>1, <1>2, Apart
  <1>5. ~(run.graph = g /\ run.status \in Waiting)
    BY <1>1 DEF Shape, RunWaits
  <1>6. CASE SaveSuperstep(d) \/ (Splice /\ d = "resume")
    BY <1>1, <1>2, <1>6, SaveGraphFacts DEF SaveSuperstep, Splice, SpliceNext
  <1>7. ASSUME ~Live(d)', UNCHANGED run, \A e \in Driver \ {d} : drv'[e].id = drv[e].id \/ ~Live(e)'
        PROVE  FALSE
    BY <1>4, <1>5, <1>7 DEF Alive, Live
  <1>8. CASE CancelLoop(d)
    <2>1. ~Live(d)' /\ \A e \in Driver \ {d} : drv'[e] = drv[e]
      BY <1>8, Typed DEF CancelLoop, Live, DriverRecord, InLoop, InSplice
    <2> QED BY <1>7, <1>8, <2>1 DEF CancelLoop
  <1>9. CASE CancelSplice /\ d = "resume"
    <2>1. ~Live(d)' /\ \A e \in Driver \ {d} : drv'[e] = drv[e]
      BY <1>9, GotoFacts DEF CancelSplice, Live, InLoop, InSplice
    <2> QED BY <1>7, <1>9, <2>1 DEF CancelSplice, storeVars
  <1>10. CASE Crash
    <2>1. \A e \in Driver : ~Live(e)'
      BY <1>10 DEF Crash, Live, Off, InLoop, InSplice
    <2> QED BY <1>7, <1>10, <2>1 DEF Crash, storeVars
  <1>11. \/ SaveSuperstep(d) \/ (Splice /\ d = "resume") \/ CancelLoop(d)
         \/ (CancelSplice /\ d = "resume") \/ Crash
    <2>1. ASSUME NEW e \in Driver, DriverStep(e) PROVE e = d
      BY <1>3, <2>1, Typed
         DEF DriverStep, RunNode, FailNode, PauseNode, SaveInterrupt, SaveSuperstep,
         SaveCompleted, CancelLoop, ApplyOutcome, Goto
    <2>2. CASE DriverStep(d)
      BY <1>1, <2>2
         DEF DriverStep, RunNode, FailNode, PauseNode, SaveInterrupt, SaveCompleted,
         ApplyOutcome, Outcome
    <2>3. CASE Execute \/ ApplyRetryPolicy \/ LaunchResume
      BY <1>1, <1>3, <2>3, Typed DEF Execute, ApplyRetryPolicy, LaunchResume, Goto
    <2>4. CASE SpliceStep
      <3>1. d = "resume"
        BY <1>3, <2>4, Typed
           DEF SpliceStep, ClaimMember, FinishMember, PauseMember, FailMember, Splice,
           CancelSplice, Goto
      <3> QED BY <1>1, <2>4, <3>1
              DEF SpliceStep, ClaimMember, FinishMember, PauseMember, FailMember
    <2> QED BY <1>3, <2>1, <2>2, <2>3, <2>4 DEF Next, ClaimRun, Requeue, Restart, vars
  <1> QED BY <1>6, <1>8, <1>9, <1>10, <1>11

\* No step but an execution makes work possible, and it makes one work of each
\* member possible.
LEMMA OpenSteps ==
  ASSUME TypeOK, Shape, [Next]_vars, NEW n \in Node
  PROVE  /\ ~Execute => graphs' = graphs /\ Open(n)' \subseteq Open(n)
         /\ Execute => graphs' = graphs + 1 /\ Open(n)' \subseteq Open(n) \cup {graphs + 1}
  <1>1. graphs \in Nat /\ graphs' \in 0..MaxGraphs
    BY Typed, TypeNext DEF TypeOK
  <1>2. IF Execute THEN graphs' = graphs + 1 ELSE graphs' = graphs
    BY DEF Next, DriverStep, SpliceStep, Execute, ApplyRetryPolicy, ClaimRun,
       LaunchResume, Requeue, RunNode, FailNode, PauseNode, SaveInterrupt, SaveSuperstep,
       SaveCompleted, CancelLoop, ApplyOutcome, ClaimMember, FinishMember, PauseMember,
       FailMember, Splice, CancelSplice, Crash, Restart, vars
  <1>3. ASSUME NEW g \in Open(n)', ~(Execute /\ g = graphs + 1) PROVE g \in Open(n)
    <2>1. g \in 1..graphs' /\ Alive(g)' /\ n >= graph'[g].at /\ ~DoneThere(g, n)'
      BY DEF Open
    <2>2. g \in 1..graphs /\ g \in Graph
      BY <1>1, <1>2, <1>3, <2>1, Ranges DEF Graph
    <2>3. Alive(g) /\ n >= graph[g].at
      BY <1>3, <2>1, <2>2, AliveSteps, GraphsGrow, Ranges DEF Node
    <2>4. ~DoneThere(g, n)
      BY <2>1, <2>2, DoneThereSteps, GraphsGrow, Ranges DEF Node
    <2> QED BY <2>2, <2>3, <2>4 DEF Open
  <1> QED BY <1>2, <1>3

\* A work that is done was possible, on a graph on which it is not any more.
LEMMA WorkSteps ==
  ASSUME TypeOK, Shape, [Next]_vars, NEW n \in Node, done'[n] # done[n]
  PROVE  /\ done'[n] = done[n] + 1 /\ graphs' = graphs
         /\ \E g \in Open(n) : g \notin Open(n)'
  <1>1. PICK d \in Driver :
           /\ drv[d].pc \in {"loop", "tool"} /\ drv[d].at \in Node
           /\ done' = [done EXCEPT ![drv[d].at] = @ + 1]
           /\ drv'[d].pc \in {"ran", "splice"}
           /\ drv'[d].at = drv[d].at /\ drv'[d].id = drv[d].id
           /\ \A e \in Driver \ {d} : drv'[e] = drv[e]
           /\ UNCHANGED <<run, graph, graphs, world>>
    BY DoneSteps
  <1>2. done \in [Node -> Nat]
    BY DEF TypeOK
  <1>3. drv[d].at = n /\ done'[n] = done[n] + 1
    BY <1>1, <1>2
  <1>4. drv[d].id \in 1..graphs /\ graph[drv[d].id].at = n /\ drv[d].id # 0
    BY <1>1, <1>3, Busy, Typed DEF Resting, Graph
  <1>5. Alive(drv[d].id)
    BY <1>1 DEF Alive, InLoop, InSplice
  <1>6. ~DoneThere(drv[d].id, n)
    BY <1>1, <1>4, Apart DEF DoneThere
  <1>7. drv[d].id \in Open(n)
    BY <1>4, <1>5, <1>6, Ranges DEF Open, Node
  <1>8. drv[d].id \notin Open(n)'
    BY <1>1, <1>3 DEF Open, DoneThere
  <1> QED BY <1>1, <1>3, <1>7, <1>8

LEMMA OpenFinite ==
  ASSUME TypeOK, NEW n \in Node
  PROVE  IsFiniteSet(Open(n)) /\ Cardinality(Open(n)) \in Nat
  <1>1. IsFiniteSet(1..graphs)
    BY Typed, FS_Interval
  <1> QED BY <1>1, FS_Subset, FS_CardinalityType DEF Open

LEMMA WorkAccountedInit == Init => WorkAccounted
  <1> SUFFICES ASSUME Init PROVE WorkAccounted
    OBVIOUS
  <1>1. ASSUME NEW n \in Node PROVE Open(n) = {}
    BY DEF Init, Open
  <1> QED BY <1>1, FS_EmptySet DEF Init, WorkAccounted

LEMMA WorkAccountedNext ==
  ASSUME TypeOK, Shape, WorkAccounted, [Next]_vars
  PROVE  WorkAccounted'
  <1> SUFFICES ASSUME NEW n \in Node
               PROVE  done'[n] + Cardinality(Open(n)') <= graphs'
    BY DEF WorkAccounted
  <1>1. IsFiniteSet(Open(n)) /\ Cardinality(Open(n)) \in Nat
    BY OpenFinite
  <1>2. done[n] \in Nat /\ graphs \in Nat /\ done[n] + Cardinality(Open(n)) <= graphs
    BY DoneGrows, Typed DEF WorkAccounted
  <1>3. CASE Execute
    <2>1. done'[n] = done[n] /\ graphs' = graphs + 1
      BY <1>3 DEF Execute
    <2>2. /\ IsFiniteSet(Open(n) \cup {graphs + 1})
          /\ Cardinality(Open(n) \cup {graphs + 1}) \in Nat
          /\ Cardinality(Open(n) \cup {graphs + 1}) <= Cardinality(Open(n)) + 1
      BY <1>1, FS_AddElement
    <2>3. Cardinality(Open(n)') \in Nat /\ Cardinality(Open(n)') <= Cardinality(Open(n)) + 1
      BY <1>1, <1>3, <2>2, OpenSteps, FS_Subset, FS_CardinalityType
    <2> QED BY <1>1, <1>2, <2>1, <2>3
  <1>4. CASE ~Execute /\ done'[n] = done[n]
    <2>1. Cardinality(Open(n)') \in Nat /\ Cardinality(Open(n)') <= Cardinality(Open(n))
      BY <1>1, <1>4, OpenSteps, FS_Subset, FS_CardinalityType
    <2> QED BY <1>1, <1>2, <1>4, <2>1, OpenSteps
  <1>5. CASE ~Execute /\ done'[n] # done[n]
    <2>1. PICK g \in Open(n) : g \notin Open(n)'
      BY <1>5, WorkSteps
    <2>2. Open(n)' \subseteq Open(n) \ {g}
      BY <1>5, <2>1, OpenSteps
    <2>3. /\ IsFiniteSet(Open(n) \ {g})
          /\ Cardinality(Open(n) \ {g}) = Cardinality(Open(n)) - 1
      BY <1>1, <2>1, FS_RemoveElement
    <2>4. Cardinality(Open(n)') \in Nat /\ Cardinality(Open(n)') <= Cardinality(Open(n)) - 1
      BY <2>2, <2>3, FS_Subset, FS_CardinalityType
    <2> QED BY <1>1, <1>2, <1>5, <2>4, WorkSteps
  <1> QED BY <1>3, <1>4, <1>5

\* A member of an inline run does its work at most once, and with the
\* dispatcher at most once per execution, whatever is cancelled, crashes, is
\* resumed or is reaped in between.
THEOREM MembersWorkOnce == Spec => []MemberWorksOnce
  <1>1. TypeOK /\ Shape /\ WorkAccounted => MemberWorksOnce
    <2> SUFFICES ASSUME TypeOK, Shape, WorkAccounted, NEW n \in Node
                 PROVE  done[n] <= IF Dispatch THEN graphs ELSE 1
      BY DEF MemberWorksOnce
    <2>1. done[n] \in Nat /\ graphs \in Nat /\ Cardinality(Open(n)) \in Nat
      BY Typed, OpenFinite DEF TypeOK
    <2>2. done[n] <= graphs
      BY <2>1 DEF WorkAccounted
    <2> QED BY <2>1, <2>2 DEF Shape, InlineOnce
  <1>2. TypeOK /\ Shape /\ WorkAccounted /\ [Next]_vars => WorkAccounted'
    BY WorkAccountedNext
  <1> QED BY <1>1, <1>2, WorkAccountedInit, TypeCorrect, ShapeHolds, PTL DEF Spec

=============================================================================
