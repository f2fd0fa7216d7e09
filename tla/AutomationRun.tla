--------------------------- MODULE AutomationRun ---------------------------
(***************************************************************************)
(* One automation run (memory/automation-lite.ts over                      *)
(* store/lite-automation-run-store.ts): the walk over the graph, approval  *)
(* and repair pauses, cancel, resume, and the process dying between any    *)
(* two writes.  Every row update commits by itself; the walker gives up    *)
(* the JavaScript thread only while it awaits a playbook replay.           *)
(***************************************************************************)
EXTENDS Naturals, Sequences, FiniteSets

CONSTANTS
  Nodes,
  Graphs,         \* stored graphs: [order, deps, kind], order topological
  MaxCancels, MaxCrashes, ReplayMayThrow

ASSUME AutomationConstants ==
  /\ MaxCancels \in Nat /\ MaxCrashes \in Nat /\ ReplayMayThrow \in BOOLEAN

VARIABLES
  graph, shadow,       \* of the run: its version's graph, execution_mode
  run,                 \* the lite_automation_runs row
  nodes,               \* its lite_automation_run_nodes rows
  pc, at, resumed,     \* the walker: step, index in the order, resumeReason
  ending,              \* the run update the walker is about to write
  thread,              \* who runs on the JavaScript thread
  resumes, cancels, crashes  \* history and bounds; cancels that were answered

vars == <<graph, shadow, run, nodes, pc, at, resumed, ending, thread,
          resumes, cancels, crashes>>
walker == <<pc, at, resumed, ending>>
setup == <<graph, shadow>>
counts == <<resumes, cancels, crashes>>

NoGraph == [order |-> <<>>, deps |-> [n \in Nodes |-> {}],
            kind |-> [n \in Nodes |-> "none"]]
NoRun == [life |-> "none", pause |-> "none", outcome |-> "none"]
NodeRow(life, pause, outcome) == [life |-> life, pause |-> pause, outcome |-> outcome]

Init ==
  /\ graph = NoGraph /\ shadow = FALSE
  /\ run = NoRun
  /\ nodes = [n \in Nodes |-> NodeRow("none", "none", "none")]
  /\ pc = "idle" /\ at = 0 /\ resumed = FALSE /\ ending = NoRun
  /\ thread = "free"
  /\ resumes = 0 /\ cancels = 0 /\ crashes = 0

InGraph(n) == \E k \in 1..Len(graph.order) : graph.order[k] = n
Here == graph.order[at]

\* automationRunLite() up to the walk: createRun() in one transaction.
CreateRun(g, s) ==
  /\ thread = "free" /\ run.life = "none"
  /\ graph' = g /\ shadow' = s
  /\ run' = [run EXCEPT !.life = "queued"]
  /\ nodes' = [n \in Nodes |->
       IF \E k \in 1..Len(g.order) : g.order[k] = n
       THEN NodeRow(IF g.deps[n] = {} THEN "ready" ELSE "pending", "none", "none")
       ELSE nodes[n]]
  /\ thread' = "walker" /\ pc' = "begin" /\ resumed' = FALSE
  /\ UNCHANGED <<at, ending, counts>>

\* continueAutomationRun() marks the run as running.
Begin ==
  /\ thread = "walker" /\ pc = "begin"
  /\ run' = [life |-> "running", pause |-> "none", outcome |-> "none"]
  /\ pc' = "step" /\ at' = 1
  /\ UNCHANGED <<setup, nodes, resumed, ending, thread, counts>>

AtNode == thread = "walker" /\ pc = "step" /\ at <= Len(graph.order)

\* The node is already terminal, whatever its outcome: next one.
SkipTerminal ==
  /\ AtNode /\ nodes[Here].life = "terminal"
  /\ at' = at + 1
  /\ UNCHANGED <<setup, run, nodes, pc, resumed, ending, thread, counts>>

\* Every approval node is approved once the run was resumed (a mutation of
\* IsApproved).
IsApprovedAny(n) == graph.kind[n] = "approval" /\ resumed

\* The resumed run approves the node it paused on.
IsApproved(n) ==
  /\ nodes[n].life = "paused" /\ nodes[n].pause = "approval_required"
  /\ resumed

ApprovePaused ==
  /\ AtNode /\ nodes[Here].life # "terminal" /\ IsApproved(Here)
  /\ nodes' = [nodes EXCEPT ![Here] = NodeRow("terminal", "none", "succeeded")]
  /\ at' = at + 1
  /\ UNCHANGED <<setup, run, pc, resumed, ending, thread, counts>>

\* The walker trusts the nodes it read before the await (a mutation of
\* StartNode).
StartNodeUnread ==
  /\ AtNode
  /\ nodes[Here].life # "terminal" \/ nodes[Here].outcome = "rejected"
  /\ ~IsApproved(Here)
  /\ nodes' = [nodes EXCEPT ![Here].life = "running", ![Here].pause = "none"]
  /\ IF graph.kind[Here] = "playbook"
     THEN pc' = "await" /\ thread' = "free"
     ELSE pc' = "work" /\ UNCHANGED thread
  /\ UNCHANGED <<setup, run, at, resumed, ending, counts>>

\* Mark the node as running; a playbook node goes on to await its replay.
StartNode ==
  /\ AtNode /\ nodes[Here].life # "terminal" /\ ~IsApproved(Here)
  /\ nodes' = [nodes EXCEPT ![Here].life = "running", ![Here].pause = "none"]
  /\ IF graph.kind[Here] = "playbook"
     THEN pc' = "await" /\ thread' = "free"
     ELSE pc' = "work" /\ UNCHANGED thread
  /\ UNCHANGED <<setup, run, at, resumed, ending, counts>>

\* The node succeeded: on to the next one.
NodeSucceeds ==
  /\ nodes' = [nodes EXCEPT ![Here].life = "terminal", ![Here].outcome = "succeeded"]
  /\ pc' = "step" /\ at' = at + 1
  /\ UNCHANGED ending

\* The node pauses or fails: its row first, then the run's, then return.
NodeStops(life, pause, outcome, runOutcome) ==
  /\ nodes' = [nodes EXCEPT ![Here] =
                 NodeRow(life, pause, IF outcome = "none" THEN @.outcome ELSE outcome)]
  /\ ending' = [life |-> life, pause |-> pause, outcome |-> runOutcome]
  /\ pc' = "close"
  /\ UNCHANGED at

\* The walk goes on behind a node that failed (a mutation of NodeFails).
NodeFailsOnly ==
  /\ nodes' = [nodes EXCEPT ![Here].life = "terminal", ![Here].outcome = "failed"]
  /\ pc' = "step" /\ at' = at + 1
  /\ UNCHANGED ending

NodeFails == NodeStops("terminal", "none", "failed", "failed")

PauseForApproval == NodeStops("paused", "approval_required", "none", "none")

DecideApproval ==
  /\ thread = "walker" /\ pc = "work" /\ graph.kind[Here] = "approval"
  /\ \/ shadow /\ NodeSucceeds
     \/ ~shadow /\ PauseForApproval
  /\ UNCHANGED <<setup, run, resumed, thread, counts>>

\* A condition node or an artifact gate, on inputs of either kind.
DecideCheck ==
  /\ thread = "walker" /\ pc = "work" /\ graph.kind[Here] = "check"
  /\ NodeSucceeds \/ NodeFails
  /\ UNCHANGED <<setup, run, resumed, thread, counts>>

\* The await returns: success, partial (guided repair), or anything else.
ReplayReturns ==
  /\ pc = "await" /\ thread = "free"
  /\ \/ NodeSucceeds
     \/ NodeStops("paused", "repair_required", "none", "none")
     \/ NodeFails
  /\ thread' = "walker"
  /\ UNCHANGED <<setup, run, resumed, counts>>

\* replayRunner throws, say because the playbook is gone: the error leaves the
\* walker and no row is touched.
ReplayThrows ==
  /\ ReplayMayThrow /\ pc = "await" /\ thread = "free"
  /\ pc' = "idle"
  /\ UNCHANGED <<setup, run, nodes, at, resumed, ending, thread, counts>>

\* The patch has no lifecycle_state (a mutation of CloseRun).
CloseRunHalf ==
  /\ thread = "walker" /\ pc = "close"
  /\ run' = [run EXCEPT !.pause = ending.pause]
  /\ pc' = "idle" /\ thread' = "free"
  /\ UNCHANGED <<setup, nodes, at, resumed, ending, counts>>

\* Write the run row for the pause or failure and return.  A pause patch has
\* no terminal_outcome and leaves the stored one alone.
CloseRun ==
  /\ thread = "walker" /\ pc = "close"
  /\ run' = [ending EXCEPT !.outcome =
               IF ending.outcome = "none" THEN run.outcome ELSE ending.outcome]
  /\ pc' = "idle" /\ thread' = "free"
  /\ UNCHANGED <<setup, nodes, at, resumed, ending, counts>>

\* The loop is through: the run succeeded.
FinishRun ==
  /\ thread = "walker" /\ pc = "step" /\ at > Len(graph.order)
  /\ run' = [run EXCEPT !.life = "terminal", !.outcome = "succeeded"]
  /\ pc' = "idle" /\ thread' = "free"
  /\ UNCHANGED <<setup, nodes, at, resumed, ending, counts>>

Open(n) == InGraph(n) /\ nodes[n].life # "terminal"

\* automationRunCancelLite(): 409 on a terminal run, else it keeps the thread
\* until the run is cancelled.
CancelBegins ==
  /\ thread = "free" /\ cancels < MaxCancels
  /\ run.life \notin {"none", "terminal"}
  /\ thread' = "canceller"
  /\ UNCHANGED <<setup, run, nodes, walker, counts>>

\* Every open node is rejected by an update of its own, in the order of the
\* node ids, which tells nothing of the graph: any order.  The pause reason of
\* a rejected node stays.
CancelNode(n) ==
  /\ thread = "canceller" /\ Open(n)
  /\ nodes' = [nodes EXCEPT ![n].life = "terminal", ![n].outcome = "rejected"]
  /\ UNCHANGED <<setup, run, walker, thread, counts>>

\* No node is left open: the run is cancelled, and the cancel answered.
CancelRun ==
  /\ thread = "canceller" /\ \A n \in Nodes : ~Open(n)
  /\ run' = [life |-> "terminal", pause |-> "none", outcome |-> "cancelled"]
  /\ thread' = "free" /\ cancels' = cancels + 1
  /\ UNCHANGED <<setup, nodes, walker, resumes, crashes>>

CancelStep == CancelRun \/ \E n \in Nodes : CancelNode(n)

MayResume == run.life = "paused" /\ run.pause = "approval_required"

\* automationRunResumeLite(): walk the graph of the run's own version again.
Resume ==
  /\ thread = "free" /\ MayResume
  /\ thread' = "walker" /\ pc' = "begin" /\ resumed' = TRUE
  /\ resumes' = resumes + 1
  /\ UNCHANGED <<setup, run, nodes, at, ending, cancels, crashes>>

\* The process dies; the rows stay, and nothing picks the run up again.
Crash ==
  /\ crashes < MaxCrashes /\ run.life # "none"
  /\ pc' = "idle" /\ at' = 0 /\ resumed' = FALSE /\ ending' = NoRun
  /\ thread' = "free" /\ crashes' = crashes + 1
  /\ UNCHANGED <<setup, run, nodes, resumes, cancels>>

WalkerStep ==
  \/ Begin \/ SkipTerminal \/ ApprovePaused \/ StartNode
  \/ DecideApproval \/ DecideCheck \/ CloseRun \/ FinishRun

Next ==
  \/ \E g \in Graphs, s \in BOOLEAN : CreateRun(g, s)
  \/ WalkerStep \/ ReplayReturns \/ ReplayThrows
  \/ CancelBegins \/ CancelStep \/ Resume \/ Crash

Spec == Init /\ [][Next]_vars

\* Synchronous code runs on; a replay comes back.
Fairness == WF_vars(WalkerStep) /\ WF_vars(ReplayReturns) /\ WF_vars(CancelStep)

LiveSpec == Spec /\ Fairness

----------------------------------------------------------------------------
\* A node starts only when every node it depends on has succeeded, whatever
\* pauses, resumes, cancels and crashes came before.  A crash that cuts a cancel
\* of a paused run short leaves the run resumable, and the walk then passes the
\* nodes the cancel had rejected: only such a node may stand before it instead.
StartsAfterDependencies ==
  [][\A n \in Nodes :
       nodes[n].life # "running" /\ nodes'[n].life = "running" =>
         \A d \in graph.deps[n] :
           \/ nodes[d].outcome = "succeeded"
           \/ nodes[d].outcome = "rejected" /\ cancels = 0 /\ crashes > 0]_vars

\* Outside shadow mode no approval node succeeds without a resume of its own.
ApprovalsAreGiven ==
  LET approved == {n \in Nodes : /\ graph.kind[n] = "approval"
                                 /\ nodes[n].outcome = "succeeded"}
  IN  shadow \/ Cardinality(approved) <= resumes

\* While a cancel is at work and once it was answered nothing new is started,
\* not even by a walker that was awaiting a replay at the time.  A cancel that a
\* crash cut short was not answered.
NothingStartsAfterCancel ==
  [][\A n \in Nodes :
       (cancels > 0 \/ thread = "canceller") /\ nodes[n].life # "running"
         => nodes'[n].life # "running"]_vars

\* What docs/LOCAL_RUNTIME_API_CAPABILITY_MATRIX.md says of cancel, "Cancel a
\* paused or active run": once cancelled, the run stays so.
CancelledStaysCancelled ==
  [][run.outcome = "cancelled" => run'.outcome = "cancelled"]_vars

\* The walker left its node's row as running: its replay threw.
ReplayThrew == pc = "idle" /\ at > 0 /\ nodes[Here].life = "running"

\* Every walk ends in a run that is terminal or paused, unless its replay threw
\* or the process died: then the row says running until somebody cancels it.
RunSettles ==
  pc # "idle" ~> run.life \in {"paused", "terminal"} \/ ReplayThrew \/ crashes > 0
============================================================================
