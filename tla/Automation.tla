----------------------------- MODULE Automation -----------------------------
(***************************************************************************)
(* An automation and its run: the version rows of AutomationDefinitions    *)
(* and the walk of AutomationRun share the JavaScript thread and the       *)
(* process.  A graph is stored only if AutomationGraph finds it valid; a   *)
(* run is created from a stored version and walks it in the order that     *)
(* validation computes; new versions arrive while it is paused or awaits a *)
(* replay.                                                                 *)
(***************************************************************************)
EXTENDS AutomationRun, AutomationGraph

CONSTANTS
  Drafts,       \* graphs that are sent to be validated only
  Submitted,    \* graphs that are sent to be created, with the kind of each node
  MaxVersion

ASSUME VersionsBounded == MaxVersion \in Nat \ {0}

ASSUME GraphsAreWellFormed ==
  /\ \A g \in Drafts \cup Submitted : WellFormed(g)
  /\ \A g \in Submitted : NodeIds(g) \subseteq Nodes

VARIABLES latest, status, versions, writing, runs,
          answer  \* what automationValidateLite is about to answer

D == INSTANCE AutomationDefinitions WITH Runs <- {"run"}, NoVersion <- NoGraph

defVars == <<latest, status, versions, writing, runs>>
allVars == <<vars, defVars, answer>>

NoAnswer == [draft |-> <<>>, valid |-> FALSE, order |-> <<>>]

AutomationInit == Init /\ D!DefInit /\ answer = NoAnswer

\* automationValidateLite(): reads no row, so it is tried only before anything
\* is stored (a bound).
Validate ==
  /\ answer = NoAnswer /\ thread = "free" /\ run.life = "none" /\ crashes = 0
  /\ latest = 0 /\ writing = D!Idle
  /\ \A v \in 1..MaxVersion : versions[v] = NoGraph
  /\ \E g \in Drafts :
       answer' = [draft |-> g, valid |-> IsValid(g), order |-> Order(g)]
  /\ UNCHANGED <<vars, defVars>>

Respond == answer # NoAnswer /\ answer' = NoAnswer /\ UNCHANGED <<vars, defVars>>

\* A submitted graph as a run walks it.
Walked(g) ==
  [order |-> Order(g),
   deps |-> [n \in Nodes |-> {e[1] : e \in {e \in DOMAIN g.edges : e[2] = n}}],
   kind |-> g.kind]

\* automationCreateLite(): validation throws, or the two writes follow each
\* other on the thread.
CreateDefinition ==
  /\ thread = "free" /\ answer = NoAnswer
  /\ \/ \E g \in Submitted, s \in D!Statuses :
           IsValid(g) /\ D!InsertVersion(Walked(g), s)
     \/ D!UpsertDefinition
  /\ UNCHANGED <<vars, answer>>

\* automationRunLite(): load a version, create the run from its graph.
RunVersion ==
  /\ answer = NoAnswer
  /\ \E v \in 1..MaxVersion, byVersion, dry \in BOOLEAN :
       D!PinVersion("run", v, byVersion) /\ CreateRun(versions[v], dry)
  /\ UNCHANGED answer

\* The walker, a cancel or a resume, which loads the run's own version.
RunSteps ==
  /\ writing = D!Idle
  /\ WalkerStep \/ ReplayReturns \/ ReplayThrows \/ CancelBegins \/ CancelStep \/ Resume
  /\ UNCHANGED <<defVars, answer>>

\* The process dies, at whatever point both parts have reached.
ProcessDies ==
  /\ Crash \/ (run.life = "none" /\ UNCHANGED vars)
  /\ \/ D!DieWriting
     \/ writing = D!Idle /\ run.life # "none" /\ UNCHANGED defVars
  /\ UNCHANGED answer

AutomationNext ==
  Validate \/ Respond \/ CreateDefinition \/ RunVersion \/ RunSteps \/ ProcessDies

AutomationSpec == AutomationInit /\ [][AutomationNext]_allVars

\* Synchronous code runs on; a replay comes back.
AutomationFairness ==
  /\ WF_allVars(WalkerStep /\ UNCHANGED <<defVars, answer>>)
  /\ WF_allVars(ReplayReturns /\ writing = D!Idle /\ UNCHANGED <<defVars, answer>>)
  /\ WF_allVars(CancelStep /\ UNCHANGED <<defVars, answer>>)
  /\ WF_allVars(D!UpsertDefinition /\ UNCHANGED <<vars, answer>>)

LiveAutomation == AutomationSpec /\ AutomationFairness

----------------------------------------------------------------------------
\* Validation accepts a graph exactly when no node occurs twice, no edge or
\* binding is out of place and there is no cycle, by a reference definition;
\* and the order it then gives puts every node after all it depends on.
ValidationIsRight ==
  answer # NoAnswer =>
    /\ answer.valid = IsSound(answer.draft)
    /\ answer.valid => OrderFits(answer.draft, answer.order)

\* A run resumes the very graph its node rows were made from, however many
\* versions, or crashed attempts at one, were created while it was paused.
ResumedGraphIsTheSame ==
  run.life # "none" => graph = versions[runs["run"].version]
=============================================================================
