----------------------- MODULE AutomationDefinitions -----------------------
(***************************************************************************)
(* Versions of one automation (store/lite-automation-store.ts) and the     *)
(* runs that load them (memory/automation-lite.ts).  createDefinition()    *)
(* writes the version row and the definition row without a transaction, so *)
(* the process may die in between.                                         *)
(***************************************************************************)
EXTENDS Naturals

CONSTANTS Graphs, Runs, MaxVersion, NoVersion

VARIABLES
  latest,    \* lite_automation_defs.latest_version, 0 without a row
  status,    \* lite_automation_defs.status
  versions,  \* lite_automation_versions: the graph of each version
  writing,   \* the createDefinition() between its two writes
  runs       \* the version a run was created with, and the graph of its nodes

defVars == <<latest, status, versions, writing, runs>>

Idle == [version |-> 0, status |-> "none"]
NotCreated == [version |-> 0, graph |-> NoVersion]
Statuses == {"active", "disabled"}

DefInit ==
  /\ latest = 0 /\ status = "none"
  /\ versions = [v \in 1..MaxVersion |-> NoVersion]
  /\ writing = Idle
  /\ runs = [r \in Runs |-> NotCreated]

\* The version row is replaced if it exists (a mutation of InsertVersion).
InsertOrReplaceVersion(g, s) ==
  LET v == latest + 1
  IN  /\ writing = Idle /\ v <= MaxVersion
      /\ versions' = [versions EXCEPT ![v] = g]
      /\ writing' = [version |-> v, status |-> s]
      /\ UNCHANGED <<latest, status, runs>>

\* createDefinition(): the version after the latest.  If the row exists, as
\* after a crash, the INSERT throws and nothing changes.
InsertVersion(g, s) ==
  LET v == latest + 1
  IN  /\ writing = Idle /\ v <= MaxVersion
      /\ versions[v] = NoVersion
      /\ versions' = [versions EXCEPT ![v] = g]
      /\ writing' = [version |-> v, status |-> s]
      /\ UNCHANGED <<latest, status, runs>>

UpsertDefinition ==
  /\ writing # Idle
  /\ latest' = writing.version /\ status' = writing.status
  /\ writing' = Idle
  /\ UNCHANGED <<versions, runs>>

\* getDefinition() finds both rows; a disabled automation runs only when the
\* caller names a version.
Runnable(v, byVersion) ==
  versions[v] # NoVersion /\ (byVersion \/ status # "disabled")

\* automationRunLite(): pin the version and copy its graph into the node rows.
PinVersion(r, v, byVersion) ==
  /\ writing = Idle /\ runs[r] = NotCreated
  /\ latest # 0 /\ (byVersion \/ v = latest)
  /\ Runnable(v, byVersion)
  /\ runs' = [runs EXCEPT ![r] = [version |-> v, graph |-> versions[v]]]
  /\ UNCHANGED <<latest, status, versions, writing>>

\* The process dies between the two rows.
DieWriting ==
  /\ writing # Idle
  /\ writing' = Idle
  /\ UNCHANGED <<latest, status, versions, runs>>

DefNext ==
  \/ \E g \in Graphs, s \in Statuses : InsertVersion(g, s)
  \/ UpsertDefinition \/ DieWriting
  \/ \E r \in Runs, v \in 1..MaxVersion, byVersion \in BOOLEAN :
       PinVersion(r, v, byVersion)

DefSpec == DefInit /\ [][DefNext]_defVars

----------------------------------------------------------------------------
\* A run paused on version v resumes the very graph its node rows were made
\* from, however many versions, or crashed attempts at one, came since.
ResumedGraphIsTheSame ==
  \A r \in Runs : runs[r] # NotCreated => versions[runs[r].version] = runs[r].graph
============================================================================
