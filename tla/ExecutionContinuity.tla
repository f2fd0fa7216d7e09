------------------------- MODULE ExecutionContinuity -------------------------
(***************************************************************************)
(* Execution states beside the rows that carry them.  A memory write or a  *)
(* handoff may hold an execution state and a transition of one in the      *)
(* slots of its node; once the write is committed and its embedding is     *)
(* settled, the route puts the state into the process's one                *)
(* InMemoryExecutionStateStore and applies the transition.  A transition   *)
(* may say which revision it was made for.  The states are in memory only: *)
(* a crash empties the store.                                              *)
(***************************************************************************)
EXTENDS LiteMemory

CONSTANTS
    StateIds,
    NoState,
    Carries     \* Carries[r]: the state r puts, the state it moves, the revision it expects

AnyRevision == 0

ASSUME CarriesAssumption ==
    /\ NoState \notin StateIds
    /\ Carries \in [Requests -> [put : StateIds \cup {NoState}, move : StateIds \cup {NoState},
                                 expected : Nat]]

VARIABLES
    records,    \* the request each state was put by, and its revision
    applied     \* history: the transitions applied since the process started

continuity == <<records, applied>>
allVars == <<vars, continuity>>

NoRecord == [by |-> NoOne, revision |-> 0]
NoRecords == [s \in StateIds |-> NoRecord]

ContinuityInit == MemoryInit /\ records = NoRecords /\ applied = {}

\* Mutant: a state that is put begins with revision 1.
PutAfresh(recs, r) ==
    IF Carries[r].put = NoState THEN recs
    ELSE [recs EXCEPT ![Carries[r].put] = [by |-> r, revision |-> 1]]

\* put: the state is replaced, its revision is not.
Put(recs, r) ==
    IF Carries[r].put = NoState THEN recs
    ELSE [recs EXCEPT ![Carries[r].put] =
            [by |-> r, revision |-> IF @ = NoRecord THEN 1 ELSE @.revision]]

\* applyTransition throws when there is no such state or its revision is another.  The
\* transitions of a handoff expect the revision of the state they come with.
Accepts(recs, r) ==
    LET record == recs[Carries[r].move] IN
    record # NoRecord /\ Carries[r].expected \in {AnyRevision, record.revision}

\* applyTransition: what it changes of the state is data.
Moved(recs, r) == [recs EXCEPT ![Carries[r].move].revision = @ + 1]

\* The side effects of a write that is stored: the state, then the transition.  One that is
\* refused makes the answer an error; rows and state stay.
SideEffects(r) ==
    LET recs == Put(records, r) IN
    \/ /\ Carries[r].move # NoState /\ Accepts(recs, r)
       /\ records' = Moved(recs, r)
       /\ applied' = applied \cup {[id |-> Carries[r].move, by |-> r,
                                    revision |-> recs[Carries[r].move].revision]}
    \/ /\ Carries[r].move = NoState \/ ~Accepts(recs, r)
       /\ records' = recs
       /\ UNCHANGED applied

\* Mutant: the states are put before the write is committed.
WriteRouteEarly(r) ==
    /\ Write(r)
    /\ IF phase[r] = "new" THEN SideEffects(r) ELSE UNCHANGED continuity

\* POST /v1/memory/write, POST /v1/handoff/store
WriteRoute(r) ==
    /\ Write(r)
    /\ IF phase'[r] = "answered" THEN SideEffects(r) ELSE UNCHANGED continuity

ContinuityCrash == Crash /\ records' = NoRecords /\ applied' = {}

ContinuityNext ==
    \/ \E r \in Requests : WriteRoute(r)
    \/ \E v \in Reviews : Review(v) /\ UNCHANGED continuity
    \/ ContinuityCrash

ContinuitySpec == ContinuityInit /\ [][ContinuityNext]_allVars

-----------------------------------------------------------------------------
(* Properties *)

\* While the process is up, no two transitions are applied to one revision of a state: of two
\* writers who have both seen it one is refused, whatever states are put in between, by others
\* or by a retry (InMemoryExecutionStateStore.applyTransition).
OneTransitionPerRevision ==
    \A t, u \in applied : t.id = u.id /\ t.revision = u.revision => t = u

\* A state that can be recovered from memory is that of a write whose rows are there for good,
\* unless it ran inside a review's transaction: the store is changed after the COMMIT
\* (applyWriteSideEffects, applyHandoffExecutionTransitions).
StatesAreStored ==
    \A s \in StateIds :
        LET r == records[s].by
        IN  records[s] # NoRecord => joined[r] \/ Holds(disk, Batch(r))
=============================================================================
