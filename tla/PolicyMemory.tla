---------------------------- MODULE PolicyMemory ----------------------------
(***************************************************************************)
(* The life cycle of one persisted policy: what feedback, materialization  *)
(* and governance each make of it (src/memory/policy-memory.ts).           *)
(***************************************************************************)

\* A contract is "authoritative" when it asks for that trust and its evidence passes the
\* authority gate (authority_gate_v1.allows_authoritative), else it is advice.
Contracts == {"authoritative", "advisory"}
LifecycleStates == {"active", "contested", "retired"}
Policies == [state : LifecycleStates, contract : Contracts]

GovernanceActions == {"retire", "reactivate", "refresh"}

\* A policy is active only on an authoritative contract; whatever else it becomes, its
\* contract is degraded to advice.
Normalized(contract, wanted) ==
    IF wanted = "active" /\ contract = "authoritative"
    THEN [state |-> "active", contract |-> "authoritative"]
    ELSE [state |-> IF wanted = "active" THEN "contested" ELSE wanted, contract |-> "advisory"]

\* The counters start from nothing each time, so one feedback decides, whatever the policy's
\* state was.
FedBack(policy, outcome) ==
    Normalized(policy.contract, IF outcome = "positive" THEN "active" ELSE "contested")

Materialized(contract) == Normalized(contract, "active")

\* Reactivation and refresh take the live contract; a refresh keeps the state.
Governed(policy, action, live) ==
    CASE action = "retire"     -> Normalized(policy.contract, "retired")
      [] action = "reactivate" -> Normalized(live, "active")
      [] action = "refresh"    -> Normalized(live, policy.state)
=============================================================================
