------------------------ MODULE MCWorkflowProjection ------------------------
(* Two agents' writes of two signatures: an observation that changes its     *)
(* lane and signature when it is sent again, one without authority, a state  *)
(* of a session that both agents write, and a write without continuity,      *)
(* which fills the window.                                                   *)
EXTENDS WorkflowProjection

Event(node, sig, agent, lane, auth, review) ==
  [node |-> node, session |-> FALSE, continuity |-> TRUE, signature |-> sig,
   observation |-> node, agent |-> agent, lane |-> lane, authoritative |-> auth,
   review |-> review]

Session(state, sig, agent, lane, review) ==
  [Event("session", sig, agent, lane, TRUE, review) EXCEPT
     !.session = TRUE, !.observation = state]

MCSources == {
  Event("e1", "x", "ann", "private", TRUE, "none"),
  Event("e1", "y", "ann", "shared", TRUE, "approve"),
  Event("e2", "x", "ann", "shared", TRUE, "provider"),
  Event("e3", "x", "bob", "shared", FALSE, "provider"),
  Session("s1", "x", "bob", "private", "approve"),
  Session("s1", "x", "ann", "shared", "none"),
  [Event("e5", "y", "bob", "shared", FALSE, "none") EXCEPT !.continuity = FALSE]}
=============================================================================
