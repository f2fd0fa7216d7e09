---------------------------- MODULE MCAutomation ----------------------------
(* To run: a chain with two approvals, a diamond of checks and playbooks,   *)
(* and a cycle, which is refused.  To validate: graphs over three ids, with a  *)
(* missing and a duplicate node.                                            *)
EXTENDS Automation, TLC

Draft(i, e, f, b) == [ids |-> i, edges |-> e, on_failure |-> f, binding |-> b]
Three == {1, 2, 3}
Once(E) == [e \in E |-> 1]
Ids == {<<1, 2, 3>>, <<3, 1>>, <<1, 2, 1>>}

\* Every set of edges with every binding; one repeated edge, or on_failure,
\* without a binding.
MCDrafts ==
  {Draft(i, Once(E), FALSE, <<>>) : i \in Ids, E \in SUBSET (Three \X Three)}
  \cup {Draft(<<1, 2, 3>>, Once(E), FALSE, b) :
          E \in SUBSET (Three \X Three), b \in Three \X Three}
  \cup {Draft(<<3, 1>>, Once(E), FALSE, <<m, 1>>) :
          E \in SUBSET ({1, 3} \X {1, 3}), m \in Three}
  \cup {Draft(<<1, 2, 3>>, [Once(E) EXCEPT ![e] = 2], FALSE, <<>>) :
          E \in SUBSET (Three \X Three), e \in {<<1, 2>>, <<2, 3>>, <<1, 3>>}}
  \cup {Draft(<<1, 2, 3>>, Once(E), TRUE, <<>>) : E \in SUBSET {<<1, 2>>, <<2, 3>>, <<3, 1>>}}

Submit(E, kind) ==
  [ids |-> <<1, 2, 3, 4>>, edges |-> [e \in E |-> 1], on_failure |-> FALSE,
   binding |-> <<>>, kind |-> kind]

MCSubmitted == {
  Submit({<<1, 2>>, <<2, 3>>, <<3, 4>>}, <<"approval", "playbook", "approval", "playbook">>),
  Submit({<<1, 2>>, <<1, 3>>, <<2, 4>>, <<3, 4>>}, <<"playbook", "check", "playbook", "approval">>),
  Submit({<<1, 2>>, <<2, 3>>, <<3, 2>>, <<3, 4>>}, <<"check", "check", "check", "check">>)}
=============================================================================
