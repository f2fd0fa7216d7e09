-------------------------- MODULE AutomationGraph --------------------------
(***************************************************************************)
(* validateAutomationGraph (memory/automation-lite.ts) as operators on a   *)
(* graph g: its issues, and Kahn's order over it.  A graph is validated    *)
(* when it is submitted and again before every walk of a run, which visits *)
(* the nodes in the order computed here.                                   *)
(*   g.ids         graph.nodes, by id, duplicates included; ids are        *)
(*                 numbers for their sort order                            *)
(*   g.edges       edges other than on_failure, with their multiplicity    *)
(*   g.on_failure  whether some edge is an on_failure edge                 *)
(*   g.binding     a node's binding <<referenced, consumer>>, or <<>>      *)
(***************************************************************************)
EXTENDS Naturals, Sequences, FiniteSets

\* What the schema of a graph lets through.
WellFormed(g) ==
  /\ g.ids \in Seq(Nat) /\ g.ids # <<>>
  /\ DOMAIN g.edges \subseteq Nat \X Nat
  /\ \A e \in DOMAIN g.edges : g.edges[e] \in Nat \ {0}
  /\ g.on_failure \in BOOLEAN
  /\ g.binding = <<>> \/ g.binding \in Nat \X Nat

NodeIds(g) == {g.ids[k] : k \in 1..Len(g.ids)}

\* Edges between distinct known nodes are counted, others are issues.
SoundEdges(g) ==
  {e \in DOMAIN g.edges : e[1] \in NodeIds(g) /\ e[2] \in NodeIds(g) /\ e[1] # e[2]}

\* A set of ids in their order.
Sorted(S) ==
  CHOOSE s \in [1..Cardinality(S) -> S] : \A j, k \in 1..Cardinality(S) : j < k => s[j] < s[k]

Successors(g, n) == {e[2] : e \in {e \in SoundEdges(g) : e[1] = n}}

Indegree(g, n) ==
  Cardinality(UNION {{e} \X (1..g.edges[e]) : e \in {e \in SoundEdges(g) : e[2] = n}})

StartNodes(g) == {n \in NodeIds(g) : Indegree(g, n) = 0}

\* hasGraphPath(): what a breadth-first search from `from` reaches.
Widened(g, S) == S \cup UNION {Successors(g, n) : n \in S}

HasGraphPath(g, from, to) ==
  LET level[k \in Nat] == IF k = 0 THEN {from} ELSE Widened(g, level[k - 1])
  IN  to \in level[Cardinality(NodeIds(g))]

BindingIssue(g) ==
  g.binding # <<>> /\
    \/ g.binding[1] \notin NodeIds(g)
    \/ g.binding[1] = g.binding[2]
    \/ ~HasGraphPath(g, g.binding[1], g.binding[2])

\* The issues found besides the cycle.
Issues(g) ==
  \/ \E j, k \in 1..Len(g.ids) : j < k /\ g.ids[j] = g.ids[k]
  \/ DOMAIN g.edges # SoundEdges(g)
  \/ g.on_failure
  \/ BindingIssue(g)
  \/ StartNodes(g) = {}

\* A repeated edge is counted once (a mutation of Remaining).
RemainingOnce(g, indegree, n) == [m \in NodeIds(g) |->
  IF m \in Successors(g, n) THEN indegree[m] - 1 ELSE indegree[m]]

\* indegreeWork after all edges out of n are taken away.
Remaining(g, indegree, n) == [m \in NodeIds(g) |->
  IF m \in Successors(g, n) THEN indegree[m] - g.edges[<<n, m>>] ELSE indegree[m]]

\* One iteration of the loop over the queue, if it is not over.
Visit(g, k) ==
  IF k.queue = <<>> THEN k
  ELSE LET n == Head(k.queue)
           left == Remaining(g, k.indegree, n)
       IN  [queue |-> Tail(k.queue) \o Sorted({m \in Successors(g, n) : left[m] = 0}),
            indegree |-> left,
            order |-> Append(k.order, n)]

\* topological_order: the loop visits each node at most once.
Order(g) ==
  LET loop[i \in Nat] ==
        IF i = 0
        THEN [queue |-> Sorted(StartNodes(g)),
              indegree |-> [n \in NodeIds(g) |-> Indegree(g, n)], order |-> <<>>]
        ELSE Visit(g, loop[i - 1])
  IN  loop[Cardinality(NodeIds(g))].order

\* Cyclic graphs are let through (a mutation of IsValid).
IsValidNoCycle(g) == ~Issues(g)

\* validateAutomationGraph() returns.
IsValid(g) == ~Issues(g) /\ Len(Order(g)) = Cardinality(NodeIds(g))

----------------------------------------------------------------------------
Before(order, m, n) == \E j, k \in 1..Len(order) : j < k /\ order[j] = m /\ order[k] = n

\* The reference definition: m precedes n if every set of nodes that holds the
\* successors of m, and the successors of what it holds, holds n.
Precedes(g, m, n) ==
  \A S \in SUBSET NodeIds(g) :
    (\A e \in SoundEdges(g) : e[1] \in S \cup {m} => e[2] \in S) => n \in S

\* The order visits every node once, after all the nodes it depends on and
\* after the node its input is bound to.
OrderFits(g, order) ==
  /\ Len(order) = Cardinality(NodeIds(g))
  /\ {order[k] : k \in 1..Len(order)} = NodeIds(g)
  /\ \A e \in SoundEdges(g) : Before(order, e[1], e[2])
  /\ g.binding # <<>> => Before(order, g.binding[1], g.binding[2])

\* No node twice, no edge or binding that does not fit, no cycle.
IsSound(g) ==
  /\ Cardinality(NodeIds(g)) = Len(g.ids)
  /\ ~g.on_failure
  /\ DOMAIN g.edges = SoundEdges(g)
  /\ g.binding # <<>> => /\ g.binding[1] \in NodeIds(g)
                         /\ Precedes(g, g.binding[1], g.binding[2])
  /\ \A n \in NodeIds(g) : ~Precedes(g, n, n)
============================================================================
