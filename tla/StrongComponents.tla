-------------------------- MODULE StrongComponents --------------------------
(***************************************************************************)
(* strongly_connected_components (crates/schemweave/src/topology.rs): two  *)
(* depth-first passes with explicit stacks.  Indices are indices; edges are  *)
(* listed by edge id, which says nothing about their direction, so the     *)
(* next unseen neighbour of a node may be any of them.                     *)
(***************************************************************************)
EXTENDS Digraph, Integers, Sequences, SequencesExt

CONSTANTS
  Indices,      \* of the nodes
  Unassigned    \* component[node] == usize::MAX

ASSUME IndicesAssumption == Indices \subseteq Nat
ASSUME UnassignedAssumption == Unassigned \notin Nat

VARIABLES
  edges,        \* (outgoing, incoming)
  seen,         \* nodes the first pass has entered
  stack,        \* first pass: nodes entered and not left
  finish,       \* nodes in the order the first pass left them
  assigned,     \* component of each node, or Unassigned
  frontier,     \* second pass: nodes whose predecessors are not looked at yet
  count         \* component_count

searchVars == <<edges, seen, stack, finish, assigned, frontier, count>>
firstPass == <<seen, stack, finish>>
secondPass == <<assigned, frontier, count>>

(* The first pass follows outgoing edges.                                  *)

\* `for start in 0..count'
EnterRoot ==
  /\ stack = <<>>
  /\ \E root \in Indices \ seen :
       /\ \A node \in Indices \ seen : root <= node
       /\ seen' = seen \cup {root}
       /\ stack' = <<root>>
  /\ UNCHANGED <<edges, finish, secondPass>>

Descend ==
  /\ stack # <<>>
  /\ \E next \in Indices \ seen :
       /\ <<Last(stack), next>> \in edges
       /\ seen' = seen \cup {next}
       /\ stack' = Append(stack, next)
  /\ UNCHANGED <<edges, finish, secondPass>>

Exhausted(node) == \A next \in Indices : <<node, next>> \in edges => next \in seen

Leave ==
  /\ stack # <<>>
  /\ Exhausted(Last(stack))
  /\ finish' = Append(finish, Last(stack))
  /\ stack' = Front(stack)
  /\ UNCHANGED <<edges, seen, secondPass>>

FirstPassDone == stack = <<>> /\ seen = Indices

(* The second pass follows incoming edges, from the last node left.        *)

Open == \E node \in Indices : assigned[node] = count

\* Plausible slip: `finish' is read from its front.
IsNextRootFromFront(i) ==
  /\ assigned[finish[i]] = Unassigned
  /\ \A j \in DOMAIN finish : j < i => assigned[finish[j]] # Unassigned

\* Position of the next root: the last unassigned node in `finish'.
IsNextRoot(i) ==
  /\ assigned[finish[i]] = Unassigned
  /\ \A j \in DOMAIN finish : j > i => assigned[finish[j]] # Unassigned

StartComponent ==
  /\ FirstPassDone
  /\ ~Open
  /\ \E i \in DOMAIN finish :
       /\ IsNextRoot(i)
       /\ assigned' = [assigned EXCEPT ![finish[i]] = count]
       /\ frontier' = {finish[i]}
  /\ UNCHANGED <<edges, firstPass, count>>

NewPredecessors(node) ==
  {next \in Indices : <<next, node>> \in edges /\ assigned[next] = Unassigned}

Absorb ==
  /\ \E node \in frontier :
       /\ assigned' = [n \in Indices |-> IF n \in NewPredecessors(node) THEN count
                                        ELSE assigned[n]]
       /\ frontier' = (frontier \ {node}) \cup NewPredecessors(node)
  /\ UNCHANGED <<edges, firstPass, count>>

CloseComponent ==
  /\ Open
  /\ frontier = {}
  /\ count' = count + 1
  /\ UNCHANGED <<edges, firstPass, assigned, frontier>>

SearchInit ==
  /\ edges \in SUBSET (Indices \X Indices)
  /\ seen = {}
  /\ stack = <<>>
  /\ finish = <<>>
  /\ assigned = [n \in Indices |-> Unassigned]
  /\ frontier = {}
  /\ count = 0

SearchNext ==
  \/ EnterRoot
  \/ Descend
  \/ Leave
  \/ StartComponent
  \/ Absorb
  \/ CloseComponent

SearchSpec == SearchInit /\ [][SearchNext]_searchVars

-----------------------------------------------------------------------------
(* Properties.                                                             *)

SearchTypeOK ==
  /\ edges \subseteq Indices \X Indices
  /\ seen \subseteq Indices
  /\ stack \in Seq(Indices)
  /\ finish \in Seq(Indices)
  /\ assigned \in [Indices -> Nat \cup {Unassigned}]
  /\ frontier \subseteq Indices
  /\ count \in Nat

Assigned == {node \in Indices : assigned[node] # Unassigned}

SearchDone == FirstPassDone /\ ~Open /\ Assigned = Indices

\* Two nodes get the same component exactly when each reaches the other
\* (strongly_connected_components, which topology and validation rely on), and
\* the working arrays hold nodes only on the way there.
ComponentsAreMutual ==
  /\ SearchTypeOK
  /\ SearchDone => \A u, v \in Indices :
       assigned[u] = assigned[v] <=> Connected(Indices, edges, u, v)
=============================================================================
