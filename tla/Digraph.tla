------------------------------ MODULE Digraph ------------------------------
(* Reachability in a directed graph, given by its edges as pairs of nodes, *)
(* stated without a recursion so that it can be reasoned about.            *)

Closed(edges, set) == \A e \in edges : e[1] \in set => e[2] \in set

\* Whatever is closed under the edges and contains u contains v.
Reaches(nodes, edges, u, v) ==
  \A set \in SUBSET nodes : u \in set /\ Closed(edges, set) => v \in set

Connected(nodes, edges, u, v) == Reaches(nodes, edges, u, v) /\ Reaches(nodes, edges, v, u)
=============================================================================
