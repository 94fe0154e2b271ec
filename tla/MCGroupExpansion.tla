-------------------------- MODULE MCGroupExpansion --------------------------
(* Node 1 is replaced by members 5 and 6, nodes 2 to 4 stay.  Drawings are *)
(* on a grid of four.                                                      *)
EXTENDS GroupExpansion

MCBudget == [Fast |-> 6, Quality |-> 9]
MCRadius == [Fast |-> 0, Quality |-> 1]

LOCAL Edge(from, to) == [source |-> <<from, 1>>, target |-> <<to, 1>>]

LOCAL Kept(ids) == [n \in ids |-> "as it was"]

LOCAL Compact == [nodes |-> Kept(1 .. 4), edges |-> <<Edge(2, 1), Edge(1, 3), Edge(2, 4), Edge(3, 4)>>]

LOCAL Opened == [nodes |-> Kept(2 .. 6),
                 edges |-> <<Edge(2, 5), Edge(6, 3), Edge(2, 4), Edge(3, 4), Edge(5, 6)>>]

LOCAL Mapping == [anchor |-> 1, members |-> <<5, 6>>,
                  trunks |-> <<[expanded |-> 1, compact |-> 1], [expanded |-> 2, compact |-> 2]>>]

LOCAL Drawn(graph, nodes) ==
  [nodes |-> nodes,
   ends |-> [e \in DOMAIN graph.edges |-> [source |-> East(nodes[graph.edges[e].source[1]]),
                                           target |-> West(nodes[graph.edges[e].target[1]])]],
   width |-> Max({nodes[n].x + nodes[n].width : n \in DOMAIN nodes}) + Margin,
   height |-> Max({nodes[n].y + nodes[n].height : n \in DOMAIN nodes}) + Margin]

LOCAL At(x, y, width, height) == [x |-> x, y |-> y, width |-> width, height |-> height]

LOCAL Anchor == At(8, 8, 4, 4)

LOCAL Apart(nodes) ==
  \A m, n \in DOMAIN nodes : m # n => ~ Overlap(FromNode(nodes[m]), FromNode(nodes[n]))

LOCAL Group(members, padding) == [id |-> 9, members |-> members, padding |-> padding]

LOCAL Call(nodes, groups, frame, effort, cost, reflowCost, preferred, verdicts) ==
  [compact |-> Compact, expanded |-> Opened, x |-> Mapping, groups |-> groups,
   layout |-> Drawn(Compact, nodes), frame |-> frame, effort |-> effort, work |-> cost,
   reflowWork |-> reflowCost, preferred |-> preferred, verdicts |-> verdicts]

LOCAL Frame(width, height) == [width |-> width, height |-> height]

LOCAL Admitted(quality, cost) == [admitted |-> TRUE, quality |-> quality, cost |-> cost]
LOCAL Rejected(cost) == [admitted |-> FALSE, quality |-> 0, cost |-> cost]

\* Where the corridors go.
LOCAL Corridors ==
  {Call(nodes, groups, frame, "Fast", 1, 1, <<>>, {Admitted(1, 1)}) :
     nodes \in {ns \in {<<Anchor, second, third, fourth>> :
                          second \in {At(x, y, w, 4) : x \in {0, 4, 12}, y \in {0, 4, 8, 12}, w \in {4, 8}},
                          third \in {At(x, y, 4, h) : x \in {4, 8, 16}, y \in {4, 12, 16}, h \in {4, 8}},
                          fourth \in {At(0, 16, 4, 4), At(16, 12, 8, 4), At(12, 4, 4, 8), At(20, 0, 4, 4)}} :
                  Apart(ns)},
     groups \in {<<>>, <<Group(<<2>>, 2)>>, <<Group(<<2, 3>>, 0)>>,
                 <<Group(<<2>>, 2), [Group(<<3, 4>>, 0) EXCEPT !.id = 8]>>},
     frame \in {Frame(8, 4), Frame(4, 8), Frame(12, 8)}}

\* A group that reaches out of the way of the members, over another node.
LOCAL Reaching ==
  LET retained == <<Edge(2, 3), Edge(2, 3)>>
      compact == [Compact EXCEPT !.edges = <<Edge(4, 1), Edge(1, 3)>> \o retained]
      opened == [Opened EXCEPT !.edges = <<Edge(4, 5), Edge(6, 3)>> \o retained \o <<Edge(5, 6)>>]
  IN  {[Call(nodes, <<Group(<<2, 3>>, 0)>>, Frame(4, 8), "Fast", 1, 1, <<>>, {Admitted(1, 1)}) EXCEPT
          !.compact = compact, !.expanded = opened, !.layout = Drawn(compact, nodes)] :
          nodes \in {<<At(12, 8, 4, 4), At(0, y, 4, 4), At(12, 12, 4, 4), At(0, 16, 4, 4)>> : y \in {8, 12}}}

\* What is looked for at the places, and when the work runs out.
LOCAL Searches ==
  {Call(nodes, groups, Frame(8, 8), "Quality", costs[1], costs[2], preferred, verdicts) :
     nodes \in {<<Anchor, At(0, 8, 4, 4), At(20, 8, 4, 4), At(8, 16, 4, 4)>>,
                <<Anchor, At(0, 0, 4, 4), At(16, 8, 4, 4), At(16, 0, 4, 4)>>},
     groups \in {<<>>, <<Group(<<4>>, 2)>>},
     costs \in {<<1, 1>>, <<1, 2>>, <<2, 2>>, <<4, 4>>},
     preferred \in {<<>>, <<0, 24>>},
     verdicts \in {{Admitted(1, 1), Admitted(2, 1), Rejected(1)}, {Admitted(1, 2), Rejected(1), Rejected(3)}}}

\* Graphs and mappings with one thing or several wrong.
LOCAL Contracts ==
  LET base == Call(<<Anchor, At(0, 8, 4, 4), At(20, 8, 4, 4), At(8, 16, 4, 4)>>, <<>>, Frame(8, 8),
                   "Fast", 1, 1, <<>>, {Admitted(1, 1)})
      compacts == {[Compact EXCEPT !.edges = es] :
                     es \in {<<Edge(2, 1), second, third, Edge(3, 4)>> :
                               second \in {Edge(1, 3), Edge(3, 1), Edge(1, 4), Edge(2, 3)},
                               third \in {Edge(2, 4), Edge(4, 2), Edge(1, 4)}}
                            \cup {Append(Compact.edges, Edge(1, 4))}}
      openeds == {[Opened EXCEPT !.nodes = ns] :
                    ns \in {Kept(2 .. 6), Kept(2 .. 7), Kept(1 .. 6),
                            [Kept(2 .. 6) EXCEPT ![3] = "changed"]}}
                 \cup {[Opened EXCEPT !.nodes = Kept({2, 3, 5, 6}), !.edges[3] = Edge(2, 3), !.edges[4] = Edge(3, 2)]}
      map(e, t) == [expanded |-> e, compact |-> t]
      mappings == {[anchor |-> a, members |-> ms, trunks |-> ts] :
                     a \in {1, 3, 7}, ms \in {<<5, 6>>, <<5>>, <<>>, <<5, 5>>, <<4, 5>>, <<5, 6, 2>>},
                     ts \in {<<map(1, 1), map(2, 2)>>, <<map(1, 1)>>, <<map(1, 2), map(2, 1)>>,
                             <<map(2, 2), map(1, 1), map(2, 2)>>, <<map(1, 1), map(2, 3)>>,
                             <<map(1, 1), map(5, 2), map(2, 2)>>}}
  IN  {[base EXCEPT !.compact = g, !.expanded = o, !.x = x, !.layout = Drawn(g, base.layout.nodes)] :
         g \in compacts, o \in openeds, x \in mappings}
      \cup
      {[base EXCEPT !.groups = gs] :
         gs \in {<<Group(m, p)>> : m \in {<<>>, <<2>>, <<2, 2>>, <<1>>, <<5>>, <<2, 3, 4>>}, p \in {-1, 2}}
             \cup {<<Group(m, 0), [Group(<<3>>, 0) EXCEPT !.id = id]>> :
                     m \in {<<2>>, <<2, 3>>, <<2, 4>>, <<4, 2, 2>>}, id \in {1, 8, 9}}}

MCCalls == {Corridors, Reaching, Searches, Contracts}
=============================================================================
