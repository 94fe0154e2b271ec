----------------------------- MODULE MCRanking -----------------------------
(* What a request goes through before it is placed: it is validated, the    *)
(* components of what ranks are searched for, then the loops over them run. *)
(* A behaviour is the validation of a request of its own, or the ranking of *)
(* a graph that passed; a component is a number in the search and a set in  *)
(* the loops.                                                              *)
(*                                                                         *)
(* Requests: one of three nodes and two bundles, with every way to give a  *)
(* bundle its slots, and with one or two faults.                           *)
(* Graphs of four nodes: every loop-free graph without boundaries and with *)
(* at most one cycle breaker, graphs with boundaries and any breakers, and *)
(* graphs with parallel edges.                                             *)
EXTENDS Ranking, StrongComponents, Validation

-----------------------------------------------------------------------------
(* Requests.                                                                *)

LOCAL PortAt(id, side, offset) == [id |-> id, side |-> side, offset |-> offset]
LOCAL Block(id, ports) == [id |-> id, width |-> 4, height |-> 6, ports |-> ports]
LOCAL Strand(id, source, target, net) ==
    [id |-> id, source |-> source, target |-> target, ranks |-> TRUE, net |-> net]
LOCAL Tap(wire, slots) == [edge |-> wire, slots |-> slots]
LOCAL Options ==
    [layer_gap |-> 3, node_gap |-> 4, port_stub |-> 2, route_lane_gap |-> 1,
     max_quality_area_factor |-> 2, max_quality_route_length_factor |-> 2,
     edge_node_clearance |-> 0, minimum_parallel_wire_spacing |-> 0, ordering_sweeps |-> 2]

\* Node 1 feeds 2 and 3, and 2 feeds 3.
LOCAL Sound ==
    [options |-> Options,
     nodes |-> <<Block(2, <<PortAt(1, "West", 0), PortAt(2, "East", 6), PortAt(3, "South", 4)>>),
                 Block(1, <<PortAt(1, "East", 3), PortAt(2, "West", 1)>>),
                 Block(3, <<PortAt(1, "West", 2), PortAt(2, "West", 4)>>)>>,
     edges |-> <<Strand(3, <<1, 1>>, <<3, 1>>, 2), Strand(1, <<1, 1>>, <<2, 1>>, 1),
                 Strand(4, <<2, 2>>, <<3, 1>>, 3), Strand(2, <<1, 1>>, <<2, 3>>, 1)>>,
     inputs |-> <<1>>, outputs |-> <<3>>,
     bundles |-> <<[id |-> 2, endpoint |-> <<3, 1>>, width |-> 2,
                    members |-> <<Tap(4, <<1>>), Tap(3, <<0>>)>>],
                   [id |-> 1, endpoint |-> <<1, 1>>, width |-> 3,
                    members |-> <<Tap(2, <<1, 0>>), Tap(3, <<2>>), Tap(1, <<0, 1>>)>>]>>]

\* The slots of bundle 1 in every way.
LOCAL SlotLists == {<<0>>, <<2>>, <<0, 1>>, <<1, 0>>, <<1, 2>>, <<0, 2>>}
LOCAL Slotted ==
    {[Sound EXCEPT !.bundles[2].members[1].slots = a, !.bundles[2].members[2].slots = b,
                   !.bundles[2].members[3].slots = c, !.edges[1].net = net] :
        a \in SlotLists, b \in SlotLists, c \in SlotLists, net \in {1, 2}}

\* One thing wrong.
LOCAL Flawed ==
    {[Sound EXCEPT !.options[field] = v] : field \in DOMAIN Options \ {"ordering_sweeps"}, v \in {NotFinite, 0, 1, 9}}
    \cup {[Sound EXCEPT !.options.ordering_sweeps = 9]}
    \cup {[Sound EXCEPT !.nodes[1].id = id] : id \in {1, 4}}
    \cup {[Sound EXCEPT !.nodes[2].width = v] : v \in {NotFinite, 0, 10}}
    \cup {[Sound EXCEPT !.nodes[3].height = v] : v \in {NotFinite, 1, 10}}
    \cup {[Sound EXCEPT !.nodes[1].ports[k].id = 1] : k \in {2, 3}}
    \cup {[Sound EXCEPT !.nodes[1].ports[k].offset = v] : k \in 1..3, v \in {NotFinite, -1, 5, 7}}
    \cup {[Sound EXCEPT !.edges[1].id = id] : id \in {1, 5}}
    \cup {[Sound EXCEPT !.edges[k].source = end] : k \in 1..4, end \in {<<4, 1>>, <<2, 5>>, <<3, 1>>, <<2, 2>>}}
    \cup {[Sound EXCEPT !.edges[k].target = end] : k \in 1..4, end \in {<<4, 1>>, <<1, 2>>, <<2, 1>>}}
    \cup {[Sound EXCEPT !.edges[1].source = <<3, 2>>, !.edges[1].ranks = FALSE, !.bundles = <<>>]}
    \cup {[Sound EXCEPT !.inputs = i, !.outputs = o] :
            i \in {<<>>, <<1>>, <<1, 1>>, <<4>>, <<3>>, <<2, 1>>}, o \in {<<>>, <<3>>, <<3, 2, 3>>, <<1, 3>>, <<4>>}}
    \cup {[Sound EXCEPT !.bundles[k].id = id] : k \in 1..2, id \in {1, 2, 3}}
    \cup {[Sound EXCEPT !.bundles[k].width = v] : k \in 1..2, v \in {0, 1, 9}}
    \cup {[Sound EXCEPT !.bundles[k].endpoint = end] :
            k \in 1..2, end \in {<<4, 1>>, <<1, 5>>, <<1, 2>>, <<1, 1>>, <<2, 1>>, <<3, 2>>}}
    \cup {[Sound EXCEPT !.bundles[k].members = m] :
            k \in 1..2, m \in {<<>>, <<Tap(3, <<0>>), Tap(3, <<1>>)>>, <<Tap(9, <<0>>)>>, <<Tap(3, <<>>)>>,
                               <<Tap(3, <<0, 0>>)>>, <<Tap(3, <<0, 1, 2>>)>>, <<Tap(4, <<0>>)>>}}
    \* A second bundle on either side takes wires of the first.
    \cup {[Sound EXCEPT !.bundles = Append(@, [id |-> id, endpoint |-> Sound.bundles[k].endpoint,
                                               width |-> 2, members |-> m])] :
            id \in {0, 3}, k \in 1..2, m \in {<<Tap(3, <<0>>)>>, <<Tap(1, <<1>>)>>, <<Tap(4, <<1, 0>>)>>}}
    \* More slots than may be looked at, one by one.
    \cup {[Sound EXCEPT !.bundles[1].members[1].slots = [i \in 1..n |-> i - 1], !.bundles[1].width = 8] :
            n \in 2..8}

MCSubmitted == Slotted \cup Flawed

-----------------------------------------------------------------------------
(* Graphs.                                                                  *)
FourNodes == 1..4

\* One edge per pair, all edges of a source on one net.
LOCAL EdgesOf(pairs) ==
  {[id |-> 10 * p[1] + p[2], source |-> p[1], target |-> p[2], ranks |-> TRUE, net |-> p[1]] :
     p \in pairs}

LOCAL GraphsOf(pairs, breakers, inputs, outputs) ==
  {[edges |-> EdgesOf(es), breakers |-> b, inputs |-> i, outputs |-> o] :
     es \in SUBSET pairs, b \in breakers, i \in inputs, o \in outputs}

LOCAL AnyGraph ==
  GraphsOf({p \in FourNodes \X FourNodes : p[1] # p[2]}, {{}, {2}}, {{}}, {{}})

LOCAL Bounded ==
  GraphsOf({<<1, 2>>, <<1, 3>>, <<1, 4>>, <<2, 3>>, <<3, 2>>, <<2, 4>>, <<3, 4>>, <<2, 2>>},
           {{}, {2}, {2, 3}}, {{}, {1}}, {{}, {4}, {3, 4}})

\* Two edges from 1 to 4 on a net of their own, and one that does not rank.
LOCAL Doubled ==
  {[edges |-> EdgesOf(es) \cup
       {[id |-> i, source |-> 1, target |-> 4, ranks |-> i # 3, net |-> 9] : i \in 1..3},
    breakers |-> {}, inputs |-> {}, outputs |-> {}] :
     es \in SUBSET {<<1, 2>>, <<1, 3>>, <<2, 3>>, <<2, 4>>, <<3, 4>>, <<3, 1>>}}

MCGraphs == AnyGraph \cup Bounded \cup Doubled

-----------------------------------------------------------------------------
(* Calls.                                                                   *)

VARIABLE job    \* what this behaviour is a call of

allVars == <<job, vars, searchVars, validationVars>>

LOCAL NoGraph == [edges |-> {}, breakers |-> {}, inputs |-> {}, outputs |-> {}]

MCInit ==
  /\ \/ job = "rank" /\ request = Sound
     \/ job = "validate" /\ graph = NoGraph
  /\ Init /\ ValidationInit
  /\ edges = RankPairs /\ SearchInit

Validate ==
  /\ job = "validate"
  /\ ValidationNext
  /\ UNCHANGED <<job, vars, searchVars>>

Search ==
  /\ job = "rank"
  /\ stage = "graph" /\ SearchNext
  /\ UNCHANGED <<job, vars, validationVars>>

\* What the search kept is gone when it has returned.
Continue ==
  /\ job = "rank"
  /\ stage = "graph" => SearchDone
  /\ Next
  /\ seen' = {} /\ finish' = <<>> /\ assigned' = [n \in Indices |-> Unassigned] /\ count' = 0
  /\ UNCHANGED <<job, edges, stack, frontier, validationVars>>

Returned ==
  /\ part \in {"accepted", "refused"} \/ stage = "done"
  /\ UNCHANGED allVars

MCNext == Validate \/ Search \/ Continue \/ Returned
MCSpec == MCInit /\ [][MCNext]_allVars
=============================================================================
