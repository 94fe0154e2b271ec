-------------------------- MODULE MCLayerOrdering --------------------------
(* Seven nodes in three columns, with edges over a column that pass it     *)
(* together if they are of one net.                                        *)
EXTENDS LayerOrdering

SevenNodes == 1..7

LOCAL Rank == [n \in SevenNodes |-> IF n <= 2 THEN 0 ELSE IF n <= 5 THEN 1 ELSE 2]

LOCAL EdgesOf(pairs) ==
  {[id |-> 10 * p[1] + p[2], source |-> p[1], target |-> p[2], port |-> 0, net |-> p[1],
    ranks |-> TRUE] : p \in pairs}

LOCAL GraphsOf(always, sometimes, sweeps) ==
  {[rank |-> Rank, sweeps |-> k, edges |-> EdgesOf(es \cup always)] :
     es \in SUBSET sometimes, k \in sweeps}

LOCAL Sparse ==
  GraphsOf({<<1, 5>>, <<2, 3>>},
           {<<1, 4>>, <<1, 7>>, <<2, 4>>, <<2, 6>>, <<3, 7>>, <<4, 6>>, <<5, 6>>, <<5, 7>>}, {1})

LOCAL Dense ==
  GraphsOf({<<1, 3>>, <<1, 5>>, <<1, 7>>, <<2, 3>>, <<2, 5>>, <<3, 6>>, <<4, 7>>, <<5, 7>>},
           {<<1, 4>>, <<2, 4>>, <<4, 6>>, <<3, 7>>, <<5, 6>>}, {0, 3})

\* Only an edge over the middle column is to be moved.
LOCAL Passing == GraphsOf({<<1, 3>>, <<1, 6>>, <<2, 5>>, <<5, 7>>}, {<<1, 4>>, <<3, 6>>}, {0})

MCGraphs == Sparse \cup Dense \cup Passing
=============================================================================
