--------------------------- MODULE MCChannelRoutes ---------------------------
EXTENDS ChannelRoutes

(* Five nodes: 1 above 2, 3 above 4, and 5, in three layers. Every node has *)
(* two ports to the east, one to the west, one above and one below.         *)
Across1(gap) == 600 + gap
Cell5(gap) == <<[x |-> 0, y |-> 0, width |-> 600, height |-> 600, rank |-> 0],
                [x |-> 0, y |-> 1200, width |-> 600, height |-> 600, rank |-> 0],
                [x |-> Across1(gap), y |-> 0, width |-> 600, height |-> 600, rank |-> 1],
                [x |-> Across1(gap), y |-> 1200, width |-> 600, height |-> 600, rank |-> 1],
                [x |-> 2 * Across1(gap), y |-> 0, width |-> 600, height |-> 600, rank |-> 2]>>
East == 1
West == 2
North == 3
South == 4
Low == 5
PortsWith(west) ==
    [p \in (1..5) \X (1..5) |->
       CASE p[2] = East -> [side |-> "East", offset |-> 240]
         [] p[2] = West -> [side |-> "West", offset |-> west]
         [] p[2] = North -> [side |-> "North", offset |-> 300]
         [] p[2] = South -> [side |-> "South", offset |-> 300]
         [] p[2] = Low -> [side |-> "East", offset |-> 480]]

W(net, a, b) == [net |-> net, source |-> a, target |-> b, ranking |-> TRUE]
Back(net, a, b) == [net |-> net, source |-> a, target |-> b, ranking |-> FALSE]

WireSets ==
    { \* wires that face each other, and one back over the top
      <<W(1, <<1, East>>, <<4, West>>), W(2, <<2, East>>, <<3, West>>), Back(3, <<3, East>>, <<1, West>>)>>,
      \* feedback of one net above and below
      <<Back(1, <<3, East>>, <<1, West>>), Back(1, <<4, East>>, <<2, West>>), W(2, <<1, East>>, <<4, West>>)>>,
      \* feedback that crosses less on the other side once it is together
      <<Back(1, <<3, East>>, <<1, West>>), Back(1, <<4, East>>, <<2, South>>), W(2, <<4, Low>>, <<5, West>>)>>,
      \* wires that fan out, and ports above and below
      <<Back(1, <<5, East>>, <<1, West>>), Back(1, <<5, East>>, <<2, West>>),
        Back(2, <<4, East>>, <<1, West>>), W(3, <<3, North>>, <<4, South>>)>>,
      \* from gap to gap, past the layer between
      <<W(1, <<1, East>>, <<5, West>>), W(2, <<2, East>>, <<5, West>>), W(3, <<2, Low>>, <<4, West>>)>>,
      \* arms that would cross less on the other side
      <<Back(1, <<4, East>>, <<2, West>>), W(2, <<4, Low>>, <<5, West>>), W(3, <<1, East>>, <<3, West>>)>>,
      <<Back(1, <<4, East>>, <<2, South>>), W(2, <<4, Low>>, <<5, West>>), Back(3, <<4, East>>, <<4, West>>)>>,
      \* trunks within trunks
      <<Back(1, <<5, East>>, <<1, West>>), Back(2, <<3, East>>, <<3, West>>), Back(3, <<5, North>>, <<3, North>>)>>,
      <<Back(3, <<5, East>>, <<1, West>>), Back(2, <<3, East>>, <<3, West>>), W(1, <<1, East>>, <<3, West>>)>>}

\* A net of three tracks facing a wire that goes around, where room was made.
Crowded ==
    <<W(1, <<1, East>>, <<4, West>>), W(2, <<2, East>>, <<4, West>>), W(3, <<2, Low>>, <<4, West>>),
      Back(4, <<4, Low>>, <<3, West>>)>>

Plain == [layerGap |-> 1200, stub |-> 180, laneGap |-> 60, clearance |-> 0]
Clear == [Plain EXCEPT !.clearance = 120]
Broad == [Plain EXCEPT !.laneGap = 600]

Drawing(wires, gap, west, knobs) ==
    [job |-> "route", wires |-> wires, cells |-> Cell5(gap), ports |-> PortsWith(west),
     knobs |-> knobs, rounds |-> 2]

MCSheets ==
    {Drawing(w, 1200, 240, Plain) : w \in WireSets}
    \cup {Drawing(w, 2400, o, k) : w \in WireSets, o \in {240, 246}, k \in {Clear, Broad}}
    \cup {Drawing(Crowded, 2400, o, Broad) : o \in {240, 246}}
=============================================================================
