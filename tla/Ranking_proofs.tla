--------------------------- MODULE Ranking_proofs ---------------------------
(* Proofs about the graph the engine starts from: its strong components,   *)
(* its ranks, for every finite set of nodes and every graph, and the       *)
(* validation that accepts it, for every request.                          *)
EXTENDS StrongComponents, Ranking, Validation, DigraphFacts

-----------------------------------------------------------------------------
(* The two passes of StrongComponents find the strong components of every  *)
(* graph, whichever unseen neighbour the first pass goes to and in whatever *)
(* order the second one follows edges back: the last node of a component   *)
(* that is left comes after all that is reached from there.                *)

Way(u, v) == Reaches(Indices, edges, u, v)
Mutual(u, v) == Connected(Indices, edges, u, v)

\* What had been left when finish[i] was, this node included.
LeftBy(i) == {finish[j] : j \in 1..i}

-----------------------------------------------------------------------------
(* The inductive invariant.                                                *)

\* What has been entered is open or left.
SeenIsKept ==
  seen = {stack[i] : i \in DOMAIN stack} \cup {finish[i] : i \in DOMAIN finish}

EnteredOnce ==
  /\ \A i, j \in DOMAIN stack : stack[i] = stack[j] => i = j
  /\ \A i, j \in DOMAIN finish : finish[i] = finish[j] => i = j
  /\ \A i \in DOMAIN stack, j \in DOMAIN finish : stack[i] # finish[j]

\* The stack is a way through the graph.
StackLeadsOn == \A i, j \in DOMAIN stack : i <= j => Way(stack[i], stack[j])

\* No node is left before all its successors were entered.
LeftAreExhausted == \A i \in DOMAIN finish : Exhausted(finish[i])

\* What an edge leads to from a node left so far was still open, and so leads
\* on to the node just left.
LeavingOrder ==
  \A i \in DOMAIN finish : \A e \in edges :
     e[1] \in LeftBy(i) => e[2] \in LeftBy(i) \/ Way(e[2], finish[i])

FirstPassOK == SeenIsKept /\ EnteredOnce /\ StackLeadsOn /\ LeftAreExhausted /\ LeavingOrder

\* The second pass starts when the first is done, and counts on.
PassesInTurn ==
  /\ ~FirstPassDone => count = 0 /\ frontier = {} /\ Assigned = {}
  /\ \A n \in Assigned : assigned[n] <= count
  /\ \A n \in frontier : assigned[n] = count

\* A closed component has all nodes that are connected with one of its own,
\* and no other.
ClosedAreWhole ==
  \A u \in Indices : u \in Assigned /\ assigned[u] < count =>
     \A v \in Indices : assigned[v] = assigned[u] <=> Mutual(u, v)

IsRoot(i) ==
  /\ assigned[finish[i]] = count
  /\ \A j \in DOMAIN finish : j > i => /\ finish[j] \in Assigned
                                      /\ assigned[finish[j]] < count
  /\ \A n \in Indices : assigned[n] = count => Mutual(n, finish[i])

\* The component in work is connected with its root, the last node that was
\* left and is in no closed component.
OpenHasRoot == Open => \E i \in DOMAIN finish : IsRoot(i)

\* What leads to a node of it is assigned unless the node is to be looked at.
LookedAtAreDone ==
  \A e \in edges : assigned[e[2]] = count /\ e[2] \notin frontier => e[1] \in Assigned

SecondPassOK == PassesInTurn /\ ClosedAreWhole /\ OpenHasRoot /\ LookedAtAreDone

SearchInv == SearchTypeOK /\ FirstPassOK /\ SecondPassOK
-----------------------------------------------------------------------------
(* Sequences.                                                              *)

LEMMA AppendFacts ==
  ASSUME NEW s \in Seq(Indices), NEW n \in Indices
  PROVE  /\ Append(s, n) \in Seq(Indices)
         /\ DOMAIN Append(s, n) = DOMAIN s \cup {Len(s) + 1}
         /\ \A i \in DOMAIN s : Append(s, n)[i] = s[i] /\ i <= Len(s)
         /\ Append(s, n)[Len(s) + 1] = n
OBVIOUS

LEMMA FrontFacts ==
  ASSUME NEW s \in Seq(Indices), s # <<>>
  PROVE  /\ Front(s) \in Seq(Indices)
         /\ DOMAIN Front(s) = DOMAIN s \ {Len(s)}
         /\ \A i \in DOMAIN Front(s) : Front(s)[i] = s[i]
         /\ Len(s) \in DOMAIN s /\ Last(s) = s[Len(s)] /\ Last(s) \in Indices
         /\ \A i \in DOMAIN s : i <= Len(s)
BY DEF Front, Last

-----------------------------------------------------------------------------
(* The first pass.                                                         *)

LEMMA SearchInitInv == SearchInit => SearchInv
<1> SUFFICES ASSUME SearchInit PROVE SearchInv
  OBVIOUS
<1> USE DEF SearchInit
<1>1. SearchTypeOK
  BY DEF SearchTypeOK
<1>2. FirstPassOK
  BY DEF FirstPassOK, SeenIsKept, EnteredOnce, StackLeadsOn, LeftAreExhausted, LeavingOrder
<1>3. Assigned = {} /\ ~Open
  BY UnassignedAssumption DEF Assigned, Open
<1>4. PassesInTurn /\ ClosedAreWhole /\ OpenHasRoot
  BY <1>3 DEF PassesInTurn, ClosedAreWhole, OpenHasRoot
<1>5. LookedAtAreDone
  BY UnassignedAssumption DEF LookedAtAreDone
<1> QED BY <1>1, <1>2, <1>4, <1>5 DEF SearchInv, SecondPassOK

\* While the first pass runs the second has nothing.
LEMMA FirstPassLeavesTheSecond ==
  ASSUME SearchInv, ~FirstPassDone, UNCHANGED <<edges, secondPass>>
  PROVE  SecondPassOK'
<1>1. UNCHANGED <<edges, assigned, frontier, count>>
  BY DEF secondPass
<1>2. count = 0 /\ frontier = {} /\ Assigned = {}
  BY DEF SearchInv, SecondPassOK, PassesInTurn
<1>3. Assigned' = {} /\ ~Open'
  BY <1>1, <1>2, UnassignedAssumption DEF Assigned, Open
<1>4. PassesInTurn' /\ ClosedAreWhole' /\ OpenHasRoot'
  BY <1>1, <1>2, <1>3 DEF PassesInTurn, ClosedAreWhole, OpenHasRoot
<1>5. LookedAtAreDone'
  BY <1>1, <1>2, UnassignedAssumption DEF LookedAtAreDone, Assigned, SearchInv, SearchTypeOK
<1> QED BY <1>4, <1>5 DEF SecondPassOK

\* What is known of left nodes stays while more is entered.
LEMMA EnteringKeepsLeft ==
  ASSUME SearchInv, UNCHANGED <<edges, finish>>, seen \subseteq seen'
  PROVE  LeftAreExhausted' /\ LeavingOrder'
<1>1. LeftAreExhausted'
  BY DEF SearchInv, FirstPassOK, LeftAreExhausted, Exhausted
<1>2. LeavingOrder'
  BY DEF SearchInv, FirstPassOK, LeavingOrder, LeftBy, Way
<1> QED BY <1>1, <1>2

LEMMA EnterRootKeeps ==
  ASSUME SearchInv, EnterRoot
  PROVE  SearchInv'
<1>1. PICK root \in Indices \ seen : seen' = seen \cup {root} /\ stack' = <<root>>
  BY DEF EnterRoot
<1>2. stack = <<>> /\ UNCHANGED <<edges, finish, secondPass>> /\ ~FirstPassDone
  BY <1>1 DEF EnterRoot, FirstPassDone, SearchInv, SearchTypeOK
<1>3. SecondPassOK'
  BY <1>2, FirstPassLeavesTheSecond
<1>4. SearchTypeOK'
  BY <1>1, <1>2 DEF SearchInv, SearchTypeOK, secondPass
<1>5. DOMAIN stack' = {1} /\ stack'[1] = root /\ DOMAIN stack = {}
  BY <1>1, <1>2
<1>6. SeenIsKept'
  BY <1>1, <1>2, <1>5 DEF SearchInv, FirstPassOK, SeenIsKept
<1>7. StackLeadsOn'
  BY <1>2, <1>5, ReachesSelf DEF StackLeadsOn, Way
<1>8. LeftAreExhausted' /\ LeavingOrder'
  BY <1>1, <1>2, EnteringKeepsLeft
<1>9. EnteredOnce'
  BY <1>1, <1>2, <1>5 DEF SearchInv, FirstPassOK, SeenIsKept, EnteredOnce
<1> QED BY <1>3, <1>4, <1>6, <1>7, <1>8, <1>9 DEF SearchInv, FirstPassOK

LEMMA DescendKeeps ==
  ASSUME SearchInv, Descend
  PROVE  SearchInv'
<1>1. PICK next \in Indices \ seen : /\ <<Last(stack), next>> \in edges
                                     /\ seen' = seen \cup {next}
                                     /\ stack' = Append(stack, next)
  BY DEF Descend
<1>2. stack # <<>> /\ UNCHANGED <<edges, finish, secondPass>> /\ ~FirstPassDone
  BY <1>1 DEF Descend, FirstPassDone
<1>3. SecondPassOK'
  BY <1>2, FirstPassLeavesTheSecond
<1>t. stack \in Seq(Indices)
  BY DEF SearchInv, SearchTypeOK
<1>4. SearchTypeOK'
  BY <1>1, <1>2, <1>t, AppendFacts DEF SearchInv, SearchTypeOK, secondPass
<1>5. /\ DOMAIN stack' = DOMAIN stack \cup {Len(stack) + 1}
      /\ \A i \in DOMAIN stack : stack'[i] = stack[i] /\ i <= Len(stack)
      /\ stack'[Len(stack) + 1] = next
      /\ Len(stack) \in DOMAIN stack /\ Last(stack) = stack[Len(stack)]
  <2>1. Len(stack) \in DOMAIN stack /\ Last(stack) = stack[Len(stack)]
    BY <1>2, <1>t, FrontFacts
  <2> QED BY <1>1, <1>t, <2>1, AppendFacts
<1>6. SeenIsKept'
  BY <1>1, <1>2, <1>5 DEF SearchInv, FirstPassOK, SeenIsKept
<1>7. StackLeadsOn'
  <2>1. ASSUME NEW i \in DOMAIN stack PROVE Way(stack[i], next)
    <3>1. Way(stack[i], Last(stack))
      BY <1>5 DEF SearchInv, FirstPassOK, StackLeadsOn
    <3> QED BY <1>1, <3>1, ReachesAlongEdge DEF Way
  <2>2. \A i, j \in DOMAIN stack' : i <= j => Way(stack'[i], stack'[j])
    <3> SUFFICES ASSUME NEW i \in DOMAIN stack', NEW j \in DOMAIN stack', i <= j
                 PROVE  Way(stack'[i], stack'[j])
      OBVIOUS
    <3>1. CASE j \in DOMAIN stack
      <4>1. i \in DOMAIN stack
        <5>1. Len(stack) \in Nat /\ j <= Len(stack)
          BY <1>5, <1>t, <3>1
        <5> QED BY <1>5, <1>t, <3>1, <5>1
      <4> QED BY <1>5, <3>1, <4>1 DEF SearchInv, FirstPassOK, StackLeadsOn
    <3>2. CASE j = Len(stack) + 1 /\ i \in DOMAIN stack
      BY <1>5, <2>1, <3>2
    <3>3. CASE j = Len(stack) + 1 /\ i = Len(stack) + 1
      BY <3>3, ReachesSelf DEF Way
    <3> QED BY <1>5, <3>1, <3>2, <3>3
  <2> QED BY <1>2, <2>2 DEF StackLeadsOn, Way
<1>8. LeftAreExhausted' /\ LeavingOrder'
  BY <1>1, <1>2, EnteringKeepsLeft
<1>9. EnteredOnce'
  BY <1>1, <1>2, <1>5 DEF SearchInv, FirstPassOK, SeenIsKept, EnteredOnce
<1> QED BY <1>3, <1>4, <1>6, <1>7, <1>8, <1>9 DEF SearchInv, FirstPassOK

LEMMA LeaveKeeps ==
  ASSUME SearchInv, Leave
  PROVE  SearchInv'
<1> DEFINE node == Last(stack)
<1>0. PICK here : here = Len(finish) + 1
  OBVIOUS
<1>1. /\ stack # <<>> /\ Exhausted(node) /\ ~FirstPassDone
      /\ finish' = Append(finish, node)
      /\ stack' = Front(stack)
      /\ UNCHANGED <<edges, seen, secondPass>>
  BY DEF Leave, FirstPassDone
<1>2. SecondPassOK'
  BY <1>1, FirstPassLeavesTheSecond
<1>t. stack \in Seq(Indices) /\ finish \in Seq(Indices) /\ edges \subseteq Indices \X Indices
  BY DEF SearchInv, SearchTypeOK
<1>3. /\ stack' \in Seq(Indices)
      /\ DOMAIN stack' = DOMAIN stack \ {Len(stack)}
      /\ \A i \in DOMAIN stack' : stack'[i] = stack[i]
      /\ Len(stack) \in DOMAIN stack /\ node = stack[Len(stack)] /\ node \in Indices
      /\ \A i \in DOMAIN stack : i <= Len(stack)
  BY <1>1, <1>t, FrontFacts
<1>4. /\ finish' \in Seq(Indices)
      /\ DOMAIN finish' = DOMAIN finish \cup {here}
      /\ \A i \in DOMAIN finish : finish'[i] = finish[i] /\ i <= Len(finish)
      /\ finish'[here] = node
  BY <1>0, <1>1, <1>3, <1>t, AppendFacts
<1>5. SearchTypeOK'
  BY <1>1, <1>3, <1>4 DEF SearchInv, SearchTypeOK, secondPass
<1>6. SeenIsKept'
  BY <1>1, <1>3, <1>4 DEF SearchInv, FirstPassOK, SeenIsKept
<1>7. StackLeadsOn'
  BY <1>1, <1>3 DEF SearchInv, FirstPassOK, StackLeadsOn, Way
<1>8. LeftAreExhausted'
  BY <1>1, <1>4 DEF SearchInv, FirstPassOK, LeftAreExhausted, Exhausted
<1>9. LeavingOrder'
  <2>1. \A i \in DOMAIN finish : LeftBy(i)' = LeftBy(i)
    BY <1>0, <1>4, <1>t DEF LeftBy
  <2>2. LeftBy(here)' = {finish[i] : i \in DOMAIN finish} \cup {node}
    <3>1. 1..here = DOMAIN finish \cup {here}
      BY <1>0, <1>t
    <3>2. LeftBy(here)' = {finish'[i] : i \in DOMAIN finish \cup {here}}
      BY <3>1 DEF LeftBy
    <3> QED BY <1>4, <3>2
  <2>3. ASSUME NEW e \in edges, e[1] \in LeftBy(here)'
        PROVE  e[2] \in LeftBy(here)' \/ Way(e[2], node)
    <3>1. e[1] \in Indices /\ e[2] \in Indices /\ <<e[1], e[2]>> = e
      BY <1>t
    <3>2. Exhausted(e[1])
      BY <1>1, <2>2, <2>3 DEF SearchInv, FirstPassOK, LeftAreExhausted
    <3>3. e[2] \in seen
      BY <3>1, <3>2 DEF Exhausted
    <3>4. CASE e[2] \in {stack[i] : i \in DOMAIN stack}
      BY <1>3, <3>4 DEF SearchInv, FirstPassOK, StackLeadsOn
    <3>5. CASE e[2] \in {finish[i] : i \in DOMAIN finish}
      BY <2>2, <3>5
    <3> QED BY <3>3, <3>4, <3>5 DEF SearchInv, FirstPassOK, SeenIsKept
  <2>4. ASSUME NEW i \in DOMAIN finish', NEW e \in edges, e[1] \in LeftBy(i)'
        PROVE  e[2] \in LeftBy(i)' \/ Way(e[2], finish'[i])
    <3>1. CASE i \in DOMAIN finish
      BY <1>4, <2>1, <2>4, <3>1 DEF SearchInv, FirstPassOK, LeavingOrder
    <3>2. CASE i = here
      BY <1>4, <2>3, <2>4, <3>2
    <3> QED BY <1>4, <3>1, <3>2
  <2> QED BY <1>1, <2>4 DEF LeavingOrder, Way
<1>10. EnteredOnce'
  <2>1. Len(stack) \notin DOMAIN stack'
    BY <1>3
  <2> QED BY <1>0, <1>3, <1>4, <2>1 DEF SearchInv, FirstPassOK, EnteredOnce
<1> QED BY <1>2, <1>5, <1>6, <1>7, <1>8, <1>9, <1>10 DEF SearchInv, FirstPassOK

-----------------------------------------------------------------------------
(* The second pass.                                                        *)

LEMMA DomainOfSeq ==
  ASSUME NEW s \in Seq(Indices)
  PROVE  /\ DOMAIN s \in SUBSET Int /\ IsFiniteSet(DOMAIN s)
         /\ \A i \in DOMAIN s : s[i] \in Indices /\ i \in Nat /\ i >= 1 /\ 1..i \subseteq DOMAIN s
<1>1. DOMAIN s = 1..Len(s) /\ Len(s) \in Nat
  OBVIOUS
<1>2. IsFiniteSet(1..Len(s))
  BY <1>1, FS_Interval
<1> QED BY <1>1, <1>2

\* From a node that leads to finish[i] one comes back from finish[i] or from a
\* node left later: the last of its component that was left is such a one.
LEMMA LastOfComponent ==
  ASSUME SearchInv, FirstPassDone, NEW n \in Indices, NEW i \in DOMAIN finish,
         Way(n, finish[i])
  PROVE  \E m \in DOMAIN finish : m >= i /\ Mutual(n, finish[m])
<1>1. finish \in Seq(Indices) /\ edges \subseteq Indices \X Indices
  BY DEF SearchInv, SearchTypeOK
<1>2. Indices = {finish[j] : j \in DOMAIN finish}
  BY DEF SearchInv, FirstPassOK, SeenIsKept, FirstPassDone
<1>3. PICK own : own = {j \in DOMAIN finish : Mutual(n, finish[j])}
  OBVIOUS
<1>4. own \in SUBSET Int /\ IsFiniteSet(own) /\ own # {}
  <2>1. \E j \in DOMAIN finish : finish[j] = n
    BY <1>2
  <2>2. own # {}
    BY <1>3, <2>1, ConnectedFacts DEF Mutual
  <2> QED BY <1>1, <1>3, <2>2, DomainOfSeq, FS_Subset
<1>5. PICK m \in own : \A j \in own : m >= j
  BY <1>4, GreatestOfFinite
<1>6. m \in DOMAIN finish /\ Mutual(n, finish[m]) /\ m \in Nat /\ i \in Nat
  BY <1>1, <1>3, DomainOfSeq
<1>7. ASSUME m < i PROVE FALSE
  <2>1. PICK kept : kept = {x \in LeftBy(m) : Way(finish[m], x)}
    OBVIOUS
  <2>2. kept \in SUBSET Indices /\ finish[m] \in kept
    <3>1. LeftBy(m) \subseteq Indices
      BY <1>1, <1>6, DomainOfSeq DEF LeftBy
    <3>2. finish[m] \in LeftBy(m)
      BY <1>1, <1>6, DomainOfSeq DEF LeftBy
    <3> QED BY <2>1, <3>1, <3>2, ReachesSelf DEF Way
  <2>3. Way(finish[m], finish[i])
    BY <1>6, ReachesTransitive DEF Mutual, Connected, Way
  \* A way that leaves those left so far comes back to finish[m].
  <2>4. ASSUME NEW e \in edges, e[1] \in kept, e[2] \notin LeftBy(m) PROVE FALSE
    <3>1. Way(finish[m], e[2])
      BY <2>1, <2>4, ReachesAlongEdge DEF Way
    <3>2. Way(e[2], finish[m])
      BY <1>6, <2>1, <2>4 DEF SearchInv, FirstPassOK, LeavingOrder
    <3>3. Mutual(n, e[2])
      BY <1>6, <3>1, <3>2, ConnectedFacts DEF Mutual, Connected, Way
    <3>4. PICK j \in DOMAIN finish : finish[j] = e[2]
      BY <1>1, <1>2
    <3>5. j \in own /\ j \in Nat
      BY <1>1, <1>3, <3>3, <3>4, DomainOfSeq
    <3>6. j \notin 1..m
      BY <2>4, <3>4 DEF LeftBy
    <3>7. j >= 1
      BY <1>1, DomainOfSeq
    <3> QED BY <1>5, <1>6, <3>5, <3>6, <3>7
  <2>5. Closed(edges, kept)
    <3> SUFFICES ASSUME NEW e \in edges, e[1] \in kept PROVE e[2] \in kept
      BY DEF Closed
    <3>1. Way(finish[m], e[2])
      BY <2>1, ReachesAlongEdge DEF Way
    <3>2. e[2] \in LeftBy(m)
      BY <2>4
    <3> QED BY <2>1, <3>1, <3>2
  <2>6. finish[i] \in kept
    BY <2>2, <2>3, <2>5, ReachesWithin DEF Way
  <2>7. PICK j \in 1..m : finish[i] = finish[j]
    BY <2>1, <2>6 DEF LeftBy
  <2>8. j \in DOMAIN finish /\ j < i
    BY <1>1, <1>6, <1>7, DomainOfSeq
  <2> QED BY <2>7, <2>8 DEF SearchInv, FirstPassOK, EnteredOnce
<1> QED BY <1>6, <1>7

\* The second pass leaves the first one's work alone.
LEMMA SecondPassLeavesTheFirst ==
  ASSUME SearchInv, UNCHANGED <<edges, firstPass>>
  PROVE  FirstPassOK'
BY DEF SearchInv, FirstPassOK, SeenIsKept, EnteredOnce, StackLeadsOn, LeftAreExhausted,
       LeavingOrder, LeftBy, Exhausted, Way, firstPass

\* A node that leads to the root of the component in work, and is in no
\* component yet or in this one, is connected with the root.
LEMMA LeadsToRoot ==
  ASSUME SearchInv, FirstPassDone, NEW i \in DOMAIN finish,
         \A j \in DOMAIN finish : j > i => /\ finish[j] \in Assigned
                                            /\ assigned[finish[j]] < count,
         NEW n \in Indices, ~(n \in Assigned /\ assigned[n] < count), Way(n, finish[i])
  PROVE  Mutual(n, finish[i])
<1>1. PICK m \in DOMAIN finish : m >= i /\ Mutual(n, finish[m])
  BY LastOfComponent
<1>2. m \in Nat /\ i \in Nat /\ finish[m] \in Indices
  BY DomainOfSeq DEF SearchInv, SearchTypeOK
<1>3. ASSUME m > i PROVE FALSE
  <2>1. finish[m] \in Assigned /\ assigned[finish[m]] < count
    BY <1>3
  <2>2. Mutual(finish[m], n)
    BY <1>1, ConnectedFacts DEF Mutual
  <2>3. assigned[n] = assigned[finish[m]]
    BY <1>2, <2>1, <2>2 DEF SearchInv, SecondPassOK, ClosedAreWhole
  <2> QED BY <2>1, <2>3 DEF Assigned
<1> QED BY <1>1, <1>2, <1>3

LEMMA StartComponentKeeps ==
  ASSUME SearchInv, StartComponent
  PROVE  SearchInv'
<1>1. PICK i \in DOMAIN finish : /\ IsNextRoot(i)
                                 /\ assigned' = [assigned EXCEPT ![finish[i]] = count]
                                 /\ frontier' = {finish[i]}
  BY DEF StartComponent
<1>2. FirstPassDone /\ ~Open /\ UNCHANGED <<edges, firstPass, count>>
  BY DEF StartComponent
<1>3. PICK root \in Indices : root = finish[i]
  BY DomainOfSeq DEF SearchInv, SearchTypeOK
<1>4. /\ assigned \in [Indices -> Nat \cup {Unassigned}] /\ count \in Nat
      /\ edges \subseteq Indices \X Indices /\ assigned[root] = Unassigned
  BY <1>1, <1>3 DEF SearchInv, SearchTypeOK, IsNextRoot
<1>5. /\ assigned'[root] = count /\ count' = count /\ finish' = finish /\ edges' = edges
      /\ \A n \in Indices : n # root => assigned'[n] = assigned[n]
      /\ \A n \in Indices : assigned[n] # count
  BY <1>1, <1>2, <1>3, <1>4 DEF Open, firstPass
<1>6. FirstPassOK' /\ FirstPassDone'
  BY <1>2, SecondPassLeavesTheFirst DEF FirstPassDone, firstPass
<1>7. SearchTypeOK'
  BY <1>1, <1>2, <1>3, <1>4 DEF SearchInv, SearchTypeOK, firstPass
<1>8. Assigned' = Assigned \cup {root} /\ root \notin Assigned
  BY <1>4, <1>5, UnassignedAssumption DEF Assigned
<1>9. \A n \in Assigned : assigned[n] \in Nat /\ assigned[n] < count /\ n \in Indices
  BY <1>4, <1>5 DEF Assigned, SearchInv, SecondPassOK, PassesInTurn
<1>10. PassesInTurn'
  BY <1>1, <1>3, <1>4, <1>5, <1>6, <1>8, <1>9 DEF PassesInTurn
<1>11. ClosedAreWhole'
  <2> SUFFICES ASSUME NEW u \in Indices, u \in Assigned', assigned'[u] < count, NEW v \in Indices
               PROVE  assigned'[v] = assigned'[u] <=> Mutual(u, v)
    BY <1>5 DEF ClosedAreWhole, Mutual
  <2>1. u # root /\ u \in Assigned /\ assigned'[u] = assigned[u] /\ assigned[u] < count
    BY <1>4, <1>5, <1>8
  <2>2. assigned[v] = assigned[u] <=> Mutual(u, v)
    BY <2>1 DEF SearchInv, SecondPassOK, ClosedAreWhole
  <2>3. CASE v = root
    BY <1>4, <1>5, <1>9, <2>1, <2>2, <2>3, UnassignedAssumption
  <2>4. CASE v # root
    BY <1>5, <2>1, <2>2, <2>4
  <2> QED BY <2>3, <2>4
<1>12. IsRoot(i)'
  <2>1. assigned'[finish[i]] = count
    BY <1>3, <1>5
  <2>2. ASSUME NEW j \in DOMAIN finish, j > i
        PROVE  finish[j] \in Assigned' /\ assigned'[finish[j]] < count
    <3>1. finish[j] \in Indices /\ assigned[finish[j]] # Unassigned
      BY <1>1, <2>2, DomainOfSeq DEF IsNextRoot, SearchInv, SearchTypeOK
    <3>2. finish[j] \in Assigned /\ finish[j] # root
      BY <1>4, <3>1 DEF Assigned
    <3> QED BY <1>5, <1>8, <1>9, <3>1, <3>2
  <2>3. ASSUME NEW n \in Indices, assigned'[n] = count PROVE Mutual(n, finish[i])
    BY <1>3, <1>5, <2>3, ConnectedFacts DEF Mutual
  <2> QED BY <1>5, <2>1, <2>2, <2>3 DEF IsRoot, Mutual
<1>13. OpenHasRoot'
  BY <1>5, <1>12 DEF OpenHasRoot
<1>14. LookedAtAreDone'
  BY <1>1, <1>3, <1>4, <1>5 DEF LookedAtAreDone
<1> QED BY <1>6, <1>7, <1>10, <1>11, <1>13, <1>14 DEF SearchInv, SecondPassOK

LEMMA AbsorbKeeps ==
  ASSUME SearchInv, Absorb
  PROVE  SearchInv'
<1>1. PICK node \in frontier :
        /\ assigned' = [n \in Indices |-> IF n \in NewPredecessors(node) THEN count
                                         ELSE assigned[n]]
        /\ frontier' = (frontier \ {node}) \cup NewPredecessors(node)
  BY DEF Absorb
<1>2. UNCHANGED <<edges, firstPass, count>> /\ FirstPassDone
  BY <1>1 DEF Absorb, SearchInv, SecondPassOK, PassesInTurn
<1>3. PICK new : new = NewPredecessors(node)
  OBVIOUS
<1>4. /\ assigned \in [Indices -> Nat \cup {Unassigned}] /\ count \in Nat
      /\ edges \subseteq Indices \X Indices /\ frontier \subseteq Indices
      /\ node \in Indices /\ assigned[node] = count /\ node \in Assigned
  BY <1>1, UnassignedAssumption DEF SearchInv, SearchTypeOK, SecondPassOK, PassesInTurn, Assigned
<1>5. new = {n \in Indices : <<n, node>> \in edges /\ assigned[n] = Unassigned}
  BY <1>3 DEF NewPredecessors
<1>6. /\ count' = count /\ finish' = finish /\ edges' = edges
      /\ \A n \in Indices \ new : assigned'[n] = assigned[n]
      /\ \A n \in new : assigned'[n] = count
  BY <1>1, <1>2, <1>3, <1>5 DEF firstPass
<1>7. FirstPassOK' /\ FirstPassDone'
  BY <1>2, SecondPassLeavesTheFirst DEF FirstPassDone, firstPass
<1>8. SearchTypeOK'
  BY <1>1, <1>2, <1>3, <1>4, <1>5 DEF SearchInv, SearchTypeOK, firstPass
<1>9. Assigned' = Assigned \cup new /\ Assigned \cap new = {}
  BY <1>4, <1>5, <1>6, UnassignedAssumption DEF Assigned
<1>10. \A n \in Assigned : assigned[n] \in Nat /\ assigned[n] <= count /\ n \in Indices
  BY <1>4 DEF Assigned, SearchInv, SecondPassOK, PassesInTurn
<1>11. PassesInTurn'
  <2>1. \A n \in Assigned' : assigned'[n] <= count
    BY <1>4, <1>6, <1>9, <1>10
  <2>2. \A n \in frontier' : assigned'[n] = count
    BY <1>1, <1>3, <1>4, <1>6 DEF SearchInv, SecondPassOK, PassesInTurn
  <2> QED BY <1>6, <1>7, <2>1, <2>2 DEF PassesInTurn
<1>12. ClosedAreWhole'
  <2> SUFFICES ASSUME NEW u \in Indices, u \in Assigned', assigned'[u] < count, NEW v \in Indices
               PROVE  assigned'[v] = assigned'[u] <=> Mutual(u, v)
    BY <1>6 DEF ClosedAreWhole, Mutual
  <2>1. u \notin new /\ u \in Assigned /\ assigned'[u] = assigned[u] /\ assigned[u] < count
    BY <1>4, <1>6, <1>9
  <2>2. assigned[v] = assigned[u] <=> Mutual(u, v)
    BY <2>1 DEF SearchInv, SecondPassOK, ClosedAreWhole
  <2>3. CASE v \in new
    BY <1>4, <1>5, <1>6, <1>10, <2>1, <2>2, <2>3, UnassignedAssumption
  <2>4. CASE v \notin new
    BY <1>6, <2>1, <2>2, <2>4
  <2> QED BY <2>3, <2>4
<1>13. PICK i \in DOMAIN finish : IsRoot(i)
  BY <1>4 DEF Open, SearchInv, SecondPassOK, OpenHasRoot
<1>14. IsRoot(i)'
  <2>1. finish[i] \in Indices /\ \A j \in DOMAIN finish : finish[j] \in Indices
    BY DomainOfSeq DEF SearchInv, SearchTypeOK
  <2>2. finish[i] \notin new /\ assigned[finish[i]] = count
    BY <1>4, <1>5, <1>13, UnassignedAssumption DEF IsRoot
  <2>3. ASSUME NEW j \in DOMAIN finish, j > i
        PROVE  finish[j] \in Assigned' /\ assigned'[finish[j]] < count
    BY <1>6, <1>9, <1>13, <2>1, <2>3 DEF IsRoot
  <2>4. ASSUME NEW n \in new PROVE Mutual(n, finish[i])
    <3>1. n \in Indices /\ <<n, node>> \in edges /\ n \notin Assigned
      BY <1>5 DEF Assigned
    <3>2. Mutual(node, finish[i])
      BY <1>4, <1>13 DEF IsRoot
    <3>3. Way(n, node)
      <4>1. PICK e \in edges : e = <<n, node>>
        BY <3>1
      <4>2. Way(n, e[1])
        BY <4>1, ReachesSelf DEF Way
      <4> QED BY <4>1, <4>2, ReachesAlongEdge DEF Way
    <3>4. Way(n, finish[i])
      BY <3>2, <3>3, ReachesTransitive DEF Way, Mutual, Connected
    <3> QED BY <1>2, <1>13, <3>1, <3>4, LeadsToRoot DEF IsRoot
  <2>5. \A n \in Indices : assigned'[n] = count => Mutual(n, finish[i])
    BY <1>6, <1>13, <2>4 DEF IsRoot
  <2> QED BY <1>6, <2>1, <2>2, <2>3, <2>5 DEF IsRoot, Mutual
<1>15. OpenHasRoot'
  BY <1>6, <1>14 DEF OpenHasRoot
<1>16. LookedAtAreDone'
  <2> SUFFICES ASSUME NEW e \in edges, assigned'[e[2]] = count, e[2] \notin frontier'
               PROVE  e[1] \in Assigned'
    BY <1>6 DEF LookedAtAreDone
  <2>1. e[1] \in Indices /\ e[2] \in Indices /\ e = <<e[1], e[2]>>
    BY <1>4
  <2>2. e[2] \notin new /\ assigned[e[2]] = count
    BY <1>1, <1>3, <1>6, <2>1
  <2>3. CASE e[2] = node
    <3>1. e[1] \in Assigned \/ e[1] \in new
      BY <1>5, <2>1, <2>3 DEF Assigned
    <3> QED BY <1>9, <3>1
  <2>4. CASE e[2] # node
    BY <1>1, <1>3, <1>9, <2>2, <2>4 DEF SearchInv, SecondPassOK, LookedAtAreDone
  <2> QED BY <2>3, <2>4
<1> QED BY <1>7, <1>8, <1>11, <1>12, <1>15, <1>16 DEF SearchInv, SecondPassOK

\* When nothing is left to be looked at, the component in work is whole.
LEMMA LookedAtIsWhole ==
  ASSUME SearchInv, Open, frontier = {}, NEW u \in Indices, assigned[u] = count, NEW v \in Indices
  PROVE  assigned[v] = count <=> Mutual(u, v)
<1>1. PICK i \in DOMAIN finish : IsRoot(i)
  BY DEF SearchInv, SecondPassOK, OpenHasRoot
<1>2. Mutual(u, finish[i])
  BY <1>1 DEF IsRoot
<1>3. /\ assigned \in [Indices -> Nat \cup {Unassigned}] /\ count \in Nat
      /\ edges \subseteq Indices \X Indices /\ u \in Assigned
  BY UnassignedAssumption DEF SearchInv, SearchTypeOK, Assigned
<1>4. ASSUME assigned[v] = count PROVE Mutual(u, v)
  <2>1. Mutual(v, finish[i])
    BY <1>1, <1>4 DEF IsRoot
  <2> QED BY <1>2, <2>1, ConnectedFacts DEF Mutual
<1>5. ASSUME Mutual(u, v), assigned[v] # count PROVE FALSE
  <2>1. PICK other : other = {x \in Indices : Way(v, x) /\ assigned[x] # count}
    OBVIOUS
  <2>2. Closed(edges, other)
    <3> SUFFICES ASSUME NEW e \in edges, e[1] \in other, e[2] \notin other PROVE FALSE
      BY DEF Closed
    <3>1. e[1] \in Indices /\ e[2] \in Indices /\ Way(v, e[1]) /\ assigned[e[1]] # count
      BY <1>3, <2>1
    <3>2. Way(v, e[2])
      BY <3>1, ReachesAlongEdge DEF Way
    <3>3. assigned[e[2]] = count
      BY <2>1, <3>1, <3>2
    <3>4. Mutual(e[2], finish[i])
      BY <1>1, <3>1, <3>3 DEF IsRoot
    <3>5. Way(e[1], e[2])
      BY ReachesSelf, ReachesAlongEdge DEF Way
    <3>6. Mutual(e[1], u)
      <4>1. Way(u, v) /\ Way(finish[i], u) /\ Way(e[2], finish[i])
        BY <1>2, <1>5, <3>4 DEF Mutual, Connected, Way
      <4>2. Way(u, e[1])
        BY <3>1, <4>1, ReachesTransitive DEF Way
      <4>3. Way(e[2], u)
        BY <4>1, ReachesTransitive DEF Way
      <4>4. Way(e[1], u)
        BY <3>5, <4>3, ReachesTransitive DEF Way
      <4> QED BY <4>2, <4>4 DEF Mutual, Connected, Way
    <3>7. e[1] \in Assigned
      BY <3>3 DEF SearchInv, SecondPassOK, LookedAtAreDone
    <3>8. assigned[e[1]] < count
      BY <1>3, <3>1, <3>7 DEF SearchInv, SecondPassOK, PassesInTurn, Assigned
    <3>9. assigned[u] = assigned[e[1]]
      BY <3>1, <3>6, <3>7, <3>8 DEF SearchInv, SecondPassOK, ClosedAreWhole
    <3> QED BY <1>3, <3>8, <3>9
  <2>3. u \in other
    BY <1>5, <2>1, <2>2, ReachesSelf, ReachesWithin DEF Mutual, Connected, Way
  <2> QED BY <2>1, <2>3
<1> QED BY <1>4, <1>5

LEMMA CloseComponentKeeps ==
  ASSUME SearchInv, CloseComponent
  PROVE  SearchInv'
<1>1. /\ Open /\ frontier = {} /\ count' = count + 1
      /\ UNCHANGED <<edges, firstPass, assigned, frontier>>
  BY DEF CloseComponent
<1>2. /\ assigned \in [Indices -> Nat \cup {Unassigned}] /\ count \in Nat
      /\ edges \subseteq Indices \X Indices
  BY DEF SearchInv, SearchTypeOK
<1>3. Assigned' = Assigned /\ Assigned # {}
  BY <1>1, <1>2, UnassignedAssumption DEF Assigned, Open
<1>4. FirstPassOK' /\ FirstPassDone'
  <2>1. FirstPassDone
    BY <1>3 DEF SearchInv, SecondPassOK, PassesInTurn
  <2> QED BY <1>1, <2>1, SecondPassLeavesTheFirst DEF FirstPassDone, firstPass
<1>5. SearchTypeOK'
  BY <1>1, <1>2 DEF SearchInv, SearchTypeOK, firstPass
<1>6. \A n \in Assigned : n \in Indices /\ assigned[n] \in Nat /\ assigned[n] <= count
  BY <1>2 DEF Assigned, SearchInv, SecondPassOK, PassesInTurn
<1>7. \A n \in Indices : assigned[n] # count + 1
  BY <1>2, <1>6, UnassignedAssumption DEF Assigned
<1>8. PassesInTurn'
  BY <1>1, <1>2, <1>3, <1>4, <1>6 DEF PassesInTurn
<1>9. ClosedAreWhole'
  <2> SUFFICES ASSUME NEW u \in Indices, u \in Assigned, NEW v \in Indices
               PROVE  assigned[v] = assigned[u] <=> Mutual(u, v)
    BY <1>1, <1>3 DEF ClosedAreWhole, Mutual
  <2>1. CASE assigned[u] = count
    BY <1>1, <2>1, LookedAtIsWhole
  <2>2. CASE assigned[u] < count
    BY <2>2 DEF SearchInv, SecondPassOK, ClosedAreWhole
  <2> QED BY <1>2, <1>6, <2>1, <2>2
<1>10. OpenHasRoot' /\ LookedAtAreDone'
  <2>1. ~Open'
    BY <1>1, <1>7 DEF Open
  <2>2. LookedAtAreDone'
    BY <1>1, <1>2, <1>7 DEF LookedAtAreDone
  <2> QED BY <2>1, <2>2 DEF OpenHasRoot
<1> QED BY <1>4, <1>5, <1>8, <1>9, <1>10 DEF SearchInv, SecondPassOK

-----------------------------------------------------------------------------
(* The theorem.                                                            *)

LEMMA SearchNextInv == SearchInv /\ [SearchNext]_searchVars => SearchInv'
<1> SUFFICES ASSUME SearchInv, [SearchNext]_searchVars PROVE SearchInv'
  OBVIOUS
<1>1. CASE EnterRoot
  BY <1>1, EnterRootKeeps
<1>2. CASE Descend
  BY <1>2, DescendKeeps
<1>3. CASE Leave
  BY <1>3, LeaveKeeps
<1>4. CASE StartComponent
  BY <1>4, StartComponentKeeps
<1>5. CASE Absorb
  BY <1>5, AbsorbKeeps
<1>6. CASE CloseComponent
  BY <1>6, CloseComponentKeeps
<1>7. CASE UNCHANGED searchVars
  <2>1. UNCHANGED <<edges, seen, stack, finish, assigned, frontier, count>>
    BY <1>7 DEF searchVars
  <2>2. FirstPassOK'
    BY <2>1, SecondPassLeavesTheFirst DEF firstPass
  <2>3. SearchTypeOK'
    BY <2>1 DEF SearchInv, SearchTypeOK
  <2>4. PassesInTurn' /\ ClosedAreWhole' /\ LookedAtAreDone'
    BY <2>1 DEF SearchInv, SecondPassOK, PassesInTurn, ClosedAreWhole, LookedAtAreDone, Mutual,
                Assigned, FirstPassDone
  <2>5. OpenHasRoot'
    BY <2>1 DEF SearchInv, SecondPassOK, OpenHasRoot, IsRoot, Open, Mutual, Assigned
  <2> QED BY <2>2, <2>3, <2>4, <2>5 DEF SearchInv, SecondPassOK
<1> QED BY <1>1, <1>2, <1>3, <1>4, <1>5, <1>6, <1>7 DEF SearchNext

LEMMA SearchInvComponents == SearchInv => ComponentsAreMutual
<1> SUFFICES ASSUME SearchInv, SearchDone, NEW u \in Indices, NEW v \in Indices
             PROVE  assigned[u] = assigned[v] <=> Connected(Indices, edges, u, v)
  BY DEF ComponentsAreMutual, SearchInv
<1>1. u \in Assigned /\ assigned[u] \in Nat /\ assigned[u] # count /\ assigned[u] <= count
  BY DEF SearchDone, Open, Assigned, SearchInv, SearchTypeOK, SecondPassOK, PassesInTurn
<1>2. assigned[u] < count
  BY <1>1 DEF SearchInv, SearchTypeOK
<1> QED BY <1>1, <1>2 DEF SearchInv, SecondPassOK, ClosedAreWhole, Mutual

(* In every graph, whichever unseen neighbour is entered by the first pass *)
(* and whichever node is looked back from by the second: when it is done,  *)
(* two nodes have the same component exactly when each reaches the other   *)
(* (strongly_connected_components).                                        *)
THEOREM ComponentsAreStrong == SearchSpec => []ComponentsAreMutual
<1>1. SearchSpec => []SearchInv
  BY SearchInitInv, SearchNextInv, PTL DEF SearchSpec
<1> QED BY <1>1, SearchInvComponents, PTL

-----------------------------------------------------------------------------
(* The inductive invariant of Ranking.                                     *)

Ordered == {topological[i] : i \in DOMAIN topological}

\* What component_graph builds before its loop, and that it stays.
Structure ==
  /\ graph \in Graphs /\ WellConstrained(graph)
  /\ stage # "graph" =>
       /\ component = [n \in Nodes |-> ComponentOf(n)]
       /\ out = [c \in Components |->
                   {d \in Components : d # c /\ \E p \in RankPairs : p[1] \in c /\ p[2] \in d}]

\* The loop of component_graph: indegree counts the predecessors that are not
\* ordered yet, and what waits outside `ready' has one.
Order ==
  /\ stage = "graph" => topological = <<>>
  /\ stage # "graph" =>
       /\ topological \in Seq(Components)
       /\ \A i, j \in DOMAIN topological : topological[i] = topological[j] => i = j
       /\ PredecessorsFirst
       /\ ready \subseteq Components \ Ordered
       /\ indegree \in [Components -> Nat]
       /\ \A c \in Components \ Ordered : indegree[c] = Cardinality(Predecessors(c) \ Ordered)
       /\ \A c \in ready : Predecessors(c) \subseteq Ordered
       /\ \A c \in Components \ (Ordered \cup ready) : ~ (Predecessors(c) \subseteq Ordered)
  /\ stage \notin {"graph", "order"} => Ordered = Components

\* The loop of earliest_ranks: edges out of the components before the cursor
\* lead to higher ranks, and a raised rank comes from one of them.
RelaxedBefore(k) ==
  /\ rank \in [Components -> Nat]
  /\ \A c \in Components : rank[c] >= FirstRank(c)
  /\ \A i \in DOMAIN topological : i < k =>
       \A d \in out[topological[i]] : rank[topological[i]] < rank[d]
  /\ \A c \in Components :
       \/ rank[c] = FirstRank(c)
       \/ \E i \in DOMAIN topological :
            i < k /\ c \in out[topological[i]] /\ rank[c] = rank[topological[i]] + 1

Ranks ==
  /\ stage = "relax" => cursor \in 1..Len(topological) + 1 /\ RelaxedBefore(cursor)
  /\ HasEarliest =>
       /\ RelaxedBefore(Len(topological) + 1)
       /\ earliest = [n \in Nodes |->
                        IF n \in graph.outputs THEN OutputRank ELSE rank[component[n]]]

\* The loop of rank_candidates from the sinks back: no rank and distance
\* together pass the horizon.
Distances ==
  /\ stage \in {"graph", "order", "relax"} => latest = None
  /\ stage = "distance" \/ latest # None =>
       /\ graph.inputs = {} /\ graph.outputs = {}
       /\ cursor \in 0..Len(topological)
       /\ distance \in [Components -> Nat]
       /\ \A i \in DOMAIN topological : i > cursor =>
            \A d \in out[topological[i]] : distance[d] + 1 <= distance[topological[i]]
       /\ \A c \in Components : rank[c] + distance[c] <= Horizon
  /\ latest # None => stage = "done" /\ cursor = 0 /\ latest = Candidate
  /\ stage = "distance" => latest = None

Types ==
  /\ stage \in {"graph", "order", "relax", "distance", "done"}
  /\ component \in [Nodes -> SUBSET Nodes]
  /\ ready \subseteq SUBSET Nodes
  /\ cursor \in Nat
  /\ earliest \in [Nodes -> Nat]
  /\ latest \in [Nodes -> Nat] \cup {None}

IInv == Types /\ Structure /\ Order /\ Ranks /\ Distances

-----------------------------------------------------------------------------
(* Components.                                                             *)

LEMMA PairsOfNodes ==
  ASSUME graph \in Graphs
  PROVE  /\ Pairs(Participating(graph)) \in SUBSET (Nodes \X Nodes)
         /\ RankPairs \in SUBSET (Nodes \X Nodes)
         /\ RankPairs \subseteq Pairs(Participating(graph))
<1>1. graph \in Graph
  BY GraphsAssumption
<1>2. \A e \in graph.edges : e.source \in Nodes /\ e.target \in Nodes
  BY <1>1 DEF Graph
<1> QED BY <1>2 DEF Pairs, Participating, RankPairs, RankEdges

PartitionBy(pairs) == [n \in Nodes |-> {m \in Nodes : Connected(Nodes, pairs, n, m)}]

\* Components partition the nodes.
LEMMA Partition ==
  ASSUME NEW pairs, NEW comp, comp = PartitionBy(pairs),
         NEW comps, \A c : c \in comps <=> \E n \in Nodes : c = comp[n]
  PROVE  /\ \A n \in Nodes : n \in comp[n] /\ comp[n] \in SUBSET Nodes
         /\ \A c \in comps : \A n \in c : n \in Nodes /\ comp[n] = c
         /\ \A c \in comps : c # {}
         /\ comps \in SUBSET SUBSET Nodes
         /\ IsFiniteSet(comps)
<1>1. \A n \in Nodes : n \in comp[n] /\ comp[n] \in SUBSET Nodes
  BY ConnectedFacts DEF PartitionBy
<1>2. ASSUME NEW n \in Nodes, NEW m \in comp[n] PROVE comp[m] = comp[n]
  <2>1. m \in Nodes /\ Connected(Nodes, pairs, n, m)
    BY <1>2 DEF PartitionBy
  <2>2. \A x : Connected(Nodes, pairs, n, x) <=> Connected(Nodes, pairs, m, x)
    BY <2>1, ConnectedFacts
  <2> QED BY <2>1, <2>2 DEF PartitionBy
<1>3. \A c \in comps : \A n \in c : n \in Nodes /\ comp[n] = c
  BY <1>1, <1>2
<1>4. comps \in SUBSET SUBSET Nodes /\ \A c \in comps : c # {}
  BY <1>1
<1>5. IsFiniteSet(comps)
  <2>1. comp \in Surjection(Nodes, comps)
    BY <1>1 DEF Surjection, PartitionBy
  <2> QED BY <2>1, FS_Surjection, NodesAssumption
<1> QED BY <1>1, <1>3, <1>4, <1>5

LEMMA ComponentFacts ==
  ASSUME component = [n \in Nodes |-> ComponentOf(n)]
  PROVE  /\ \A n \in Nodes : n \in component[n] /\ component[n] \in SUBSET Nodes
         /\ \A c \in Components : \A n \in c : n \in Nodes /\ component[n] = c
         /\ \A c \in Components : c # {}
         /\ Components \in SUBSET SUBSET Nodes
         /\ IsFiniteSet(Components)
<1>1. component = PartitionBy(RankPairs)
  BY DEF ComponentOf, PartitionBy
<1>2. \A c : c \in Components <=> \E n \in Nodes : c = component[n]
  BY DEF Components
<1> QED BY <1>1, <1>2, Partition

LEMMA OutFacts ==
  ASSUME Structure, stage # "graph"
  PROVE  /\ out \in [Components -> SUBSET Components]
         /\ \A c, d \in Components : d \in out[c] =>
              d # c /\ \E p \in RankPairs : p[1] \in c /\ p[2] \in d
         /\ \A e \in RankEdges(graph) :
              /\ e.source \in Nodes /\ e.target \in Nodes
              /\ component[e.source] \in Components /\ component[e.target] \in Components
              /\ \/ component[e.target] \in out[component[e.source]]
                 \/ component[e.target] = component[e.source]
         /\ \A d : Predecessors(d) \in SUBSET Components /\ d \notin Predecessors(d)
         /\ \A c, d : c \in Predecessors(d) <=> c \in Components /\ d \in out[c]
<1>1. out = [c \in Components |->
               {d \in Components : d # c /\ \E p \in RankPairs : p[1] \in c /\ p[2] \in d}]
  BY DEF Structure
<1>2. out \in [Components -> SUBSET Components]
  BY <1>1
<1>3. ASSUME NEW e \in RankEdges(graph)
      PROVE  /\ e.source \in Nodes /\ e.target \in Nodes
             /\ component[e.source] \in Components /\ component[e.target] \in Components
             /\ \/ component[e.target] \in out[component[e.source]]
                \/ component[e.target] = component[e.source]
  <2>1. <<e.source, e.target>> \in RankPairs
    BY DEF RankPairs, Pairs
  <2>2. e.source \in Nodes /\ e.target \in Nodes
    BY <2>1, PairsOfNodes DEF Structure
  <2>3. e.source \in component[e.source] /\ e.target \in component[e.target]
    BY <2>2, ComponentFacts DEF Structure
  <2>4. component[e.source] \in Components /\ component[e.target] \in Components
    BY <2>2 DEF Components
  <2>5. CASE component[e.target] # component[e.source]
    <3>1. PICK p \in RankPairs : p = <<e.source, e.target>>
      BY <2>1
    <3>2. p[1] \in component[e.source] /\ p[2] \in component[e.target]
      BY <3>1, <2>3
    <3> QED BY <1>1, <2>2, <2>4, <2>5, <3>2
  <2> QED BY <2>2, <2>4, <2>5
<1> QED BY <1>1, <1>2, <1>3 DEF Predecessors

\* The components cannot be left in a circle: of those outside a set that
\* does not hold them all, one has its predecessors in the set.
LEMMA SomeComponentIsNext ==
  ASSUME Structure, stage # "graph", NEW set, NEW rest, rest = Components \ set, rest # {}
  PROVE  \E c \in rest : Predecessors(c) \subseteq set
<1> DEFINE Behind(c) == {n \in Nodes : \E m \in c : Reaches(Nodes, RankPairs, n, m)}
<1>1. PICK Family : Family = {Behind(c) : c \in rest}
  OBVIOUS
<1>2. Family \in SUBSET SUBSET Nodes /\ Family # {}
  BY <1>1
<1>3. PICK U \in Family : \A V \in Family : V \subseteq U => V = U
  <2>1. IsFiniteSet(Nodes)
    BY NodesAssumption
  <2> HIDE DEF Behind
  <2> QED BY ONLY <2>1, <1>2, SmallestSubset
<1>4. PICK c \in rest : U = Behind(c)
  BY <1>1, <1>3
<1>5. SUFFICES ASSUME NEW b \in Predecessors(c), b \notin set PROVE FALSE
  BY <1>4
<1>6. b \in rest /\ b \in Components /\ c \in Components /\ c \in out[b]
  BY <1>4, <1>5, OutFacts
<1>7. PICK p \in RankPairs : b # c /\ p[1] \in b /\ p[2] \in c
  BY <1>6, OutFacts
<1>8. p[1] \in Nodes /\ p[2] \in Nodes /\ component[p[1]] = b /\ component[p[2]] = c
  BY <1>6, <1>7, ComponentFacts DEF Structure
<1>9. /\ \A x, y \in c : Reaches(Nodes, RankPairs, x, y)
      /\ \A x, y \in b : Reaches(Nodes, RankPairs, x, y)
  <2>1. ASSUME NEW d \in Components, NEW x \in d, NEW y \in d
        PROVE  Reaches(Nodes, RankPairs, x, y)
    <3>1. x \in Nodes /\ y \in ComponentOf(x)
      BY ComponentFacts DEF Structure
    <3> QED BY <3>1 DEF ComponentOf, Connected
  <2> QED BY <2>1, <1>6
<1>10. Reaches(Nodes, RankPairs, p[1], p[2])
  BY ReachesSelf, ReachesAlongEdge
<1>11. Behind(b) \subseteq Behind(c)
  <2>1. ASSUME NEW n \in Nodes, NEW m \in b, Reaches(Nodes, RankPairs, n, m)
        PROVE  Reaches(Nodes, RankPairs, n, p[2])
    <3>1. Reaches(Nodes, RankPairs, m, p[1])
      BY <1>7, <1>9
    <3> QED BY <2>1, <3>1, <1>10, ReachesTransitive
  <2> QED BY <2>1, <1>7
<1>12. p[2] \in Behind(c)
  BY <1>7, <1>8, ReachesSelf
<1>13. p[2] \notin Behind(b)
  <2> SUFFICES ASSUME NEW m \in b, Reaches(Nodes, RankPairs, p[2], m) PROVE FALSE
    OBVIOUS
  <2>1. Reaches(Nodes, RankPairs, p[2], p[1])
    <3>1. Reaches(Nodes, RankPairs, m, p[1])
      BY <1>7, <1>9
    <3> QED BY <3>1, ReachesTransitive
  <2>2. p[2] \in ComponentOf(p[1])
    BY <2>1, <1>8, <1>10 DEF ComponentOf, Connected
  <2> QED BY <2>2, <1>6, <1>7, <1>8, ComponentFacts DEF Structure
<1>14. Behind(b) \in Family
  BY <1>1, <1>6
<1> QED BY <1>3, <1>4, <1>11, <1>12, <1>13, <1>14

-----------------------------------------------------------------------------
(* The initial states, and component_graph.                                *)

LEMMA InitIInv == Init => IInv
<1> SUFFICES ASSUME Init PROVE IInv
  OBVIOUS
<1> USE DEF Init
<1>1. Types
  BY DEF Types
<1>2. Structure /\ Order
  BY DEF Structure, Order
<1>3. Ranks /\ Distances
  BY NoneAssumption DEF Ranks, Distances, HasEarliest
<1> QED BY <1>1, <1>2, <1>3 DEF IInv

LEMMA ComponentGraphKeeps ==
  ASSUME IInv, ComponentGraph
  PROVE  IInv'
<1> USE DEF ComponentGraph
<1>1. /\ component' = [n \in Nodes |-> ComponentOf(n)]
      /\ component' = PartitionBy(RankPairs)
      /\ \A c : c \in Components' <=> \E n \in Nodes : c = component'[n]
  BY DEF ComponentOf, Components, PartitionBy
<1>2. Components' \in SUBSET SUBSET Nodes /\ IsFiniteSet(Components')
  BY <1>1, Partition
<1>3. RankPairs' = RankPairs /\ \A n : ComponentOf(n)' = ComponentOf(n)
  BY DEF RankPairs, ComponentOf
<1>4. Types'
  <2>1. component' \in [Nodes -> SUBSET Nodes]
    BY <1>1 DEF ComponentOf
  <2> QED BY <2>1, <1>2 DEF Types, IInv
<1>5. Structure'
  BY <1>1, <1>3 DEF Structure, IInv
<1>6. Order'
  <2>1. topological' = <<>> /\ Ordered' = {}
    BY DEF IInv, Order, Ordered
  <2>2. \A d \in Components' : /\ IsFiniteSet(Predecessors(d)')
                             /\ Predecessors(d)' \in SUBSET Components'
                             /\ indegree'[d] = Cardinality(Predecessors(d)')
    BY <1>2, FS_Subset DEF Predecessors
  <2>3. indegree' \in [Components' -> Nat]
    BY <2>2, FS_CardinalityType
  <2>4. \A d \in Components' : indegree'[d] = 0 <=> Predecessors(d)' = {}
    BY <2>2, FS_EmptySet
  <2>5. PredecessorsFirst'
    BY <2>1 DEF PredecessorsFirst
  <2> QED BY <2>1, <2>2, <2>3, <2>4, <2>5 DEF Order
<1>7. Ranks' /\ Distances'
  BY DEF Ranks, Distances, HasEarliest, IInv
<1> QED BY <1>4, <1>5, <1>6, <1>7 DEF IInv

\* One component is ordered after all its predecessors.
LEMMA TakeReadyKeeps ==
  ASSUME IInv, TakeReady
  PROVE  IInv'
<1>1. PICK current \in ready :
        /\ topological' = Append(topological, current)
        /\ indegree' = [d \in Components |->
                          IF d \in out[current] THEN indegree[d] - 1 ELSE indegree[d]]
        /\ ready' = (ready \ {current}) \cup {d \in Components : BecomesReady(current, d)}
  BY DEF TakeReady
<1>2. /\ stage = "order" /\ stage' = "order"
      /\ UNCHANGED <<graph, component, out, cursor, rank, earliest, distance, latest>>
  BY DEF TakeReady
<1>3. /\ Structure /\ stage # "graph"
      /\ topological \in Seq(Components)
      /\ \A i, j \in DOMAIN topological : topological[i] = topological[j] => i = j
      /\ PredecessorsFirst
      /\ ready \subseteq Components \ Ordered
      /\ indegree \in [Components -> Nat]
      /\ \A c \in Components \ Ordered : indegree[c] = Cardinality(Predecessors(c) \ Ordered)
      /\ \A c \in ready : Predecessors(c) \subseteq Ordered
      /\ \A c \in Components \ (Ordered \cup ready) : ~ (Predecessors(c) \subseteq Ordered)
  BY <1>2 DEF IInv, Order
<1>4. Components' = Components /\ \A d : Predecessors(d)' = Predecessors(d)
  BY <1>2 DEF Components, Predecessors
<1>5. /\ current \in Components /\ current \notin Ordered
      /\ Predecessors(current) \subseteq Ordered
  BY <1>3
<1>6. /\ Len(topological) \in Nat
      /\ DOMAIN topological = 1..Len(topological)
      /\ DOMAIN topological' = 1..Len(topological) + 1
      /\ \A i \in DOMAIN topological : topological'[i] = topological[i]
      /\ topological'[Len(topological) + 1] = current
      /\ topological' \in Seq(Components)
  BY <1>1, <1>3, <1>5
<1>7. Ordered' = Ordered \cup {current}
  BY <1>6 DEF Ordered
<1>8. ASSUME NEW d \in Components, d \in out[current]
      PROVE  /\ d \notin Ordered /\ d # current /\ current \in Predecessors(d)
             /\ d \notin ready
             /\ indegree[d] \in Nat \ {0}
  <2>1. current \in Predecessors(d) /\ d # current
    BY <1>3, <1>5, <1>8, OutFacts
  <2>2. d \notin Ordered
    <3> SUFFICES ASSUME NEW i \in DOMAIN topological, topological[i] = d PROVE FALSE
      BY DEF Ordered
    <3> QED BY <1>3, <1>5, <2>1 DEF PredecessorsFirst, Ordered
  <2>3. d \notin ready
    BY <1>3, <1>5, <2>1
  <2>4. IsFiniteSet(Predecessors(d) \ Ordered) /\ Predecessors(d) \ Ordered # {}
    <3>1. IsFiniteSet(Components)
      BY <1>3, ComponentFacts DEF Structure
    <3>2. Predecessors(d) \ Ordered \in SUBSET Components
      BY DEF Predecessors
    <3> QED BY <1>5, <2>1, <3>1, <3>2, FS_Subset
  <2>5. indegree[d] \in Nat \ {0}
    BY <1>3, <2>2, <2>4, FS_CardinalityType, FS_EmptySet
  <2> QED BY <2>1, <2>2, <2>3, <2>5
<1>9. ASSUME NEW d \in Components \ Ordered
      PROVE  /\ IsFiniteSet(Predecessors(d) \ Ordered)
             /\ (Predecessors(d) \ Ordered) \ {current} = Predecessors(d) \ (Ordered \cup {current})
             /\ Cardinality(Predecessors(d) \ (Ordered \cup {current})) =
                  IF d \in out[current] THEN indegree[d] - 1 ELSE indegree[d]
  <2>1. IsFiniteSet(Components)
    BY <1>3, ComponentFacts DEF Structure
  <2>2. Predecessors(d) \ Ordered \in SUBSET Components
    BY DEF Predecessors
  <2>3. IsFiniteSet(Predecessors(d) \ Ordered)
    BY <2>1, <2>2, FS_Subset
  <2>4. (Predecessors(d) \ Ordered) \ {current} = Predecessors(d) \ (Ordered \cup {current})
    OBVIOUS
  <2>5. current \in Predecessors(d) \ Ordered <=> d \in out[current]
    BY <1>5 DEF Predecessors
  <2>6. Cardinality((Predecessors(d) \ Ordered) \ {current}) =
          IF d \in out[current] THEN indegree[d] - 1 ELSE indegree[d]
    <3>1. Cardinality((Predecessors(d) \ Ordered) \ {current}) =
            IF current \in Predecessors(d) \ Ordered
            THEN Cardinality(Predecessors(d) \ Ordered) - 1
            ELSE Cardinality(Predecessors(d) \ Ordered)
      BY <2>3, FS_RemoveElement
    <3>2. indegree[d] = Cardinality(Predecessors(d) \ Ordered)
      BY <1>3
    <3> QED BY <2>5, <3>1, <3>2
  <2> QED BY <2>3, <2>4, <2>6
<1>10. Types'
  <2>1. ready' \subseteq SUBSET Nodes
    <3>1. Components \in SUBSET SUBSET Nodes
      BY <1>3, ComponentFacts DEF Structure
    <3>2. ready' \subseteq Components
      BY <1>1, <1>3
    <3> QED BY <3>1, <3>2
  <2> QED BY <2>1, <1>2 DEF IInv, Types
<1>11. Structure'
  BY <1>2, <1>4 DEF IInv, Structure, RankPairs, ComponentOf
<1>12. Order'
  <2>1. \A i, j \in DOMAIN topological' : topological'[i] = topological'[j] => i = j
    BY <1>3, <1>5, <1>6 DEF Ordered
  <2>2. PredecessorsFirst'
    <3> SUFFICES ASSUME NEW i \in DOMAIN topological', NEW c \in Predecessors(topological'[i])
                 PROVE  \E j \in DOMAIN topological' : j < i /\ topological'[j] = c
      BY <1>4 DEF PredecessorsFirst
    <3>1. CASE i \in DOMAIN topological
      BY <3>1, <1>3, <1>6 DEF PredecessorsFirst
    <3>2. CASE i = Len(topological) + 1
      <4>1. c \in Ordered
        BY <3>2, <1>5, <1>6
      <4>2. PICK j \in DOMAIN topological : topological[j] = c
        BY <4>1 DEF Ordered
      <4> QED BY <3>2, <4>2, <1>6
    <3> QED BY <3>1, <3>2, <1>6
  <2>3. ready' \subseteq Components' \ Ordered'
    BY <1>1, <1>3, <1>4, <1>7, <1>8 DEF BecomesReady
  <2>4. indegree' \in [Components' -> Nat]
    <3>1. \A d \in Components : indegree'[d] \in Nat
      BY <1>1, <1>3, <1>8
    <3> QED BY <1>1, <1>4, <3>1
  <2>5. \A c \in Components' \ Ordered' : indegree'[c] = Cardinality(Predecessors(c)' \ Ordered')
    BY <1>1, <1>4, <1>7, <1>9
  <2>6. \A c \in ready' : Predecessors(c)' \subseteq Ordered'
    <3> SUFFICES ASSUME NEW c \in ready' PROVE Predecessors(c) \subseteq Ordered \cup {current}
      BY <1>4, <1>7
    <3>1. CASE c \in ready
      BY <3>1, <1>3
    <3>2. CASE c \in Components /\ BecomesReady(current, c)
      <4>1. c \notin Ordered /\ current \in Predecessors(c) \ Ordered
        BY <3>2, <1>5, <1>8 DEF BecomesReady
      <4>2. IsFiniteSet(Predecessors(c) \ Ordered)
        BY <3>2, <4>1, <1>9
      <4>3. Cardinality(Predecessors(c) \ Ordered) = 1
        BY <3>2, <4>1, <1>3 DEF BecomesReady
      <4>4. Predecessors(c) \ Ordered = {current}
        BY <4>1, <4>2, <4>3, FS_Singleton
      <4> QED BY <4>4
    <3> QED BY <3>1, <3>2, <1>1
  <2>7. \A c \in Components' \ (Ordered' \cup ready') : ~ (Predecessors(c)' \subseteq Ordered')
    <3> SUFFICES ASSUME NEW c \in Components, c \notin Ordered, c # current, c \notin ready',
                        Predecessors(c) \subseteq Ordered \cup {current}
                 PROVE  FALSE
      BY <1>4, <1>7
    <3>1. c \notin ready /\ ~ BecomesReady(current, c)
      BY <1>1
    <3>2. Predecessors(c) \ Ordered = {current}
      BY <1>3, <3>1
    <3>3. indegree[c] = 1
      BY <1>3, <3>2, FS_Singleton
    <3>4. c \in out[current]
      BY <3>2 DEF Predecessors
    <3> QED BY <3>1, <3>3, <3>4 DEF BecomesReady
  <2>8. Ordered' \subseteq Components' /\ topological' \in Seq(Components')
    BY <1>3, <1>4, <1>5, <1>6, <1>7 DEF Ordered
  <2> QED BY <1>2, <2>1, <2>2, <2>3, <2>4, <2>5, <2>6, <2>7, <2>8 DEF Order
<1>13. Ranks' /\ Distances'
  BY <1>2 DEF IInv, Ranks, Distances, HasEarliest
<1> QED BY <1>10, <1>11, <1>12, <1>13 DEF IInv

-----------------------------------------------------------------------------
(* The loop of earliest_ranks.                                             *)

\* An edge leads from an earlier to a later position.
LEMMA EdgesGoForward ==
  ASSUME Structure, Order, stage # "graph",
         NEW i \in DOMAIN topological, NEW k \in DOMAIN topological,
         topological[i] \in out[topological[k]]
  PROVE  k < i
<1>1. topological[k] \in Components /\ topological[i] \in Components
  BY DEF Order
<1>2. topological[k] \in Predecessors(topological[i])
  BY <1>1 DEF Predecessors
<1>3. PICK j \in DOMAIN topological : j < i /\ topological[j] = topological[k]
  BY <1>2 DEF Order, PredecessorsFirst
<1> QED BY <1>3 DEF Order

LEMMA StartRanksKeeps ==
  ASSUME IInv, StartRanks
  PROVE  IInv'
<1>1. /\ stage = "order" /\ stage' = "relax" /\ ready = {} /\ cursor' = 1
      /\ rank' = [c \in Components |-> FirstRank(c)]
      /\ UNCHANGED <<graph, component, out, indegree, ready, topological, earliest, distance, latest>>
  BY DEF StartRanks, ordering
<1>2. Components' = Components /\ Ordered' = Ordered /\ \A d : Predecessors(d)' = Predecessors(d)
  BY <1>1 DEF Components, Ordered, Predecessors
<1>3. Ordered = Components
  <2>1. Ordered \subseteq Components
    BY <1>1 DEF IInv, Order, Ordered
  <2>2. SUFFICES ASSUME Components \ Ordered # {} PROVE FALSE
    BY <2>1
  <2>3. \E c \in Components \ Ordered : Predecessors(c) \subseteq Ordered
    BY <1>1, <2>2, SomeComponentIsNext DEF IInv
  <2> QED BY <1>1, <2>3 DEF IInv, Order
<1>4. Types'
  BY <1>1 DEF IInv, Types
<1>5. Structure'
  BY <1>1, <1>2 DEF IInv, Structure, RankPairs, ComponentOf
<1>6. Order'
  BY <1>1, <1>2, <1>3 DEF IInv, Order, PredecessorsFirst
<1>7. RelaxedBefore(cursor)'
  <2>1. \A c : FirstRank(c) \in Nat /\ FirstRank(c)' = FirstRank(c)
    BY <1>1 DEF FirstRank
  <2>2. rank' \in [Components' -> Nat] /\ \A c \in Components : rank'[c] = FirstRank(c)
    BY <1>1, <1>2, <2>1
  <2>3. topological \in Seq(Components)
    BY <1>1 DEF IInv, Order
  <2>4. \A i \in DOMAIN topological' : ~(i < cursor')
    BY <1>1, <2>3
  <2> QED BY <1>2, <2>1, <2>2, <2>4 DEF RelaxedBefore
<1>8. Ranks' /\ Distances'
  <2>1. Len(topological) \in Nat
    BY <1>1 DEF IInv, Order
  <2> QED BY <1>1, <1>7, <2>1 DEF IInv, Ranks, Distances, HasEarliest
<1> QED BY <1>4, <1>5, <1>6, <1>8 DEF IInv

LEMMA RelaxKeeps ==
  ASSUME IInv, Relax
  PROVE  IInv'
<1> DEFINE current == topological[cursor]
<1>1. /\ stage = "relax" /\ stage' = "relax" /\ cursor \in DOMAIN topological
      /\ cursor' = cursor + 1
      /\ rank' = [d \in Components |-> IF d \in out[current] THEN Raised(current, d) ELSE rank[d]]
      /\ UNCHANGED <<graph, component, out, indegree, ready, topological, earliest, distance, latest>>
  BY DEF Relax, ordering
<1>2. /\ Components' = Components /\ Ordered' = Ordered /\ \A d : Predecessors(d)' = Predecessors(d)
      /\ \A c : FirstRank(c)' = FirstRank(c) /\ FirstRank(c) \in Nat
  BY <1>1 DEF Components, Ordered, Predecessors, FirstRank
<1>3. /\ Structure /\ Order /\ RelaxedBefore(cursor) /\ topological \in Seq(Components)
      /\ rank \in [Components -> Nat] /\ out \in [Components -> SUBSET Components]
  BY <1>1, OutFacts DEF IInv, Order, Ranks, RelaxedBefore
<1>4. current \in Components /\ DOMAIN topological = 1..Len(topological)
  BY <1>1, <1>3
<1>5. \A i \in DOMAIN topological : i <= cursor => topological[i] \notin out[current]
  <2> SUFFICES ASSUME NEW i \in DOMAIN topological, i <= cursor, topological[i] \in out[current]
               PROVE  FALSE
    OBVIOUS
  <2>1. cursor < i
    BY <1>1, <1>3, EdgesGoForward
  <2> QED BY <1>1, <1>4, <2>1
<1>6. /\ \A d \in Components : rank[d] <= rank'[d] /\ rank'[d] \in Nat
      /\ \A d \in out[current] : rank[current] < rank'[d]
      /\ \A d \in Components : (rank'[d] = rank[d]) \/ (d \in out[current] /\ rank'[d] = rank[current] + 1)
      /\ \A i \in DOMAIN topological : i <= cursor => rank'[topological[i]] = rank[topological[i]]
  <2>1. rank[current] \in Nat /\ \A d \in Components : rank[d] \in Nat
    BY <1>3, <1>4
  <2>2. ASSUME NEW d \in Components, d \in out[current]
        PROVE  /\ rank[d] <= rank'[d] /\ rank'[d] \in Nat /\ rank[current] < rank'[d]
               /\ (rank'[d] = rank[d]) \/ (rank'[d] = rank[current] + 1)
    <3>1. rank'[d] = IF rank[current] + 1 > rank[d] THEN rank[current] + 1 ELSE rank[d]
      BY <1>1, <2>2 DEF Raised
    <3> HIDE DEF current
    <3> QED BY <2>1, <3>1
  <2>3. \A d \in Components : d \notin out[current] => rank'[d] = rank[d]
    BY <1>1
  <2>4. out[current] \subseteq Components
    BY <1>3, <1>4
  <2>5. \A i \in DOMAIN topological : topological[i] \in Components
    BY <1>3
  <2> HIDE DEF current
  <2> QED BY <1>5, <2>1, <2>2, <2>3, <2>4, <2>5
<1>7. Types'
  <2>1. cursor' \in Nat
    BY <1>1, <1>4
  <2> QED BY <1>1, <2>1 DEF IInv, Types
<1>8. Structure'
  BY <1>1, <1>2 DEF IInv, Structure, RankPairs, ComponentOf
<1>9. Order'
  BY <1>1, <1>2 DEF IInv, Order, PredecessorsFirst
<1>10. RelaxedBefore(cursor)'
  <2>1. rank' \in [Components' -> Nat]
    BY <1>1, <1>2, <1>6
  <2>2. \A c \in Components : rank'[c] >= FirstRank(c)
    BY <1>2, <1>3, <1>6 DEF RelaxedBefore
  <2>3. \A i \in DOMAIN topological : i < cursor + 1 =>
          \A d \in out[topological[i]] : rank'[topological[i]] < rank'[d]
    <3> SUFFICES ASSUME NEW i \in DOMAIN topological, i < cursor + 1, NEW d \in out[topological[i]]
                 PROVE  rank'[topological[i]] < rank'[d]
      OBVIOUS
    <3>1. topological[i] \in Components /\ d \in Components /\ i <= cursor
      BY <1>1, <1>3, <1>4
    <3>2. rank[topological[i]] < rank'[d]
      <4>1. CASE i = cursor
        BY <4>1, <1>6
      <4>2. CASE i < cursor
        <5>1. rank[topological[i]] < rank[d]
          BY <4>2, <1>3 DEF RelaxedBefore
        <5> QED BY <5>1, <3>1, <1>3, <1>6
      <4> QED BY <4>1, <4>2, <3>1, <1>1, <1>4
    <3> QED BY <3>1, <3>2, <1>6
  <2>4. ASSUME NEW c \in Components
        PROVE  \/ rank'[c] = FirstRank(c)
               \/ \E i \in DOMAIN topological :
                    /\ i < cursor + 1 /\ c \in out[topological[i]]
                    /\ rank'[c] = rank'[topological[i]] + 1
    <3>1. CASE rank'[c] = rank[c]
      <4>1. CASE rank[c] = FirstRank(c)
        BY <3>1, <4>1
      <4>2. CASE \E i \in DOMAIN topological :
                   i < cursor /\ c \in out[topological[i]] /\ rank[c] = rank[topological[i]] + 1
        <5>1. PICK i \in DOMAIN topological :
                i < cursor /\ c \in out[topological[i]] /\ rank[c] = rank[topological[i]] + 1
          BY <4>2
        <5>2. i < cursor + 1 /\ i <= cursor
          BY <5>1, <1>1, <1>4
        <5>3. rank'[topological[i]] = rank[topological[i]]
          BY <5>2, <1>6
        <5> QED BY <3>1, <5>1, <5>2, <5>3
      <4> QED BY <4>1, <4>2, <1>3 DEF RelaxedBefore
    <3>2. CASE c \in out[current] /\ rank'[c] = rank[current] + 1
      <4>1. cursor < cursor + 1 /\ cursor <= cursor
        BY <1>1, <1>4
      <4>2. rank'[current] = rank[current]
        BY <4>1, <1>1, <1>6
      <4> QED BY <3>2, <4>1, <4>2, <1>1
    <3> QED BY <3>1, <3>2, <1>6
  <2> QED BY <1>1, <1>2, <2>1, <2>2, <2>3, <2>4 DEF RelaxedBefore
<1>11. Ranks' /\ Distances'
  <2>1. cursor' \in 1..Len(topological') + 1
    BY <1>1, <1>4
  <2> QED BY <1>1, <1>10, <2>1 DEF IInv, Ranks, Distances, HasEarliest
<1> QED BY <1>7, <1>8, <1>9, <1>11 DEF IInv

-----------------------------------------------------------------------------
(* The end of earliest_ranks, and the latest ranks.                        *)

LEMMA OutputRankFacts ==
  ASSUME component \in [Nodes -> SUBSET Nodes], rank \in [Components -> Nat]
  PROVE  /\ OutputRank \in Nat
         /\ \A n \in Nodes \ graph.outputs : rank[component[n]] < OutputRank
<1>1. \A n \in Nodes : component[n] \in Components /\ rank[component[n]] \in Nat
  BY DEF Components
<1>2. CASE Nodes \ graph.outputs = {}
  BY <1>2 DEF OutputRank, InteriorRanks
<1>3. CASE Nodes \ graph.outputs # {}
  <2>1. PICK f \in [Nodes \ graph.outputs -> Int] :
          \A n \in Nodes \ graph.outputs : f[n] = rank[component[n]]
    <3> DEFINE g == [n \in Nodes \ graph.outputs |-> rank[component[n]]]
    <3>1. g \in [Nodes \ graph.outputs -> Int]
      BY <1>1
    <3>2. \A n \in Nodes \ graph.outputs : g[n] = rank[component[n]]
      OBVIOUS
    <3> HIDE DEF g
    <3> QED BY <3>1, <3>2
  <2>2. InteriorRanks = {f[n] : n \in Nodes \ graph.outputs}
    BY <2>1 DEF InteriorRanks
  <2>3. IsFiniteSet(Nodes \ graph.outputs)
    BY NodesAssumption, FS_Subset
  <2>4. /\ Max(InteriorRanks) \in InteriorRanks
        /\ \A y \in InteriorRanks : Max(InteriorRanks) >= y
    BY <2>2, <2>3, <1>3, GreatestValue
  <2>5. InteriorRanks \subseteq Nat /\ InteriorRanks # {}
    BY <1>1, <1>3 DEF InteriorRanks
  <2>6. OutputRank = Max(InteriorRanks) + 1
    BY <2>5 DEF OutputRank
  <2>7. \A n \in Nodes \ graph.outputs : rank[component[n]] \in InteriorRanks
    BY DEF InteriorRanks
  <2>8. PICK m \in Nat : m = Max(InteriorRanks)
    BY <2>4, <2>5
  <2> QED BY <1>1, <2>4, <2>6, <2>7, <2>8
<1> QED BY <1>2, <1>3

LEMMA HorizonFacts ==
  ASSUME NEW f \in [Nodes -> Nat], NEW h,
         h = IF Nodes = {} THEN 0 ELSE Max({f[n] : n \in Nodes})
  PROVE  h \in Nat /\ \A n \in Nodes : f[n] <= h
<1>1. CASE Nodes = {}
  BY <1>1
<1>2. CASE Nodes # {}
  <2>1. PICK M : M = {f[n] : n \in Nodes}
    OBVIOUS
  <2>2. f \in [Nodes -> Int]
    OBVIOUS
  <2>3. Max(M) \in M /\ \A y \in M : Max(M) >= y
    BY <2>1, <2>2, <1>2, NodesAssumption, GreatestValue
  <2>4. M \subseteq Nat /\ \A n \in Nodes : f[n] \in M
    BY <2>1
  <2>5. h = Max(M)
    BY <1>2, <2>1
  <2>6. h \in Nat /\ \A y \in M : y <= h
    BY <2>3, <2>4, <2>5
  <2> QED BY <2>4, <2>6
<1> QED BY <1>1, <1>2

LEMMA PlaceOutputsKeeps ==
  ASSUME IInv, PlaceOutputs
  PROVE  IInv'
<1>1. /\ stage = "relax" /\ cursor \notin DOMAIN topological
      /\ earliest' = [n \in Nodes |->
                        IF n \in graph.outputs THEN OutputRank ELSE rank[component[n]]]
      /\ stage' = IF graph.inputs # {} \/ graph.outputs # {} THEN "done" ELSE "distance"
      /\ cursor' = Len(topological)
      /\ distance' = [c \in Components |-> 0]
      /\ UNCHANGED <<graph, component, out, indegree, ready, topological, rank, latest>>
  BY DEF PlaceOutputs, ordering
<1>2. /\ Components' = Components /\ Ordered' = Ordered /\ \A d : Predecessors(d)' = Predecessors(d)
      /\ \A c : FirstRank(c)' = FirstRank(c)
      /\ OutputRank' = OutputRank
  BY <1>1 DEF Components, Ordered, Predecessors, FirstRank, OutputRank, InteriorRanks
<1>3. /\ topological \in Seq(Components) /\ Len(topological) \in Nat
      /\ DOMAIN topological = 1..Len(topological)
      /\ RelaxedBefore(cursor) /\ cursor \in 1..Len(topological) + 1
      /\ rank \in [Components -> Nat] /\ component \in [Nodes -> SUBSET Nodes]
      /\ latest = None
  BY <1>1 DEF IInv, Types, Order, Ranks, RelaxedBefore, Distances
<1>4. cursor = Len(topological) + 1
  BY <1>1, <1>3
<1>5. earliest' \in [Nodes -> Nat]
  <2>1. \A n \in Nodes : component[n] \in Components
    BY DEF Components
  <2> QED BY <1>1, <1>3, <2>1, OutputRankFacts
<1>6. Types'
  BY <1>1, <1>3, <1>5 DEF IInv, Types
<1>7. Structure'
  BY <1>1, <1>2 DEF IInv, Structure, RankPairs, ComponentOf
<1>8. Order'
  BY <1>1, <1>2 DEF IInv, Order, PredecessorsFirst
<1>9. Ranks'
  <2>1. RelaxedBefore(Len(topological) + 1)'
    BY <1>1, <1>2, <1>3, <1>4 DEF RelaxedBefore
  <2> QED BY <1>1, <1>2, <2>1 DEF Ranks, HasEarliest
<1>10. Distances'
  <2>1. CASE stage' = "done"
    BY <2>1, <1>1, <1>3 DEF Distances
  <2>2. CASE stage' = "distance"
    <3>1. graph.inputs = {} /\ graph.outputs = {}
      BY <2>2, <1>1
    <3>2. distance' \in [Components' -> Nat] /\ \A c \in Components : distance'[c] = 0
      BY <1>1, <1>2
    <3>3. Horizon' \in Nat /\ \A n \in Nodes : earliest'[n] <= Horizon'
      <4>1. Horizon' = IF Nodes = {} THEN 0 ELSE Max({earliest'[n] : n \in Nodes})
        BY DEF Horizon
      <4> QED BY <4>1, <1>5, HorizonFacts
    <3>4. ASSUME NEW c \in Components PROVE rank'[c] + distance'[c] <= Horizon'
      <4>1. PICK n \in Nodes : c = component[n]
        BY DEF Components
      <4>2. earliest'[n] = rank[c] /\ rank[c] \in Nat
        BY <4>1, <3>1, <1>1, <1>3
      <4>3. rank[c] <= Horizon'
        BY <4>2, <3>3
      <4> QED BY <4>2, <4>3, <3>2, <3>3, <1>1
    <3>5. cursor' \in 0..Len(topological) /\ \A i \in DOMAIN topological : ~(i > cursor')
      BY <1>1, <1>3
    <3> QED BY <2>2, <1>1, <1>2, <1>3, <3>1, <3>2, <3>4, <3>5 DEF Distances
  <2> QED BY <2>1, <2>2, <1>1
<1> QED BY <1>6, <1>7, <1>8, <1>9, <1>10 DEF IInv

LEMMA MeasureDistanceKeeps ==
  ASSUME IInv, MeasureDistance
  PROVE  IInv'
<1>1. PICK current : current = topological[cursor]
  OBVIOUS
<1>2. /\ stage = "distance" /\ stage' = "distance" /\ cursor > 0 /\ cursor' = cursor - 1
      /\ distance' = [distance EXCEPT ![current] = Farthest(current)]
      /\ UNCHANGED <<graph, component, out, indegree, ready, topological, rank, earliest, latest>>
  BY <1>1 DEF MeasureDistance, ordering
<1>3. /\ Components' = Components /\ Ordered' = Ordered /\ \A d : Predecessors(d)' = Predecessors(d)
      /\ \A c : FirstRank(c)' = FirstRank(c)
      /\ OutputRank' = OutputRank /\ Horizon' = Horizon
  BY <1>2 DEF Components, Ordered, Predecessors, FirstRank, OutputRank, InteriorRanks, Horizon
<1>4. /\ topological \in Seq(Components) /\ Len(topological) \in Nat
      /\ DOMAIN topological = 1..Len(topological)
      /\ cursor \in DOMAIN topological
      /\ Structure /\ Order /\ out \in [Components -> SUBSET Components]
      /\ distance \in [Components -> Nat]
      /\ rank \in [Components -> Nat] /\ RelaxedBefore(Len(topological) + 1)
      /\ graph.inputs = {} /\ graph.outputs = {} /\ latest = None
      /\ Ordered = Components
  <2>1. Structure /\ Order /\ out \in [Components -> SUBSET Components]
    BY <1>2, OutFacts DEF IInv
  <2>2. topological \in Seq(Components) /\ Ordered = Components
    BY <1>2 DEF IInv, Order
  <2>3. RelaxedBefore(Len(topological) + 1) /\ rank \in [Components -> Nat]
    BY <1>2 DEF IInv, Ranks, HasEarliest, RelaxedBefore
  <2>4. /\ distance \in [Components -> Nat] /\ cursor \in 0..Len(topological)
        /\ graph.inputs = {} /\ graph.outputs = {} /\ latest = None
    BY <1>2 DEF IInv, Distances
  <2>5. Len(topological) \in Nat /\ DOMAIN topological = 1..Len(topological)
    BY <2>2
  <2> QED BY <1>2, <2>1, <2>2, <2>3, <2>4, <2>5
<1>5. current \in Components /\ out[current] \in SUBSET Components
  BY <1>1, <1>4
<1>6. Horizon \in Nat
  <2>1. earliest \in [Nodes -> Nat] /\ Horizon = IF Nodes = {} THEN 0 ELSE Max({earliest[n] : n \in Nodes})
    BY DEF IInv, Types, Horizon
  <2> QED BY <2>1, HorizonFacts
<1>7. /\ Farthest(current) \in Nat
      /\ \A d \in out[current] : distance[d] + 1 <= Farthest(current)
      /\ (Farthest(current) = 0) \/ (\E d \in out[current] : Farthest(current) = distance[d] + 1)
  <2>1. CASE out[current] = {}
    BY <2>1 DEF Farthest
  <2>2. CASE out[current] # {}
    <3>1. PICK f \in [out[current] -> Int] : \A d \in out[current] : f[d] = distance[d] + 1
      <4> DEFINE g == [d \in out[current] |-> distance[d] + 1]
      <4>1. g \in [out[current] -> Int] /\ \A d \in out[current] : g[d] = distance[d] + 1
        BY <1>4, <1>5
      <4> HIDE DEF g
      <4> QED BY <4>1
    <3>2. PICK M : M = {f[d] : d \in out[current]}
      OBVIOUS
    <3>3. IsFiniteSet(out[current])
      <4>1. IsFiniteSet(Components)
        BY <1>4, <1>2, ComponentFacts DEF Structure
      <4> QED BY <4>1, <1>5, FS_Subset
    <3>4. Max(M) \in M /\ \A y \in M : Max(M) >= y
      BY <3>2, <3>3, <2>2, GreatestValue
    <3>5. Farthest(current) = Max(M)
      <4>1. M = {distance[d] + 1 : d \in out[current]}
        BY <3>1, <3>2
      <4> QED BY <4>1, <2>2 DEF Farthest
    <3>6. \A d \in out[current] : distance[d] \in Nat /\ distance[d] + 1 \in M
      BY <3>1, <3>2, <1>4, <1>5
    <3>7. \E d \in out[current] : Max(M) = distance[d] + 1
      BY <3>1, <3>2, <3>4
    <3> QED BY <3>4, <3>5, <3>6, <3>7
  <2> QED BY <2>1, <2>2
<1>8. Types'
  <2>1. cursor' \in Nat
    BY <1>2, <1>4
  <2> QED BY <1>2, <2>1 DEF IInv, Types
<1>9. Structure'
  BY <1>2, <1>3 DEF IInv, Structure, RankPairs, ComponentOf
<1>10. Order'
  BY <1>2, <1>3 DEF IInv, Order, PredecessorsFirst
<1>11. Ranks'
  BY <1>2, <1>3 DEF IInv, Ranks, HasEarliest, RelaxedBefore
<1>12. Distances'
  <2>1. /\ distance' \in [Components -> Nat]
        /\ distance'[current] = Farthest(current)
        /\ \A c \in Components : c # current => distance'[c] = distance[c]
    BY <1>2, <1>4, <1>5, <1>7
  <2>2. current \notin out[current]
    BY <1>1, <1>4, <1>2, EdgesGoForward
  <2>3. ASSUME NEW i \in DOMAIN topological, i > cursor - 1, NEW d \in out[topological[i]]
        PROVE  distance'[d] + 1 <= distance'[topological[i]]
    <3>1. topological[i] \in Components /\ d \in Components
      BY <1>4
    <3>2. CASE i = cursor
      BY <3>2, <3>1, <2>1, <2>2, <1>1, <1>7
    <3>3. CASE i > cursor
      <4>1. distance[d] + 1 <= distance[topological[i]]
        BY <3>3, <1>2 DEF IInv, Distances
      <4>2. topological[i] # current
        BY <3>3, <1>1, <1>4 DEF Order
      <4>3. d # current
        BY <3>3, <1>1, <1>2, <1>4, EdgesGoForward
      <4> QED BY <4>1, <4>2, <4>3, <3>1, <2>1
    <3> QED BY <3>2, <3>3, <2>3, <1>4
  <2>4. ASSUME NEW c \in Components
        PROVE  rank[c] + distance'[c] <= Horizon
    <3>1. \A b \in Components : rank[b] + distance[b] <= Horizon /\ rank[b] \in Nat /\ distance[b] \in Nat
      BY <1>2, <1>4 DEF IInv, Distances
    <3>2. CASE c # current
      BY <3>1, <3>2, <2>1
    <3>3. CASE c = current /\ Farthest(current) = 0
      BY <3>1, <3>3, <2>1, <1>6
    <3>4. CASE c = current /\ \E d \in out[current] : Farthest(current) = distance[d] + 1
      <4>1. PICK d \in out[current] : Farthest(current) = distance[d] + 1
        BY <3>4
      <4>2. rank[current] < rank[d]
        <5>1. cursor < Len(topological) + 1
          BY <1>4
        <5> QED BY <5>1, <4>1, <1>1, <1>4 DEF RelaxedBefore
      <4>3. d \in Components
        BY <4>1, <1>5
      <4> QED BY <3>1, <3>4, <4>1, <4>2, <4>3, <2>1, <1>6, <1>5
    <3> QED BY <3>2, <3>3, <3>4, <1>7
  <2>5. cursor' \in 0..Len(topological)
    BY <1>2, <1>4
  <2> QED BY <1>2, <1>3, <1>4, <2>1, <2>3, <2>4, <2>5 DEF Distances
<1> QED BY <1>8, <1>9, <1>10, <1>11, <1>12 DEF IInv

LEMMA ChooseLatestKeeps ==
  ASSUME IInv, ChooseLatest
  PROVE  IInv'
<1>1. /\ stage = "distance" /\ stage' = "done" /\ cursor = 0
      /\ (latest' = Candidate) \/ (latest' = None)
      /\ UNCHANGED <<graph, component, out, indegree, ready, topological, cursor, rank, earliest,
                     distance>>
  BY DEF ChooseLatest, ordering
<1>2. /\ Components' = Components /\ Ordered' = Ordered /\ \A d : Predecessors(d)' = Predecessors(d)
      /\ \A c : FirstRank(c)' = FirstRank(c)
      /\ OutputRank' = OutputRank /\ Horizon' = Horizon
  BY <1>1 DEF Components, Ordered, Predecessors, FirstRank, OutputRank, InteriorRanks, Horizon
<1>3. Candidate' = Candidate
  BY <1>1, <1>2 DEF Candidate, LatestRank
<1>4. Candidate \in [Nodes -> Nat]
  <2>1. earliest \in [Nodes -> Nat] /\ Horizon = IF Nodes = {} THEN 0 ELSE Max({earliest[n] : n \in Nodes})
    BY DEF IInv, Types, Horizon
  <2>2. Horizon \in Nat
    BY <2>1, HorizonFacts
  <2>3. \A n \in Nodes : distance[component[n]] \in Nat
    BY <1>1 DEF IInv, Distances, Components
  <2> QED BY <2>2, <2>3 DEF Candidate, LatestRank
<1>5. Types'
  BY <1>1, <1>4 DEF IInv, Types
<1>6. Structure'
  BY <1>1, <1>2 DEF IInv, Structure, RankPairs, ComponentOf
<1>7. Order'
  BY <1>1, <1>2 DEF IInv, Order, PredecessorsFirst
<1>8. Ranks'
  BY <1>1, <1>2 DEF IInv, Ranks, HasEarliest, RelaxedBefore
<1>9. Distances'
  BY <1>1, <1>2, <1>3 DEF IInv, Distances
<1> QED BY <1>5, <1>6, <1>7, <1>8, <1>9 DEF IInv

-----------------------------------------------------------------------------
(* The invariant holds, and what it gives.                                 *)

LEMMA NextIInv == IInv /\ [Next]_vars => IInv'
<1> SUFFICES ASSUME IInv, [Next]_vars PROVE IInv'
  OBVIOUS
<1>1. CASE UNCHANGED vars
  <2>1. UNCHANGED <<graph, stage, component, out, indegree, ready, topological, cursor, rank,
                    earliest, distance, latest>>
    BY <1>1 DEF vars
  <2>2. Types' /\ Structure'
    BY <2>1 DEF IInv, Types, Structure, Components, RankPairs, ComponentOf
  <2>3. /\ Components' = Components /\ Ordered' = Ordered
        /\ \A d : Predecessors(d)' = Predecessors(d)
        /\ \A c : FirstRank(c)' = FirstRank(c)
        /\ OutputRank' = OutputRank /\ Horizon' = Horizon /\ Candidate' = Candidate
    BY <2>1 DEF Components, Ordered, Predecessors, FirstRank, OutputRank, InteriorRanks, Horizon,
                Candidate, LatestRank
  <2>4. Order'
    BY <2>1, <2>3 DEF IInv, Order, PredecessorsFirst
  <2>5. Ranks'
    BY <2>1, <2>3 DEF IInv, Ranks, HasEarliest, RelaxedBefore
  <2>6. Distances'
    BY <2>1, <2>3 DEF IInv, Distances
  <2> QED BY <2>2, <2>4, <2>5, <2>6 DEF IInv
<1> QED BY <1>1, ComponentGraphKeeps, TakeReadyKeeps, StartRanksKeeps, RelaxKeeps,
           PlaceOutputsKeeps, MeasureDistanceKeeps, ChooseLatestKeeps DEF Next

\* Whatever rank sees of an edge that ranks and does not stay in a component.
LEMMA EarliestAlongEdge ==
  ASSUME IInv, HasEarliest, NEW e \in RankEdges(graph)
  PROVE  /\ e.source \in Nodes /\ e.target \in Nodes /\ e.source \notin graph.outputs
         /\ component[e.source] = component[e.target] => earliest[e.source] <= earliest[e.target]
         /\ component[e.source] # component[e.target] => earliest[e.source] < earliest[e.target]
<1>1. /\ Structure /\ Order /\ stage \notin {"graph", "order"}
      /\ RelaxedBefore(Len(topological) + 1)
      /\ earliest = [n \in Nodes |->
                       IF n \in graph.outputs THEN OutputRank ELSE rank[component[n]]]
      /\ component \in [Nodes -> SUBSET Nodes]
  BY DEF IInv, Ranks, HasEarliest, Types
<1>2. /\ e.source \in Nodes /\ e.target \in Nodes
      /\ component[e.source] \in Components /\ component[e.target] \in Components
      /\ \/ component[e.target] \in out[component[e.source]]
         \/ component[e.target] = component[e.source]
  BY <1>1, OutFacts
<1>3. e.source \notin graph.outputs
  BY <1>1 DEF Structure, WellConstrained, RankEdges
<1>4. /\ rank \in [Components -> Nat]
      /\ OutputRank \in Nat
      /\ rank[component[e.source]] < OutputRank
  BY <1>1, <1>2, <1>3, OutputRankFacts DEF RelaxedBefore
<1>5. ASSUME component[e.source] # component[e.target]
      PROVE  rank[component[e.source]] < rank[component[e.target]]
  <2>1. PICK i \in DOMAIN topological : topological[i] = component[e.source]
    BY <1>1, <1>2 DEF Order, Ordered
  <2>2. i < Len(topological) + 1
    BY <1>1 DEF Order
  <2> QED BY <1>1, <1>2, <1>5, <2>1, <2>2 DEF RelaxedBefore
<1>6. earliest[e.source] = rank[component[e.source]]
  BY <1>1, <1>2, <1>3
<1>7. CASE e.target \in graph.outputs
  <2>1. earliest[e.target] = OutputRank
    BY <1>1, <1>2, <1>7
  <2> QED BY <1>2, <1>3, <1>4, <1>6, <2>1
<1>8. CASE e.target \notin graph.outputs
  <2>1. earliest[e.target] = rank[component[e.target]]
    BY <1>1, <1>2, <1>8
  <2> QED BY <1>2, <1>3, <1>4, <1>5, <1>6, <2>1
<1> QED BY <1>7, <1>8

LEMMA IInvRanksIncrease == IInv => RanksIncrease
<1> SUFFICES ASSUME IInv, HasEarliest PROVE RanksIncrease
  BY DEF RanksIncrease
<1>1. ASSUME NEW e \in Participating(graph),
             ~ Connected(Nodes, Pairs(Participating(graph)), e.source, e.target)
      PROVE  earliest[e.source] < earliest[e.target]
  <2>1. e \in RankEdges(graph)
    BY <1>1 DEF RankEdges, IsFeedback
  <2>2. e.source \in Nodes /\ e.target \in Nodes
    BY <2>1, EarliestAlongEdge
  <2>3. component[e.source] # component[e.target]
    <3> SUFFICES ASSUME component[e.source] = component[e.target] PROVE FALSE
      OBVIOUS
    <3>1. Structure /\ stage # "graph"
      BY DEF IInv, HasEarliest
    <3>2. e.target \in ComponentOf(e.source)
      BY <2>2, <3>1, ComponentFacts DEF Structure
    <3>3. RankPairs \subseteq Pairs(Participating(graph))
      BY <3>1, PairsOfNodes DEF Structure
    <3> QED BY <1>1, <3>2, <3>3, ReachesMonotone DEF ComponentOf, Connected
  <2> QED BY <2>1, <2>3, EarliestAlongEdge
<1>2. \A e \in RankEdges(graph) : earliest[e.source] <= earliest[e.target]
  <2>1. ASSUME NEW e \in RankEdges(graph) PROVE earliest[e.source] <= earliest[e.target]
    <3>1. earliest[e.source] \in Nat /\ earliest[e.target] \in Nat
      BY EarliestAlongEdge DEF IInv, Types
    <3> QED BY <3>1, EarliestAlongEdge
  <2> QED BY <2>1
<1> QED BY <1>1, <1>2 DEF RanksIncrease

LEMMA IInvEarliestIsLeast == IInv => EarliestIsLeast
<1> SUFFICES ASSUME IInv, HasEarliest PROVE EarliestIsLeast
  BY DEF EarliestIsLeast
<1>1. Structure /\ Order /\ stage # "graph" /\ RelaxedBefore(Len(topological) + 1)
  BY DEF IInv, Ranks, HasEarliest
<1>2. \A i \in DOMAIN topological : topological[i] \in Components
  BY <1>1 DEF Order
<1> QED BY <1>1, <1>2 DEF EarliestIsLeast, RelaxedBefore, Predecessors

\* Nothing leads into a boundary input.
LEMMA InputsStandAlone ==
  ASSUME IInv, stage # "graph", NEW n \in graph.inputs, n \in Nodes
  PROVE  component[n] = {n} /\ Predecessors({n}) = {} /\ n \notin graph.outputs
<1>1. Structure
  BY DEF IInv
<1>2. \A p \in RankPairs : p[2] # n
  BY <1>1 DEF Structure, WellConstrained, RankPairs, Pairs, RankEdges
<1>3. n \in component[n]
  BY <1>1, ComponentFacts DEF Structure
<1>4. ASSUME NEW m \in component[n] PROVE m = n
  <2>1. m \in Nodes /\ Reaches(Nodes, RankPairs, m, n)
    BY <1>1, <1>4 DEF Structure, ComponentOf, Connected
  <2>2. RankPairs \in SUBSET (Nodes \X Nodes)
    BY <1>1, PairsOfNodes DEF Structure
  <2> QED BY <1>2, <2>1, <2>2, ReachesByLastEdge
<1>5. component[n] = {n}
  BY <1>3, <1>4
<1>6. Predecessors({n}) = {}
  <2> SUFFICES ASSUME NEW c \in Predecessors({n}) PROVE FALSE
    OBVIOUS
  <2>1. {n} \in Components
    BY <1>5 DEF Components
  <2>2. \E p \in RankPairs : p[2] \in {n}
    BY <1>1, <2>1, OutFacts
  <2> QED BY <1>2, <2>2
<1>7. n \notin graph.outputs
  BY <1>1 DEF Structure, WellConstrained
<1> QED BY <1>5, <1>6, <1>7

LEMMA IInvBoundariesOutermost == IInv => BoundariesOutermost
<1> SUFFICES ASSUME IInv, HasEarliest PROVE BoundariesOutermost
  BY DEF BoundariesOutermost
<1>1. /\ Structure /\ Order /\ stage # "graph"
      /\ RelaxedBefore(Len(topological) + 1)
      /\ earliest = [n \in Nodes |->
                       IF n \in graph.outputs THEN OutputRank ELSE rank[component[n]]]
      /\ component \in [Nodes -> SUBSET Nodes]
      /\ graph \in Graph
  BY GraphsAssumption DEF IInv, Ranks, HasEarliest, Types, Structure
<1>2. /\ rank \in [Components -> Nat]
      /\ OutputRank \in Nat
      /\ \A n \in Nodes \ graph.outputs : rank[component[n]] < OutputRank
  BY <1>1, OutputRankFacts DEF RelaxedBefore
<1>3. graph.inputs \in SUBSET Nodes /\ graph.outputs \in SUBSET Nodes
  BY <1>1 DEF Graph
<1>4. \A n \in Nodes : n \in component[n] /\ component[n] \in Components
  BY <1>1, ComponentFacts DEF Structure, Components
<1>5. ASSUME NEW n \in graph.inputs PROVE earliest[n] = 0
  <2>1. component[n] = {n} /\ Predecessors({n}) = {} /\ n \notin graph.outputs
    BY <1>1, <1>3, InputsStandAlone
  <2>2. FirstRank({n}) = 0
    BY DEF FirstRank
  <2>3. EarliestIsLeast
    BY IInvEarliestIsLeast
  <2>4. rank[{n}] = 0
    BY <2>1, <2>2, <2>3, <1>3, <1>4 DEF EarliestIsLeast
  <2> QED BY <2>1, <2>4, <1>1, <1>3
<1>6. ASSUME graph.inputs # {}, NEW n \in Nodes \ graph.inputs PROVE earliest[n] # 0
  <2>1. CASE n \in graph.outputs
    <3>1. PICK m \in graph.inputs : m \in Nodes /\ m \notin graph.outputs
      BY <1>1, <1>3, <1>6 DEF Structure, WellConstrained
    <3>2. rank[component[m]] \in Nat /\ rank[component[m]] < OutputRank
      BY <1>2, <1>4, <3>1
    <3> QED BY <1>1, <1>2, <2>1, <3>2
  <2>2. CASE n \notin graph.outputs
    <3>1. FirstRank(component[n]) = 1
      BY <1>4, <1>6 DEF FirstRank
    <3>2. rank[component[n]] >= 1 /\ rank[component[n]] \in Nat
      BY <1>1, <1>2, <1>4, <3>1 DEF RelaxedBefore
    <3> QED BY <1>1, <2>2, <3>2
  <2> QED BY <2>1, <2>2
<1>7. \A n, m \in graph.outputs : earliest[n] = earliest[m]
  BY <1>1, <1>3
<1>8. \A n \in graph.outputs, m \in Nodes \ graph.outputs : earliest[m] < earliest[n]
  BY <1>1, <1>2, <1>3
<1>9. graph.inputs # {} => \A n \in Nodes : earliest[n] = 0 <=> n \in graph.inputs
  BY <1>5, <1>6
<1> QED BY <1>7, <1>8, <1>9 DEF BoundariesOutermost

LEMMA IInvTypeOK == IInv => TypeOK
<1> SUFFICES ASSUME IInv PROVE TypeOK
  OBVIOUS
<1>1. Types /\ Structure /\ Order /\ graph \in Graph
  BY GraphsAssumption DEF IInv, Structure
<1>2. topological \in Seq(SUBSET Nodes)
  <2>1. CASE stage = "graph"
    BY <1>1, <2>1 DEF Order
  <2>2. CASE stage # "graph"
    <3>1. Components \in SUBSET SUBSET Nodes
      BY <1>1, <2>2, ComponentFacts DEF Structure
    <3>2. topological \in Seq(Components)
      BY <1>1, <2>2 DEF Order
    <3> QED BY <3>1, <3>2
  <2> QED BY <2>1, <2>2
<1>3. ASSUME stage # "graph"
      PROVE  out \in [Components -> SUBSET Components] /\ indegree \in [Components -> Nat]
  BY <1>1, <1>3, OutFacts DEF Order
<1>4. ASSUME stage \notin {"graph", "order"} PROVE rank \in [Components -> Nat]
  <2>1. stage \in {"relax", "distance", "done"}
    BY <1>1, <1>4 DEF Types
  <2> QED BY <2>1 DEF IInv, Ranks, HasEarliest, RelaxedBefore
<1> QED BY <1>1, <1>2, <1>3, <1>4 DEF TypeOK, Types

LEMMA IInvTopological == IInv => EveryComponentOrdered /\ PredecessorsFirst
<1> SUFFICES ASSUME IInv PROVE EveryComponentOrdered /\ PredecessorsFirst
  OBVIOUS
<1>1. Order
  BY DEF IInv
<1>2. EveryComponentOrdered
  BY <1>1 DEF Order, Ordered, EveryComponentOrdered
<1>3. PredecessorsFirst
  <2>1. CASE stage = "graph"
    BY <1>1, <2>1 DEF Order, PredecessorsFirst
  <2>2. CASE stage # "graph"
    BY <1>1, <2>2 DEF Order
  <2> QED BY <2>1, <2>2
<1> QED BY <1>2, <1>3

LEMMA IInvBreakersOpenCycles == IInv => BreakersOpenCycles
<1> SUFFICES ASSUME IInv, stage # "graph", NEW b \in graph.breakers
             PROVE  component[b] = {b} /\ <<b, b>> \notin RankPairs
  BY DEF BreakersOpenCycles
<1>1. Structure /\ graph \in Graph
  BY GraphsAssumption DEF IInv, Structure
<1>2. b \in Nodes /\ b \in component[b]
  BY <1>1, ComponentFacts DEF Structure, Graph
<1>3. /\ RankPairs \in SUBSET (Nodes \X Nodes)
      /\ RankPairs \subseteq Pairs(Participating(graph))
  BY <1>1, PairsOfNodes DEF Structure
\* An edge that ranks into b comes from where b does not lead.
<1>4. ASSUME NEW p \in RankPairs, p[2] = b PROVE ~ Reaches(Nodes, RankPairs, b, p[1])
  <2> SUFFICES ASSUME Reaches(Nodes, RankPairs, b, p[1]) PROVE FALSE
    OBVIOUS
  <2>1. PICK e \in RankEdges(graph) : p = <<e.source, e.target>>
    BY DEF RankPairs, Pairs
  <2>2. e.target = b /\ e.source = p[1]
    BY <1>4, <2>1
  <2>3. Reaches(Nodes, Pairs(Participating(graph)), e.target, e.source)
    BY <2>2, <1>3, ReachesMonotone
  <2>4. Reaches(Nodes, Pairs(Participating(graph)), e.source, e.target)
    <3>1. Reaches(Nodes, RankPairs, p[1], p[2])
      BY ReachesSelf, ReachesAlongEdge
    <3> QED BY <3>1, <2>1, <1>3, ReachesMonotone
  <2> QED BY <2>1, <2>2, <2>3, <2>4 DEF RankEdges, IsFeedback, Connected
<1>5. <<b, b>> \notin RankPairs
  <2> SUFFICES ASSUME <<b, b>> \in RankPairs PROVE FALSE
    OBVIOUS
  <2>1. PICK p \in RankPairs : p[1] = b /\ p[2] = b
    OBVIOUS
  <2> QED BY <2>1, <1>4, ReachesSelf
<1>6. ASSUME NEW m \in component[b], m # b PROVE FALSE
  <2>1. m \in Nodes /\ Reaches(Nodes, RankPairs, m, b) /\ Reaches(Nodes, RankPairs, b, m)
    BY <1>1, <1>2, <1>6 DEF Structure, ComponentOf, Connected
  <2>2. PICK p \in RankPairs : Reaches(Nodes, RankPairs, m, p[1]) /\ p[2] = b
    BY <2>1, <1>3, <1>6, ReachesByLastEdge
  <2> QED BY <2>1, <2>2, <1>4, ReachesTransitive
<1> QED BY <1>2, <1>5, <1>6

LEMMA IInvLatestKeepsOrder == IInv => LatestKeepsOrder
<1> SUFFICES ASSUME IInv, latest # None PROVE LatestKeepsOrder
  BY DEF LatestKeepsOrder
<1>1. /\ Structure /\ Order /\ stage = "done" /\ cursor = 0 /\ latest = Candidate
      /\ graph.outputs = {}
      /\ distance \in [Components -> Nat]
      /\ \A i \in DOMAIN topological : i > cursor =>
           \A d \in out[topological[i]] : distance[d] + 1 <= distance[topological[i]]
      /\ \A c \in Components : rank[c] + distance[c] <= Horizon
  BY DEF IInv, Distances
<1>2. /\ rank \in [Components -> Nat]
      /\ topological \in Seq(Components) /\ Ordered = Components
  BY <1>1 DEF IInv, Ranks, HasEarliest, RelaxedBefore, Order
<1>3. earliest = [n \in Nodes |-> rank[component[n]]]
  BY <1>1 DEF IInv, Ranks, HasEarliest
<1>4. Horizon \in Nat
  <2>1. earliest \in [Nodes -> Nat] /\ Horizon = IF Nodes = {} THEN 0 ELSE Max({earliest[n] : n \in Nodes})
    BY DEF IInv, Types, Horizon
  <2> QED BY <2>1, HorizonFacts
<1>5. \A n \in Nodes : component[n] \in Components
  BY DEF Components
\* The subtraction does not saturate.
<1>6. ASSUME NEW c \in Components
      PROVE  /\ LatestRank(c) = Horizon - distance[c]
             /\ rank[c] <= LatestRank(c) /\ LatestRank(c) <= Horizon
             /\ distance[c] \in Nat
  <2>1. rank[c] \in Nat /\ distance[c] \in Nat /\ rank[c] + distance[c] <= Horizon
    BY <1>1, <1>2
  <2>2. LatestRank(c) = Horizon - distance[c]
    BY <2>1, <1>4 DEF LatestRank
  <2> QED BY <2>1, <2>2, <1>4
<1>7. \A n \in Nodes : latest[n] = LatestRank(component[n])
  BY <1>1 DEF Candidate
<1>8. \A n \in Nodes : earliest[n] <= latest[n] /\ latest[n] <= Horizon
  BY <1>3, <1>5, <1>6, <1>7
<1>9. ASSUME NEW e \in RankEdges(graph)
      PROVE  IF component[e.source] = component[e.target]
             THEN latest[e.source] = latest[e.target]
             ELSE latest[e.source] < latest[e.target]
  <2>1. /\ e.source \in Nodes /\ e.target \in Nodes
        /\ \/ component[e.target] \in out[component[e.source]]
           \/ component[e.target] = component[e.source]
    BY <1>1, OutFacts
  <2>2. CASE component[e.source] = component[e.target]
    BY <2>1, <2>2, <1>7
  <2>3. CASE component[e.source] # component[e.target]
    <3>1. PICK i \in DOMAIN topological : topological[i] = component[e.source]
      BY <1>2, <1>5, <2>1 DEF Ordered
    <3>2. i > cursor
      BY <1>1, <1>2
    <3>3. distance[component[e.target]] + 1 <= distance[component[e.source]]
      BY <1>1, <2>1, <2>3, <3>1, <3>2
    <3> QED BY <2>1, <2>3, <3>3, <1>4, <1>5, <1>6, <1>7
  <2> QED BY <2>2, <2>3
<1> QED BY <1>8, <1>9 DEF LatestKeepsOrder

-----------------------------------------------------------------------------
(* The theorems.                                                           *)

\* The invariant holds throughout the call.
LEMMA InvariantHolds == Spec => []IInv
BY InitIInv, NextIInv, PTL DEF Spec

\* The variables keep their types.
THEOREM RankingTypes == Spec => []TypeOK
BY InvariantHolds, IInvTypeOK, PTL

\* component_graph orders every component, each after its predecessors: of
\* the components that are left one always has no predecessor among them.
THEOREM ComponentsAreOrdered == Spec => [](EveryComponentOrdered /\ PredecessorsFirst)
BY InvariantHolds, IInvTopological, PTL

\* An edge that ranks and lies on no cycle leads to a higher rank, and the
\* ranks are the least with that property.
THEOREM RanksAreEarliest == Spec => []RanksAreTight
<1>1. IInv => RanksAreTight
  BY IInvRanksIncrease, IInvEarliestIsLeast DEF RanksAreTight
<1> QED BY <1>1, InvariantHolds, PTL

\* Boundary inputs have the first rank to themselves, outputs the last one.
THEOREM BoundariesAreOutermost == Spec => []BoundariesOutermost
BY InvariantHolds, IInvBoundariesOutermost, PTL

\* Without the feedback edges no cycle breaker is on a cycle.
THEOREM BreakersLeaveCycles == Spec => []BreakersOpenCycles
BY InvariantHolds, IInvBreakersOpenCycles, PTL

\* The latest ranks are a drawing of the same order.
THEOREM LatestRanksKeepOrder == Spec => []LatestKeepsOrder
BY InvariantHolds, IInvLatestKeepsOrder, PTL


MembersAt(i) == Positions(GivenBundles[i].members)
MemberOf(i, k) == GivenBundles[i].members[k]
SlotsAt(i, k) == SlotsOf(MemberOf(i, k))
NetAt(i, k) == NetOf(MemberOf(i, k))

-----------------------------------------------------------------------------
(* The inductive invariant.                                                *)

AfterOptions == {"nodes", "edges", "boundaries", "bundles", "members", "lanes", "accepted"}
AfterNodes == AfterOptions \ {"nodes"}
AfterBoundaries == {"bundles", "members", "lanes", "accepted"}

\* Nodes and edges that were looked at are unlike all looked at before them.
NodesAreApart ==
    part \in AfterOptions =>
        \A i, j \in Positions(GivenNodes) :
            /\ part = "nodes" => i \notin left /\ j \notin left
            /\ GivenNodes[i].id = GivenNodes[j].id
            => i = j

EdgesAreSound ==
    part \in AfterNodes =>
        \A i, j \in Positions(GivenEdges) :
            (part = "edges" => i \notin left /\ j \notin left) =>
                /\ GivenEdges[i].id = GivenEdges[j].id => i = j
                /\ \A end \in {GivenEdges[i].source, GivenEdges[i].target} :
                      end[1] \in NodeIds /\ end[2] \in PortIds(end[1])

BundlesAreApart ==
    \A i, j \in Positions(GivenBundles) : GivenBundles[i].id = GivenBundles[j].id => i = j

BoundariesAreSound == part \in AfterBoundaries => BoundariesAreFree /\ BundlesAreApart

InBundle == part \in {"members", "lanes"}

WorkIsOnBundle ==
    InBundle => bundle \in Positions(GivenBundles) /\ left \subseteq MembersAt(bundle)

BundlesLeft == part = "bundles" => left \subseteq Positions(GivenBundles)

LanesAreGiven ==
    /\ lanes = [i \in Positions(GivenBundles) |-> lanes[i]]
    /\ \A i \in Positions(GivenBundles) : lanes[i] \in [MembersAt(i) -> Nat]

\* The bundles and members that are behind.
Done(i) == IF InBundle THEN GivenBundles[i].id < InWork.id ELSE i \notin left

Checked(i, k) ==
    \/ Done(i)
    \/ i = bundle /\ part = "lanes"
    \/ i = bundle /\ part = "members" /\ k \notin left

Fits(i, k) ==
    /\ MemberOf(i, k).edge \in EdgeIds
    /\ EndAtBundle(GivenBundles[i], EdgeOf(MemberOf(i, k).edge)) = GivenBundles[i].endpoint
    /\ MemberOf(i, k).slots # <<>>

CheckedFit ==
    part \in AfterBoundaries =>
        \A i \in Positions(GivenBundles) : \A k \in MembersAt(i) : Checked(i, k) =>
            /\ Fits(i, k)
            /\ <<MemberOf(i, k).edge, RoleOf(GivenBundles[i])>> \in bundled

CheckedAreApart ==
    part \in AfterBoundaries =>
        \A i, j \in Positions(GivenBundles) : \A k \in MembersAt(i), l \in MembersAt(j) :
            /\ Checked(i, k) /\ Checked(j, l) /\ i # j
            /\ RoleOf(GivenBundles[i]) = RoleOf(GivenBundles[j])
            => MemberOf(i, k).edge # MemberOf(j, l).edge

\* LanesFollowSlots of one bundle.
LanesServe(i) ==
    \A k, l \in MembersAt(i) :
        /\ lanes[i][k] = lanes[i][l] <=> SlotsAt(i, k) \cap SlotsAt(i, l) # {}
        /\ lanes[i][k] = lanes[i][l] => SlotsAt(i, k) = SlotsAt(i, l) /\ NetAt(i, k) = NetAt(i, l)

DoneAreServed ==
    part \in AfterBoundaries => \A i \in Positions(GivenBundles) : Done(i) => LanesServe(i)

\* Of the bundle in work: each member that has a lane is what the lane is for,
Served == MembersAt(bundle) \ left
LaneOf(k) == lanes[bundle][k]

ServedHaveTheirLane ==
    \A k \in Served :
        /\ LaneOf(k) \in DOMAIN cohorts
        /\ cohorts[LaneOf(k)] = [slots |-> SlotsAt(bundle, k), net |-> NetAt(bundle, k)]

\* each lane is for one of them, no two are for the same slot,
LanesAreApart ==
    /\ \A c \in DOMAIN cohorts : \E k \in Served : LaneOf(k) = c
    /\ \A c, d \in DOMAIN cohorts : c # d => cohorts[c].slots \cap cohorts[d].slots = {}

\* and members were taken in their order.
ServedInOrder ==
    /\ \A k \in Served, l \in left : MemberBefore(MemberOf(bundle, k), MemberOf(bundle, l))
    /\ \A k, l \in Served :
          LaneOf(k) < LaneOf(l) => MemberBefore(MemberOf(bundle, k), MemberOf(bundle, l))

LanesInWork ==
    part = "lanes" =>
        /\ cohorts \in Seq([slots : SUBSET Nat, net : Nat])
        /\ ServedHaveTheirLane /\ LanesAreApart /\ ServedInOrder

VInv ==
    /\ request \in Submitted
    /\ NodesAreApart /\ EdgesAreSound /\ BoundariesAreSound
    /\ BundlesLeft /\ WorkIsOnBundle /\ LanesAreGiven
    /\ CheckedFit /\ CheckedAreApart /\ DoneAreServed /\ LanesInWork
    /\ part = "accepted" => left = {}

-----------------------------------------------------------------------------
(* Least numbers and the order of members.                                 *)

LEMMA LeastFacts ==
    ASSUME NEW S \in SUBSET Nat, S # {}
    PROVE  LeastOf(S) \in S /\ \A y \in S : LeastOf(S) <= y
<1>1. \E x \in S : \A y \in S : ~(<<y, x>> \in OpToRel(<, Nat))
  BY NatLessThanWellFounded, WFMin
<1>2. PICK x \in S : \A y \in S : ~(<<y, x>> \in OpToRel(<, Nat))
  BY <1>1
<1>3. ASSUME NEW y \in S PROVE x <= y
  <2>1. x \in Nat /\ y \in Nat
    OBVIOUS
  <2>2. ~(y < x)
    BY <1>2, <2>1 DEF OpToRel
  <2> QED BY <2>1, <2>2
<1> QED BY <1>3 DEF LeastOf

\* Lists of slots are never before one another both ways: their order is the
\* order of the least slot in which they differ.
LEMMA SlotsBeforeAsymmetric ==
    ASSUME NEW s \in SUBSET Nat, NEW t \in SUBSET Nat, SlotsBefore(s, t)
    PROVE  ~SlotsBefore(t, s)
<1>1. PICK least : least = LeastOf((s \cup t) \ (s \cap t))
  OBVIOUS
<1>2. least = LeastOf((t \cup s) \ (t \cap s))
  <2>1. (t \cup s) \ (t \cap s) = (s \cup t) \ (s \cap t)
    OBVIOUS
  <2> QED BY <1>1, <2>1
<1>3. least \in (s \cup t) \ (s \cap t) /\ least \in Nat
  <2>1. (s \cup t) \ (s \cap t) # {}
    BY DEF SlotsBefore
  <2> QED BY <1>1, <2>1, LeastFacts
<1>4. IF least \in s THEN \E x \in t : x > least ELSE \A x \in s : x < least
  BY <1>1 DEF SlotsBefore
<1>5. ASSUME SlotsBefore(t, s)
      PROVE  IF least \in t THEN \E x \in s : x > least ELSE \A x \in t : x < least
  BY <1>2, <1>5 DEF SlotsBefore
<1>6. CASE least \in s
  <2>1. least \notin t
    BY <1>3, <1>6
  <2>2. PICK x \in t : x > least
    BY <1>4, <1>6
  <2> QED BY <1>3, <1>5, <2>1, <2>2
<1>7. CASE least \notin s
  <2>1. least \in t /\ \A x \in s : x < least
    BY <1>3, <1>4, <1>7
  <2> QED BY <1>3, <1>5, <2>1
<1> QED BY <1>6, <1>7

\* What is between two members with the same slots has these slots.
LEMMA AlikeAreTogether ==
    ASSUME NEW m, NEW n, NEW o, SlotsOf(m) \in SUBSET Nat, SlotsOf(n) \in SUBSET Nat,
           MemberBefore(m, n), MemberBefore(n, o), SlotsOf(m) = SlotsOf(o)
    PROVE  SlotsOf(n) = SlotsOf(m)
BY SlotsBeforeAsymmetric DEF MemberBefore

-----------------------------------------------------------------------------
(* The request.                                                            *)

LEMMA RequestTypes ==
    ASSUME request \in Submitted
    PROVE  /\ GivenNodes \in Seq(Node) /\ GivenEdges \in Seq(Edge)
           /\ GivenBundles \in Seq(Bundle)
           /\ \A i \in Positions(GivenBundles) :
                /\ GivenBundles[i].id \in Nat
                /\ GivenBundles[i].members \in Seq(Member)
                /\ MembersAt(i) \subseteq Nat \ {0}
                /\ \A k \in MembersAt(i) :
                      /\ MemberOf(i, k).slots \in Seq(Nat)
                      /\ SlotsAt(i, k) \in SUBSET Nat
<1>1. GivenNodes \in Seq(Node) /\ GivenEdges \in Seq(Edge) /\ GivenBundles \in Seq(Bundle)
  BY SubmittedAreRequests DEF GivenNodes, GivenEdges, GivenBundles
<1>2. ASSUME NEW i \in Positions(GivenBundles)
      PROVE  /\ GivenBundles[i].id \in Nat
             /\ GivenBundles[i].members \in Seq(Member)
             /\ MembersAt(i) \subseteq Nat \ {0}
             /\ \A k \in MembersAt(i) :
                   /\ MemberOf(i, k).slots \in Seq(Nat)
                   /\ SlotsAt(i, k) \in SUBSET Nat
  <2>1. GivenBundles[i] \in Bundle
    BY <1>1 DEF Positions
  <2>2. GivenBundles[i].id \in Nat /\ GivenBundles[i].members \in Seq(Member)
    BY <2>1 DEF Bundle
  <2>3. MembersAt(i) \subseteq Nat \ {0}
    BY <2>2 DEF MembersAt, Positions
  <2>4. ASSUME NEW k \in MembersAt(i)
        PROVE  MemberOf(i, k).slots \in Seq(Nat) /\ SlotsAt(i, k) \in SUBSET Nat
    <3>1. MemberOf(i, k) \in Member
      BY <2>2 DEF MembersAt, MemberOf, Positions
    <3>2. MemberOf(i, k).slots \in Seq(Nat)
      BY <3>1 DEF Member
    <3> QED BY <3>2 DEF SlotsAt, SlotsOf, Positions
  <2> QED BY <2>2, <2>3, <2>4
<1> QED BY <1>1, <1>2

\* A step changes nothing that is of the request alone.
LEMMA RequestKept ==
    ASSUME UNCHANGED request
    PROVE  /\ GivenNodes' = GivenNodes /\ GivenEdges' = GivenEdges
           /\ GivenBundles' = GivenBundles
           /\ NodeIds' = NodeIds /\ EdgeIds' = EdgeIds
           /\ \A n : PortIds(n)' = PortIds(n)
           /\ \A i : MembersAt(i)' = MembersAt(i)
           /\ \A i, k : /\ MemberOf(i, k)' = MemberOf(i, k)
                        /\ SlotsAt(i, k)' = SlotsAt(i, k)
                        /\ NetAt(i, k)' = NetAt(i, k)
           /\ BoundariesAreFree' = BoundariesAreFree
           /\ BundlesAreApart' = BundlesAreApart
<1>1. GivenNodes' = GivenNodes /\ GivenEdges' = GivenEdges /\ GivenBundles' = GivenBundles
  BY DEF GivenNodes, GivenEdges, GivenBundles
<1>2. NodeIds' = NodeIds /\ EdgeIds' = EdgeIds
  BY <1>1 DEF NodeIds, EdgeIds
<1>3. \A n : NodeOf(n)' = NodeOf(n)
  BY <1>1 DEF NodeOf
<1>4. \A n : PortIds(n)' = PortIds(n)
  BY <1>3 DEF PortIds
<1>5. \A i : MembersAt(i)' = MembersAt(i)
  BY <1>1 DEF MembersAt
<1>6. \A i, k : MemberOf(i, k)' = MemberOf(i, k)
  BY <1>1 DEF MemberOf
<1>7. \A i, k : SlotsAt(i, k)' = SlotsAt(i, k)
  BY <1>6 DEF SlotsAt, SlotsOf
<1>8. \A e : EdgeOf(e)' = EdgeOf(e)
  BY <1>1 DEF EdgeOf
<1>9. \A i, k : NetAt(i, k)' = NetAt(i, k)
  BY <1>6, <1>8 DEF NetAt, NetOf
<1>10. InputIds' = InputIds /\ OutputIds' = OutputIds /\ RankingEdges' = RankingEdges
  BY <1>1 DEF InputIds, OutputIds, RankingEdges
<1>11. BoundariesAreFree' = BoundariesAreFree
  BY <1>2, <1>10 DEF BoundariesAreFree
<1>12. BundlesAreApart' = BundlesAreApart
  BY <1>1 DEF BundlesAreApart
<1> QED BY <1>1, <1>2, <1>4, <1>5, <1>6, <1>7, <1>9, <1>11, <1>12

LEMMA FitsKept ==
    ASSUME UNCHANGED request
    PROVE  /\ \A i : RoleOf(GivenBundles[i])' = RoleOf(GivenBundles[i])
           /\ \A i, k : Fits(i, k)' = Fits(i, k)
<1>1. GivenEdges' = GivenEdges /\ GivenBundles' = GivenBundles /\ EdgeIds' = EdgeIds
  BY RequestKept
<1>2. InputIds' = InputIds
  BY DEF InputIds
<1>3. \A i : RoleOf(GivenBundles[i])' = RoleOf(GivenBundles[i])
  BY <1>1, <1>2 DEF RoleOf
<1>4. \A i, k : Fits(i, k)' = Fits(i, k)
  <2> SUFFICES ASSUME NEW i, NEW k PROVE Fits(i, k)' = Fits(i, k)
    OBVIOUS
  <2>1. MemberOf(i, k)' = MemberOf(i, k)
    BY RequestKept
  <2>2. EdgeOf(MemberOf(i, k).edge)' = EdgeOf(MemberOf(i, k).edge)
    BY <1>1, <2>1 DEF EdgeOf
  <2>3. EndAtBundle(GivenBundles[i], EdgeOf(MemberOf(i, k).edge))'
           = EndAtBundle(GivenBundles[i], EdgeOf(MemberOf(i, k).edge))
    BY <1>1, <1>3, <2>2 DEF EndAtBundle
  <2> QED BY <1>1, <2>1, <2>3 DEF Fits
<1> QED BY <1>3, <1>4

-----------------------------------------------------------------------------
(* Options, nodes, edges and boundaries.                                   *)

LEMMA InitVInv == ValidationInit => VInv
<1> SUFFICES ASSUME ValidationInit PROVE VInv
  OBVIOUS
<1>1. /\ request \in Submitted /\ part = "options" /\ left = {}
      /\ lanes = [i \in Positions(GivenBundles) |-> [k \in MembersAt(i) |-> 0]]
  BY DEF ValidationInit, MembersAt
<1>2. LanesAreGiven
  BY <1>1 DEF LanesAreGiven
<1> QED BY <1>1, <1>2 DEF VInv, NodesAreApart, EdgesAreSound, BoundariesAreSound, BundlesLeft, WorkIsOnBundle,
            CheckedFit, CheckedAreApart, DoneAreServed, LanesInWork, InBundle,
            AfterOptions, AfterNodes, AfterBoundaries

\* What holds of later parts need not be looked at before them.
LEMMA NotYetInBundles ==
    ASSUME VInv, UNCHANGED <<request, lanes>>,
           part' \in {"options", "nodes", "edges", "boundaries", "refused"},
           NodesAreApart', EdgesAreSound'
    PROVE  VInv'
<1>1. LanesAreGiven'
  BY RequestKept DEF VInv, LanesAreGiven
<1> QED BY <1>1 DEF VInv, BoundariesAreSound, BundlesLeft, WorkIsOnBundle,
            CheckedFit, CheckedAreApart, DoneAreServed, LanesInWork, InBundle, AfterBoundaries

LEMMA StutterKeeps ==
    ASSUME VInv, UNCHANGED <<request, part, left, bundle, bundled, cohorts, lanes>>
    PROVE  VInv'
<1>1. NodesAreApart' /\ EdgesAreSound' /\ BoundariesAreSound' /\ WorkIsOnBundle' /\ BundlesLeft'
  BY RequestKept DEF VInv, NodesAreApart, EdgesAreSound, BoundariesAreSound, WorkIsOnBundle,
                     BundlesLeft, InBundle
<1>2. LanesAreGiven'
  BY RequestKept DEF VInv, LanesAreGiven
<1>3. InBundle' = InBundle /\ InWork' = InWork
  BY RequestKept DEF InBundle, InWork
<1>4. \A i : Done(i)' = Done(i)
  BY <1>3, RequestKept DEF Done
<1>5. \A i, k : Checked(i, k)' = Checked(i, k)
  BY <1>4 DEF Checked
<1>6. CheckedFit' /\ CheckedAreApart'
  BY <1>5, RequestKept, FitsKept DEF VInv, CheckedFit, CheckedAreApart
<1>7. DoneAreServed'
  <2>1. \A i : LanesServe(i)' = LanesServe(i)
    BY RequestKept DEF LanesServe
  <2> QED BY <1>4, <2>1, RequestKept DEF VInv, DoneAreServed
<1>8. LanesInWork'
  <2>1. Served' = Served /\ \A k : LaneOf(k)' = LaneOf(k)
    BY RequestKept DEF Served, LaneOf
  <2>2. ServedHaveTheirLane' = ServedHaveTheirLane
    BY <2>1, RequestKept DEF ServedHaveTheirLane
  <2>3. LanesAreApart' = LanesAreApart
    BY <2>1 DEF LanesAreApart
  <2>4. ServedInOrder' = ServedInOrder
    BY <2>1, RequestKept DEF ServedInOrder
  <2> QED BY <2>2, <2>3, <2>4 DEF VInv, LanesInWork
<1> QED BY <1>1, <1>2, <1>6, <1>7, <1>8 DEF VInv

LEMMA RefuseKeeps ==
    ASSUME VInv, NEW CONSTANT error, Refuse(error)
    PROVE  VInv'
BY NotYetInBundles DEF Refuse, NodesAreApart, EdgesAreSound, AfterOptions, AfterNodes

LEMMA CheckOptionsKeeps ==
    ASSUME VInv, CheckOptions
    PROVE  VInv'
<1>1. CASE OptionFault # NoFault
  BY <1>1, RefuseKeeps DEF CheckOptions
<1>2. CASE OptionFault = NoFault
  <2>1. part' = "nodes" /\ left' = Positions(GivenNodes) /\ UNCHANGED <<request, lanes>>
    BY <1>2 DEF CheckOptions, Enter
  <2>2. NodesAreApart' /\ EdgesAreSound'
    BY <2>1, RequestKept DEF NodesAreApart, EdgesAreSound, AfterNodes
  <2> QED BY <2>1, <2>2, NotYetInBundles
<1> QED BY <1>1, <1>2

LEMMA CheckNodeKeeps ==
    ASSUME VInv, CheckNode
    PROVE  VInv'
<1>1. part = "nodes" /\ left # {}
  BY DEF CheckNode
<1>2. PICK i \in left :
        IF NodeFault(GivenNodes[i]) # NoFault THEN Refuse(NodeFault(GivenNodes[i]))
        ELSE /\ left' = left \ {i}
             /\ UNCHANGED <<request, part, bundle, bundled, work, cohorts, lanes, fault>>
  BY DEF CheckNode, NextBy
<1>3. CASE NodeFault(GivenNodes[i]) # NoFault
  BY <1>2, <1>3, RefuseKeeps
<1>4. CASE NodeFault(GivenNodes[i]) = NoFault
  <2>1. left' = left \ {i} /\ part' = part /\ UNCHANGED <<request, lanes>>
    BY <1>2, <1>4
  <2>2. GivenNodes[i].id \notin SeenIds(GivenNodes)
    BY <1>4 DEF NodeFault, NoFault
  <2>3. \A j \in Positions(GivenNodes) \ left : GivenNodes[j].id # GivenNodes[i].id
    BY <2>2 DEF SeenIds
  <2>4. NodesAreApart'
    BY <1>1, <2>1, <2>3, RequestKept DEF NodesAreApart, VInv, AfterOptions
  <2>5. EdgesAreSound'
    BY <1>1, <2>1 DEF EdgesAreSound, AfterNodes
  <2> QED BY <1>1, <2>1, <2>4, <2>5, NotYetInBundles
<1> QED BY <1>3, <1>4

LEMMA FinishNodesKeeps ==
    ASSUME VInv, FinishNodes
    PROVE  VInv'
<1>1. /\ part = "nodes" /\ left = {} /\ part' = "edges" /\ left' = Positions(GivenEdges)
      /\ UNCHANGED <<request, lanes>>
  BY DEF FinishNodes, Enter
<1>2. NodesAreApart'
  BY <1>1, RequestKept DEF NodesAreApart, VInv, AfterOptions
<1>3. EdgesAreSound'
  BY <1>1, RequestKept DEF EdgesAreSound
<1> QED BY <1>1, <1>2, <1>3, NotYetInBundles

LEMMA EndFacts ==
    ASSUME NEW e, NEW end, EndFault(e, end) = NoFault
    PROVE  end[1] \in NodeIds /\ end[2] \in PortIds(end[1])
BY DEF EndFault, NoFault

LEMMA CheckEdgeKeeps ==
    ASSUME VInv, CheckEdge
    PROVE  VInv'
<1>1. part = "edges" /\ left # {}
  BY DEF CheckEdge
<1>2. PICK i \in left :
        IF EdgeFault(GivenEdges[i]) # NoFault THEN Refuse(EdgeFault(GivenEdges[i]))
        ELSE /\ left' = left \ {i}
             /\ UNCHANGED <<request, part, bundle, bundled, work, cohorts, lanes, fault>>
  BY DEF CheckEdge, NextBy
<1>3. CASE EdgeFault(GivenEdges[i]) # NoFault
  BY <1>2, <1>3, RefuseKeeps
<1>4. CASE EdgeFault(GivenEdges[i]) = NoFault
  <2>1. left' = left \ {i} /\ part' = part /\ UNCHANGED <<request, lanes>>
    BY <1>2, <1>4
  <2>2. /\ GivenEdges[i].id \notin SeenIds(GivenEdges)
        /\ EndFault(GivenEdges[i].id, GivenEdges[i].source) = NoFault
        /\ EndFault(GivenEdges[i].id, GivenEdges[i].target) = NoFault
    BY <1>4 DEF EdgeFault, NoFault
  <2>3. \A j \in Positions(GivenEdges) \ left : GivenEdges[j].id # GivenEdges[i].id
    BY <2>2 DEF SeenIds
  <2>4. \A end \in {GivenEdges[i].source, GivenEdges[i].target} :
           end[1] \in NodeIds /\ end[2] \in PortIds(end[1])
    BY <2>2, EndFacts
  <2>5. NodesAreApart'
    BY <1>1, <2>1, RequestKept DEF NodesAreApart, VInv, AfterOptions
  <2>6. EdgesAreSound'
    <3> SUFFICES ASSUME NEW j \in Positions(GivenEdges), NEW k \in Positions(GivenEdges),
                        j \notin left', k \notin left'
                 PROVE  /\ GivenEdges[j].id = GivenEdges[k].id => j = k
                        /\ \A end \in {GivenEdges[j].source, GivenEdges[j].target} :
                              end[1] \in NodeIds /\ end[2] \in PortIds(end[1])
      BY <1>1, <2>1, RequestKept DEF EdgesAreSound
    <3>1. \A m, n \in Positions(GivenEdges) \ left :
             /\ GivenEdges[m].id = GivenEdges[n].id => m = n
             /\ \A end \in {GivenEdges[m].source, GivenEdges[m].target} :
                      end[1] \in NodeIds /\ end[2] \in PortIds(end[1])
      BY <1>1 DEF VInv, EdgesAreSound, AfterNodes, AfterOptions
    <3>2. GivenEdges[j].id = GivenEdges[k].id => j = k
      BY <2>1, <2>3, <3>1
    <3>3. \A end \in {GivenEdges[j].source, GivenEdges[j].target} :
             end[1] \in NodeIds /\ end[2] \in PortIds(end[1])
      BY <2>1, <2>4, <3>1
    <3> QED BY <3>2, <3>3
  <2> QED BY <1>1, <2>1, <2>5, <2>6, NotYetInBundles
<1> QED BY <1>3, <1>4

LEMMA FinishEdgesKeeps ==
    ASSUME VInv, FinishEdges
    PROVE  VInv'
<1>1. /\ part = "edges" /\ left = {} /\ part' = "boundaries"
      /\ UNCHANGED <<request, lanes>>
  BY DEF FinishEdges, Enter
<1>2. NodesAreApart'
  BY <1>1, RequestKept DEF NodesAreApart, VInv, AfterOptions
<1>3. EdgesAreSound'
  BY <1>1, RequestKept DEF EdgesAreSound, VInv, AfterNodes, AfterOptions
<1> QED BY <1>1, <1>2, <1>3, NotYetInBundles

\* Boundaries without a fault are those ranking takes for granted.
LEMMA BoundaryFacts ==
    ASSUME ConstraintFault = NoFault
    PROVE  BoundariesAreFree
<1>1. /\ BoundaryFault("input", request.inputs) = NoFault
      /\ BoundaryFault("output", request.outputs) = NoFault
      /\ InputIds \cap OutputIds = {}
      /\ StructureFault = NoFault
  BY DEF ConstraintFault, NoFault
<1>2. InputIds \subseteq NodeIds
  BY <1>1 DEF BoundaryFault, NoFault, InputIds
<1>3. OutputIds \subseteq NodeIds
  BY <1>1 DEF BoundaryFault, NoFault, OutputIds
<1>4. Fed = {} /\ Feeding = {}
  BY <1>1 DEF StructureFault, NoFault
<1> QED BY <1>1, <1>2, <1>3, <1>4 DEF BoundariesAreFree, Fed, Feeding

LEMMA BundleIdFacts ==
    ASSUME BundleIdFault = NoFault
    PROVE  BundlesAreApart
<1>1. Repeated(BundleIds) = {}
  BY DEF BundleIdFault, NoFault
<1>2. Positions(BundleIds) = Positions(GivenBundles)
  BY DEF BundleIds, Positions
<1> QED BY <1>1, <1>2 DEF Repeated, BundleIds, BundlesAreApart

-----------------------------------------------------------------------------
(* Bundles and their members.                                              *)

\* What was found of nodes, edges and boundaries stays.
LEMMA EarlierPartsStand ==
    ASSUME VInv, UNCHANGED request, part \in AfterBoundaries, part' \in AfterBoundaries
    PROVE  /\ request' \in Submitted /\ NodesAreApart' /\ EdgesAreSound' /\ BoundariesAreSound'
           /\ BoundariesAreFree /\ BundlesAreApart
<1>1. NodesAreApart'
  BY RequestKept DEF VInv, NodesAreApart, AfterBoundaries, AfterOptions
<1>2. EdgesAreSound'
  BY RequestKept DEF VInv, EdgesAreSound, AfterBoundaries, AfterNodes, AfterOptions
<1>3. BoundariesAreSound' /\ BoundariesAreFree /\ BundlesAreApart
  BY RequestKept DEF VInv, BoundariesAreSound
<1> QED BY <1>1, <1>2, <1>3 DEF VInv

\* As long as nothing more is checked, what is known of members stays.
LEMMA CheckedKept ==
    ASSUME VInv, UNCHANGED <<request, lanes>>, bundled \subseteq bundled',
           part \in AfterBoundaries, part' \in AfterBoundaries,
           \A i \in Positions(GivenBundles) : \A k \in MembersAt(i) : Checked(i, k)' => Checked(i, k)
    PROVE  /\ CheckedFit' /\ CheckedAreApart' /\ LanesAreGiven'
           /\ (\A i \in Positions(GivenBundles) : Done(i)' => Done(i)) => DoneAreServed'
<1>1. LanesAreGiven'
  BY RequestKept DEF VInv, LanesAreGiven
<1>2. CheckedFit'
  <2> SUFFICES ASSUME NEW i \in Positions(GivenBundles), NEW k \in MembersAt(i), Checked(i, k)'
               PROVE  Fits(i, k)' /\ <<MemberOf(i, k)'.edge, RoleOf(GivenBundles[i])'>> \in bundled'
    BY RequestKept DEF CheckedFit
  <2>1. Checked(i, k)
    OBVIOUS
  <2>2. Fits(i, k) /\ <<MemberOf(i, k).edge, RoleOf(GivenBundles[i])>> \in bundled
    BY <2>1 DEF VInv, CheckedFit
  <2> QED BY <2>2, RequestKept, FitsKept
<1>3. CheckedAreApart'
  <2> SUFFICES ASSUME NEW i \in Positions(GivenBundles), NEW j \in Positions(GivenBundles),
                      NEW k \in MembersAt(i), NEW l \in MembersAt(j),
                      Checked(i, k)', Checked(j, l)', i # j,
                      RoleOf(GivenBundles[i])' = RoleOf(GivenBundles[j])'
               PROVE  MemberOf(i, k)'.edge # MemberOf(j, l)'.edge
    BY RequestKept DEF CheckedAreApart
  <2>1. Checked(i, k) /\ Checked(j, l)
    OBVIOUS
  <2>2. MemberOf(i, k).edge # MemberOf(j, l).edge
    BY <2>1, FitsKept DEF VInv, CheckedAreApart
  <2> QED BY <2>2, RequestKept
<1>4. ASSUME \A i \in Positions(GivenBundles) : Done(i)' => Done(i) PROVE DoneAreServed'
  <2> SUFFICES ASSUME NEW i \in Positions(GivenBundles), Done(i)' PROVE LanesServe(i)'
    BY RequestKept DEF DoneAreServed
  <2>1. LanesServe(i)
    BY <1>4 DEF VInv, DoneAreServed
  <2> QED BY <2>1, RequestKept DEF LanesServe
<1> QED BY <1>1, <1>2, <1>3, <1>4

LEMMA CheckBoundariesKeeps ==
    ASSUME VInv, CheckBoundaries
    PROVE  VInv'
<1>0. part = "boundaries"
  BY DEF CheckBoundaries
<1>1. CASE ConstraintFault # NoFault
  BY <1>1, RefuseKeeps DEF CheckBoundaries
<1>2. CASE ConstraintFault = NoFault /\ BundleIdFault # NoFault
  BY <1>2, RefuseKeeps DEF CheckBoundaries
<1>3. CASE ConstraintFault = NoFault /\ BundleIdFault = NoFault
  <2>1. part' = "bundles" /\ left' = Positions(GivenBundles) /\ UNCHANGED <<request, lanes>>
    BY <1>3 DEF CheckBoundaries, Enter
  <2>2. NodesAreApart' /\ EdgesAreSound'
    BY <1>0, <2>1, RequestKept DEF VInv, NodesAreApart, EdgesAreSound, AfterNodes, AfterOptions
  <2>3. BoundariesAreSound'
    BY <1>3, <2>1, BoundaryFacts, BundleIdFacts, RequestKept DEF BoundariesAreSound
  <2>4. \A i \in Positions(GivenBundles) : ~Done(i)' /\ \A k : ~Checked(i, k)'
    BY <2>1 DEF Done, Checked, InBundle
  <2>5. CheckedFit' /\ CheckedAreApart' /\ DoneAreServed'
    BY <2>1, <2>4, RequestKept DEF CheckedFit, CheckedAreApart, DoneAreServed
  <2>6. LanesAreGiven'
    BY <2>1, RequestKept DEF VInv, LanesAreGiven
  <2>7. WorkIsOnBundle' /\ LanesInWork' /\ BundlesLeft'
    BY <2>1, RequestKept DEF WorkIsOnBundle, LanesInWork, BundlesLeft, InBundle
  <2> QED BY <2>1, <2>2, <2>3, <2>5, <2>6, <2>7 DEF VInv
<1> QED BY <1>1, <1>2, <1>3

LEMMA OpenBundleKeeps ==
    ASSUME VInv, OpenBundle
    PROVE  VInv'
<1>0. part = "bundles" /\ left # {}
  BY DEF OpenBundle
<1>1. PICK i \in left :
        /\ \A j \in left : GivenBundles[i].id <= GivenBundles[j].id
        /\ IF BundleFault(GivenBundles[i]) # NoFault THEN Refuse(BundleFault(GivenBundles[i]))
           ELSE /\ bundle' = i
                /\ work' = work + Len(GivenBundles[i].members)
                /\ Enter("members", Positions(GivenBundles[i].members))
                /\ UNCHANGED <<request, bundled, cohorts, lanes, fault>>
  BY DEF OpenBundle, NextBy
<1>2. CASE BundleFault(GivenBundles[i]) # NoFault
  BY <1>1, <1>2, RefuseKeeps
<1>3. CASE BundleFault(GivenBundles[i]) = NoFault
  <2>1. /\ bundle' = i /\ part' = "members" /\ left' = MembersAt(i)
        /\ UNCHANGED <<request, bundled, lanes>>
    BY <1>1, <1>3 DEF Enter, MembersAt
  <2>2. InWork' = GivenBundles[i]
    BY <2>1, RequestKept DEF InWork
  <2>3. i \in Positions(GivenBundles)
    BY <1>0 DEF VInv, BundlesLeft
  <2>4. ASSUME NEW j \in Positions(GivenBundles), Done(j)' PROVE Done(j)
    <3>1. GivenBundles[j].id < GivenBundles[i].id
      BY <2>1, <2>2, <2>4, RequestKept DEF Done, InBundle
    <3>2. GivenBundles[j].id \in Nat /\ GivenBundles[i].id \in Nat
      BY <2>3, RequestTypes DEF VInv
    <3>3. j \notin left
      BY <1>1, <3>1, <3>2
    <3> QED BY <1>0, <3>3 DEF Done, InBundle
  <2>5. ASSUME NEW j \in Positions(GivenBundles), NEW k \in MembersAt(j), Checked(j, k)'
        PROVE  Checked(j, k)
    <3>1. Done(j)'
      BY <2>1, <2>5 DEF Checked
    <3> QED BY <2>4, <3>1 DEF Checked
  <2>6. CheckedFit' /\ CheckedAreApart' /\ DoneAreServed' /\ LanesAreGiven'
    BY <1>0, <2>1, <2>4, <2>5, CheckedKept DEF AfterBoundaries
  <2>7. WorkIsOnBundle' /\ LanesInWork' /\ BundlesLeft'
    BY <2>1, <2>3, RequestKept DEF WorkIsOnBundle, LanesInWork, BundlesLeft
  <2>8. part \in AfterBoundaries /\ part' \in AfterBoundaries
    BY <1>0, <2>1 DEF AfterBoundaries
  <2> QED BY <2>1, <2>6, <2>7, <2>8, EarlierPartsStand DEF VInv
<1> QED BY <1>2, <1>3

LEMMA CheckMemberKeeps ==
    ASSUME VInv, CheckMember
    PROVE  VInv'
<1>0. part = "members" /\ left # {}
  BY DEF CheckMember
<1>1. PICK k \in left :
        IF MemberFault(InWork, MemberAt(k)) # NoFault THEN Refuse(MemberFault(InWork, MemberAt(k)))
        ELSE /\ left' = left \ {k}
             /\ bundled' = bundled \cup {<<MemberAt(k).edge, RoleOf(InWork)>>}
             /\ work' = work + Len(MemberAt(k).slots)
             /\ UNCHANGED <<request, part, bundle, cohorts, lanes, fault>>
  BY DEF CheckMember, NextBy
<1>2. CASE MemberFault(InWork, MemberAt(k)) # NoFault
  BY <1>1, <1>2, RefuseKeeps
<1>3. CASE MemberFault(InWork, MemberAt(k)) = NoFault
  <2>0. PICK b \in Positions(GivenBundles) : b = bundle
    BY <1>0 DEF VInv, WorkIsOnBundle, InBundle
  <2>1. /\ left' = left \ {k} /\ part' = part /\ bundle' = bundle
        /\ bundled' = bundled \cup {<<MemberAt(k).edge, RoleOf(InWork)>>}
        /\ UNCHANGED <<request, lanes>>
    BY <1>1, <1>3
  <2>2. InWork = GivenBundles[b] /\ MemberAt(k) = MemberOf(b, k) /\ k \in MembersAt(b)
    BY <1>0, <2>0 DEF InWork, MemberAt, MemberOf, VInv, WorkIsOnBundle, InBundle
  <2>3. /\ Fits(b, k)
        /\ <<MemberOf(b, k).edge, RoleOf(GivenBundles[b])>> \notin bundled
    BY <1>3, <2>2 DEF MemberFault, NoFault, Fits
  <2>4. part \in AfterBoundaries /\ part' \in AfterBoundaries /\ InBundle /\ InBundle'
    BY <1>0, <2>1 DEF AfterBoundaries, InBundle
  <2>5. InWork' = InWork
    BY <2>1, RequestKept DEF InWork
  <2>6. \A i \in Positions(GivenBundles) : Done(i)' <=> Done(i)
    BY <2>4, <2>5, <2>1, RequestKept DEF Done
  <2>7. \A i \in Positions(GivenBundles) : \A l \in MembersAt(i) :
           Checked(i, l)' => Checked(i, l) \/ (i = b /\ l = k)
    <3> SUFFICES ASSUME NEW i \in Positions(GivenBundles), NEW l \in MembersAt(i),
                        Checked(i, l)', ~(i = b /\ l = k)
                 PROVE  Checked(i, l)
      OBVIOUS
    <3>1. CASE Done(i)
      BY <3>1 DEF Checked
    <3>2. CASE ~Done(i)
      <4>1. ~Done(i)' /\ part' # "lanes"
        BY <1>0, <2>1, <2>6, <3>2
      <4>2. i = bundle' /\ l \notin left'
        BY <4>1 DEF Checked
      <4> QED BY <1>0, <2>0, <2>1, <4>2 DEF Checked
    <3> QED BY <3>1, <3>2
  <2>8. CheckedFit'
    <3> SUFFICES ASSUME NEW i \in Positions(GivenBundles), NEW l \in MembersAt(i), Checked(i, l)'
                 PROVE  Fits(i, l) /\ <<MemberOf(i, l).edge, RoleOf(GivenBundles[i])>> \in bundled'
      BY <2>1, RequestKept, FitsKept DEF CheckedFit
    <3>1. CASE Checked(i, l)
      BY <2>1, <2>4, <3>1 DEF VInv, CheckedFit
    <3>2. CASE i = b /\ l = k
      BY <2>1, <2>2, <2>3, <3>2
    <3> QED BY <2>7, <3>1, <3>2
  <2>9. CheckedAreApart'
    <3> SUFFICES ASSUME NEW i \in Positions(GivenBundles), NEW j \in Positions(GivenBundles),
                        NEW m \in MembersAt(i), NEW n \in MembersAt(j),
                        Checked(i, m)', Checked(j, n)', i # j,
                        RoleOf(GivenBundles[i]) = RoleOf(GivenBundles[j])
                 PROVE  MemberOf(i, m).edge # MemberOf(j, n).edge
      BY <2>1, RequestKept, FitsKept DEF CheckedAreApart
    <3>1. CASE Checked(i, m) /\ Checked(j, n)
      BY <2>4, <3>1 DEF VInv, CheckedAreApart
    <3>2. CASE Checked(i, m) /\ j = b /\ n = k
      <4>1. <<MemberOf(i, m).edge, RoleOf(GivenBundles[i])>> \in bundled
        BY <2>4, <3>2 DEF VInv, CheckedFit
      <4> QED BY <2>3, <3>2, <4>1
    <3>3. CASE Checked(j, n) /\ i = b /\ m = k
      <4>1. <<MemberOf(j, n).edge, RoleOf(GivenBundles[j])>> \in bundled
        BY <2>4, <3>3 DEF VInv, CheckedFit
      <4> QED BY <2>3, <3>3, <4>1
    <3> QED BY <2>7, <3>1, <3>2, <3>3
  <2>10. DoneAreServed' /\ LanesAreGiven'
    <3>1. \A i : LanesServe(i)' = LanesServe(i)
      BY <2>1, RequestKept DEF LanesServe
    <3> QED BY <2>1, <2>4, <2>6, <3>1, RequestKept DEF DoneAreServed, LanesAreGiven, VInv
  <2>11. WorkIsOnBundle' /\ LanesInWork' /\ BundlesLeft'
    BY <1>0, <2>1, RequestKept DEF VInv, WorkIsOnBundle, LanesInWork, BundlesLeft, InBundle
  <2> QED BY <1>0, <2>1, <2>4, <2>8, <2>9, <2>10, <2>11, EarlierPartsStand DEF VInv
<1> QED BY <1>2, <1>3

LEMMA FinishMembersKeeps ==
    ASSUME VInv, FinishMembers
    PROVE  VInv'
<1>1. /\ part = "members" /\ left = {} /\ part' = "lanes" /\ left' = Positions(InWork.members)
      /\ cohorts' = <<>> /\ UNCHANGED <<request, bundle, bundled, lanes>>
  BY DEF FinishMembers, Enter
<1>2. part \in AfterBoundaries /\ part' \in AfterBoundaries /\ InBundle /\ InBundle'
  BY <1>1 DEF AfterBoundaries, InBundle
<1>3. InWork' = InWork /\ left' = MembersAt(bundle)
  BY <1>1, RequestKept DEF InWork, MembersAt
<1>4. \A i \in Positions(GivenBundles) : Done(i)' <=> Done(i)
  BY <1>1, <1>2, <1>3, RequestKept DEF Done
<1>5. \A i \in Positions(GivenBundles) : \A k \in MembersAt(i) : Checked(i, k)' => Checked(i, k)
  BY <1>1, <1>4 DEF Checked
<1>6. CheckedFit' /\ CheckedAreApart' /\ DoneAreServed' /\ LanesAreGiven'
  BY <1>1, <1>2, <1>4, <1>5, CheckedKept
<1>7. WorkIsOnBundle' /\ BundlesLeft'
  BY <1>1, <1>2, <1>3, RequestKept DEF VInv, WorkIsOnBundle, BundlesLeft
<1>8. LanesInWork'
  <2>1. Served' = {}
    <3>1. MembersAt(bundle)' = MembersAt(bundle)
      BY <1>1, RequestKept DEF MembersAt
    <3> QED BY <1>3, <3>1 DEF Served
  <2>2. cohorts' \in Seq([slots : SUBSET Nat, net : Nat]) /\ DOMAIN cohorts' = {}
    BY <1>1
  <2> QED BY <2>1, <2>2 DEF LanesInWork, ServedHaveTheirLane, LanesAreApart, ServedInOrder
<1> QED BY <1>1, <1>2, <1>6, <1>7, <1>8, EarlierPartsStand DEF VInv

LEMMA CloseBundleKeeps ==
    ASSUME VInv, CloseBundle, LanesServe(bundle)
    PROVE  VInv'
<1>1. /\ part = "lanes" /\ part' = "bundles"
      /\ left' = {i \in Positions(GivenBundles) : GivenBundles[i].id > InWork.id}
      /\ UNCHANGED <<request, bundle, bundled, lanes>>
  BY DEF CloseBundle, Enter
<1>2. part \in AfterBoundaries /\ part' \in AfterBoundaries /\ InBundle /\ ~InBundle'
  BY <1>1 DEF AfterBoundaries, InBundle
<1>3. InWork = GivenBundles[bundle] /\ bundle \in Positions(GivenBundles)
  BY <1>2 DEF InWork, VInv, WorkIsOnBundle
<1>4. ASSUME NEW i \in Positions(GivenBundles), Done(i)' PROVE Done(i) \/ i = bundle
  <2>1. ~(GivenBundles[i].id > InWork.id)
    BY <1>1, <1>2, <1>4 DEF Done
  <2>2. GivenBundles[i].id \in Nat /\ GivenBundles[bundle].id \in Nat
    BY <1>3, RequestTypes DEF VInv
  <2>3. GivenBundles[i].id < InWork.id \/ GivenBundles[i].id = GivenBundles[bundle].id
    BY <1>3, <2>1, <2>2
  <2>4. BundlesAreApart
    BY <1>2 DEF VInv, BoundariesAreSound
  <2> QED BY <1>2, <1>3, <2>3, <2>4 DEF Done, BundlesAreApart
<1>5. ASSUME NEW i \in Positions(GivenBundles), NEW k \in MembersAt(i), Checked(i, k)'
      PROVE  Checked(i, k)
  <2>1. Done(i)'
    BY <1>1, <1>5 DEF Checked
  <2> QED BY <1>1, <1>4, <2>1 DEF Checked
<1>6. CheckedFit' /\ CheckedAreApart' /\ DoneAreServed' /\ LanesAreGiven'
  <2>1. CheckedFit' /\ CheckedAreApart' /\ LanesAreGiven'
    BY <1>1, <1>2, <1>5, CheckedKept
  <2>2. ASSUME NEW i \in Positions(GivenBundles), Done(i)' PROVE LanesServe(i)'
    <3>1. LanesServe(i)
      BY <1>2, <1>4, <2>2 DEF VInv, DoneAreServed
    <3> QED BY <1>1, <3>1, RequestKept DEF LanesServe
  <2> QED BY <1>1, <2>1, <2>2, RequestKept DEF DoneAreServed
<1>7. WorkIsOnBundle' /\ LanesInWork' /\ BundlesLeft'
  BY <1>1, <1>2, RequestKept DEF WorkIsOnBundle, LanesInWork, BundlesLeft
<1> QED BY <1>1, <1>2, <1>6, <1>7, EarlierPartsStand DEF VInv

LEMMA AcceptKeeps ==
    ASSUME VInv, Accept
    PROVE  VInv'
<1>1. /\ part = "bundles" /\ left = {} /\ part' = "accepted" /\ left' = {}
      /\ UNCHANGED <<request, bundle, bundled, lanes>>
  BY DEF Accept, Enter
<1>2. part \in AfterBoundaries /\ part' \in AfterBoundaries /\ ~InBundle /\ ~InBundle'
  BY <1>1 DEF AfterBoundaries, InBundle
<1>3. \A i \in Positions(GivenBundles) : Done(i) /\ \A k : Checked(i, k)
  BY <1>1, <1>2 DEF Done, Checked
<1>4. CheckedFit' /\ CheckedAreApart' /\ DoneAreServed' /\ LanesAreGiven'
  BY <1>1, <1>2, <1>3, CheckedKept
<1>5. WorkIsOnBundle' /\ LanesInWork' /\ BundlesLeft'
  BY <1>1, <1>2 DEF WorkIsOnBundle, LanesInWork, BundlesLeft
<1> QED BY <1>1, <1>2, <1>4, <1>5, EarlierPartsStand DEF VInv

-----------------------------------------------------------------------------
(* Lanes.                                                                  *)

\* The members of the bundle in work are checked, so each has a slot.
LEMMA MemberTypes ==
    ASSUME VInv, part = "lanes", NEW k \in MembersAt(bundle)
    PROVE  /\ SlotsAt(bundle, k) \in SUBSET Nat
           /\ SlotsAt(bundle, k) # {}
<1>1. bundle \in Positions(GivenBundles)
  BY DEF VInv, WorkIsOnBundle, InBundle
<1>2. SlotsAt(bundle, k) \in SUBSET Nat /\ MemberOf(bundle, k).slots \in Seq(Nat)
  BY <1>1, RequestTypes DEF VInv
<1>3. Checked(bundle, k)
  BY DEF Checked
<1>4. MemberOf(bundle, k).slots # <<>>
  BY <1>1, <1>3 DEF VInv, CheckedFit, Fits, AfterBoundaries
<1>5. 1 \in Positions(MemberOf(bundle, k).slots)
  BY <1>2, <1>4 DEF Positions
<1> QED BY <1>2, <1>5 DEF SlotsAt, SlotsOf

\* When all members have their lane, lanes are shared as they should be.
LEMMA WorkIsServed ==
    ASSUME VInv, part = "lanes", left = {}
    PROVE  LanesServe(bundle)
<1>1. ServedHaveTheirLane /\ LanesAreApart /\ Served = MembersAt(bundle)
  BY DEF VInv, LanesInWork, Served
<1> SUFFICES ASSUME NEW k \in MembersAt(bundle), NEW l \in MembersAt(bundle)
             PROVE  /\ LaneOf(k) = LaneOf(l) <=> SlotsAt(bundle, k) \cap SlotsAt(bundle, l) # {}
                    /\ LaneOf(k) = LaneOf(l) => /\ SlotsAt(bundle, k) = SlotsAt(bundle, l)
                                                /\ NetAt(bundle, k) = NetAt(bundle, l)
  BY DEF LanesServe, LaneOf
<1>2. /\ LaneOf(k) \in DOMAIN cohorts /\ LaneOf(l) \in DOMAIN cohorts
      /\ cohorts[LaneOf(k)] = [slots |-> SlotsAt(bundle, k), net |-> NetAt(bundle, k)]
      /\ cohorts[LaneOf(l)] = [slots |-> SlotsAt(bundle, l), net |-> NetAt(bundle, l)]
  BY <1>1 DEF ServedHaveTheirLane
<1>3. ASSUME LaneOf(k) = LaneOf(l)
      PROVE  /\ SlotsAt(bundle, k) = SlotsAt(bundle, l)
             /\ NetAt(bundle, k) = NetAt(bundle, l)
             /\ SlotsAt(bundle, k) \cap SlotsAt(bundle, l) # {}
  BY <1>2, <1>3, MemberTypes
<1>4. ASSUME SlotsAt(bundle, k) \cap SlotsAt(bundle, l) # {} PROVE LaneOf(k) = LaneOf(l)
  <2>1. cohorts[LaneOf(k)].slots \cap cohorts[LaneOf(l)].slots # {}
    BY <1>2, <1>4
  <2> QED BY <1>1, <1>2, <2>1 DEF LanesAreApart
<1> QED BY <1>3, <1>4

\* If a lane is for the slots of the member that comes next, it is the last.
LEMMA AlikeIsLast ==
    ASSUME VInv, part = "lanes", NEW k \in left,
           NEW c \in DOMAIN cohorts, cohorts[c].slots = SlotsAt(bundle, k)
    PROVE  c = Len(cohorts) /\ cohorts # <<>>
<1>1. /\ cohorts \in Seq([slots : SUBSET Nat, net : Nat])
      /\ ServedHaveTheirLane /\ LanesAreApart /\ ServedInOrder
      /\ left \subseteq MembersAt(bundle)
  BY DEF VInv, LanesInWork, WorkIsOnBundle, InBundle
<1>2. Len(cohorts) \in DOMAIN cohorts /\ c \in Nat /\ c <= Len(cohorts) /\ Len(cohorts) \in Nat
      /\ cohorts # <<>>
  BY <1>1
<1>3. PICK m \in Served : LaneOf(m) = c
  BY <1>1 DEF LanesAreApart
<1>4. PICK n \in Served : LaneOf(n) = Len(cohorts)
  BY <1>1, <1>2 DEF LanesAreApart
<1>5. /\ cohorts[c].slots = SlotsAt(bundle, m)
      /\ cohorts[Len(cohorts)].slots = SlotsAt(bundle, n)
      /\ SlotsAt(bundle, m) = SlotsAt(bundle, k)
  <2>1. /\ cohorts[LaneOf(m)] = [slots |-> SlotsAt(bundle, m), net |-> NetAt(bundle, m)]
        /\ cohorts[LaneOf(n)] = [slots |-> SlotsAt(bundle, n), net |-> NetAt(bundle, n)]
    BY <1>1 DEF ServedHaveTheirLane
  <2> QED BY <1>3, <1>4, <2>1
<1>6. ASSUME c # Len(cohorts) PROVE FALSE
  <2>1. MemberBefore(MemberOf(bundle, m), MemberOf(bundle, n))
    BY <1>1, <1>2, <1>3, <1>4, <1>6 DEF ServedInOrder
  <2>2. MemberBefore(MemberOf(bundle, n), MemberOf(bundle, k))
    BY <1>1 DEF ServedInOrder
  <2>3. SlotsAt(bundle, m) \in SUBSET Nat /\ SlotsAt(bundle, n) \in SUBSET Nat
        /\ SlotsAt(bundle, m) # {}
    BY MemberTypes DEF Served
  <2>4. SlotsAt(bundle, n) = SlotsAt(bundle, m)
    BY <1>5, <2>1, <2>2, <2>3, AlikeAreTogether DEF SlotsAt
  <2>5. cohorts[c].slots = cohorts[Len(cohorts)].slots /\ cohorts[c].slots # {}
    BY <1>5, <2>3, <2>4
  <2>6. cohorts[c].slots \cap cohorts[Len(cohorts)].slots # {}
    BY <2>5
  <2> QED BY <1>1, <1>2, <1>6, <2>6 DEF LanesAreApart
<1> QED BY <1>2, <1>6

\* The first lane with a slot is one of the lanes with it.
LEMMA FirstLane ==
    ASSUME cohorts \in Seq([slots : SUBSET Nat, net : Nat]), NEW s, Occupied(s) # {}
    PROVE  /\ LeastOf(Occupied(s)) \in DOMAIN cohorts
           /\ s \in cohorts[LeastOf(Occupied(s))].slots
<1>1. Occupied(s) \in SUBSET Nat
  BY DEF Occupied, Positions
<1>2. LeastOf(Occupied(s)) \in Occupied(s)
  BY <1>1, LeastFacts
<1> QED BY <1>2 DEF Occupied, Positions

\* A member without conflicts finds its own lane as the last, or no lane with
\* a slot of it.
LEMMA LaneFacts ==
    ASSUME VInv, part = "lanes", NEW k \in left, ConflictsAt(MemberAt(k)) = {}
    PROVE  \/ /\ cohorts # <<>>
              /\ cohorts[Len(cohorts)].slots = SlotsAt(bundle, k)
              /\ cohorts[Len(cohorts)] = [slots |-> SlotsAt(bundle, k), net |-> NetAt(bundle, k)]
           \/ /\ ~(cohorts # <<>> /\ cohorts[Len(cohorts)].slots = SlotsAt(bundle, k))
              /\ \A c \in DOMAIN cohorts : cohorts[c].slots \cap SlotsAt(bundle, k) = {}
<1>1. /\ cohorts \in Seq([slots : SUBSET Nat, net : Nat]) /\ LanesAreApart
      /\ k \in MembersAt(bundle) /\ bundle \in Positions(GivenBundles)
  BY DEF VInv, LanesInWork, WorkIsOnBundle, InBundle
<1>2. /\ SlotsOf(MemberAt(k)) = SlotsAt(bundle, k)
      /\ NetOf(MemberAt(k)) = NetAt(bundle, k)
  BY DEF MemberAt, InWork, SlotsAt, NetAt, MemberOf
<1>3. ASSUME NEW s \in SlotsAt(bundle, k), Occupied(s) # {}
      PROVE  cohorts[LeastOf(Occupied(s))] = [slots |-> SlotsAt(bundle, k), net |-> NetAt(bundle, k)]
  BY <1>2, <1>3 DEF ConflictsAt
<1>4. CASE cohorts # <<>> /\ cohorts[Len(cohorts)].slots = SlotsAt(bundle, k)
  <2>1. PICK s : s \in SlotsAt(bundle, k)
    BY <1>1, MemberTypes
  <2>2. Len(cohorts) \in DOMAIN cohorts
    BY <1>1, <1>4
  <2>3. Len(cohorts) \in Occupied(s)
    BY <1>4, <2>1, <2>2 DEF Occupied, Positions
  <2>4. LeastOf(Occupied(s)) \in DOMAIN cohorts /\ s \in cohorts[LeastOf(Occupied(s))].slots
    BY <1>1, <2>3, FirstLane
  <2>5. s \in cohorts[Len(cohorts)].slots
    BY <1>4, <2>1
  <2>6. LeastOf(Occupied(s)) = Len(cohorts)
    BY <1>1, <2>2, <2>4, <2>5 DEF LanesAreApart
  <2> QED BY <1>3, <1>4, <2>1, <2>3, <2>6
<1>5. CASE ~(cohorts # <<>> /\ cohorts[Len(cohorts)].slots = SlotsAt(bundle, k))
  <2>1. ASSUME NEW c \in DOMAIN cohorts, NEW s \in cohorts[c].slots \cap SlotsAt(bundle, k)
        PROVE  FALSE
    <3>1. c \in Occupied(s)
      BY <1>1 DEF Occupied, Positions
    <3>2. LeastOf(Occupied(s)) \in DOMAIN cohorts
      BY <1>1, <3>1, FirstLane
    <3>3. cohorts[LeastOf(Occupied(s))].slots = SlotsAt(bundle, k)
      BY <1>3, <3>1
    <3>4. LeastOf(Occupied(s)) = Len(cohorts) /\ cohorts # <<>>
      BY <3>2, <3>3, AlikeIsLast
    <3> QED BY <1>5, <3>3, <3>4
  <2> QED BY <1>5, <2>1
<1> QED BY <1>4, <1>5

LEMMA NetTypes ==
    ASSUME VInv, part = "lanes", NEW k \in MembersAt(bundle)
    PROVE  NetAt(bundle, k) \in Nat
<1>1. bundle \in Positions(GivenBundles) /\ Checked(bundle, k)
  BY DEF VInv, WorkIsOnBundle, InBundle, Checked
<1>2. MemberOf(bundle, k).edge \in EdgeIds
  BY <1>1 DEF VInv, CheckedFit, Fits, AfterBoundaries
<1>3. GivenEdges \in Seq(Edge)
  BY RequestTypes DEF VInv
<1>4. PICK i \in Positions(GivenEdges) : GivenEdges[i].id = MemberOf(bundle, k).edge
  BY <1>2 DEF EdgeIds
<1>5. EdgeOf(MemberOf(bundle, k).edge) \in Edge
  BY <1>3, <1>4 DEF EdgeOf, Positions
<1> QED BY <1>5 DEF NetAt, NetOf, Edge

\* A lane more, or the last one shared.
LEMMA OwnLane ==
    ASSUME VInv, part = "lanes", NEW k \in left, ConflictsAt(MemberAt(k)) = {},
           NEW own, own = LaneFor(MemberAt(k)), NEW kind,
           kind = [slots |-> SlotsAt(bundle, k), net |-> NetAt(bundle, k)],
           cohorts' = IF own \in DOMAIN cohorts THEN cohorts ELSE Append(cohorts, kind)
    PROVE  /\ cohorts' \in Seq([slots : SUBSET Nat, net : Nat])
           /\ own \in DOMAIN cohorts' /\ own \in Nat /\ cohorts'[own] = kind
           /\ DOMAIN cohorts' = DOMAIN cohorts \cup {own}
           /\ \A c \in DOMAIN cohorts : cohorts'[c] = cohorts[c] /\ c <= own /\ c \in Nat
           /\ own \notin DOMAIN cohorts =>
                 \A c \in DOMAIN cohorts : cohorts[c].slots \cap SlotsAt(bundle, k) = {}
<1>1. cohorts \in Seq([slots : SUBSET Nat, net : Nat]) /\ k \in MembersAt(bundle)
  BY DEF VInv, LanesInWork, WorkIsOnBundle, InBundle
<1>2. SlotsOf(MemberAt(k)) = SlotsAt(bundle, k)
  BY DEF MemberAt, InWork, SlotsAt, MemberOf
<1>3. own = IF cohorts # <<>> /\ cohorts[Len(cohorts)].slots = SlotsAt(bundle, k)
            THEN Len(cohorts) ELSE Len(cohorts) + 1
  BY <1>2 DEF LaneFor
<1>4. CASE cohorts # <<>> /\ cohorts[Len(cohorts)].slots = SlotsAt(bundle, k)
  <2>1. own = Len(cohorts) /\ own \in DOMAIN cohorts /\ cohorts' = cohorts
    BY <1>1, <1>3, <1>4
  <2>2. cohorts[own] = kind
    BY <1>4, <2>1, LaneFacts
  <2> QED BY <1>1, <2>1, <2>2
<1>5. CASE ~(cohorts # <<>> /\ cohorts[Len(cohorts)].slots = SlotsAt(bundle, k))
  <2>1. own = Len(cohorts) + 1 /\ own \notin DOMAIN cohorts /\ cohorts' = Append(cohorts, kind)
    BY <1>1, <1>3, <1>5
  <2>2. \A c \in DOMAIN cohorts : cohorts[c].slots \cap SlotsAt(bundle, k) = {}
    BY <1>5, LaneFacts
  <2>3. kind \in [slots : SUBSET Nat, net : Nat]
    <3>1. SlotsAt(bundle, k) \in SUBSET Nat
      BY <1>1, MemberTypes
    <3>2. NetAt(bundle, k) \in Nat
      BY <1>1, NetTypes
    <3> QED BY <3>1, <3>2
  <2> QED BY <1>1, <2>1, <2>2, <2>3
<1> QED BY <1>4, <1>5

LEMMA AssignLaneKeeps ==
    ASSUME VInv, AssignLane
    PROVE  VInv'
<1>0. part = "lanes"
  BY DEF AssignLane
<1>1. PICK k \in left :
        /\ \A j \in left \ {k} : MemberBefore(MemberAt(k), MemberAt(j))
        /\ IF ConflictsAt(MemberAt(k)) # {}
           THEN Refuse(<<"BoundaryBundleSlotConflict", InWork.id, LeastOf(ConflictsAt(MemberAt(k)))>>)
           ELSE /\ left' = left \ {k}
                /\ cohorts' = IF LaneFor(MemberAt(k)) \in DOMAIN cohorts THEN cohorts
                              ELSE Append(cohorts, [slots |-> SlotsOf(MemberAt(k)),
                                                    net |-> NetOf(MemberAt(k))])
                /\ lanes' = [lanes EXCEPT ![bundle][k] = LaneFor(MemberAt(k))]
                /\ UNCHANGED <<request, part, bundle, bundled, work, fault>>
  BY DEF AssignLane
<1>2. CASE ConflictsAt(MemberAt(k)) # {}
  BY <1>1, <1>2, RefuseKeeps
<1>3. CASE ConflictsAt(MemberAt(k)) = {}
  <2>0. PICK b \in Positions(GivenBundles) : b = bundle
    BY <1>0 DEF VInv, WorkIsOnBundle, InBundle
  <2>1. PICK own : own = LaneFor(MemberAt(k))
    OBVIOUS
  <2>2. PICK kind : kind = [slots |-> SlotsAt(b, k), net |-> NetAt(b, k)]
    OBVIOUS
  <2>3. /\ left' = left \ {k} /\ UNCHANGED <<request, part, bundle, bundled>>
        /\ cohorts' = IF own \in DOMAIN cohorts THEN cohorts ELSE Append(cohorts, kind)
        /\ lanes' = [lanes EXCEPT ![b][k] = own]
    BY <1>1, <1>3, <2>0, <2>1, <2>2 DEF MemberAt, InWork, SlotsAt, NetAt, MemberOf
  <2>4. /\ cohorts' \in Seq([slots : SUBSET Nat, net : Nat])
        /\ own \in DOMAIN cohorts' /\ own \in Nat /\ cohorts'[own] = kind
        /\ DOMAIN cohorts' = DOMAIN cohorts \cup {own}
        /\ \A c \in DOMAIN cohorts : cohorts'[c] = cohorts[c] /\ c <= own /\ c \in Nat
        /\ own \notin DOMAIN cohorts =>
              \A c \in DOMAIN cohorts : cohorts[c].slots \cap SlotsAt(b, k) = {}
    BY <1>0, <1>3, <2>0, <2>1, <2>2, <2>3, OwnLane
  <2>5. /\ left \subseteq MembersAt(b) /\ k \in MembersAt(b)
        /\ ServedHaveTheirLane /\ LanesAreApart /\ ServedInOrder
    BY <1>0, <2>0 DEF VInv, LanesInWork, WorkIsOnBundle, InBundle
  <2>6. /\ lanes = [i \in Positions(GivenBundles) |-> lanes[i]]
        /\ \A i \in Positions(GivenBundles) : lanes[i] \in [MembersAt(i) -> Nat]
    BY DEF VInv, LanesAreGiven
  <2>7. /\ lanes' = [i \in Positions(GivenBundles) |-> lanes'[i]]
        /\ lanes'[b] = [lanes[b] EXCEPT ![k] = own]
        /\ \A i \in Positions(GivenBundles) : i # b => lanes'[i] = lanes[i]
    BY <2>3, <2>6
  <2>8. /\ lanes'[b][k] = own
        /\ \A j \in MembersAt(b) : j # k => lanes'[b][j] = lanes[b][j]
        /\ \A i \in Positions(GivenBundles) : lanes'[i] \in [MembersAt(i) -> Nat]
    <3>1. lanes[b] \in [MembersAt(b) -> Nat]
      BY <2>6
    <3>2. lanes'[b][k] = own /\ lanes'[b] \in [MembersAt(b) -> Nat]
      BY <2>4, <2>5, <2>7, <3>1
    <3>3. \A j \in MembersAt(b) : j # k => lanes'[b][j] = lanes[b][j]
      BY <2>7, <3>1
    <3>4. \A i \in Positions(GivenBundles) : lanes'[i] \in [MembersAt(i) -> Nat]
      BY <2>6, <2>7, <3>2
    <3> QED BY <3>2, <3>3, <3>4
  <2>9. LanesAreGiven'
    BY <2>3, <2>7, <2>8, RequestKept DEF LanesAreGiven
  <2>10. part \in AfterBoundaries /\ part' \in AfterBoundaries /\ InBundle /\ InBundle'
    BY <1>0, <2>3 DEF AfterBoundaries, InBundle
  <2>11. InWork' = InWork
    BY <2>3, RequestKept DEF InWork
  <2>12. \A i \in Positions(GivenBundles) : Done(i)' <=> Done(i)
    BY <2>3, <2>10, <2>11, RequestKept DEF Done
  <2>13. CheckedFit' /\ CheckedAreApart'
    <3>1. \A i \in Positions(GivenBundles) : \A l \in MembersAt(i) : Checked(i, l)' <=> Checked(i, l)
      BY <1>0, <2>3, <2>12 DEF Checked
    <3>2. CheckedFit'
      BY <2>3, <2>10, <3>1, RequestKept, FitsKept DEF CheckedFit, VInv
    <3>3. CheckedAreApart'
      BY <2>3, <2>10, <3>1, RequestKept, FitsKept DEF CheckedAreApart, VInv
    <3> QED BY <3>2, <3>3
  <2>14. DoneAreServed'
    <3> SUFFICES ASSUME NEW i \in Positions(GivenBundles), Done(i)' PROVE LanesServe(i)'
      BY <2>3, RequestKept DEF DoneAreServed
    <3>1. Done(i) /\ LanesServe(i)
      BY <2>10, <2>12 DEF VInv, DoneAreServed
    <3>2. i # b
      <4>1. ~Done(b)
        <5>1. InWork = GivenBundles[b] /\ GivenBundles[b].id \in Nat
          BY <2>0, RequestTypes DEF InWork, VInv
        <5> QED BY <2>10, <5>1 DEF Done
      <4> QED BY <3>1, <4>1
    <3>3. lanes'[i] = lanes[i]
      BY <2>7, <3>2
    <3> QED BY <2>3, <3>1, <3>3, RequestKept DEF LanesServe
  <2>15. /\ Served' = Served \cup {k} /\ Served \subseteq MembersAt(b) /\ k \notin Served
         /\ left' \subseteq left /\ LaneOf(k)' = own
         /\ \A j \in Served : LaneOf(j)' = LaneOf(j) /\ j # k
    BY <2>0, <2>3, <2>5, <2>8, RequestKept DEF Served, LaneOf
  <2>16. ServedHaveTheirLane'
    <3> SUFFICES ASSUME NEW j \in Served \cup {k}
                 PROVE  /\ LaneOf(j)' \in DOMAIN cohorts'
                        /\ cohorts'[LaneOf(j)'] = [slots |-> SlotsAt(b, j), net |-> NetAt(b, j)]
      BY <2>0, <2>3, <2>15, RequestKept DEF ServedHaveTheirLane
    <3>1. CASE j = k
      BY <2>2, <2>4, <2>15, <3>1
    <3>2. CASE j \in Served
      BY <2>0, <2>4, <2>5, <2>15, <3>2 DEF ServedHaveTheirLane
    <3> QED BY <3>1, <3>2
  <2>17. LanesAreApart'
    <3>1. ASSUME NEW c \in DOMAIN cohorts' PROVE \E j \in Served' : LaneOf(j)' = c
      BY <2>4, <2>5, <2>15 DEF LanesAreApart
    <3>2. ASSUME NEW c \in DOMAIN cohorts, own \notin DOMAIN cohorts
          PROVE  cohorts'[c].slots \cap cohorts'[own].slots = {}
      BY <2>2, <2>4, <3>2
    <3>3. ASSUME NEW c \in DOMAIN cohorts', NEW d \in DOMAIN cohorts', c # d
          PROVE  cohorts'[c].slots \cap cohorts'[d].slots = {}
      <4>1. CASE c \in DOMAIN cohorts /\ d \in DOMAIN cohorts
        BY <2>4, <2>5, <3>3, <4>1 DEF LanesAreApart
      <4>2. CASE c \in DOMAIN cohorts /\ d \notin DOMAIN cohorts
        <5>1. d = own
          BY <2>4, <4>2
        <5> QED BY <3>2, <4>2, <5>1
      <4>3. CASE c \notin DOMAIN cohorts
        <5>1. c = own /\ d \in DOMAIN cohorts
          BY <2>4, <3>3, <4>3
        <5>2. cohorts'[d].slots \cap cohorts'[c].slots = {}
          BY <3>2, <4>3, <5>1
        <5> QED BY <5>2
      <4> QED BY <4>1, <4>2, <4>3
    <3> QED BY <3>1, <3>3 DEF LanesAreApart
  <2>18. ServedInOrder'
    <3>0. \A i : MemberOf(b, i) = MemberAt(i) /\ MemberOf(bundle, i)' = MemberOf(b, i)
      BY <2>0, <2>3, RequestKept DEF MemberOf, MemberAt, InWork
    <3>1. ASSUME NEW i \in Served \cup {k}, NEW j \in left'
          PROVE  MemberBefore(MemberOf(b, i), MemberOf(b, j))
      BY <1>1, <2>0, <2>3, <2>5, <3>0 DEF ServedInOrder
    <3>2. ASSUME NEW i \in Served \cup {k}, NEW j \in Served \cup {k}, LaneOf(i)' < LaneOf(j)'
          PROVE  MemberBefore(MemberOf(b, i), MemberOf(b, j))
      <4>1. CASE i \in Served /\ j \in Served
        BY <2>0, <2>5, <2>15, <3>2, <4>1 DEF ServedInOrder
      <4>2. CASE i \in Served /\ j = k
        BY <2>0, <2>5, <4>2 DEF ServedInOrder
      <4>3. CASE i = k
        <5>1. \A n \in Served : LaneOf(n) \in DOMAIN cohorts
          BY <2>5 DEF ServedHaveTheirLane
        <5>2. LaneOf(j)' <= own /\ LaneOf(j)' \in Nat /\ LaneOf(i)' = own
          BY <2>4, <2>15, <4>3, <5>1
        <5> QED BY <2>4, <3>2, <5>2
      <4> QED BY <4>1, <4>2, <4>3
    <3>3. \A i, j : MemberBefore(MemberOf(bundle, i), MemberOf(bundle, j))'
                      <=> MemberBefore(MemberOf(b, i), MemberOf(b, j))
      BY <3>0
    <3>4. \A i \in Served', j \in left' : MemberBefore(MemberOf(bundle, i), MemberOf(bundle, j))'
      BY <2>15, <3>1, <3>3
    <3>5. \A i, j \in Served' : LaneOf(i)' < LaneOf(j)' =>
             MemberBefore(MemberOf(bundle, i), MemberOf(bundle, j))'
      BY <2>15, <3>2, <3>3
    <3> QED BY <3>4, <3>5 DEF ServedInOrder
  <2>19. LanesInWork'
    BY <2>4, <2>16, <2>17, <2>18 DEF LanesInWork
  <2>20. WorkIsOnBundle' /\ BundlesLeft'
    BY <1>0, <2>0, <2>3, <2>5, <2>10, RequestKept DEF WorkIsOnBundle, BundlesLeft
  <2> QED BY <1>0, <2>3, <2>9, <2>10, <2>13, <2>14, <2>19, <2>20, EarlierPartsStand DEF VInv
<1> QED BY <1>2, <1>3

-----------------------------------------------------------------------------
(* The theorem.                                                            *)

LEMMA NextVInv == VInv /\ [ValidationNext]_validationVars => VInv'
<1> SUFFICES ASSUME VInv, [ValidationNext]_validationVars PROVE VInv'
  OBVIOUS
<1>1. CASE CheckOptions
  BY <1>1, CheckOptionsKeeps
<1>2. CASE CheckNode
  BY <1>2, CheckNodeKeeps
<1>3. CASE FinishNodes
  BY <1>3, FinishNodesKeeps
<1>4. CASE CheckEdge
  BY <1>4, CheckEdgeKeeps
<1>5. CASE FinishEdges
  BY <1>5, FinishEdgesKeeps
<1>6. CASE CheckBoundaries
  BY <1>6, CheckBoundariesKeeps
<1>7. CASE OpenBundle
  BY <1>7, OpenBundleKeeps
<1>8. CASE CheckMember
  BY <1>8, CheckMemberKeeps
<1>9. CASE FinishMembers
  BY <1>9, FinishMembersKeeps
<1>10. CASE AssignLane
  BY <1>10, AssignLaneKeeps
<1>11. CASE CloseBundle
  <2>1. LanesServe(bundle)
    BY <1>11, WorkIsServed DEF CloseBundle
  <2> QED BY <1>11, <2>1, CloseBundleKeeps
<1>12. CASE Accept
  BY <1>12, AcceptKeeps
<1>13. CASE UNCHANGED validationVars
  <2>1. UNCHANGED <<request, part, left, bundle, bundled, cohorts, lanes>>
    BY <1>13 DEF validationVars
  <2> QED BY <2>1, StutterKeeps
<1> QED BY <1>1, <1>2, <1>3, <1>4, <1>5, <1>6, <1>7, <1>8, <1>9, <1>10, <1>11, <1>12, <1>13
        DEF ValidationNext

LEMMA VInvConsistent == VInv => AcceptedIsConsistent
<1> SUFFICES ASSUME VInv, Accepted
             PROVE  IndexIsSound /\ BoundariesAreFree /\ BundlesKeepTheirWires /\ LanesFollowSlots
  BY DEF AcceptedIsConsistent
<1>1. part = "accepted" /\ left = {} /\ part \in AfterBoundaries /\ ~InBundle
  BY DEF Accepted, VInv, AfterBoundaries, InBundle
<1>2. IndexIsSound
  <2>1. \A i, j \in Positions(GivenNodes) : GivenNodes[i].id = GivenNodes[j].id => i = j
    BY <1>1 DEF VInv, NodesAreApart, AfterOptions
  <2>2. \A i, j \in Positions(GivenEdges) :
           /\ GivenEdges[i].id = GivenEdges[j].id => i = j
           /\ \A end \in {GivenEdges[i].source, GivenEdges[i].target} :
                      end[1] \in NodeIds /\ end[2] \in PortIds(end[1])
    BY <1>1 DEF VInv, EdgesAreSound, AfterNodes, AfterOptions
  <2> QED BY <2>1, <2>2 DEF IndexIsSound
<1>3. BoundariesAreFree
  BY <1>1 DEF VInv, BoundariesAreSound
<1>4. \A i \in Positions(GivenBundles) : Done(i) /\ \A k \in MembersAt(i) : Checked(i, k)
  BY <1>1 DEF Done, Checked
<1>5. BundlesKeepTheirWires
  <2>1. ASSUME NEW i \in Positions(GivenBundles), NEW m \in MembersOf(i)
        PROVE  \E k \in MembersAt(i) : m = MemberOf(i, k)
    BY DEF MembersOf, MembersAt, MemberOf
  <2>2. \A i \in Positions(GivenBundles) : \A k \in MembersAt(i) : Fits(i, k)
    BY <1>1, <1>4 DEF VInv, CheckedFit
  <2>3. ASSUME NEW i \in Positions(GivenBundles), NEW j \in Positions(GivenBundles),
               NEW m \in MembersOf(i), NEW o \in MembersOf(j), i # j,
               RoleOf(GivenBundles[i]) = RoleOf(GivenBundles[j])
        PROVE  m.edge # o.edge
    <3>1. PICK k \in MembersAt(i) : m = MemberOf(i, k)
      BY <2>1
    <3>2. PICK l \in MembersAt(j) : o = MemberOf(j, l)
      BY <2>1
    <3> QED BY <1>1, <1>4, <2>3, <3>1, <3>2 DEF VInv, CheckedAreApart
  <2>4. ASSUME NEW i \in Positions(GivenBundles), NEW m \in MembersOf(i)
        PROVE  /\ m.edge \in EdgeIds
               /\ EndAtBundle(GivenBundles[i], EdgeOf(m.edge)) = GivenBundles[i].endpoint
    <3>1. PICK k \in MembersAt(i) : m = MemberOf(i, k)
      BY <2>1
    <3> QED BY <2>2, <3>1 DEF Fits
  <2> QED BY <2>3, <2>4 DEF BundlesKeepTheirWires
<1>6. LanesFollowSlots
  <2>1. \A i \in Positions(GivenBundles) : LanesServe(i)
    BY <1>1, <1>4 DEF VInv, DoneAreServed
  <2> QED BY <2>1 DEF LanesFollowSlots, LanesServe, MembersAt, SlotsAt, NetAt, MemberOf
<1> QED BY <1>2, <1>3, <1>5, <1>6

(* Every request that is accepted, whatever ids and lists it has, has an   *)
(* index in which ids name one thing and wires end on ports, boundaries    *)
(* that nothing leads into or out of, bundles that share no wire end, and  *)
(* lanes shared by exactly those members that have a slot in common        *)
(* (validate_and_index_with_constraints).                                  *)
THEOREM AcceptedRequestsAreConsistent == ValidationSpec => []AcceptedIsConsistent
<1>1. ValidationSpec => []VInv
  BY InitVInv, NextVInv, PTL DEF ValidationSpec
<1> QED BY <1>1, VInvConsistent, PTL

=============================================================================
