------------------------ MODULE TopologicalSortProofs ------------------------
(***************************************************************************)
(* What holds of topological_sort from call to return, for any finite set  *)
(* of schemas, any references among them and any order of dictionaries and *)
(* sets: every step keeps SortInv, which says that the stack is a path     *)
(* through the dependencies (Path), what the loops of its calls have done  *)
(* so far (Looped), and that what is listed keeps the order (Listed).      *)
(***************************************************************************)
EXTENDS TopologicalSort, FunctionTheorems, FiniteSetTheorems, SequenceTheorems, TLAPS

Depth == DOMAIN stack

\* The three sets of names are what stack and list hold, and nothing is there twice.
Marks ==
    /\ visiting = {stack[i].name : i \in Depth}
    /\ \A i, j \in Depth : stack[i].name = stack[j].name => i = j
    /\ visited = {sorted[i] : i \in DOMAIN sorted}
    /\ \A i, j \in DOMAIN sorted : sorted[i] = sorted[j] => i = j
    /\ visiting \cap visited = {}

\* Every call of visit was made, in the end, by those beneath it.
Path == \A i, j \in Depth : i < j => stack[j].name \in Reach(deps, stack[i].name)

\* What a loop has passed is listed, leads back to its name, or is being visited.
Looped ==
    \A i \in Depth :
        /\ stack[i].left \subseteq deps[stack[i].name]
        /\ \A d \in deps[stack[i].name] \ stack[i].left :
               \/ d \in visited
               \/ stack[i].name \in Reach(deps, d)
               \/ i < Len(stack) /\ stack[i + 1].name = d

Listed ==
    \A i \in DOMAIN sorted : \A d \in deps[sorted[i]] :
        \/ \E j \in DOMAIN sorted : j < i /\ sorted[j] = d
        \/ sorted[i] \in Reach(deps, d)

Entered == Names \ todo \subseteq visiting \cup visited

SortInv == SortTypeOK /\ Marks /\ Path /\ Looped /\ Listed /\ Entered

-----------------------------------------------------------------------------
(* Reachability.                                                           *)

LEMMA ReachStarts ==
    ASSUME deps \in Graphs, NEW n \in Names
    PROVE  deps[n] \subseteq Reach(deps, n) /\ Reach(deps, n) \subseteq Names
BY DEF Reach, Graphs

LEMMA ReachGoesOn ==
    ASSUME deps \in Graphs, NEW n \in Names, NEW m \in Reach(deps, n)
    PROVE  deps[m] \subseteq Reach(deps, n)
<1>1. m \in Names
  BY DEF Reach, Graphs
<1> QED
  BY <1>1 DEF Reach, Graphs, Closed

-----------------------------------------------------------------------------
(* A call of visit.                                                        *)

Frame == [name : Names, left : SUBSET Names]

\* The callers are the stack, but for what the loop of the last one has left.
Calling(callers) ==
    /\ callers \in Seq(Frame) /\ Len(callers) = Len(stack)
    /\ \A i \in Depth : callers[i].name = stack[i].name

Pushed(n, callers) ==
    /\ n \notin visited \cup visiting /\ visiting' = visiting \cup {n}
    /\ stack' \in Seq(Frame) /\ Len(stack') = Len(stack) + 1
    /\ \A i \in Depth : stack'[i] = callers[i]
    /\ stack'[Len(stack) + 1] = [name |-> n, left |-> deps[n]]

Passed(n, callers) ==
    n \in visited \cup visiting /\ visiting' = visiting /\ stack' = callers

LEMMA VisitCases ==
    ASSUME SortTypeOK, NEW n \in Names, NEW callers, Calling(callers), Visit(n, callers)
    PROVE  Pushed(n, callers) \/ Passed(n, callers)
<1>1. [name |-> n, left |-> deps[n]] \in Frame
  BY DEF SortTypeOK, Graphs, Frame
<1>2. Len(stack) \in Nat /\ Depth = 1 .. Len(stack)
  BY DEF SortTypeOK, Depth
<1>3. CASE stack' = Append(callers, [name |-> n, left |-> deps[n]])
  BY <1>1, <1>2, <1>3, AppendProperties DEF Calling, Visit, Pushed, Passed
<1>4. CASE stack' = callers
  BY <1>4 DEF Visit, Passed, Pushed
<1> QED
  BY <1>3, <1>4 DEF Visit

\* Names on the stack stay where they are, and a new one is on top.
LEMMA VisitMarks ==
    ASSUME SortTypeOK, Marks, Path, NEW n \in Names, NEW callers, Calling(callers),
           Visit(n, callers), UNCHANGED <<deps, visited, sorted>>,
           stack # <<>> => n \in deps[Top.name]
    PROVE  /\ stack' \in Seq(Frame) /\ visiting' \subseteq Names /\ n \in visiting' \cup visited
           /\ Marks' /\ Path'
<1>1. Len(stack) \in Nat /\ Depth = 1 .. Len(stack) /\ stack \in Seq(Frame)
  BY DEF SortTypeOK, Depth, Frame
<1>2. CASE Passed(n, callers)
  <2>1. Depth' = Depth /\ \A i \in Depth : stack'[i].name = stack[i].name
    BY <1>1, <1>2 DEF Passed, Calling, Depth
  <2>2. Marks'
    BY <1>2, <2>1 DEF Marks, Passed
  <2>3. Path'
    BY <2>1 DEF Path
  <2> QED
    BY <1>2, <2>2, <2>3 DEF Passed, Calling, SortTypeOK
<1>3. CASE Pushed(n, callers)
  <2>1. /\ Depth' = Depth \cup {Len(stack) + 1} /\ Len(stack) + 1 \notin Depth
        /\ \A i \in Depth : stack'[i].name = stack[i].name
        /\ stack'[Len(stack) + 1].name = n
    BY <1>1, <1>3 DEF Pushed, Calling, Depth
  <2>2. visiting' = {stack'[i].name : i \in Depth'}
    BY <1>3, <2>1 DEF Marks, Pushed
  <2>3. \A i \in Depth : stack[i].name # n
    BY <1>3 DEF Marks, Pushed
  <2>4. \A i, j \in Depth' : stack'[i].name = stack'[j].name => i = j
    BY <2>1, <2>3 DEF Marks
  <2>5. Marks'
    BY <1>3, <2>2, <2>4 DEF Marks, Pushed
  <2>6. \A i \in Depth : n \in Reach(deps, stack[i].name)
    <3> SUFFICES ASSUME NEW i \in Depth PROVE n \in Reach(deps, stack[i].name)
      OBVIOUS
    <3>1. /\ Len(stack) \in Depth /\ stack # <<>> /\ n \in deps[Top.name]
          /\ deps \in Graphs /\ stack[i].name \in Names
      <4>1. stack # <<>> /\ Len(stack) \in Depth
        BY <1>1
      <4>2. stack[i] \in Frame
        BY <1>1
      <4> QED
        BY <4>1, <4>2 DEF SortTypeOK, Frame
    <3>2. CASE i = Len(stack)
      BY <3>1, <3>2, ReachStarts DEF Top
    <3>3. CASE i # Len(stack)
      <4>1. Top.name \in Reach(deps, stack[i].name)
        BY <1>1, <3>1, <3>3 DEF Path, Top
      <4> QED
        BY <3>1, <4>1, ReachGoesOn
    <3> QED
      BY <3>2, <3>3
  <2>7. Path'
    BY <1>1, <2>1, <2>6 DEF Path
  <2> QED
    BY <1>3, <2>5, <2>7 DEF Pushed, SortTypeOK
<1> QED
  BY <1>2, <1>3, VisitCases

-----------------------------------------------------------------------------
(* The steps.                                                              *)

LEMMA SameNames == UNCHANGED deps => Names' = Names /\ Graphs' = Graphs
BY DEF Names, Graphs

LEMMA SchemaStep == SortInv /\ VisitSchema => SortInv'
<1> SUFFICES ASSUME SortInv, VisitSchema PROVE SortInv'
  OBVIOUS
<1>1. PICK n \in todo : todo' = todo \ {n} /\ Visit(n, <<>>)
  BY DEF VisitSchema
<1>2. /\ SortTypeOK /\ Marks /\ Path /\ Listed /\ Entered /\ n \in Names
      /\ stack = <<>> /\ UNCHANGED <<deps, visited, sorted>>
  BY <1>1 DEF SortInv, SortTypeOK, VisitSchema
<1>3. Calling(<<>>)
  BY <1>2 DEF Calling, Depth
<1>4. /\ stack' \in Seq(Frame) /\ visiting' \subseteq Names /\ n \in visiting' \cup visited
      /\ Marks' /\ Path'
  BY <1>1, <1>2, <1>3, VisitMarks
<1>5. visiting \subseteq visiting'
  BY <1>1 DEF Visit
<1>6. SortTypeOK'
  BY <1>1, <1>2, <1>4, SameNames DEF SortTypeOK, Frame
<1>7. Listed'
  BY <1>2 DEF Listed
<1>8. Entered'
  BY <1>1, <1>2, <1>4, <1>5, SameNames DEF Entered
<1>9. Looped'
  <2>1. CASE Passed(n, <<>>)
    BY <2>1 DEF Passed, Looped, Depth
  <2>2. CASE Pushed(n, <<>>)
    BY <1>2, <2>2 DEF Pushed, Looped, Depth
  <2> QED
    BY <1>1, <1>2, <1>3, <2>1, <2>2, VisitCases
<1> QED
  BY <1>4, <1>6, <1>7, <1>8, <1>9 DEF SortInv

LEMMA DependencyStep == SortInv /\ VisitDependency => SortInv'
<1> SUFFICES ASSUME SortInv, VisitDependency PROVE SortInv'
  OBVIOUS
<1> DEFINE k == Len(stack)
           callers(d) == [stack EXCEPT ![k].left = @ \ {d}]
<1>1. /\ SortTypeOK /\ Marks /\ Path /\ Looped /\ Listed /\ Entered
      /\ stack # <<>> /\ UNCHANGED <<deps, todo, visited, sorted>> /\ deps \in Graphs
  BY DEF SortInv, VisitDependency, SortTypeOK
<1>2. stack \in Seq(Frame) /\ k \in Nat \ {0} /\ k \in Depth /\ Depth = 1 .. k
  BY <1>1, EmptySeq DEF SortTypeOK, Frame, Depth
<1>3. PICK d \in Top.left : Visit(d, callers(d))
  BY DEF VisitDependency
<1>4. Top \in Frame /\ Top = stack[k]
  BY <1>2 DEF Top
<1>5. d \in Names /\ d \in deps[Top.name]
  BY <1>1, <1>2, <1>3, <1>4 DEF Frame, Looped
<1>6. /\ callers(d) \in Seq(Frame) /\ Len(callers(d)) = k
      /\ \A i \in 1 .. k - 1 : callers(d)[i] = stack[i]
      /\ callers(d)[k].name = Top.name /\ callers(d)[k].left = Top.left \ {d}
  <2> DEFINE frame == [stack[k] EXCEPT !.left = stack[k].left \ {d}]
  <2>1. frame \in Frame /\ frame.name = Top.name /\ frame.left = Top.left \ {d}
    BY <1>4 DEF Frame
  <2>2. callers(d) = [stack EXCEPT ![k] = frame]
    OBVIOUS
  <2> HIDE DEF frame, callers
  <2> QED
    BY <1>2, <2>1, <2>2, ExceptSeq
<1>7. Calling(callers(d))
  BY <1>2, <1>4, <1>6 DEF Calling
<1> HIDE DEF callers
<1>8. /\ stack' \in Seq(Frame) /\ visiting' \subseteq Names /\ Marks' /\ Path'
  BY <1>1, <1>3, <1>5, <1>7, VisitMarks
<1>9. visiting \subseteq visiting'
  BY <1>3 DEF Visit
<1>10. SortTypeOK'
  BY <1>1, <1>8, SameNames DEF SortTypeOK, Frame
<1>11. Listed'
  BY <1>1 DEF Listed
<1>12. Entered'
  BY <1>1, <1>9, SameNames DEF Entered
<1>13. Looped'
  <2>1. \/ d \in visited
        \/ Top.name \in Reach(deps, d)
        \/ Pushed(d, callers(d))
    <3>1. CASE d \in visiting
      <4>1. PICK i \in Depth : stack[i].name = d
        BY <1>1, <3>1 DEF Marks
      <4>2. CASE i = k
        BY <1>1, <1>4, <1>5, <4>1, <4>2, ReachStarts
      <4>3. CASE i # k
        BY <1>1, <1>2, <1>4, <4>1, <4>3 DEF Path
      <4> QED
        BY <4>2, <4>3
    <3> QED
      BY <1>1, <1>3, <1>5, <1>7, <3>1, VisitCases DEF Passed
  <2>2. \/ Len(stack') = k /\ d \in visited \cup visiting
        \/ Len(stack') = k + 1 /\ stack'[k + 1] = [name |-> d, left |-> deps[d]]
    <3>1. CASE Passed(d, callers(d))
      BY <1>6, <3>1 DEF Passed
    <3>2. CASE Pushed(d, callers(d))
      BY <3>2 DEF Pushed
    <3> QED
      BY <1>1, <1>3, <1>5, <1>7, <3>1, <3>2, VisitCases
  <2>3. /\ \A i \in 1 .. k - 1 : stack'[i] = stack[i]
        /\ stack'[k].name = Top.name /\ stack'[k].left = Top.left \ {d}
    <3>1. CASE Passed(d, callers(d))
      BY <1>6, <3>1 DEF Passed
    <3>2. CASE Pushed(d, callers(d))
      BY <1>2, <1>6, <3>2 DEF Pushed
    <3> QED
      BY <1>1, <1>3, <1>5, <1>7, <3>1, <3>2, VisitCases
  <2>4. Len(stack') \in Nat /\ Depth' = 1 .. Len(stack')
    BY <1>8, LenProperties DEF Depth
  <2>5. d \in visited \/ Top.name \in Reach(deps, d) \/ (k < Len(stack') /\ stack'[k + 1].name = d)
    BY <1>2, <2>1, <2>2 DEF Pushed
  <2> DEFINE Loop(i) ==
               /\ stack'[i].left \subseteq deps[stack'[i].name]
               /\ \A e \in deps[stack'[i].name] \ stack'[i].left :
                      \/ e \in visited
                      \/ stack'[i].name \in Reach(deps, e)
                      \/ i < Len(stack') /\ stack'[i + 1].name = e
  <2>6. ASSUME NEW i \in 1 .. k - 1 PROVE Loop(i)
    <3>1. stack'[i + 1].name = stack[i + 1].name /\ i < Len(stack') /\ i \in Depth
      <4>1. CASE i = k - 1
        BY <1>2, <1>4, <2>2, <2>3, <4>1
      <4>2. CASE i # k - 1
        BY <1>2, <2>2, <2>3, <4>2
      <4> QED
        BY <4>1, <4>2
    <3> QED
      BY <1>1, <2>3, <3>1 DEF Looped
  <2>7. Loop(k)
    BY <1>1, <1>2, <1>4, <2>3, <2>5 DEF Looped
  <2>8. ASSUME NEW i \in Depth', i > k PROVE Loop(i)
    BY <1>2, <2>2, <2>4, <2>8
  <2>9. \A i \in Depth' : Loop(i)
    BY <1>2, <2>4, <2>6, <2>7, <2>8
  <2> QED
    BY <1>1, <2>9 DEF Looped
<1> QED
  BY <1>8, <1>10, <1>11, <1>12, <1>13 DEF SortInv

\* The call on top was going on: what its loop passed is listed by now, or leads back
\* to its name, and so its name may be listed.
LEMMA ReturnStep == SortInv /\ Return => SortInv'
<1> SUFFICES ASSUME SortInv, Return PROVE SortInv'
  OBVIOUS
<1> DEFINE k == Len(stack)
           n == Top.name
           m == Len(sorted)
<1>1. /\ SortTypeOK /\ Marks /\ Path /\ Looped /\ Listed /\ Entered
      /\ stack # <<>> /\ UNCHANGED <<deps, todo>> /\ deps \in Graphs /\ Top.left = {}
      /\ visiting' = visiting \ {n} /\ visited' = visited \cup {n}
      /\ sorted' = Append(sorted, n) /\ stack' = SubSeq(stack, 1, k - 1)
  BY DEF SortInv, Return, SortTypeOK
<1>2. stack \in Seq(Frame) /\ k \in Nat \ {0} /\ k \in Depth /\ Depth = 1 .. k
  BY <1>1, EmptySeq DEF SortTypeOK, Frame, Depth
<1>3. Top \in Frame /\ Top = stack[k] /\ n \in Names /\ n \in visiting
  <2>1. Top \in Frame /\ Top = stack[k]
    BY <1>2 DEF Top
  <2> QED
    BY <1>1, <1>2, <2>1 DEF Frame, Marks
<1>4. /\ stack' \in Seq(Frame) /\ Len(stack') = k - 1 /\ Depth' = 1 .. k - 1
      /\ \A i \in 1 .. k - 1 : stack'[i] = stack[i]
  BY <1>1, <1>2, SubSeqProperties DEF Depth
<1>5. /\ sorted' \in Seq(Names) /\ m \in Nat /\ Len(sorted') = m + 1
      /\ DOMAIN sorted = 1 .. m /\ DOMAIN sorted' = 1 .. m + 1
      /\ \A i \in 1 .. m : sorted'[i] = sorted[i]
      /\ sorted'[m + 1] = n
  BY <1>1, <1>3, AppendProperties, LenProperties DEF SortTypeOK
<1> HIDE DEF k, n, m
<1>6. SortTypeOK'
  BY <1>1, <1>3, <1>4, <1>5, SameNames DEF SortTypeOK, Frame
<1>7. \A i \in 1 .. k - 1 : stack[i].name # n /\ stack[i].name \in Names
  <2> SUFFICES ASSUME NEW i \in 1 .. k - 1 PROVE stack[i].name # n /\ stack[i].name \in Names
    OBVIOUS
  <2>1. i \in Depth /\ i # k
    BY <1>2
  <2>2. stack[i] \in Frame
    BY <1>2, <2>1, ElementOfSeq DEF k
  <2> QED
    BY <1>1, <1>2, <1>3, <2>1, <2>2 DEF Marks, n, Frame
<1>8. Marks'
  <2>1. visiting' = {stack'[i].name : i \in Depth'}
    <3>1. visiting' = {stack[i].name : i \in 1 .. k} \ {stack[k].name}
      BY <1>1, <1>2, <1>3 DEF Marks, n
    <3>2. {stack[i].name : i \in 1 .. k} \ {stack[k].name} = {stack[i].name : i \in 1 .. k - 1}
      BY <1>2, <1>3, <1>7 DEF n
    <3>3. {stack[i].name : i \in 1 .. k - 1} = {stack'[i].name : i \in Depth'}
      BY <1>4
    <3> QED
      BY <3>1, <3>2, <3>3
  <2>2. \A i, j \in Depth' : stack'[i].name = stack'[j].name => i = j
    <3>1. \A i \in Depth' : i \in Depth /\ stack'[i] = stack[i]
      BY <1>2, <1>4
    <3> QED
      BY <1>1, <3>1 DEF Marks
  <2>3. visited' = {sorted'[i] : i \in DOMAIN sorted'}
    BY <1>1, <1>5 DEF Marks
  <2>4. \A i \in 1 .. m : sorted[i] # n
    BY <1>1, <1>3, <1>5 DEF Marks
  <2>5. \A i, j \in DOMAIN sorted' : sorted'[i] = sorted'[j] => i = j
    BY <1>1, <1>5, <2>4 DEF Marks
  <2>6. visiting' \cap visited' = {}
    BY <1>1 DEF Marks
  <2> QED
    BY <2>1, <2>2, <2>3, <2>5, <2>6 DEF Marks
<1>9. Path'
  BY <1>1, <1>2, <1>4 DEF Path
<1>10. Looped'
  <2> SUFFICES ASSUME NEW i \in 1 .. k - 1
               PROVE  /\ stack[i].left \subseteq deps[stack[i].name]
                      /\ \A d \in deps[stack[i].name] \ stack[i].left :
                             \/ d \in visited'
                             \/ stack[i].name \in Reach(deps, d)
                             \/ i < k - 1 /\ stack'[i + 1].name = d
    BY <1>1, <1>4 DEF Looped
  <2>1. i \in Depth /\ i < k /\ k \in Nat /\ i \in Nat
    BY <1>2
  <2>2. stack[i].left \subseteq deps[stack[i].name]
    BY <1>1, <2>1 DEF Looped
  <2>3. ASSUME NEW d \in deps[stack[i].name] \ stack[i].left
        PROVE  \/ d \in visited'
               \/ stack[i].name \in Reach(deps, d)
               \/ i < k - 1 /\ stack'[i + 1].name = d
    <3>1. CASE d \in visited \/ stack[i].name \in Reach(deps, d)
      BY <1>1, <3>1
    <3>2. CASE stack[i + 1].name = d
      <4>1. CASE i = k - 1
        BY <1>1, <1>2, <1>3, <3>2, <4>1 DEF n
      <4>2. CASE i # k - 1
        BY <1>4, <2>1, <3>2, <4>2
      <4> QED
        BY <4>1, <4>2
    <3> QED
      BY <1>1, <2>1, <3>1, <3>2 DEF Looped
  <2> QED
    BY <2>2, <2>3
<1>11. Listed'
  <2>1. ASSUME NEW d \in deps[n]
        PROVE  (\E j \in 1 .. m : sorted[j] = d) \/ n \in Reach(deps, d)
    <3>1. d \in visited \/ n \in Reach(deps, d)
      BY <1>1, <1>2, <1>3 DEF Looped, n, k
    <3> QED
      BY <1>1, <1>5, <3>1 DEF Marks
  <2>2. ASSUME NEW i \in DOMAIN sorted', NEW d \in deps[sorted'[i]]
        PROVE  \/ \E j \in DOMAIN sorted' : j < i /\ sorted'[j] = d
               \/ sorted'[i] \in Reach(deps, d)
    <3>1. CASE i = m + 1
      BY <1>5, <2>1, <3>1
    <3>2. CASE i \in 1 .. m
      BY <1>1, <1>5, <3>2 DEF Listed
    <3> QED
      BY <1>5, <3>1, <3>2
  <2> QED
    BY <1>1, <2>2 DEF Listed
<1>12. Entered'
  BY <1>1, SameNames DEF Entered
<1> QED
  BY <1>6, <1>8, <1>9, <1>10, <1>11, <1>12 DEF SortInv

LEMMA SortUnchanged == SortInv /\ UNCHANGED sortVars => SortInv'
<1> SUFFICES ASSUME SortInv, UNCHANGED sortVars PROVE SortInv'
  OBVIOUS
<1>1. SortTypeOK' /\ Marks' /\ Entered'
  BY DEF SortInv, SortTypeOK, Marks, Entered, sortVars, Depth, Names, Graphs
<1>2. Path' /\ Looped' /\ Listed'
  BY DEF SortInv, Path, Looped, Listed, sortVars, Depth
<1> QED
  BY <1>1, <1>2 DEF SortInv

-----------------------------------------------------------------------------
(* From call to return.                                                    *)

LEMMA SortStarts ==
    ASSUME NEW graph, IsFiniteSet(DOMAIN graph), graph \in [DOMAIN graph -> SUBSET DOMAIN graph],
           StartSort(graph)
    PROVE  SortInv'
<1>1. /\ deps' = graph /\ Names' = DOMAIN graph /\ todo' = Names'
      /\ stack' = <<>> /\ sorted' = <<>> /\ Depth' = {} /\ DOMAIN sorted' = {}
      /\ visiting' = {} /\ visited' = {}
  BY DEF StartSort, Names, Depth
<1>2. SortTypeOK'
  BY <1>1 DEF SortTypeOK, Graphs, Names
<1>3. Marks'
  BY <1>1 DEF Marks
<1> QED
  BY <1>1, <1>2, <1>3 DEF SortInv, Path, Looped, Listed, Entered

LEMMA SortGoesOn == SortInv /\ SortStep => SortInv'
BY SchemaStep, DependencyStep, ReturnStep DEF SortStep

LEMMA SortedTopologically == SortInv => SortIsTopological
<1> SUFFICES ASSUME SortInv, Finished PROVE sorted \in TopologicalOrders(deps)
  BY DEF SortIsTopological
<1> DEFINE m == Len(sorted)
<1>1. /\ deps \in Graphs /\ DOMAIN deps = Names /\ Marks /\ Listed /\ sorted \in Seq(Names)
      /\ m \in Nat /\ DOMAIN sorted = 1 .. m
  <2>1. /\ deps \in [Names -> SUBSET Names] /\ Marks /\ Listed /\ sorted \in Seq(Names)
    BY DEF SortInv, SortTypeOK, Graphs
  <2> QED
    BY <2>1, LenProperties DEF Graphs
<1>2. visited = Names
  <2>1. visiting = {} /\ todo = {}
    BY <1>1 DEF Finished, Marks, Depth
  <2> QED
    BY <2>1 DEF SortInv, SortTypeOK, Entered
<1>3. sorted \in Bijection(1 .. m, Names)
  <2>1. sorted \in Surjection(1 .. m, Names)
    BY <1>1, <1>2, Fun_IsSurj DEF Marks
  <2>2. sorted \in Injection(1 .. m, Names)
    BY <1>1, Fun_IsInj DEF Marks
  <2> QED
    BY <2>1, <2>2, Fun_IsBij
<1>4. Cardinality(Names) = m
  BY <1>1, <1>3, FS_CountingElements DEF ExistsBijection
<1>5. sorted \in Orderings(DOMAIN deps)
  BY <1>1, <1>3, <1>4 DEF Orderings
<1>6. DependenciesFirst(deps, sorted)
  BY <1>1 DEF Marks, Listed, DependenciesFirst
<1> QED
  BY <1>5, <1>6 DEF TopologicalOrders

LEMMA DepthKept == SortInv => DepthIsBounded
<1> SUFFICES ASSUME SortInv PROVE Len(stack) <= Cardinality(Names)
  BY DEF DepthIsBounded
<1> DEFINE k == Len(stack)
           names == [i \in 1 .. k |-> stack[i].name]
<1>1. stack \in Seq(Frame) /\ k \in Nat /\ Depth = 1 .. k /\ Marks
  <2>1. stack \in Seq(Frame) /\ Marks
    BY DEF SortInv, SortTypeOK, Frame
  <2> QED
    BY <2>1, LenProperties DEF Depth
<1>2. \A i \in 1 .. k : stack[i].name \in Names
  <2>1. \A i \in 1 .. k : stack[i] \in Frame
    BY <1>1, ElementOfSeq
  <2> QED
    BY <2>1 DEF Frame
<1>3. names \in Injection(1 .. k, Names)
  BY <1>1, <1>2, Fun_IsInj DEF Marks
<1>4. Cardinality(1 .. k) <= Cardinality(Names)
  <2>1. IsFiniteSet(Names)
    BY DEF SortInv, SortTypeOK
  <2> QED
    BY <1>3, <2>1, FS_Injection DEF ExistsInjection
<1>5. Cardinality(1 .. k) = k
  BY <1>1, FS_Interval
<1> QED
  BY <1>4, <1>5
=============================================================================
