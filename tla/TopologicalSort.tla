--------------------------- MODULE TopologicalSort ---------------------------
(***************************************************************************)
(* topological_sort of tools/generate_models.py, one visit at a time.  The *)
(* stack is Python's: for each call of visit the name it was called with,  *)
(* and the dependencies its loop has still to come to.  The schemas are a  *)
(* dictionary and the dependencies sets of strings: any order of either is *)
(* possible.                                                               *)
(***************************************************************************)
EXTENDS SchemaOrder, Sequences

VARIABLES
    deps,     \* deps: for each name, the names its schema refers to
    todo,     \* what the last loop has still to come to
    stack,    \* the calls of visit that have not returned
    visiting, \* visiting
    visited,  \* visited
    sorted    \* sorted_names

sortVars == <<deps, todo, stack, visiting, visited, sorted>>

Names == DOMAIN deps \* the schemas of one file

Graphs == [Names -> SUBSET Names]

SortTypeOK ==
    /\ deps \in Graphs /\ IsFiniteSet(Names)
    /\ todo \subseteq Names /\ visiting \subseteq Names /\ visited \subseteq Names
    /\ stack \in Seq([name : Names, left : SUBSET Names])
    /\ sorted \in Seq(Names)

NoSchemas == <<>>

\* The function is called with a graph.
StartSort(graph) ==
    /\ deps' = graph /\ todo' = DOMAIN graph
    /\ stack' = <<>> /\ visiting' = {} /\ visited' = {} /\ sorted' = <<>>

Top == stack[Len(stack)]

\* Faulty variant: a cycle is not broken.
VisitUnguarded(n, callers) ==
    \/ n \in visited /\ stack' = callers /\ UNCHANGED visiting
    \/ /\ n \notin visited
       /\ stack' = Append(callers, [name |-> n, left |-> deps[n]])
       /\ visiting' = visiting \cup {n}

\* A call of visit: it returns at once, or its loop begins.
Visit(n, callers) ==
    \/ n \in visited \cup visiting /\ stack' = callers /\ UNCHANGED visiting
    \/ /\ n \notin visited \cup visiting
       /\ stack' = Append(callers, [name |-> n, left |-> deps[n]])
       /\ visiting' = visiting \cup {n}

VisitSchema ==
    /\ stack = <<>>
    /\ \E n \in todo : todo' = todo \ {n} /\ Visit(n, <<>>)
    /\ UNCHANGED <<deps, visited, sorted>>

VisitDependency ==
    /\ stack # <<>>
    /\ \E d \in Top.left : Visit(d, [stack EXCEPT ![Len(stack)].left = @ \ {d}])
    /\ UNCHANGED <<deps, todo, visited, sorted>>

\* Faulty variant: what is finished is put in front.
ReturnInFront ==
    /\ stack # <<>> /\ Top.left = {}
    /\ visiting' = visiting \ {Top.name} /\ visited' = visited \cup {Top.name}
    /\ sorted' = <<Top.name>> \o sorted
    /\ stack' = SubSeq(stack, 1, Len(stack) - 1)
    /\ UNCHANGED <<deps, todo>>

\* The loop of a call is over.
Return ==
    /\ stack # <<>> /\ Top.left = {}
    /\ visiting' = visiting \ {Top.name} /\ visited' = visited \cup {Top.name}
    /\ sorted' = Append(sorted, Top.name)
    /\ stack' = SubSeq(stack, 1, Len(stack) - 1)
    /\ UNCHANGED <<deps, todo>>

Finished == todo = {} /\ stack = <<>>

SortStep == VisitSchema \/ VisitDependency \/ Return

-----------------------------------------------------------------------------
(* Properties.                                                             *)

\* Every schema is listed once, and after everything it refers to unless that leads
\* back to it, however dictionaries and sets are ordered and wherever a cycle was
\* broken (generate_models.py 260-291).
SortIsTopological == Finished => sorted \in TopologicalOrders(deps)

\* Cycles do not make the recursion deeper than there are schemas
\* (generate_models.py 276-281).
DepthIsBounded == Len(stack) <= Cardinality(Names)
=============================================================================
