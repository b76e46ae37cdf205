---------------------------- MODULE SlidingWindow ----------------------------
(***************************************************************************)
(* What the rate limiter promises, without tokens or histories: a grant is *)
(* made exactly when the tokens granted within the last window leave room  *)
(* for it, and a caller is made to wait exactly when they do not.  A       *)
(* reconfiguration starts a new generation, whose window is empty.         *)
(***************************************************************************)
EXTENDS Integers, Sequences

CONSTANTS Callers, Budgets, Costs, Window, MaxLag

VARIABLES
    now,        \* the clock
    capacity,   \* what each budget may grant per window
    grants,     \* for each budget, the sequence of its grants
    generation, \* the current configuration's number
    waiting     \* who was told to wait, and for what: <<caller, budget, cost>>

vars == <<now, capacity, grants, generation, waiting>>

\* The sum of a sequence of numbers.
Total(numbers) ==
    LET sum[n \in 0 .. Len(numbers)] == IF n = 0 THEN 0 ELSE sum[n - 1] + numbers[n]
    IN  sum[Len(numbers)]

\* What budget b granted in the window that ends now.
Recent(g) == g.generation = generation /\ g.ts > now - Window
Load(b) ==
    LET log == grants[b]
    IN  Total([n \in 1 .. Len(log) |-> IF Recent(log[n]) THEN log[n].cost ELSE 0])

HasRoom(b, cost) == Load(b) + cost <= capacity[b]

Init ==
    /\ now = 0
    /\ capacity \in [Budgets -> Nat]
    /\ grants = [b \in Budgets |-> <<>>]
    /\ generation = 0
    /\ waiting = {}

\* The clock may advance between the test and the stamp of the grant, which
\* goes to a caller that waits for it or to a new one.
Grant(b, cost, at) ==
    /\ HasRoom(b, cost)
    /\ now' = at
    /\ grants' = [grants EXCEPT ![b] =
           Append(@, [ts |-> at, cost |-> cost, generation |-> generation])]
    /\ \/ waiting' = waiting
       \/ \E c \in Callers :
              <<c, b, cost>> \in waiting /\ waiting' = waiting \ {<<c, b, cost>>}
    /\ UNCHANGED <<capacity, generation>>

Refuse(b, cost, at) ==
    /\ ~HasRoom(b, cost)
    /\ now' = at
    /\ \E c \in Callers : waiting' = waiting \cup {<<c, b, cost>>}
    /\ UNCHANGED <<capacity, grants, generation>>

Leave(w) ==
    /\ w \in waiting
    /\ waiting' = waiting \ {w}
    /\ UNCHANGED <<now, capacity, grants, generation>>

Reconfigure ==
    /\ capacity' \in [Budgets -> Nat]
    /\ generation' = generation + 1
    /\ UNCHANGED <<now, grants, waiting>>

Pass ==
    /\ now' > now
    /\ UNCHANGED <<capacity, grants, generation, waiting>>

Next ==
    \/ \E b \in Budgets, cost \in Costs, at \in now .. now + MaxLag :
           Grant(b, cost, at) \/ Refuse(b, cost, at)
    \/ \E w \in waiting : Leave(w)
    \/ Reconfigure
    \/ Pass

Spec == Init /\ [][Next]_vars
=============================================================================
