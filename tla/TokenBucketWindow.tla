-------------------------- MODULE TokenBucketWindow --------------------------
(***************************************************************************)
(* ReadWriteTokenBucket as an implementation of SlidingWindow: the limiter *)
(* that keeps tokens and histories grants and refuses what a limiter that  *)
(* adds up the grants of the last window does.                             *)
(***************************************************************************)
EXTENDS TokenBucket

\* The abstract state, seen through the limiter's own variables.
Limits == [b \in Budgets |-> Capacity(b)]
Grants ==
    [b \in Budgets |->
        [i \in 1 .. Len(issued[b]) |->
            [ts |-> issued[b][i].ts, cost |-> issued[b][i].cost,
             generation |-> issued[b][i].generation]]]
Waits(c) == <<c, BudgetOf(task[c].request), CostOf(task[c].request)>>
Waiting == {Waits(c) : c \in {c \in Callers : task[c] # Idle}}

Abstract == INSTANCE SlidingWindow WITH
    Costs <- {CostOf(request) : request \in Requests},
    capacity <- Limits, grants <- Grants, waiting <- Waiting

\* Whether the limiter grants or refuses a request depends on nothing but what it
\* granted within the last window, although it never adds that up (_can_proceed).
Implements == Abstract!Spec

\* The running totals of a history are the sums of its costs, which is what the
\* refill loop and _calculate_wait_time add up, and the entries are in the order in
\* which the clock stamped them.
TotalsAreSums ==
    \A b \in Budgets :
        LET h == history[b] IN
        \A n \in 1 .. Len(h) :
            /\ Recovered(h, n) = Abstract!Total([i \in 1 .. n |-> h[i].cost])
            /\ n > 1 => h[n - 1].ts <= h[n].ts
=============================================================================
