----------------------------- MODULE TokenBucket -----------------------------
(***************************************************************************)
(* ReadWriteTokenBucket (src/pykalshi/rate_limiter.py): two independent    *)
(* sliding-window budgets, one for reads and one for writes.  A request    *)
(* takes its whole cost from one of them, and a cost comes back one window *)
(* after it was taken.                                                     *)
(*                                                                         *)
(* Callers are asyncio tasks on one event loop.  No critical section of    *)
(* the limiter contains a suspension point, so the section between two     *)
(* awaits -- refill, test, consume or compute the sleep -- is one action;  *)
(* the locks are never contended and are not a variable.  The clock is     *)
(* read several times inside one section: it may advance by up to MaxLag   *)
(* ticks between the reading that expires old entries and the reading that *)
(* stamps the new one.                                                     *)
(*                                                                         *)
(* Costs and capacities are natural numbers: the floats of the source hold *)
(* the integers the API publishes.  An entry of a history carries, besides *)
(* the source's timestamp and cost, the running total of all the tokens    *)
(* the budget granted up to and including it; the cost of a block of       *)
(* adjacent entries is then a difference of two totals.                    *)
(***************************************************************************)
EXTENDS Integers, Sequences

CONSTANTS
    Callers,      \* the tasks that use the limiter
    Requests,     \* the requests they make: records [read |-> r, write |-> w]
    Settings,     \* what reconfigure may be called with
    Initial,      \* the setting of the constructor
    Window,       \* window_size, in ticks
    Padding,      \* safety_padding, in ticks
    MinSleep,     \* the 0.01 s floor of every sleep, in ticks
    MaxLag,       \* how far the clock may advance inside one section
    MaxLate,      \* how late the event loop may wake a sleeper
    MaxCalls,     \* bound: calls made by one caller
    MaxReconfigs, \* bound: calls of reconfigure
    IdleUntil     \* bound: the clock stops here while nobody sleeps

Budgets == {"read", "write"}
RequestType == [read : Nat, write : Nat]
SettingType == [Budgets -> [rate : Nat, capacity : Nat]]

ASSUME RequestsAssumption == Requests \subseteq RequestType
ASSUME SettingsAssumption == Settings \subseteq SettingType /\ Initial \in SettingType
ASSUME TimingAssumption ==
    /\ Window \in Nat \ {0}
    /\ Padding \in Nat /\ MinSleep \in Nat /\ MaxLag \in Nat /\ MaxLate \in Nat
ASSUME BoundsAssumption == MaxCalls \in Nat /\ MaxReconfigs \in Nat /\ IdleUntil \in Nat

VARIABLES
    now,        \* time.monotonic()
    setting,    \* read_rate, read_capacity, write_rate, write_capacity
    tokens,     \* read_tokens, write_tokens
    history,    \* _read_history, _write_history
    granted,    \* running total of the tokens each budget granted
    task,       \* what each caller is doing
    calls,      \* calls each caller made
    generation, \* how many times reconfigure ran
    issued      \* history variable: every grant ever made, never expired

vars == <<now, setting, tokens, history, granted, task, calls, generation, issued>>

Entry == [ts : Nat, cost : Nat, upto : Nat]
Grant == [ts : Nat, cost : Nat, upto : Nat, generation : Nat]
Idle == [state |-> "idle"]
Asleep == [state : {"asleep"}, request : RequestType, wake : Nat,
           seen : Nat, generation : Nat]

TypeOK ==
    /\ now \in Nat
    /\ setting \in SettingType
    /\ tokens \in [Budgets -> Nat]
    /\ history \in [Budgets -> Seq(Entry)]
    /\ granted \in [Budgets -> Nat]
    /\ task \in [Callers -> {Idle} \cup Asleep]
    /\ calls \in [Callers -> Nat]
    /\ generation \in Nat
    /\ issued \in [Budgets -> Seq(Grant)]

Init ==
    /\ now = 0
    /\ setting = Initial
    /\ tokens = [b \in Budgets |-> Initial[b].capacity]
    /\ history = [b \in Budgets |-> <<>>]
    /\ granted = [b \in Budgets |-> 0]
    /\ task = [c \in Callers |-> Idle]
    /\ calls = [c \in Callers |-> 0]
    /\ generation = 0
    /\ issued = [b \in Budgets |-> <<>>]

-----------------------------------------------------------------------------
(* The arithmetic of one budget.                                           *)

AtMost(limit, x) == IF x <= limit THEN x ELSE limit
AtLeast(limit, x) == IF x >= limit THEN x ELSE limit

\* A write cost selects the write budget, whatever the read cost is.
BudgetOf(request) == IF request.write > 0 THEN "write" ELSE "read"
CostOf(request) == IF request.write > 0 THEN request.write ELSE request.read

Capacity(b) == setting[b].capacity

\* The total cost of the first n entries of a history.
Recovered(h, n) == IF n = 0 THEN 0 ELSE h[n].upto - h[1].upto + h[1].cost

\* Faulty variants: an entry expires one tick early, or one tick late.
PopsEarly(b, n) ==
    /\ n \in 0 .. Len(history[b])
    /\ \A i \in 1 .. n : history[b][i].ts <= now - Window + 1
    /\ n < Len(history[b]) => history[b][n + 1].ts > now - Window + 1
PopsLate(b, n) ==
    /\ n \in 0 .. Len(history[b])
    /\ \A i \in 1 .. n : history[b][i].ts < now - Window
    /\ n < Len(history[b]) => history[b][n + 1].ts >= now - Window

\* The refill loop pops exactly the first n entries of budget b.
Pops(b, n) ==
    /\ n \in 0 .. Len(history[b])
    /\ \A i \in 1 .. n : history[b][i].ts <= now - Window
    /\ n < Len(history[b]) => history[b][n + 1].ts > now - Window

\* The tokens and the history that the refill loop leaves.
Refilled(b, n) == AtMost(Capacity(b), tokens[b] + Recovered(history[b], n))
\* Faulty variant: the entries are popped from the wrong end.
RemainingPop(b, n) == SubSeq(history[b], 1, Len(history[b]) - n)
Remaining(b, n) == SubSeq(history[b], n + 1, Len(history[b]))

\* Faulty variants: the wait ends with the first expiry, whatever it brings;
\* the target time is returned instead of the time to it.
WaitTimeFirst(h, needed, at) ==
    IF h = <<>> THEN Window ELSE AtLeast(0, h[1].ts + Window + Padding - at)
WaitTimeAbsolute(h, needed, at) ==
    LET enough == {i \in 1 .. Len(h) : Recovered(h, i) >= needed} IN
    IF enough = {} THEN Window
    ELSE LET first == CHOOSE i \in enough : \A j \in enough : i <= j
         IN  h[first].ts + Window + Padding

\* How long to sleep until enough of h has expired to recover "needed".
WaitTime(h, needed, at) ==
    LET enough == {i \in 1 .. Len(h) : Recovered(h, i) >= needed} IN
    IF enough = {} THEN Window
    ELSE LET first == CHOOSE i \in enough : \A j \in enough : i <= j
         IN  AtLeast(0, h[first].ts + Window + Padding - at)

-----------------------------------------------------------------------------
(* One pass of the limiter's critical section for a request.  The caller's *)
(* task is Idle after a grant and asleep otherwise.                        *)

Refill(b, n) ==
    /\ Pops(b, n)
    /\ tokens' = [tokens EXCEPT ![b] = Refilled(b, n)]
    /\ history' = [history EXCEPT ![b] = Remaining(b, n)]
    /\ UNCHANGED <<granted, issued>>

\* Faulty variant: the tokens are taken without the test.
ConsumeUnchecked(b, n, cost, at) ==
    /\ Pops(b, n)
    /\ tokens' = [tokens EXCEPT ![b] = Refilled(b, n) - cost]
    /\ granted' = [granted EXCEPT ![b] = @ + cost]
    /\ history' = [history EXCEPT ![b] =
           Append(Remaining(b, n), [ts |-> at, cost |-> cost, upto |-> granted[b] + cost])]
    /\ issued' = [issued EXCEPT ![b] =
           Append(@, [ts |-> at, cost |-> cost, upto |-> granted[b] + cost,
                      generation |-> generation])]

Consume(b, n, cost, at) ==
    /\ Pops(b, n)
    /\ Refilled(b, n) >= cost
    /\ tokens' = [tokens EXCEPT ![b] = Refilled(b, n) - cost]
    /\ granted' = [granted EXCEPT ![b] = @ + cost]
    /\ history' = [history EXCEPT ![b] =
           Append(Remaining(b, n), [ts |-> at, cost |-> cost, upto |-> granted[b] + cost])]
    /\ issued' = [issued EXCEPT ![b] =
           Append(@, [ts |-> at, cost |-> cost, upto |-> granted[b] + cost,
                      generation |-> generation])]

Sleep(request, n, at) ==
    LET b == BudgetOf(request)
        wait == WaitTime(Remaining(b, n), CostOf(request) - Refilled(b, n), at)
    IN  [state |-> "asleep", request |-> request, wake |-> at + AtLeast(MinSleep, wait),
         seen |-> granted[b], generation |-> generation]

\* One turn of the loop of acquire.
Attempt(c, request) ==
    \E n \in 0 .. Len(history[BudgetOf(request)]), at \in now .. now + MaxLag :
        /\ now' = at
        /\ \/ /\ Consume(BudgetOf(request), n, CostOf(request), at)
              /\ task' = [task EXCEPT ![c] = Idle]
           \/ /\ Refill(BudgetOf(request), n)
              /\ Refilled(BudgetOf(request), n) < CostOf(request)
              /\ task' = [task EXCEPT ![c] = Sleep(request, n, at)]
        /\ UNCHANGED <<setting, generation>>

Call(c) ==
    /\ task[c] = Idle
    /\ calls[c] < MaxCalls
    /\ calls' = [calls EXCEPT ![c] = @ + 1]

Fits(request) == CostOf(request) <= Capacity(BudgetOf(request))

-----------------------------------------------------------------------------
(* The operations.                                                         *)

\* acquire up to its first sleep; a cost above the capacity raises ValueError.
Acquire(c, request) ==
    /\ Call(c)
    /\ \/ Fits(request) /\ Attempt(c, request)
       \/ /\ ~Fits(request)
          /\ UNCHANGED <<now, setting, tokens, history, granted, task, generation, issued>>

\* Faulty variant: a lock is held across the sleep, and a sleeper needs those of all.
WakeAlone(c) ==
    /\ task[c] # Idle
    /\ now >= task[c].wake
    /\ \A d \in Callers \ {c} : task[d] = Idle
    /\ Attempt(c, task[c].request)
    /\ UNCHANGED calls

\* asyncio.sleep returns and acquire goes round its loop again.
Wake(c) ==
    /\ task[c] # Idle
    /\ now >= task[c].wake
    /\ Attempt(c, task[c].request)
    /\ UNCHANGED calls

\* The caller of acquire is cancelled while it sleeps (asyncio.wait_for).
Cancel(c) ==
    /\ task[c] # Idle
    /\ task' = [task EXCEPT ![c] = Idle]
    /\ UNCHANGED <<now, setting, tokens, history, granted, calls, generation, issued>>

TryAcquire(c, request) ==
    /\ Call(c)
    /\ \/ /\ Fits(request)
          /\ \E n \in 0 .. Len(history[BudgetOf(request)]), at \in now .. now + MaxLag :
                 /\ now' = at
                 /\ \/ Consume(BudgetOf(request), n, CostOf(request), at)
                    \/ /\ Refill(BudgetOf(request), n)
                       /\ Refilled(BudgetOf(request), n) < CostOf(request)
       \/ /\ ~Fits(request)
          /\ UNCHANGED <<now, tokens, history, granted, issued>>
    /\ UNCHANGED <<setting, task, generation>>

\* get_wait_time consumes nothing, but it refills.
GetWaitTime(c, request) ==
    /\ Call(c)
    /\ \E n \in 0 .. Len(history[BudgetOf(request)]) : Refill(BudgetOf(request), n)
    /\ UNCHANGED <<now, setting, task, generation>>

\* Faulty variant: the histories are not cleared.
ReconfigureKeepsHistory(new) ==
    /\ generation < MaxReconfigs
    /\ \A b \in Budgets : new[b].rate > 0
    /\ setting' = new
    /\ tokens' = [b \in Budgets |-> new[b].capacity]
    /\ generation' = generation + 1
    /\ UNCHANGED <<now, history, granted, task, calls, issued>>

\* reconfigure forgets what was taken and fills both budgets.
Reconfigure(new) ==
    /\ generation < MaxReconfigs
    /\ \A b \in Budgets : new[b].rate > 0
    /\ setting' = new
    /\ tokens' = [b \in Budgets |-> new[b].capacity]
    /\ history' = [b \in Budgets |-> <<>>]
    /\ generation' = generation + 1
    /\ UNCHANGED <<now, granted, task, calls, issued>>

Tick ==
    /\ \A c \in Callers : task[c] # Idle => now < task[c].wake + MaxLate
    /\ now < IdleUntil \/ \E c \in Callers : task[c] # Idle
    /\ now' = now + 1
    /\ UNCHANGED <<setting, tokens, history, granted, task, calls, generation, issued>>

\* Every caller has made its calls and none of them waits.
Finished ==
    /\ \A c \in Callers : task[c] = Idle /\ calls[c] = MaxCalls
    /\ UNCHANGED vars

Operation(c) ==
    \/ \E request \in Requests :
           \/ Acquire(c, request)
           \/ TryAcquire(c, request)
           \/ GetWaitTime(c, request)
    \/ Wake(c)
    \/ Cancel(c)

Next ==
    \/ \E c \in Callers : Operation(c)
    \/ \E new \in Settings : Reconfigure(new)
    \/ Tick
    \/ Finished

Spec == Init /\ [][Next]_vars

\* The event loop runs what is due, and time passes.
Fairness == WF_vars(Tick) /\ \A c \in Callers : WF_vars(Wake(c))

FairSpec == Spec /\ Fairness

-----------------------------------------------------------------------------
(* Correctness.                                                            *)

\* No token is lost, invented or returned twice: the tokens in hand and the
\* costs still in the history (the grants that have not come back yet) add up
\* to the capacity after any interleaving of acquire, try_acquire,
\* get_wait_time, cancellation and reconfigure (_refill_*, _consume).
Conservation ==
    \A b \in Budgets : tokens[b] + Recovered(history[b], Len(history[b])) = Capacity(b)

\* The purpose of the limiter: grants made less than one window apart, under
\* one configuration, never exceed the capacity of their budget together,
\* even though the clock moves between the refill and the stamp of a grant.
WindowBound ==
    \A b \in Budgets :
        \A i, j \in 1 .. Len(issued[b]) :
            LET first == issued[b][i]
                last == issued[b][j]
            IN  (i <= j /\ first.generation = generation /\ last.ts < first.ts + Window)
                    => last.upto - first.upto + first.cost <= Capacity(b)

\* The sleep computed by _calculate_wait_time is long enough: a caller that
\* wakes when nobody else was granted anything meanwhile gets its tokens, if
\* the capacity allows its cost at all.
WaitSuffices ==
    \A c \in Callers :
        task[c] # Idle =>
            LET b == BudgetOf(task[c].request) IN
            (/\ now >= task[c].wake
             /\ Fits(task[c].request)
             /\ task[c].seen = granted[b]
             /\ task[c].generation = generation)
                => \A n \in 0 .. Len(history[b]) :
                       Pops(b, n) => Refilled(b, n) >= CostOf(task[c].request)

\* It is never longer than a window and its padding (or the sleep floor), so
\* a caller looks again at least that often.
NoOversleep ==
    \A c \in Callers :
        task[c] # Idle => task[c].wake <= now + AtLeast(MinSleep, Window + Padding)

\* A cost the budget can never hold is refused, not waited for (the capacity
\* tests that open acquire): no caller goes back to sleep for one.
NoHopelessWait ==
    [][\A c \in Callers :
          (task[c] # Idle /\ task'[c] # Idle /\ task'[c] # task[c])
              => Fits(task[c].request)]_vars

\* Every caller that waits is served in the end, or gives up: the lock is not
\* held across the sleep, and a sleep always ends.
Served == \A c \in Callers : task[c] # Idle ~> task[c] = Idle
=============================================================================
