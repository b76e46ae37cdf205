----------------------------- MODULE HttpClient -----------------------------
(***************************************************************************)
(* The request engine of KalshiHttpClient (src/pykalshi/http_client.py)    *)
(* over an exchange that may refuse, fail, lose or delay what it is sent.  *)
(*                                                                         *)
(* A call is one use of the client by a task of the program.  It executes  *)
(* its own request and, when it is the one that configures the rates, two  *)
(* more before it: the account's limits and the endpoints' costs.  The     *)
(* request it is executing is its stage.  A step ends where the source     *)
(* suspends: at the configuration lock, in the limiter, while it waits for *)
(* a reply, in the pause before a retry.  What runs on without suspending  *)
(* is "entering", and nothing else runs meanwhile.                         *)
(*                                                                         *)
(* The limiter is TokenBucket's, reduced to what a request can tell of it: *)
(* a cost above the capacity is refused, any other is granted in the end.  *)
(* Left out: the lengths of the pauses, bodies, headers, logging, metrics. *)
(***************************************************************************)
EXTENDS Integers, FiniteSets

CONSTANTS
    Calls,       \* the calls the program makes, each in a task
    Kinds,       \* what it calls: "read", "create", "configure" (configure_rate_limits)
    MaxRetries,  \* config.max_retries
    DefaultCost, \* the cost of every endpoint before the configuration
    Fallback,    \* capacity of each budget: config.read_rate, config.write_rate
    Published,   \* capacity of each budget that /account/limits publishes
    Price,       \* cost of each endpoint that /account/endpoint_costs publishes
    NoCall

Budgets == {"read", "write"}
Fetches == {"limits", "costs"}
Stages == Fetches \cup {"own"}
Endpoints == Fetches \cup {"read", "create"}
Sources == {"default", "api"}

ASSUME CallsAssumption == IsFiniteSet(Calls) /\ NoCall \notin Calls
ASSUME KindsAssumption == Kinds \subseteq {"read", "create", "configure"}
ASSUME RetriesAssumption == MaxRetries \in Nat
ASSUME CapacityAssumption ==
    /\ Fallback \in [Budgets -> Nat] /\ Published \in [Budgets -> Nat]
    /\ DefaultCost \in Nat /\ Price \in [Endpoints -> Nat]

VARIABLES
    auto,        \* _auto_configure
    configured,  \* _rates_configured
    configuring, \* _rates_configuring
    holder,      \* who has _rates_lock
    limits,      \* where the limiter's capacities come from
    costs,       \* where _default_cost and _cost_patterns come from
    call,        \* what each call is doing
    abandoned,   \* attempts at an order that the client gave up, not handled yet
    executed,    \* history variable: how often a call's own request was executed
    faults       \* history variable: network errors of a call's own request

rates == <<auto, configured, configuring, holder, limits, costs>>
exchange == <<abandoned, executed, faults>>
vars == <<rates, call, exchange>>

Errors == {"refused", "too_many", "failed", "invalid", "network"}
Results == Errors \cup {"none", "ok", "cancelled"}

CallState == [kind : {"none"} \cup Kinds, stage : Stages,
              at : {"new", "entering", "lock", "limiter", "sent", "pause", "done"},
              cost : Nat, retries : Nat, tries : Nat, result : Results]

TypeOK ==
    /\ auto \in BOOLEAN /\ configured \in BOOLEAN /\ configuring \in BOOLEAN
    /\ holder \in Calls \cup {NoCall}
    /\ limits \in Sources /\ costs \in Sources
    /\ call \in [Calls -> CallState]
    /\ abandoned \in [Calls -> Nat] /\ executed \in [Calls -> Nat] /\ faults \in [Calls -> Nat]

Init ==
    /\ auto \in BOOLEAN
    /\ configured = FALSE /\ configuring = FALSE /\ holder = NoCall
    /\ limits = "default" /\ costs = "default"
    /\ call = [c \in Calls |-> [kind |-> "none", stage |-> "own", at |-> "new", cost |-> 0,
                                retries |-> 0, tries |-> 0, result |-> "none"]]
    /\ abandoned = [c \in Calls |-> 0]
    /\ executed = [c \in Calls |-> 0]
    /\ faults = [c \in Calls |-> 0]

-----------------------------------------------------------------------------
(* Costs and capacities.                                                   *)

Endpoint(c) == IF call[c].stage = "own" THEN call[c].kind ELSE call[c].stage
BudgetOf(endpoint) == IF endpoint = "create" THEN "write" ELSE "read"
Cost(c) == IF costs = "api" THEN Price[Endpoint(c)] ELSE DefaultCost
Capacity(b) == IF limits = "api" THEN Published[b] ELSE Fallback[b]

\* The two fetches of a configuration, in their order.
\* Faulty variant: the costs are fetched and applied before the limits.
FetchCostsFirst(n) == IF n = 1 THEN "costs" ELSE "limits"
Fetch(n) == IF n = 1 THEN "limits" ELSE "costs"

-----------------------------------------------------------------------------
(* How the request of a stage ends, and where the call goes on.            *)

\* The finally of configure_rate_limits, and the end of its "async with".
Release ==
    /\ configuring' = FALSE /\ configured' = TRUE /\ holder' = NoCall

Becomes(c, record) == call' = [call EXCEPT ![c] = record]

Enters(c, stage) ==
    Becomes(c, [call[c] EXCEPT !.at = "entering", !.stage = stage, !.retries = 0, !.tries = 0])
Ends(c, result) == Becomes(c, [call[c] EXCEPT !.at = "done", !.result = result])

\* After the configuration: the call's own request, if it has one.
GoesOn(c) ==
    IF call[c].kind = "configure"
    THEN Becomes(c, [call[c] EXCEPT !.at = "done", !.stage = "own", !.result = "ok"])
    ELSE Enters(c, "own")

\* An exception out of the request: the program's, or caught by the configuration.
Raises(c, error) ==
    \/ /\ call[c].stage = "own"
       /\ Ends(c, error)
       /\ UNCHANGED rates
    \/ /\ call[c].stage \in Fetches
       /\ Release /\ GoesOn(c)
       /\ UNCHANGED <<auto, limits, costs>>

Returns(c) ==
    \/ /\ call[c].stage = "own"
       /\ Ends(c, "ok")
       /\ UNCHANGED rates
    \/ /\ call[c].stage \in Fetches
       /\ limits' = IF call[c].stage = "limits" THEN "api" ELSE limits
       /\ costs' = IF call[c].stage = "costs" THEN "api" ELSE costs
       /\ UNCHANGED auto
       /\ IF call[c].stage = Fetch(1)
          THEN Enters(c, Fetch(2)) /\ UNCHANGED <<configured, configuring, holder>>
          ELSE Release /\ GoesOn(c)

-----------------------------------------------------------------------------
(* Entering a request.                                                     *)

Begin(c, kind) ==
    /\ call[c].at = "new"
    /\ Becomes(c, [call[c] EXCEPT !.kind = kind, !.at = "entering"])
    /\ UNCHANGED <<rates, exchange>>

\* Faulty variant: a request of the configuration itself asks for it again.
MustConfigureBlindly(c) ==
    \/ call[c].kind = "configure" /\ call[c].stage = "own"
    \/ auto /\ ~configured

\* configure_rate_limits was called, or _ensure_rates_configured calls it.
MustConfigure(c) ==
    \/ call[c].kind = "configure" /\ call[c].stage = "own"
    \/ auto /\ ~configured /\ ~configuring

AwaitLock(c) ==
    /\ call[c].at = "entering" /\ MustConfigure(c) /\ holder # NoCall
    /\ Becomes(c, [call[c] EXCEPT !.at = "lock"])
    /\ UNCHANGED <<rates, exchange>>

\* Faulty variant: whoever gets the lock configures, configured or not.
ConfigureAgain(c) ==
    /\ (call[c].at = "entering" /\ MustConfigure(c)) \/ call[c].at = "lock"
    /\ holder = NoCall
    /\ configuring' = TRUE /\ holder' = c /\ Enters(c, Fetch(1))
    /\ UNCHANGED <<configured, auto, limits, costs, exchange>>

Configure(c) ==
    /\ (call[c].at = "entering" /\ MustConfigure(c)) \/ call[c].at = "lock"
    /\ holder = NoCall
    /\ \/ configured /\ GoesOn(c) /\ UNCHANGED <<configured, configuring, holder>>
       \/ /\ ~configured
          /\ configuring' = TRUE /\ holder' = c /\ Enters(c, Fetch(1))
          /\ UNCHANGED configured
    /\ UNCHANGED <<auto, limits, costs, exchange>>

\* The cost is resolved; the limiter refuses it or takes the call in.
Acquire(c) ==
    /\ call[c].at = "entering" /\ ~MustConfigure(c)
    /\ \/ /\ Cost(c) <= Capacity(BudgetOf(Endpoint(c)))
          /\ Becomes(c, [call[c] EXCEPT !.at = "limiter", !.cost = Cost(c)])
          /\ UNCHANGED rates
       \/ Cost(c) > Capacity(BudgetOf(Endpoint(c))) /\ Raises(c, "refused")
    /\ UNCHANGED exchange

-----------------------------------------------------------------------------
(* The attempts.  The exchange executes what it answers; it does not       *)
(* execute what it refuses with a 429; after an error status nobody knows. *)
(* An attempt that the client gives up may be executed later, or never.    *)

Sends(c, retries) ==
    /\ Becomes(c, [call[c] EXCEPT !.at = "sent", !.retries = retries, !.tries = @ + 1])
    /\ UNCHANGED <<rates, exchange>>

\* The limiter grants the cost; a waiter whose cost exceeds the capacity by
\* now waits for ever.
Granted(c) ==
    /\ call[c].at = "limiter" /\ call[c].cost <= Capacity(BudgetOf(Endpoint(c)))
    /\ Sends(c, 0)

\* Faulty variant: the retries are counted down from zero.
RetryCountsDown(c) == call[c].at = "pause" /\ Sends(c, call[c].retries - 1)
Retry(c) == call[c].at = "pause" /\ Sends(c, call[c].retries + 1)

\* Faulty variant: the last retry is forgotten.
CanRetryLess(c) == call[c].retries + 1 < MaxRetries
CanRetry(c) == call[c].retries < MaxRetries

Pauses(c) == Becomes(c, [call[c] EXCEPT !.at = "pause"]) /\ UNCHANGED rates
PausesOrRaises(c, error) ==
    \/ CanRetry(c) /\ Pauses(c)
    \/ ~CanRetry(c) /\ Raises(c, error)

Executes(c) ==
    /\ executed' = IF call[c].stage = "own" THEN [executed EXCEPT ![c] = @ + 1] ELSE executed
    /\ UNCHANGED <<abandoned, faults>>

TooMany(c) == PausesOrRaises(c, "too_many") /\ UNCHANGED exchange

\* Faulty variants: an error status is tried again, or taken for an answer.
FailedRetries(c) == PausesOrRaises(c, "failed") /\ (Executes(c) \/ UNCHANGED exchange)
FailedReturns(c) == Returns(c) /\ (Executes(c) \/ UNCHANGED exchange)

Failed(c) == Raises(c, "failed") /\ (Executes(c) \/ UNCHANGED exchange)

\* A body that is not what the endpoint promises is an error of its own.
Answered(c) == Executes(c) /\ (Returns(c) \/ Raises(c, "invalid"))

Receive(c) ==
    /\ call[c].at = "sent"
    /\ TooMany(c) \/ Failed(c) \/ Answered(c)

\* The attempt under way loses its reader.  Only orders have an effect.
Abandons(c) ==
    abandoned' = IF call[c].at = "sent" /\ Endpoint(c) = "create"
                 THEN [abandoned EXCEPT ![c] = @ + 1] ELSE abandoned

\* A RequestError: no connection, a timeout, an answer that breaks off.
NetworkError(c) ==
    /\ call[c].at = "sent"
    /\ faults' = IF call[c].stage = "own" THEN [faults EXCEPT ![c] = @ + 1] ELSE faults
    /\ Abandons(c) /\ UNCHANGED executed
    /\ PausesOrRaises(c, "network")

\* Faulty variant: a cancelled configuration keeps the lock.
CancelKeepsLock(c) ==
    /\ call[c].at \in {"lock", "limiter", "sent", "pause"}
    /\ Ends(c, "cancelled") /\ Abandons(c)
    /\ UNCHANGED <<rates, executed, faults>>

\* The program cancels the task where it is suspended.
Cancel(c) ==
    /\ call[c].at \in {"lock", "limiter", "sent", "pause"}
    /\ Ends(c, "cancelled") /\ Abandons(c)
    /\ \/ call[c].stage = "own" /\ UNCHANGED rates
       \/ call[c].stage \in Fetches /\ Release /\ UNCHANGED <<auto, limits, costs>>
    /\ UNCHANGED <<executed, faults>>

\* The exchange handles an attempt that nobody waits for any more.
Late(c) ==
    /\ abandoned[c] > 0
    /\ abandoned' = [abandoned EXCEPT ![c] = @ - 1]
    /\ executed' = [executed EXCEPT ![c] = @ + 1] \/ UNCHANGED executed
    /\ UNCHANGED <<rates, call, faults>>

-----------------------------------------------------------------------------
Entering == {c \in Calls : call[c].at = "entering"}

Step(c) ==
    \/ Configure(c) \/ Granted(c) \/ Retry(c) \/ Receive(c) \/ NetworkError(c)

\* A call that has not suspended is the only one to run.
Next ==
    \/ \E c \in Entering : AwaitLock(c) \/ Configure(c) \/ Acquire(c)
    \/ /\ Entering = {}
       /\ \E c \in Calls :
              Step(c) \/ Cancel(c) \/ Late(c) \/ \E kind \in Kinds : Begin(c, kind)
    \/ (\A c \in Calls : call[c].at = "done") /\ UNCHANGED vars

\* The event loop runs the task that has not suspended, and every task that can
\* go on; httpx ends the wait for a reply by its timeouts.
Fairness ==
    \A c \in Calls :
        /\ WF_vars(c \in Entering /\ (AwaitLock(c) \/ Configure(c) \/ Acquire(c)))
        /\ WF_vars(Entering = {} /\ Step(c))

Spec == Init /\ [][Next]_vars /\ Fairness

-----------------------------------------------------------------------------
(* Properties.                                                             *)

\* Retries are bounded whatever mixes of 429s and network errors occur, and the
\* client gives up only after all of them (http_client.py 295-356).
RetriesSpent ==
    \A c \in Calls :
        /\ call[c].tries <= MaxRetries + 1
        /\ call[c].result \in {"too_many", "network"} => call[c].tries = MaxRetries + 1

\* A call that returns, or fails only in reading the answer, was executed; the
\* answer is never that of an attempt given up before (http_client.py 298-339).
AnswerIsExecuted ==
    \A c \in Calls :
        call[c].result \in {"ok", "invalid"} /\ call[c].kind # "configure"
            => executed[c] > 0

\* A request is executed a second time only after a network error, however late
\* the exchange handles what was sent: neither a 429 nor an error status is tried
\* again while it may have had an effect (http_client.py 300-326, 341-356).
DuplicatesAreFaults ==
    \A c \in Calls : executed[c] + abandoned[c] <= 1 + faults[c]

\* The flag that lets the requests of a configuration pass is up exactly while one
\* call holds the lock and is in one of the two fetches; errors and cancellations
\* included (http_client.py 204-217).
OneConfigures ==
    /\ configuring <=> holder # NoCall
    /\ \A c \in Calls :
           (call[c].stage \in Fetches /\ call[c].at # "done") <=> holder = c

\* No request waits for a cost that its budget cannot hold, if the published
\* prices and the default cost fit the published capacities; and only a fallback
\* capacity below the default cost can refuse one.  A configuration that put the
\* prices on the fallback capacities, or shrank a budget under a waiter, would break
\* it (http_client.py 219-255, rate_limiter.py 99-116).
PricesFit ==
    \A e \in Endpoints : {Price[e], DefaultCost} \subseteq 0 .. Published[BudgetOf(e)]
Affordable ==
    PricesFit => \A c \in Calls :
        /\ call[c].at = "limiter" => call[c].cost <= Capacity(BudgetOf(Endpoint(c)))
        /\ call[c].at = "entering" /\ ~MustConfigure(c)
               => \/ Cost(c) <= Capacity(BudgetOf(Endpoint(c)))
                  \/ limits = "default" /\ costs = "default"

\* Once the client is marked as configured, neither capacities nor prices change:
\* no second configuration, and no first one that goes on behind the mark, be it
\* raced, failed or cancelled (http_client.py 204-217, 257-260).
Settled == [][configured => UNCHANGED <<limits, costs>>]_vars

\* Every call returns or raises: no call waits for a lock that it holds itself or
\* that a cancelled call has taken with it (http_client.py 204-217, 257-260).  The
\* limiter must be able to hold the costs (Affordable).
CallsEnd == \A c \in Calls : call[c].at = "entering" ~> call[c].at = "done"

\* What the docstring of configure_rate_limits says of a failure: "the client falls
\* back to the defaults" (http_client.py 201-202).  The code keeps the published
\* capacities with the default cost when only the second fetch fails.
FallbackIsWhole == configured => (limits = "api" <=> costs = "api")

=============================================================================
