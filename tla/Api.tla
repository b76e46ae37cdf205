--------------------------------- MODULE Api ---------------------------------
(***************************************************************************)
(* The API surface of KalshiHttpClient: its methods, one call at a time.   *)
(* A method builds the path of its request from its arguments, the client  *)
(* looks up the price of that path (http_client.py 236-267), the exchange  *)
(* routes the request by its path and executes it, and the method counts   *)
(* the order and validates the answer against its response model (390-831).*)
(*                                                                         *)
(* Verbs, paths and response models are the tables of Endpoints and        *)
(* Responses.  How the request engine waits, retries and configures itself *)
(* is HttpClient's; here it brings an answer, or an error.  A path is the  *)
(* sequence of its segments, a published path with Arg for each ":param".  *)
(***************************************************************************)
EXTENDS Endpoints, Responses, Integers, Sequences, FiniteSetsExt

CONSTANTS
    PriceLists,   \* what /account/endpoint_costs may publish: sequences of Entry
    DefaultPrice, \* its default_cost
    InitialPrice, \* the client's cost of everything before that
    MaxCalls      \* bound of this model: calls the program makes

Id == "#1"    \* an argument that a program passes: of an object, or forgotten
Empty == ""

Entry(verb, path, price) == [verb |-> verb, path |-> path, price |-> price]

ASSUME PricesAssumption ==
    /\ DefaultPrice \in Nat /\ InitialPrice \in Nat /\ MaxCalls \in Nat
    /\ PriceLists \subseteq Seq([verb : STRING, path : Seq(STRING), price : Nat])

VARIABLES
    patterns,  \* _cost_patterns, compiled from the published list
    default,   \* _default_cost
    cleans,    \* whether the exchange drops empty segments before it routes
    call,      \* the call being made, or the last one made
    calls,     \* history variable: calls made
    counted,   \* the counters orders_created and orders_cancelled
    executed,  \* history variable: calls of the counted methods that were executed
    lost       \* history variable: those of them that were never answered

vars == <<patterns, default, cleans, call, calls, counted, executed, lost>>

Counted == {"create_order", "cancel_order"}
Results == {"none", "ok", "empty", "invalid", "refused", "failed", "lost"}
NoCall == [method |-> "none", path |-> <<>>, price |-> InitialPrice, at |-> "done",
           served |-> "none", result |-> "none"]

TypeOK ==
    /\ default \in {InitialPrice, DefaultPrice} /\ cleans \in BOOLEAN
    /\ call.method \in Methods \cup {"none"} /\ call.served \in Methods \cup {"none"}
    /\ call.at \in {"sent", "done"} /\ call.result \in Results
    /\ call.price \in {default, InitialPrice} \cup {patterns[i].price : i \in DOMAIN patterns}
    /\ calls \in 0 .. MaxCalls
    /\ counted \in [Counted -> 0 .. MaxCalls]
    /\ executed \in [Counted -> 0 .. MaxCalls] /\ lost \in [Counted -> 0 .. MaxCalls]

Init ==
    /\ patterns = <<>> /\ default = InitialPrice /\ cleans \in BOOLEAN
    /\ call = NoCall /\ calls = 0
    /\ counted = [m \in Counted |-> 0] /\ executed = counted /\ lost = counted

-----------------------------------------------------------------------------
(* Paths and prices.                                                       *)

\* What the arguments can make of a method's path.
Paths(m) ==
    LET path == Endpoint[m].path
    IN  {[i \in DOMAIN path |-> IF path[i] = Arg THEN argument[i] ELSE path[i]] :
             argument \in [DOMAIN path -> {Id, Empty}]}

HasEmpty(path) == \E i \in DOMAIN path : path[i] = Empty

\* "^...$" with "[^/]+" for every parameter.
Matches(pattern, path) ==
    /\ DOMAIN pattern = DOMAIN path
    /\ \A i \in DOMAIN pattern :
           IF pattern[i] = Arg THEN path[i] # Empty ELSE path[i] = pattern[i]

Hits(verb, path) ==
    {i \in DOMAIN patterns : patterns[i].verb = verb /\ Matches(patterns[i].path, path)}

\* Faulty variants: the last pattern that matches gives the price, or all of them do.
ResolveLast(verb, path) ==
    IF Hits(verb, path) = {} THEN default ELSE patterns[Max(Hits(verb, path))].price
ResolveAll(verb, path) ==
    IF Hits(verb, path) = {} THEN default
    ELSE MapThenSumSet(LAMBDA i : patterns[i].price, Hits(verb, path))

\* The first pattern that matches gives the price, _default_cost otherwise.
ResolveCost(verb, path) ==
    IF Hits(verb, path) = {} THEN default ELSE patterns[Min(Hits(verb, path))].price

-----------------------------------------------------------------------------
(* The exchange.                                                           *)

Cleaned(path) ==
    IF cleans /\ HasEmpty(path) THEN SelectSeq(path, LAMBDA s : s # Empty) ELSE path

Args(m) == {i \in DOMAIN Endpoint[m].path : Endpoint[m].path[i] = Arg}

\* The endpoints that a request can be routed to: a literal segment goes before
\* a parameter.
Routes(verb, path) ==
    LET hits == {m \in Methods : Endpoint[m].verb = verb /\ Matches(Endpoint[m].path, path)}
    IN  {m \in hits : \A n \in hits : Cardinality(Args(m)) <= Cardinality(Args(n))}

\* What an endpoint's 2xx answer may hold: what its model says, with or without
\* the optional fields, less one field that a model of the client requires and
\* the exchange no longer sends; or no body at all.
Answers(m) ==
    LET model == ResponseModel[m]
    IN  {model.needs, model.needs \cup model.may, {}} \cup {model.needs \ {f} : f \in model.needs}

-----------------------------------------------------------------------------
(* The calls.                                                              *)

\* The configuration fetches the published list and compiles it.
Configure(list) ==
    /\ call.at = "done" /\ patterns = <<>> /\ default = InitialPrice
    /\ patterns' = list /\ default' = DefaultPrice
    /\ UNCHANGED <<cleans, call, calls, counted, executed, lost>>

Begins(m, path, price, at, result) ==
    /\ call.at = "done" /\ calls < MaxCalls
    /\ calls' = calls + 1
    /\ call' = [method |-> m, path |-> path, price |-> price, at |-> at,
                served |-> "none", result |-> result]
    /\ UNCHANGED <<patterns, default, cleans, counted, executed, lost>>

\* A ValueError from validate_path_param, before anything is sent.
Refuse(m, path) ==
    /\ Endpoint[m].checked /\ HasEmpty(path)
    /\ Begins(m, path, default, "done", "refused")

Send(m, path) ==
    /\ ~(Endpoint[m].checked /\ HasEmpty(path))
    /\ Begins(m, path, ResolveCost(Endpoint[m].verb, path), "sent", "none")

Ends(result, served) ==
    /\ call' = [call EXCEPT !.at = "done", !.served = served, !.result = result]
    /\ UNCHANGED <<patterns, default, cleans, calls>>

\* One more call of the method, in a tally of the counted ones.
Plus(tally) == [m \in Counted |-> IF m = call.method THEN tally[m] + 1 ELSE tally[m]]

\* Faulty variant: an answer is counted once it is known to be valid.
CountsValid(answer) ==
    counted' = IF Validates(ResponseModel[call.method], answer) THEN Plus(counted) ELSE counted

\* An order is counted as soon as there is an answer.
Counts(answer) == counted' = Plus(counted)

\* What the method makes of an answer: an error, an object with some of the fields
\* of its model, or one with none of them.
Outcome(answer) ==
    LET model == ResponseModel[call.method] IN
    CASE ~Validates(model, answer) -> "invalid"
      [] Validates(model, answer) /\ answer \cap (model.needs \cup model.may) = {} -> "empty"
      [] OTHER -> "ok"

\* The endpoint answers; the method counts, validates and returns.
Answer(m, answer) ==
    /\ Counts(answer) /\ executed' = Plus(executed) /\ UNCHANGED lost
    /\ Ends(Outcome(answer), m)

\* The endpoint executes the request, and the client learns only of an error.
Lose(m) ==
    /\ Ends("lost", m) /\ executed' = Plus(executed) /\ lost' = Plus(lost)
    /\ UNCHANGED counted

\* No route, or an error status: nothing was executed.
Fail == Ends("failed", "none") /\ UNCHANGED <<counted, executed, lost>>

Reply ==
    /\ call.at = "sent"
    /\ \/ \E m \in Routes(Endpoint[call.method].verb, Cleaned(call.path)) :
              Lose(m) \/ \E answer \in Answers(m) : Answer(m, answer)
       \/ Fail

Next ==
    \/ \E list \in PriceLists : Configure(list)
    \/ \E m \in Methods : \E path \in Paths(m) : Refuse(m, path) \/ Send(m, path)
    \/ Reply
    \/ call.at = "done" /\ calls = MaxCalls /\ UNCHANGED vars

Spec == Init /\ [][Next]_vars

-----------------------------------------------------------------------------
(* Properties.                                                             *)

\* "Each method maps to exactly one API endpoint" (README.md:11): with arguments
\* that name something, no request is captured by another method's endpoint,
\* although literal segments and parameters share their places (api/*.py).
OneEndpoint ==
    call.served # "none" /\ ~HasEmpty(call.path) => call.served = call.method

\* Where no function refuses an empty argument, the request may reach another
\* endpoint.  It then only reads, and nothing of its answer comes back as the
\* method's own, unless that was the answer's model anyway: it does not validate, or
\* the model requires nothing and the object comes back without content
\* (api/*.py, models/responses.py, http_client.py 390-831).
Strays ==
    call.served \notin {"none", call.method} =>
        /\ Endpoint[call.served].verb = "GET"
        /\ call.result = "ok" => ResponseModel[call.served] = ResponseModel[call.method]
        /\ call.result = "empty" => ResponseModel[call.method].needs = {}

\* The price of a method's own endpoint on the published list.
Owned(i, m) ==
    patterns[i].verb = Endpoint[m].verb /\ patterns[i].path = Endpoint[m].path
OwnPrice(m) ==
    LET own == {i \in DOMAIN patterns : Owned(i, m)}
    IN  IF own = {} THEN default ELSE patterns[Min(own)].price

\* The list names each literal path that a published ":param" path also fits, and
\* names it first.
Filled(path) == [k \in DOMAIN path |-> IF path[k] = Arg THEN Id ELSE path[k]]
Ordered ==
    \A i \in DOMAIN patterns, m \in Methods :
        i \in Hits(Endpoint[m].verb, Filled(Endpoint[m].path))
            => \E j \in DOMAIN patterns : j <= i /\ Owned(j, m)

\* On an ordered list, the first match charges every method the price of its own
\* endpoint, or the default if that is not listed (http_client.py 236-267).
OwnCharge ==
    call.at = "sent" /\ ~HasEmpty(call.path) /\ Ordered => call.price = OwnPrice(call.method)

\* What the published model says of its default: "Default token cost applied to
\* endpoints that are not listed" (models/responses.py:73).  The first match is
\* asked only for the path, so that an unlisted literal path is charged the price
\* of the listed ":param" path it fits (http_client.py 262-267).
UnlistedAtDefault ==
    call.at = "sent" /\ (\A i \in DOMAIN patterns : ~Owned(i, call.method))
        => call.price = default

\* orders_created and orders_cancelled miss exactly the orders whose answer was
\* lost: not those whose answer the client cannot read, and none is counted that was
\* not executed (http_client.py 428-436).
CountsMatch == \A m \in Counted : counted[m] + lost[m] = executed[m]

=============================================================================
