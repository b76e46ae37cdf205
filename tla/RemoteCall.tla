------------------------------ MODULE RemoteCall ------------------------------
(***************************************************************************)
(* What KalshiHttpClient promises of a call, whatever it does about rates, *)
(* prices and the configuration: the request is sent at most Attempts      *)
(* times, one attempt at a time; the call ends once, with the answer of    *)
(* the attempt under way or with an error; and the exchange executes it    *)
(* only in an attempt under way, or in one that the client gave up.        *)
(***************************************************************************)
EXTENDS Naturals

CONSTANTS
    Calls,    \* the calls the program makes
    Kinds,    \* what it calls; "create" changes something, "configure" sends nothing
    Attempts  \* how often a request may be sent

VARIABLES
    request, \* of each call, its kind, how it stands (an attempt is "away", the
             \* call has ended with a result, ...), and its attempts
    loose,   \* attempts at a change that were given up, not handled yet
    effects  \* how often the request was executed

vars == <<request, loose, effects>>

Init ==
    /\ request = [c \in Calls |->
           [kind |-> "none", stands |-> "new", attempts |-> 0]]
    /\ loose = [c \in Calls |-> 0]
    /\ effects = [c \in Calls |-> 0]

Ready(c) == request[c].stands = "open"
Away(c) == request[c].stands = "away"
Becomes(c, stands) == request' = [request EXCEPT ![c] = [@ EXCEPT !.stands = stands]]

Happens(c) == effects' = [effects EXCEPT ![c] = @ + 1]
MayHappen(c) == Happens(c) \/ UNCHANGED effects

\* The attempt under way is given up; a change may still come of it.
GivenUp(c) ==
    loose' = IF Away(c) /\ request[c].kind = "create"
             THEN [loose EXCEPT ![c] = @ + 1] ELSE loose

Begin(c, kind) ==
    /\ request[c].stands = "new"
    /\ request' = [request EXCEPT ![c] = [@ EXCEPT !.kind = kind, !.stands = "open"]]
    /\ UNCHANGED <<loose, effects>>

\* A cost that the budget cannot hold: nothing was sent.
Refuse(c) ==
    /\ Ready(c) /\ request[c].attempts = 0
    /\ Becomes(c, "refused")
    /\ UNCHANGED <<loose, effects>>

Attempt(c) ==
    /\ Ready(c) /\ request[c].kind # "configure" /\ request[c].attempts < Attempts
    /\ request' =
           [request EXCEPT ![c] =
               [@ EXCEPT !.attempts = request[c].attempts + 1, !.stands = "away"]]
    /\ UNCHANGED <<loose, effects>>

Answer(c) ==
    /\ Away(c)
    /\ Becomes(c, "ok") \/ Becomes(c, "invalid")
    /\ Happens(c) /\ UNCHANGED loose

Fail(c) ==
    /\ Away(c) /\ Becomes(c, "failed")
    /\ MayHappen(c) /\ UNCHANGED loose

\* No answer: another attempt, or the error of the last one.
Again(c, error) ==
    /\ Away(c)
    /\ Becomes(c, IF request[c].attempts < Attempts THEN "open" ELSE error)

TurnedAway(c) == Again(c, "too_many") /\ UNCHANGED <<loose, effects>>
Breaks(c) == Again(c, "network") /\ GivenUp(c) /\ UNCHANGED effects

\* configure_rate_limits returns whatever became of the configuration.
Configured(c) ==
    /\ Ready(c) /\ request[c].kind = "configure"
    /\ Becomes(c, "ok")
    /\ UNCHANGED <<loose, effects>>

Cancel(c) ==
    /\ Ready(c) \/ Away(c)
    /\ Becomes(c, "cancelled")
    /\ GivenUp(c) /\ UNCHANGED effects

Late(c) ==
    /\ loose[c] > 0
    /\ loose' = [loose EXCEPT ![c] = @ - 1]
    /\ MayHappen(c) /\ UNCHANGED request

Next ==
    \E c \in Calls :
        \/ \E kind \in Kinds : Begin(c, kind)
        \/ Refuse(c) \/ Attempt(c) \/ Answer(c) \/ Fail(c) \/ TurnedAway(c) \/ Breaks(c)
        \/ Configured(c) \/ Cancel(c) \/ Late(c)

Spec == Init /\ [][Next]_vars
=============================================================================
