--------------------------- MODULE HttpClientCalls ---------------------------
(***************************************************************************)
(* The request engine as an implementation of RemoteCall: the lock, the    *)
(* fetches of a configuration, the prices and the limiter change nothing   *)
(* of what a call promises.                                                *)
(***************************************************************************)
EXTENDS HttpClient

\* How a call stands for its caller.  Attempts at a fetch are not the call's own.
Standing(c) ==
    CASE call[c].at = "new" -> "new"
      [] call[c].at = "done" -> call[c].result
      [] call[c].at = "sent" /\ call[c].stage = "own" -> "away"
      [] OTHER -> "open"
Sendings(c) ==
    IF call[c].stage = "own" /\ call[c].kind # "configure" THEN call[c].tries ELSE 0
Seen(c) == [kind |-> call[c].kind, stands |-> Standing(c), attempts |-> Sendings(c)]
Requested == [c \in Calls |-> Seen(c)]

Abstract == INSTANCE RemoteCall WITH
    Attempts <- MaxRetries + 1,
    request <- Requested, loose <- abandoned, effects <- executed

\* However a call is configured, priced, made to wait, retried and cancelled, it is
\* sent at most max_retries + 1 times, ends once, and is executed only in an attempt
\* under way or one given up before; the requests of a configuration are no part of
\* it (http_client.py 195-356).
Implements == Abstract!Spec
=============================================================================
