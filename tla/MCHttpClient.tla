---------------------------- MODULE MCHttpClient ----------------------------
(* Small instances of HttpClient for TLC.                                  *)
EXTENDS HttpClientCalls, TLC

Capacities(read, write) == [b \in Budgets |-> IF b = "read" THEN read ELSE write]

\* write_rate is below the default cost, as config.py lets it be; the published
\* read capacity is below the fallback, the published write capacity above.
MCFallback == Capacities(4, 1)
MCPublished == Capacities(3, 9)
\* One price above what the fallback would hold, in each budget.
MCPrice == [e \in Endpoints |-> CASE e = "create" -> 3 [] e = "read" -> 3 [] OTHER -> 1]
=============================================================================
