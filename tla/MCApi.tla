-------------------------------- MODULE MCApi --------------------------------
(* Small instances of Api for TLC.                                         *)
EXTENDS Api

\* Endpoints whose paths fit each other, and one that fits none of them, each with
\* a price of its own.
MCEntries ==
    {Entry("POST", <<"portfolio", "orders">>, 15),
     Entry("DELETE", <<"portfolio", "orders", Arg>>, 3),
     Entry("DELETE", <<"portfolio", "orders", "batched">>, 4),
     Entry("GET", <<"portfolio", "orders", Arg>>, 2),
     Entry("GET", <<"portfolio", "orders", "queue_positions">>, 5),
     Entry("GET", <<"markets", Arg>>, 6),
     Entry("GET", <<"markets", "trades">>, 7)}

\* Entries of different verbs do not meet.
MCPriceLists ==
    {<<e>> : e \in MCEntries} \cup
    {l \in MCEntries \X MCEntries : l[1] # l[2] /\ l[1].verb = l[2].verb}

\* The list of the tests (tests/test_http_client.py 976-983).
MCTestPrices ==
    {<<Entry("POST", <<"portfolio", "orders">>, 15),
       Entry("DELETE", <<"portfolio", "orders", Arg>>, 3),
       Entry("GET", <<"portfolio", "orders", Arg>>, 2)>>}
=============================================================================
