----------------------------- MODULE MCGeneration -----------------------------
(* Small instances of Generation for TLC.                                  *)
EXTENDS Generation

Schema(kind, refs) == [kind |-> kind, refs |-> refs, any |-> FALSE]

\* "Side" is an enum, "Order", "Fill" and "Fills" are core schemas, "Subaccount" is
\* skipped, "Dollars" becomes str.  Cycles, aliases in a cycle, of a skipped schema, of
\* str and of Any, a model that uses Any, and a request that refers to a response occur
\* among them.
Base(order, fill, fills, ask) ==
    [Side |-> Schema("enum", {}), Subaccount |-> Schema("object", {}),
     Dollars |-> Schema("scalar", {}),
     Order |-> Schema("object", order), Fill |-> Schema("object", fill),
     Fills |-> fills,
     GetResponse |-> Schema("object", {"Order", "Fills"}),
     PutRequest |-> Schema("object", ask)]

MCFills ==
    {Schema("array", {n}) : n \in {"Fill", "Side", "Subaccount"}} \cup
    {Schema("array", {}), [Schema("array", {}) EXCEPT !.any = TRUE], Schema("scalar", {})}

MCFirstSpecs ==
    {Base(order, fill, fills, ask) :
        order \in SUBSET {"Fill", "Fills", "Subaccount"},
        fill \in {{"Dollars"}, {"Order"}, {"Fills", "Side"}},
        fills \in MCFills,
        ask \in {{"Side"}, {"GetResponse"}}}

\* Later: a schema of core is gone, or becomes an enum, or gets a dependency.
MCLaterSpecs ==
    {[Side |-> Schema("enum", {}), Fill |-> Schema("object", {"Side"}),
      GetResponse |-> Schema("object", {"Fill"})],
     [Order |-> Schema("enum", {}), Fill |-> Schema("object", {"Order"}),
      Fills |-> Schema("array", {"Fill"}), GetResponse |-> Schema("object", {"Fills", "Order"})],
     Base({"Fills"}, {"Side"}, Schema("array", {"Fill"}), {"Order"})}

\* The third one refers to a schema by a name that no class has.
MCWsSpecs ==
    {[Channel |-> {}, TickerMsg |-> {"Any"}, TickerPayload |-> {"TickerMsg"}],
     [Channel |-> {}, FillPayload |-> {}],
     [Channel |-> {}, FillPayload |-> {"tickerPayload"}, TickerPayload |-> {}]}
=============================================================================
