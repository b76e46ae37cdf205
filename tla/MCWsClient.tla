------------------------------ MODULE MCWsClient ------------------------------
(* Small instances of WsClient for TLC.                                    *)
EXTENDS WsClient, TLC

CONSTANTS m1, m2
MCMarkets == {m1, m2}
MCOneMarket == {m1}
MarketSymmetry == Permutations(MCMarkets)
=============================================================================
