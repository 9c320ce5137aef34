--------------------------- MODULE MCMarketClient ---------------------------
(* Two symbols, one market, two authorizations; a provider that offers all   *)
(* tools, all that the operations map to, some of them, or none.             *)
EXTENDS MarketClient

CONSTANTS s1, s2, mk, h1, h2

MCOffers ==
    {Tool, Tool \ {"market_status"}, {"quote", "submit_order"}, {}}
=============================================================================
