---------------------------- MODULE MCPriceService ----------------------------
(* A small instance of PriceService: two platforms, a tracked pair and one     *)
(* that no platform translates.                                                *)
EXTENDS PriceService

CONSTANTS coinpaprika, other, btckmd, unknown

MCPrices == {1, 4}
===============================================================================
