-------------------------- MODULE MCStrategyManager --------------------------
(* Small instances of StrategyManager: a strategy of a cross and one that     *)
(* replaces it with the pair flipped; and strategies of two crosses.         *)
EXTENDS StrategyManager

CONSTANTS btc, kmd, eth

P(b, q) == [base |-> b, quote |-> q]
S(b, q, spr, two) == [pair |-> P(b, q), spread |-> spr, both |-> two]

MCSubmitted == {S(btc, kmd, 100, TRUE), S(kmd, btc, 1, FALSE)}
MCTwoCrosses == {S(btc, kmd, 1, TRUE), S(kmd, eth, 100, FALSE)}

\* The market moves between two prices for a pair; a pair of one asset is at par
MCPricesOf ==
    [p \in Pair |-> IF NoAsset \in CrossOf(p) THEN {}
                    ELSE IF p.base = p.quote THEN {1}
                    ELSE IF p.base = kmd THEN {4} ELSE {10, 20}]
MCSteadyPrices == [p \in Pair |-> IF MCPricesOf[p] = {} THEN {} ELSE {10}]

\* The factors 1000 - k and 1000 + k, k one of 1, 100, whose double is short
MCShort == {1001}
===============================================================================
