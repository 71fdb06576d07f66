------------------------------- MODULE Quoting -------------------------------
(***************************************************************************)
(* The price of a quote: make_bid and make_ask of the strategy manager and *)
(* the product of a price and a spread they rest on.  A spread is counted  *)
(* in thousandths, the unit the product works in.                          *)
(*                                                                         *)
(* The product turns the double spread * 1000 into an integer by           *)
(* truncation.  Short has the numbers of thousandths for which the double  *)
(* falls just below the integer it stands for: (1.0 + 0.001) * 1000 is     *)
(* 1000.9999999999999.  Nothing else of IEEE arithmetic is modelled, nor   *)
(* the wrap of uint128: a price is parsed from at most nineteen digits     *)
(* before the wrap can matter, and is multiplied by 2000 at most.          *)
(***************************************************************************)
EXTENDS Integers

CONSTANT Short

ASSUME ShortAssumption == Short \subseteq Nat /\ {0, 1000} \cap Short = {}

\* absl::uint128(spread.value() * dp)
Thousandths(k) == IF k \in Short THEN k - 1 ELSE k

\* price * spread
Times(price, k) == (price * Thousandths(k)) \div 1000

\* make_bid and make_ask; mutants: the operands of the subtraction swapped, and
\* the bid's modifier used for the ask
BidSwapped(mid, spread) == Times(mid, spread - 1000)
BidPrice(mid, spread) == Times(mid, 1000 - spread)
AskBelow(mid, spread) == Times(mid, 1000 - 2 * spread)
AskPrice(mid, spread) == Times(mid, 1000 + spread)

===============================================================================
