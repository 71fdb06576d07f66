------------------------------- MODULE PriceText -------------------------------
(***************************************************************************)
(* Prices as text (src/utils/antara.utils.cpp).  A price is an integer: it *)
(* counts units of ten to the minus the number of decimals of a coin.  The *)
(* functions read it from the text of a platform or of mm2 and write it    *)
(* for a client or for mm2; those that read are noexcept.                  *)
(*                                                                         *)
(* A decimal text is [n, s]: the digits of n, the last s of them after the *)
(* dot.  The digits themselves are not modelled one by one.                *)
(***************************************************************************)
EXTENDS Integers

CONSTANTS
    Terminates,   \* not a price: an exception left a noexcept function
    ShortLimit,   \* ten to the 19: what fewer than 20 digits can write
    PriceModulus  \* two to the 128, the range of absl::uint128

ASSUME TextAssumption ==
    /\ Terminates \notin Nat
    /\ ShortLimit \in Nat /\ PriceModulus \in Nat
    /\ ShortLimit <= PriceModulus

IsText(t) == t.n \in Nat /\ t.s \in Nat

\* Ten to the power k
Pow[k \in Nat] == IF k = 0 THEN 1 ELSE 10 * Pow[k - 1]

-------------------------------------------------------------------------------
(* Reading.                                                                 *)

\* my_json_sax: the last number of the body written with a fraction or an
\* exponent; the empty text if there is none, or if the body is no JSON.  A
\* number: its digits m, i of them before the dot and s after it, and an
\* exponent e (0 when it has none).  "plain" has no exponent.
Token(notation, m, i, s, e) == [notation |-> notation, m |-> m, i |-> i, s |-> s, e |-> e]
NoFloat == Token("none", 0, 0, 0, 0)

\* extract_if_scientific: the mantissa without its dot, after "0." and e - 1
\* zeros.  The sign of the exponent is skipped unread, and the mantissa is taken
\* to have one digit before its dot.  Mutant: one zero more.
LateDot(t) ==
    IF t.notation = "plain" THEN [n |-> t.m, s |-> t.s]
    ELSE [n |-> t.m, s |-> t.e + t.i + t.s]
Extracted(t) ==
    IF t.notation = "plain" THEN [n |-> t.m, s |-> t.s]
    ELSE [n |-> t.m, s |-> (IF t.e > 1 THEN t.e - 1 ELSE 0) + t.i + t.s]

\* BCMath::bcround and printf, half up, to w times fewer digits; mutant: truncation
Dropped(n, w) == n \div w
RoundedBy(n, w) == (2 * n + w) \div (2 * w)

\* format_str_api_price: the text with d decimals, without the dot and the zeros
\* in front; a price of zero leaves nothing
Formatted(text, d) ==
    IF text.s > d THEN RoundedBy(text.n, Pow[text.s - d])
    ELSE text.n * Pow[d - text.s]

\* Mutant: an empty text is a price of zero
ZeroIfEmpty(text, d) == Formatted(text, d) % PriceModulus

\* generate_st_price_from_api_price: stoull throws on an empty text
Generated(text, d) ==
    LET digits == Formatted(text, d)
    IN  IF digits = 0 THEN Terminates
        ELSE IF digits < ShortLimit THEN digits ELSE digits % PriceModulus

\* The price of a platform's answer
PriceOf(t, d) ==
    IF t.notation = "none" THEN Terminates ELSE Generated(Extracted(t), d)

-------------------------------------------------------------------------------
(* Writing.                                                                 *)

\* unformat_str_to_representation_price: price counts units of original
\* decimals, and no more than shown decimals are left
Represented(price, shown, original) ==
    IF original > shown THEN [n |-> price \div Pow[original - shown], s |-> shown]
    ELSE [n |-> price, s |-> original]

\* std::to_string of a double: always k decimals, rounded
StdToString(text, k) ==
    [n |-> IF text.s > k THEN RoundedBy(text.n, Pow[text.s - k])
           ELSE text.n * Pow[k - text.s],
     s |-> k]

-------------------------------------------------------------------------------
(* The reference.                                                           *)

\* How a platform writes a number that one double prints: a mantissa with one
\* digit before its dot, and scientific notation only for small numbers
Normal(t) ==
    \/ t = NoFloat
    \/ t.notation = "plain" /\ {t.m, t.s} \subseteq Nat
    \/ t.notation = "small" /\ {t.m, t.s, t.e} \subseteq Nat /\ t.i = 1 /\ t.e > 0

\* What it is worth: m over ten to the Scale
Scale(t) == IF t.notation = "small" THEN t.s + t.e ELSE t.s

\* price, in units of d decimals, is n over ten to the s up to half a unit
Near(price, d, n, s) ==
    LET gap == 2 * (price * Pow[s] - n * Pow[d]) IN gap <= Pow[s] /\ -gap <= Pow[s]
===============================================================================
