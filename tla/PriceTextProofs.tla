---------------------------- MODULE PriceTextProofs ----------------------------
(***************************************************************************)
(* What the conversions of antara.utils do to a price, for texts of any    *)
(* length and coins of any decimals: reading finds the nearest price, and  *)
(* nothing but a price below half a unit is lost.                          *)
(*                                                                         *)
(* The powers of ten are a recursive function.  The induction it needs     *)
(* speaks of sets, not of predicates: first-order provers can use it.      *)
(***************************************************************************)
EXTENDS PriceText, TLAPS, WellFoundedInduction

-------------------------------------------------------------------------------
(* Induction over the natural numbers.                                      *)

Less == {pair \in Nat \X Nat : pair[1] < pair[2]}

LEMMA LessIsWellFounded == IsWellFoundedOn(Less, Nat)
  BY NatLessThanWellFounded DEF OpToRel, Less

\* A set of natural numbers has a least one.
LEMMA LeastOf ==
    ASSUME NEW T, T \subseteq Nat, T # {}
    PROVE  \E x \in T : \A y \in T : x <= y
<1>1. PICK x \in T : \A y \in T : ~(<<y, x>> \in Less)
  BY LessIsWellFounded, WFMin
<1>2. ASSUME NEW y \in T PROVE x <= y
  <2>1. <<y, x>> \in Nat \X Nat
    BY <1>2
  <2>2. ~(y < x)
    BY <1>1, <2>1 DEF Less
  <2> QED
    BY <2>2
<1> QED
  BY <1>2

\* A set that has 0, and the successor of each number it has, has them all.
LEMMA Induction ==
    ASSUME NEW T, 0 \in T, \A n \in Nat : n \in T => n + 1 \in T
    PROVE  \A n \in Nat : n \in T
<1> SUFFICES ASSUME NEW m \in Nat \ T PROVE FALSE
  OBVIOUS
<1> DEFINE missing == Nat \ T
<1>1. PICK x \in missing : \A y \in missing : x <= y
  <2>1. missing \subseteq Nat /\ missing # {}
    OBVIOUS
  <2> HIDE DEF missing
  <2> QED
    BY <2>1, LeastOf
<1>2. x # 0 /\ x - 1 \in Nat
  OBVIOUS
<1>3. x - 1 \in T
  BY <1>1, <1>2
<1>4. (x - 1) + 1 \in T
  BY <1>2, <1>3
<1> QED
  BY <1>1, <1>4

-------------------------------------------------------------------------------
(* The powers of ten: there is one function that satisfies the recursion,   *)
(* glued from those that satisfy it up to n.                                *)

UpTo(n) == {g \in [0 .. n -> Nat] :
               \A k \in 0 .. n : g[k] = IF k = 0 THEN 1 ELSE 10 * g[k - 1]}

LEMMA UpToExists == \A n \in Nat : UpTo(n) # {}
<1> DEFINE T == {n \in Nat : UpTo(n) # {}}
<1>1. 0 \in T
  <2>1. [k \in 0 .. 0 |-> 1] \in UpTo(0)
    BY DEF UpTo
  <2> QED
    BY <2>1
<1>2. ASSUME NEW n \in Nat, n \in T PROVE n + 1 \in T
  <2>1. PICK g : g \in UpTo(n)
    BY <1>2
  <2> DEFINE h == [k \in 0 .. n + 1 |-> IF k = 0 THEN 1 ELSE 10 * g[k - 1]]
  <2>2. /\ g \in [0 .. n -> Nat]
        /\ \A k \in 0 .. n : g[k] = IF k = 0 THEN 1 ELSE 10 * g[k - 1]
    BY <2>1 DEF UpTo
  <2>3. \A k \in 0 .. n : h[k] = g[k]
    BY <2>2
  <2>4. ASSUME NEW k \in 0 .. n + 1, k # 0 PROVE h[k] = 10 * h[k - 1] /\ h[k] \in Nat
    <3>1. k - 1 \in 0 .. n
      BY <2>4
    <3> QED
      BY <2>2, <2>3, <2>4, <3>1
  <2>5. h[0] = 1 /\ h \in [0 .. n + 1 -> Nat]
    <3>1. h[0] = 1
      OBVIOUS
    <3>2. ASSUME NEW k \in 0 .. n + 1 PROVE h[k] \in Nat
      BY <2>4, <3>1, <3>2
    <3> QED
      BY <3>1, <3>2
  <2> HIDE DEF h
  <2>6. h \in UpTo(n + 1)
    BY <2>4, <2>5 DEF UpTo
  <2> QED
    BY <2>6
<1> HIDE DEF T
<1>3. \A n \in Nat : n \in T
  BY <1>1, <1>2, Induction
<1> QED
  BY <1>3 DEF T

LEMMA UpToAgree ==
    ASSUME NEW m \in Nat, NEW n \in Nat, NEW g \in UpTo(m), NEW h \in UpTo(n)
    PROVE  \A k \in Nat : k <= m /\ k <= n => g[k] = h[k]
<1> DEFINE T == {k \in Nat : k <= m /\ k <= n => g[k] = h[k]}
<1>1. 0 \in T
  BY DEF UpTo
<1>2. ASSUME NEW k \in Nat, k \in T PROVE k + 1 \in T
  <2> SUFFICES ASSUME k + 1 <= m, k + 1 <= n PROVE g[k + 1] = h[k + 1]
    OBVIOUS
  <2>1. /\ k + 1 \in 0 .. m /\ k + 1 \in 0 .. n
        /\ k + 1 # 0 /\ (k + 1) - 1 = k
    OBVIOUS
  <2>2. g[k] = h[k]
    BY <1>2
  <2>3. g[k + 1] = 10 * g[(k + 1) - 1] /\ h[k + 1] = 10 * h[(k + 1) - 1]
    BY <2>1 DEF UpTo
  <2> QED
    BY <2>1, <2>2, <2>3
<1> HIDE DEF T
<1>3. \A k \in Nat : k \in T
  BY <1>1, <1>2, Induction
<1> QED
  BY <1>3 DEF T

LEMMA PowRecursion == Pow = [k \in Nat |-> IF k = 0 THEN 1 ELSE 10 * Pow[k - 1]]
<1> DEFINE upTo(n) == CHOOSE g : g \in UpTo(n)
           f == [n \in Nat |-> upTo(n)[n]]
<1>1. ASSUME NEW n \in Nat PROVE upTo(n) \in UpTo(n)
  BY UpToExists
<1>2. f[0] = 1
  <2>1. upTo(0) \in UpTo(0)
    BY <1>1
  <2>2. \A g \in UpTo(0) : g[0] = 1
    BY DEF UpTo
  <2> QED
    BY <2>1, <2>2
<1>3. ASSUME NEW n \in Nat, n # 0 PROVE f[n] = 10 * f[n - 1]
  <2> DEFINE g == upTo(n)
             h == upTo(n - 1)
  <2>1. n - 1 \in Nat
    BY <1>3
  <2>2. g \in UpTo(n) /\ h \in UpTo(n - 1)
    BY <1>1, <2>1
  <2>3. f[n] = g[n] /\ f[n - 1] = h[n - 1]
    BY <2>1
  <2> HIDE DEF g, h, f
  <2>4. g[n - 1] = h[n - 1]
    BY <2>1, <2>2, UpToAgree
  <2>5. g[n] = 10 * g[n - 1]
    BY <1>3, <2>2 DEF UpTo
  <2> QED
    BY <2>3, <2>4, <2>5
<1>4. f = [n \in Nat |-> f[n]]
  OBVIOUS
<1> HIDE DEF f
<1>5. f = [k \in Nat |-> IF k = 0 THEN 1 ELSE 10 * f[k - 1]]
  BY <1>2, <1>3, <1>4
<1>6. \E p : p = [k \in Nat |-> IF k = 0 THEN 1 ELSE 10 * p[k - 1]]
  BY <1>5
<1> QED
  BY <1>6 DEF Pow

LEMMA PowPositive == \A k \in Nat : Pow[k] \in Nat /\ Pow[k] > 0
<1> DEFINE T == {k \in Nat : Pow[k] \in Nat /\ Pow[k] > 0}
<1>1. 0 \in T
  BY PowRecursion
<1>2. ASSUME NEW k \in Nat, k \in T PROVE k + 1 \in T
  <2>1. k + 1 \in Nat /\ k + 1 # 0 /\ (k + 1) - 1 = k
    OBVIOUS
  <2>2. Pow[k + 1] = 10 * Pow[k]
    BY <2>1, PowRecursion
  <2> QED
    BY <1>2, <2>2
<1> HIDE DEF T
<1>3. \A k \in Nat : k \in T
  BY <1>1, <1>2, Induction
<1> QED
  BY <1>3 DEF T

LEMMA PowSum == \A a, b \in Nat : Pow[a + b] = Pow[a] * Pow[b]
<1> SUFFICES ASSUME NEW a \in Nat PROVE \A b \in Nat : Pow[a + b] = Pow[a] * Pow[b]
  OBVIOUS
<1> DEFINE T == {b \in Nat : Pow[a + b] = Pow[a] * Pow[b]}
<1>1. 0 \in T
  <2>1. Pow[0] = 1 /\ Pow[a] \in Nat
    BY PowRecursion, PowPositive
  <2> QED
    BY <2>1
<1>2. ASSUME NEW b \in Nat, b \in T PROVE b + 1 \in T
  <2>1. /\ b + 1 \in Nat /\ b + 1 # 0 /\ (b + 1) - 1 = b
        /\ a + (b + 1) \in Nat /\ a + (b + 1) # 0 /\ (a + (b + 1)) - 1 = a + b
    OBVIOUS
  <2>2. Pow[b + 1] = 10 * Pow[b] /\ Pow[a + (b + 1)] = 10 * Pow[a + b]
    BY <2>1, PowRecursion
  <2>3. Pow[a] \in Nat /\ Pow[b] \in Nat
    BY PowPositive
  <2>4. Pow[a + b] = Pow[a] * Pow[b]
    BY <1>2
  <2>5. \A x, y \in Nat : 10 * (x * y) = x * (10 * y)
    BY SMT
  <2> QED
    BY <2>2, <2>3, <2>4, <2>5
<1> HIDE DEF T
<1>3. \A b \in Nat : b \in T
  BY <1>1, <1>2, Induction
<1> QED
  BY <1>3 DEF T

LEMMA PowSplit ==
    ASSUME NEW a \in Nat, NEW b \in Nat, b <= a
    PROVE  Pow[a - b] \in Nat \ {0} /\ Pow[a] = Pow[b] * Pow[a - b]
<1> DEFINE c == a - b
<1>1. c \in Nat /\ b + c = a
  OBVIOUS
<1> HIDE DEF c
<1>2. Pow[c] \in Nat \ {0}
  BY <1>1, PowPositive
<1>3. Pow[b + c] = Pow[b] * Pow[c]
  BY <1>1, PowSum
<1> QED
  BY <1>1, <1>2, <1>3 DEF c

-------------------------------------------------------------------------------
(* Rounding.                                                                *)

LEMMA TimesIsMonotone ==
    ASSUME NEW a \in Int, NEW b \in Int, NEW c \in Nat, a <= b
    PROVE  a * c \in Int /\ b * c \in Int /\ a * c <= b * c
<1>1. (b - a) * c >= 0
  BY SMT
<1>2. (b - a) * c = b * c - a * c
  BY SMT
<1> QED
  BY <1>1, <1>2

LEMMA TimesIsStrict ==
    ASSUME NEW a \in Int, NEW b \in Int, NEW c \in Nat \ {0}, a < b
    PROVE  a * c \in Int /\ b * c \in Int /\ a * c < b * c
<1>1. (b - a) * c > 0
  BY SMT
<1>2. (b - a) * c = b * c - a * c /\ a * c \in Int /\ b * c \in Int
  BY SMT
<1> QED
  BY <1>1, <1>2

\* Dropping digits moves a number by half a unit of what is left at most: the step by
\* which format_str_api_price and std::to_string may change a price.
THEOREM HalfAUnit ==
    ASSUME NEW n \in Nat, NEW w \in Nat \ {0}
    PROVE  LET r == RoundedBy(n, w)
           IN  r \in Nat /\ 2 * (r * w - n) <= w /\ 2 * (n - r * w) <= w
<1> DEFINE r == RoundedBy(n, w)
<1>1. 2 * n + w \in Nat /\ 2 * w \in Nat \ {0}
  OBVIOUS
<1>2. ASSUME NEW a \in Nat, NEW b \in Nat \ {0}
      PROVE  a \div b \in Nat /\ (a \div b) * b <= a /\ a < (a \div b) * b + b
  BY <1>2, SMT
<1>3. r \in Nat /\ r * (2 * w) <= 2 * n + w /\ 2 * n + w < r * (2 * w) + 2 * w
  BY <1>1, <1>2 DEF RoundedBy
<1> HIDE DEF r
<1>4. r * (2 * w) = 2 * (r * w) /\ r * w \in Nat
  BY <1>3, SMT
<1> DEFINE p == r * w
<1>5. p \in Nat /\ 2 * p <= 2 * n + w /\ 2 * n + w < 2 * p + 2 * w
  BY <1>3, <1>4
<1> HIDE DEF p
<1>6. 2 * (p - n) <= w /\ 2 * (n - p) <= w
  BY <1>5, SMT
<1> QED
  BY <1>3, <1>6 DEF p, r

\* What is less than so many and a half rounds to no more, strictly.
LEMMA RoundedAbove ==
    ASSUME NEW n \in Nat, NEW w \in Nat \ {0}
    PROVE  LET r == RoundedBy(n, w) IN r \in Nat /\ 2 * n < (2 * r + 1) * w
<1> DEFINE r == RoundedBy(n, w)
<1>1. 2 * n + w \in Nat /\ 2 * w \in Nat \ {0}
  OBVIOUS
<1>2. ASSUME NEW a \in Nat, NEW b \in Nat \ {0}
      PROVE  a \div b \in Nat /\ a < (a \div b) * b + b
  BY <1>2, SMT
<1>3. r \in Nat /\ 2 * n + w < r * (2 * w) + 2 * w
  BY <1>1, <1>2 DEF RoundedBy
<1> HIDE DEF r
<1>4. r * (2 * w) + 2 * w = (2 * r + 1) * w + w /\ (2 * r + 1) * w \in Nat
  BY <1>3, SMT
<1> DEFINE p == (2 * r + 1) * w
<1>5. p \in Nat /\ 2 * n + w < p + w
  BY <1>3, <1>4
<1> HIDE DEF p
<1>6. 2 * n < p
  BY <1>5
<1> QED
  BY <1>3, <1>6 DEF p, r

-------------------------------------------------------------------------------
(* Reading a text in units of d decimals, which also is writing it with d   *)
(* decimals.                                                                *)

\* The price read is the nearest there is.
LEMMA FormattedIsNear ==
    ASSUME NEW text, IsText(text), NEW d \in Nat
    PROVE  Formatted(text, d) \in Nat /\ Near(Formatted(text, d), d, text.n, text.s)
<1> DEFINE n == text.n
           s == text.s
           price == Formatted(text, d)
<1>1. n \in Nat /\ s \in Nat
  BY DEF IsText
<1>2. /\ Pow[s] \in Nat /\ Pow[d] \in Nat
      /\ Pow[s] > 0 /\ Pow[d] > 0
  BY <1>1, PowPositive
<1>3. CASE s > d
  <2> DEFINE w == Pow[s - d]
  <2>2. w \in Nat \ {0} /\ Pow[s] = Pow[d] * w
    BY <1>1, <1>3, PowSplit
  <2>3. price = RoundedBy(n, w)
    BY <1>3 DEF Formatted
  <2> HIDE DEF w, price
  <2>4. price \in Nat /\ 2 * (price * w - n) <= w /\ 2 * (n - price * w) <= w
    BY <1>1, <2>2, <2>3, HalfAUnit
  <2> DEFINE g == price * w - n
  <2>5. price * w \in Nat /\ g \in Int
    <3>1. \A x, y \in Nat : x * y \in Nat
      BY SMT
    <3> QED
      BY <1>1, <2>2, <2>4, <3>1
  <2>6. price * Pow[s] - n * Pow[d] = g * Pow[d]
    <3>1. \A p, x, y, z \in Int : p * (y * x) - z * y = (p * x - z) * y
      BY SMT
    <3> QED
      BY <1>1, <1>2, <2>2, <2>4, <3>1
  <2>7. 2 * g <= w /\ -(2 * g) <= w
    <3> DEFINE q == price * w
    <3>1. q \in Nat /\ 2 * (q - n) <= w /\ 2 * (n - q) <= w
      BY <2>4, <2>5
    <3> HIDE DEF q
    <3>2. 2 * (q - n) <= w /\ -(2 * (q - n)) <= w
      BY <1>1, <2>2, <3>1
    <3> QED
      BY <3>2 DEF q
  <2> HIDE DEF g
  <2>8. (2 * g) * Pow[d] <= w * Pow[d] /\ (-(2 * g)) * Pow[d] <= w * Pow[d]
    BY <1>2, <2>2, <2>5, <2>7, TimesIsMonotone
  <2>9. /\ w * Pow[d] = Pow[s]
        /\ (2 * g) * Pow[d] = 2 * (g * Pow[d])
        /\ (-(2 * g)) * Pow[d] = -(2 * (g * Pow[d]))
    <3>1. \A x, y \in Int : /\ x * y = y * x
                            /\ (2 * x) * y = 2 * (x * y)
                            /\ (-(2 * x)) * y = -(2 * (x * y))
      BY SMT
    <3> QED
      BY <1>2, <2>2, <2>5, <3>1
  <2>10. Near(price, d, n, s)
    BY <2>6, <2>8, <2>9 DEF Near
  <2> QED
    BY <2>4, <2>10 DEF price
<1>4. CASE s <= d
  <2> DEFINE w == Pow[d - s]
  <2>2. w \in Nat /\ Pow[d] = Pow[s] * w
    BY <1>1, <1>4, PowSplit
  <2>3. price = n * w
    BY <1>1, <1>4 DEF Formatted
  <2> HIDE DEF w, price
  <2>4. price \in Nat /\ price * Pow[s] = n * Pow[d]
    <3>1. \A x, y, z \in Nat : x * y \in Nat /\ (x * y) * z = x * (z * y)
      BY SMT
    <3> QED
      BY <1>1, <1>2, <2>2, <2>3, <3>1
  <2>5. n * Pow[d] \in Int
    BY <1>1, <1>2, SMT
  <2> DEFINE p == n * Pow[d]
  <2>6. p \in Int /\ 2 * (p - p) <= Pow[s] /\ -(2 * (p - p)) <= Pow[s]
    <3>1. p \in Int
      BY <2>5
    <3> HIDE DEF p
    <3> QED
      BY <1>2, <3>1
  <2>7. Near(price, d, n, s)
    BY <2>4, <2>6 DEF Near
  <2> QED
    BY <2>4, <2>7 DEF price
<1> QED
  BY <1>1, <1>3, <1>4

\* A text is worth less than half a unit more than the price read.
LEMMA FormattedAbove ==
    ASSUME NEW text, IsText(text), NEW d \in Nat
    PROVE  2 * (text.n * Pow[d]) < (2 * Formatted(text, d) + 1) * Pow[text.s]
<1> DEFINE n == text.n
           s == text.s
           price == Formatted(text, d)
<1>1. n \in Nat /\ s \in Nat
  BY DEF IsText
<1>2. Pow[s] \in Nat \ {0} /\ Pow[d] \in Nat \ {0} /\ price \in Nat
  BY <1>1, PowPositive, FormattedIsNear
<1>3. CASE s > d
  <2> DEFINE w == Pow[s - d]
  <2>1. w \in Nat \ {0} /\ Pow[s] = Pow[d] * w
    BY <1>1, <1>3, PowSplit
  <2>2. price = RoundedBy(n, w)
    BY <1>3 DEF Formatted
  <2> HIDE DEF w, price
  <2>3. 2 * n < (2 * price + 1) * w
    BY <1>1, <2>1, <2>2, RoundedAbove
  <2>5. \A x, y \in Nat : x * y \in Nat
    BY SMT
  <2>6. 2 * n \in Nat /\ (2 * price + 1) * w \in Nat
    BY <1>1, <1>2, <2>1, <2>5
  <2>7. (2 * n) * Pow[d] < ((2 * price + 1) * w) * Pow[d]
    BY <1>2, <2>3, <2>6, TimesIsStrict
  <2>8. \A x, y, z \in Nat : (2 * x) * y = 2 * (x * y) /\ (x * y) * z = x * (z * y)
    BY SMT
  <2>9. (2 * n) * Pow[d] = 2 * (n * Pow[d])
    BY <1>1, <1>2, <2>8
  <2>10. ((2 * price + 1) * w) * Pow[d] = (2 * price + 1) * Pow[s]
    <3>1. 2 * price + 1 \in Nat
      BY <1>2
    <3> QED
      BY <1>2, <2>1, <2>8, <3>1
  <2> QED
    BY <2>7, <2>9, <2>10 DEF price
<1>4. CASE s <= d
  <2> DEFINE w == Pow[d - s]
  <2>1. w \in Nat /\ Pow[d] = Pow[s] * w
    BY <1>1, <1>4, PowSplit
  <2>2. price = n * w
    BY <1>1, <1>4 DEF Formatted
  <2> HIDE DEF w, price
  <2>3. price * Pow[s] = n * Pow[d]
    <3>1. \A x, y, z \in Nat : (x * y) * z = x * (z * y)
      BY SMT
    <3> QED
      BY <1>1, <1>2, <2>1, <2>2, <3>1
  <2>4. (2 * price + 1) * Pow[s] = 2 * (price * Pow[s]) + Pow[s] /\ price * Pow[s] \in Nat
    BY <1>2, SMT
  <2> DEFINE p == price * Pow[s]
  <2>5. p \in Nat
    BY <2>4
  <2> HIDE DEF p
  <2>6. 2 * p < 2 * p + Pow[s]
    BY <1>2, <2>5
  <2> QED
    BY <2>3, <2>4, <2>6 DEF p, price
<1> QED
  BY <1>1, <1>3, <1>4

\* Only a price of less than half a unit is read as zero.
LEMMA FormattedIsZero ==
    ASSUME NEW text, IsText(text), NEW d \in Nat, Formatted(text, d) = 0
    PROVE  2 * (text.n * Pow[d]) < Pow[text.s]
<1>1. Pow[text.s] \in Nat
  BY PowPositive DEF IsText
<1>2. (2 * 0 + 1) * Pow[text.s] = Pow[text.s]
  BY <1>1
<1> QED
  BY <1>2, FormattedAbove

\* In the range of its type the integer is what its digits say.
LEMMA GeneratedIs ==
    ASSUME NEW text, IsText(text), NEW d \in Nat, Formatted(text, d) < PriceModulus
    PROVE  Generated(text, d) =
               IF Formatted(text, d) = 0 THEN Terminates ELSE Formatted(text, d)
<1>1. Formatted(text, d) \in Nat
  BY FormattedIsNear
<1>2. \A x, y \in Nat : x < y => x % y = x
  BY SMT
<1> QED
  BY <1>1, <1>2, TextAssumption DEF Generated

\* A price written with the decimals of its coin is read as itself.
THEOREM WrittenIsRead ==
    ASSUME NEW price \in Nat \ {0}, price < PriceModulus, NEW d \in Nat
    PROVE  Generated(Represented(price, d, d), d) = price
<1> DEFINE text == Represented(price, d, d)
<1>1. text = [n |-> price, s |-> d]
  BY DEF Represented
<1>2. Formatted(text, d) = price
  <2>1. Pow[d - d] = 1
    BY PowRecursion
  <2> QED
    BY <1>1, <2>1 DEF Formatted
<1>3. IsText(text)
  BY <1>1 DEF IsText
<1> QED
  BY <1>2, <1>3, GeneratedIs

-------------------------------------------------------------------------------
(* A price that std::to_string writes with k decimals and that is read in   *)
(* units of d decimals is rounded twice.                                    *)

LEMMA ToStringIsFormatted ==
    ASSUME NEW text, IsText(text), NEW k \in Nat
    PROVE  /\ IsText(StdToString(text, k))
           /\ StdToString(text, k).s = k
           /\ StdToString(text, k).n = Formatted(text, k)
  BY FormattedIsNear DEF StdToString, Formatted, IsText

\* The two roundings add up.
THEOREM TwiceRounded ==
    ASSUME NEW text, IsText(text), NEW k \in Nat, NEW d \in Nat
    PROVE  LET price == Formatted(StdToString(text, k), d)
               gap == 2 * (price * Pow[text.s + k] - text.n * Pow[d + k])
               bound == Pow[text.s + k] + Pow[d + text.s]
           IN  price \in Nat /\ gap <= bound /\ -gap <= bound
<1> DEFINE n == text.n
           s == text.s
           q == Formatted(text, k)
           price == Formatted(StdToString(text, k), d)
<1>1. n \in Nat /\ s \in Nat
  BY DEF IsText
<1>2. Pow[s] \in Nat /\ Pow[k] \in Nat /\ Pow[d] \in Nat
  BY <1>1, PowPositive
<1>3. Pow[s + k] = Pow[s] * Pow[k] /\ Pow[d + k] = Pow[d] * Pow[k] /\ Pow[d + s] = Pow[d] * Pow[s]
  BY <1>1, PowSum
<1>4. q \in Nat /\ Near(q, k, n, s)
  BY FormattedIsNear
<1>5. price \in Nat /\ Near(price, d, q, k)
  BY ToStringIsFormatted, FormattedIsNear
<1> HIDE DEF n, s, q, price
<1> DEFINE g == q * Pow[s] - n * Pow[k]
           h == price * Pow[k] - q * Pow[d]
<1>6. /\ g \in Int /\ 2 * g <= Pow[s] /\ -(2 * g) <= Pow[s]
      /\ h \in Int /\ 2 * h <= Pow[k] /\ -(2 * h) <= Pow[k]
  <2>1. \A x, y, z, u \in Nat : x * y - z * u \in Int
    BY SMT
  <2> QED
    BY <1>1, <1>2, <1>4, <1>5, <2>1 DEF Near
<1>7. price * Pow[s + k] - n * Pow[d + k] = h * Pow[s] + g * Pow[d]
  <2>1. \A x, y, z, a, b, c \in Nat :
            x * (a * b) - z * (c * b) = (x * b - y * c) * a + (y * a - z * b) * c
    BY SMT
  <2> QED
    BY <1>1, <1>2, <1>3, <1>4, <1>5, <2>1
<1> HIDE DEF g, h
<1>8. /\ (2 * h) * Pow[s] <= Pow[k] * Pow[s] /\ (-(2 * h)) * Pow[s] <= Pow[k] * Pow[s]
      /\ (2 * g) * Pow[d] <= Pow[s] * Pow[d] /\ (-(2 * g)) * Pow[d] <= Pow[s] * Pow[d]
  BY <1>2, <1>6, TimesIsMonotone
<1> DEFINE x == h * Pow[s]
           y == g * Pow[d]
           a == Pow[s + k]
           b == Pow[d + s]
<1>9. /\ x \in Int /\ y \in Int /\ a \in Nat /\ b \in Nat
      /\ 2 * x <= a /\ -(2 * x) <= a /\ 2 * y <= b /\ -(2 * y) <= b
  <2>1. \A u, v \in Int : /\ u * v \in Int /\ u * v = v * u
                          /\ (2 * u) * v = 2 * (u * v) /\ (-(2 * u)) * v = -(2 * (u * v))
    BY SMT
  <2> QED
    BY <1>1, <1>2, <1>3, <1>6, <1>8, <2>1, PowPositive
<1> HIDE DEF x, y, a, b
<1>10. 2 * (x + y) <= a + b /\ -(2 * (x + y)) <= a + b
  BY <1>9
<1> QED
  BY <1>5, <1>7, <1>10 DEF x, y, a, b, price, n, s

\* And only a price of less than half a unit of either decimals is lost.
LEMMA TwiceZero ==
    ASSUME NEW text, IsText(text), NEW k \in Nat, NEW d \in Nat,
           Formatted(StdToString(text, k), d) = 0
    PROVE  \/ 2 * (text.n * Pow[d]) < Pow[text.s]
           \/ 2 * (text.n * Pow[k]) < Pow[text.s]
<1> DEFINE n == text.n
           s == text.s
           q == Formatted(text, k)
<1>1. n \in Nat /\ s \in Nat
  BY DEF IsText
<1>2. Pow[s] \in Nat \ {0} /\ Pow[k] \in Nat \ {0} /\ Pow[d] \in Nat \ {0}
  BY <1>1, PowPositive
<1>3. q \in Nat /\ 2 * (n * Pow[k]) < (2 * q + 1) * Pow[s]
  BY FormattedIsNear, FormattedAbove
<1>4. 2 * (q * Pow[d]) < Pow[k]
  BY ToStringIsFormatted, FormattedIsZero
<1> HIDE DEF n, s, q
<1>5. CASE q = 0
  <2>1. (2 * q + 1) * Pow[s] = Pow[s]
    BY <1>2, <1>5
  <2> QED
    BY <1>3, <2>1 DEF n, s
<1>6. CASE q # 0
  <2>1. d < k
    <3> SUFFICES ASSUME k <= d PROVE FALSE
      OBVIOUS
    <3> DEFINE w == Pow[d - k]
    <3>1. w \in Nat \ {0} /\ Pow[d] = Pow[k] * w
      BY PowSplit
    <3> HIDE DEF w
    <3>2. \A x, y, z \in Nat \ {0} : 2 * (x * (y * z)) >= y
      <4> SUFFICES ASSUME NEW x \in Nat \ {0}, NEW y \in Nat \ {0}, NEW z \in Nat \ {0}
                   PROVE  2 * (x * (y * z)) >= y
        OBVIOUS
      <4>1. x * z \in Nat /\ x * z >= 1
        BY SMT
      <4> DEFINE u == x * z
      <4>2. u \in Nat /\ u >= 1
        BY <4>1
      <4>3. x * (y * z) = u * y
        BY SMT
      <4> HIDE DEF u
      <4>4. 1 * y <= u * y /\ u * y \in Int
        BY <4>2, TimesIsMonotone
      <4> QED
        BY <4>3, <4>4
    <3> QED
      BY <1>2, <1>3, <1>4, <1>6, <3>1, <3>2
  <2> DEFINE w == Pow[k - d]
  <2>2. w \in Nat \ {0} /\ Pow[k] = Pow[d] * w
    BY <2>1, PowSplit
  <2> HIDE DEF w
  <2>3. 2 * q + 1 <= w
    <3> SUFFICES ASSUME w <= 2 * q PROVE FALSE
      BY <1>3, <2>2
    <3>1. w * Pow[d] <= (2 * q) * Pow[d] /\ w * Pow[d] \in Int
      BY <1>2, <1>3, <2>2, TimesIsMonotone
    <3>2. \A x, y \in Nat : (2 * x) * y = 2 * (x * y) /\ x * y = y * x /\ x * y \in Nat
      BY SMT
    <3> QED
      BY <1>2, <1>3, <1>4, <2>2, <3>1, <3>2
  <2>4. (2 * q + 1) * Pow[d] <= w * Pow[d]
    BY <1>2, <1>3, <2>2, <2>3, TimesIsMonotone
  <2>5. w * Pow[d] = Pow[k]
    BY <1>2, <2>2, SMT
  <2> DEFINE m == 2 * q + 1
  <2>6. m \in Nat /\ m * Pow[d] \in Nat /\ m * Pow[d] <= Pow[k]
    <3>1. m \in Nat
      BY <1>3
    <3>2. \A x, y \in Nat : x * y \in Nat
      BY SMT
    <3> QED
      BY <1>2, <2>4, <2>5, <3>1, <3>2
  <2>7. 2 * (n * Pow[k]) < m * Pow[s]
    BY <1>3
  <2> HIDE DEF m
  <2>8. (m * Pow[d]) * Pow[s] <= Pow[k] * Pow[s]
    BY <1>2, <2>6, TimesIsMonotone
  <2> SUFFICES ASSUME Pow[s] <= 2 * (n * Pow[d]) PROVE FALSE
    <3>1. 2 * (n * Pow[d]) \in Nat
      <4>1. \A x, y \in Nat : 2 * (x * y) \in Nat
        BY SMT
      <4> QED
        BY <1>1, <1>2, <4>1 DEF n, s
    <3> QED
      BY <1>2, <3>1 DEF n, s
  <2>9. n \in Nat
    BY <1>1 DEF n
  <2>10. Pow[s] * Pow[k] <= (2 * (n * Pow[d])) * Pow[k]
    <3>1. 2 * (n * Pow[d]) \in Int
      BY <1>2, <2>9, SMT
    <3> QED
      BY <1>2, <3>1, TimesIsMonotone
  <2>11. (2 * (n * Pow[k])) * Pow[d] < (m * Pow[s]) * Pow[d]
    <3>1. 2 * (n * Pow[k]) \in Int /\ m * Pow[s] \in Int
      BY <1>2, <2>6, <2>9, SMT
    <3> QED
      BY <1>2, <2>7, <3>1, TimesIsStrict
  <2>12. /\ (2 * (n * Pow[k])) * Pow[d] = (2 * (n * Pow[d])) * Pow[k]
         /\ (m * Pow[s]) * Pow[d] = (m * Pow[d]) * Pow[s]
         /\ Pow[s] * Pow[k] = Pow[k] * Pow[s]
         /\ Pow[k] * Pow[s] \in Int /\ (m * Pow[d]) * Pow[s] \in Int
         /\ (2 * (n * Pow[d])) * Pow[k] \in Int
    <3>1. \A x, y, z \in Nat : /\ (2 * (x * y)) * z = (2 * (x * z)) * y
                               /\ (x * y) * z = (x * z) * y
                               /\ y * z = z * y /\ y * z \in Int
                               /\ (x * y) * z \in Int /\ (2 * (x * y)) * z \in Int
      BY SMT
    <3> QED
      BY <1>2, <2>6, <2>9, <3>1
  <2> QED
    BY <2>8, <2>10, <2>11, <2>12
<1> QED
  BY <1>5, <1>6

-------------------------------------------------------------------------------
(* The number of a platform.                                                *)

\* A number written as one double prints it is read as the nearest price, and only
\* a body without one, or a number below half a unit, ends the process.
LEMMA PriceOfIs ==
    ASSUME NEW t, Normal(t), NEW d \in Nat,
           t # NoFloat => Formatted(Extracted(t), d) < PriceModulus
    PROVE  /\ PriceOf(t, d) # Terminates => Near(PriceOf(t, d), d, t.m, Scale(t))
           /\ PriceOf(t, d) = Terminates =>
                 t = NoFloat \/ 2 * (t.m * Pow[d]) < Pow[Scale(t)]
<1>1. CASE t = NoFloat
  BY <1>1 DEF PriceOf, NoFloat, Token
<1>2. CASE t # NoFloat
  <2> DEFINE text == Extracted(t)
  <2>1. t.notation # "none" /\ IsText(text) /\ text.n = t.m /\ text.s = Scale(t)
    BY <1>2 DEF Normal, Extracted, Scale, IsText
  <2>2. PriceOf(t, d) = Generated(text, d)
    BY <2>1 DEF PriceOf
  <2> HIDE DEF text
  <2>3. /\ Generated(text, d) = IF Formatted(text, d) = 0 THEN Terminates
                                ELSE Formatted(text, d)
        /\ Formatted(text, d) \in Nat
    BY <1>2, <2>1, GeneratedIs, FormattedIsNear DEF text
  <2>4. Near(Formatted(text, d), d, t.m, Scale(t))
    BY <2>1, FormattedIsNear
  <2>5. Formatted(text, d) = 0 => 2 * (t.m * Pow[d]) < Pow[Scale(t)]
    BY <2>1, FormattedIsZero
  <2> QED
    BY <2>2, <2>3, <2>4, <2>5, TextAssumption
<1> QED
  BY <1>1, <1>2
===============================================================================
