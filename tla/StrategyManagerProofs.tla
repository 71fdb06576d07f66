------------------------ MODULE StrategyManagerProofs ------------------------
(***************************************************************************)
(* What StrategyManager guarantees for any assets, strategies and prices:  *)
(* quotes stay on their side of a mid price of the pair asked about, and   *)
(* the bot's bids never cross its asks when every cancel is served.        *)
(***************************************************************************)
EXTENDS StrategyManager, TLAPS

-------------------------------------------------------------------------------
(* Quoting.                                                                 *)

LEMMA Product == ASSUME NEW p \in Nat, NEW t \in Nat PROVE p * t \in Nat
  BY SMT

\* A modifier of at most 1.0 never raises a price.
LEMMA TimesBelow ==
    ASSUME NEW p \in Nat, NEW k \in 0..1000
    PROVE  Times(p, k) \in Nat /\ Times(p, k) <= p
<1> DEFINE t == Thousandths(k)
<1>1. t \in Nat /\ t <= 1000
  BY ShortAssumption, SMT DEF Thousandths
<1>2. p * t \in Nat
  BY <1>1, Product
<1>3. p * t <= p * 1000
  BY <1>1, SMT
<1>4. QED
  BY <1>2, <1>3, SMT DEF Times

\* A modifier of at least 1.0 never lowers one, although it may fall short.
LEMMA TimesAbove ==
    ASSUME NEW p \in Nat, NEW k \in Nat, 1000 <= k
    PROVE  Times(p, k) \in Nat /\ p <= Times(p, k)
<1> DEFINE t == Thousandths(k)
<1>1. t \in Nat /\ 1000 <= t
  BY ShortAssumption, SMT DEF Thousandths
<1>2. p * t \in Nat
  BY <1>1, Product
<1>3. p * 1000 <= p * t
  BY <1>1, SMT
<1>4. QED
  BY <1>2, <1>3, SMT DEF Times

\* make_bid and make_ask put a quote on each side of the mid, for every price and
\* every spread between 0 and 1.
THEOREM QuotesOnTheirSide ==
    ASSUME NEW m \in Nat, NEW s \in 0..1000
    PROVE  /\ BidPrice(m, s) \in Nat /\ BidPrice(m, s) <= m
           /\ AskPrice(m, s) \in Nat /\ m <= AskPrice(m, s)
<1>1. 1000 - s \in 0..1000 /\ 1000 + s \in 1000..2000
  BY SMT
<1>2. Times(m, 1000 - s) \in Nat /\ Times(m, 1000 - s) <= m
  <2> DEFINE k == 1000 - s
  <2>1. k \in 0..1000
    BY <1>1
  <2> HIDE DEF k
  <2>2. Times(m, k) \in Nat /\ Times(m, k) <= m
    BY <2>1, TimesBelow
  <2>3. QED
    BY <2>2 DEF k
<1>3. Times(m, 1000 + s) \in Nat /\ m <= Times(m, 1000 + s)
  <2> DEFINE k == 1000 + s
  <2>1. k \in Nat /\ 1000 <= k
    BY <1>1
  <2> HIDE DEF k
  <2>2. Times(m, k) \in Nat /\ m <= Times(m, k)
    BY <2>1, TimesAbove
  <2>3. QED
    BY <2>2 DEF k
<1>4. QED
  BY <1>2, <1>3 DEF BidPrice, AskPrice

-------------------------------------------------------------------------------
(* Types.                                                                   *)

LEMMA BlankType == Blank \in Strategy /\ Blank.pair \in Pair
  BY SMT DEF Blank, Strategy, Pair, AnyAsset

LEMMA SubmittedType == Submitted \subseteq Strategy
  BY StrategyAssumption, SMT DEF Strategy, Pair, AnyAsset

LEMMA CrossType == ASSUME NEW p \in Pair PROVE CrossOf(p) \in Crosses
  BY DEF Crosses

LEMMA PriceType ==
    ASSUME NEW p \in Pair, NEW m \in PricesOf[p] PROVE m \in Nat
  BY StrategyAssumption

\* What the HTTP thread adds is one of the strategies it was called with.
AddingSubmitted == http # "idle" => adding \in Submitted

TypeInv == TypeOK /\ AddingSubmitted

USE DEF HttpSteps, SmSteps

LEMMA InitType == Init => TypeInv
  BY BlankType DEF Init, TypeInv, TypeOK, AddingSubmitted

LEMMA AddStrategyType == TypeInv /\ (\E s \in Submitted : AddStrategy(s)) => TypeInv'
<1> SUFFICES ASSUME TypeInv, NEW s \in Submitted, AddStrategy(s) PROVE TypeInv'
  OBVIOUS
<1>1. s \in Strategy /\ s.pair \in Pair /\ CrossOf(s.pair) \in Crosses
  BY SubmittedType, CrossType DEF Strategy
<1>2. /\ DOMAIN registry' = DOMAIN registry \cup {CrossOf(s.pair)}
      /\ \A c \in DOMAIN registry' : registry'[c] \in Strategy
      /\ left' \subseteq DOMAIN registry'
  BY BlankType DEF AddStrategy, TypeInv, TypeOK
<1>3. QED
  BY <1>1, <1>2 DEF AddStrategy, locals, TypeInv, TypeOK, AddingSubmitted, Target

LEMMA AssignType == TypeInv /\ Assign => TypeInv'
<1> SUFFICES ASSUME TypeInv, Assign PROVE TypeInv'
  OBVIOUS
<1>1. /\ adding \in Strategy /\ adding.pair \in Pair
      /\ Target \in DOMAIN registry /\ registry[Target] \in Strategy
  BY DEF TypeInv, TypeOK, Assign, AssignBase, AssignQuote, AssignTerms, Strategy
<1>2. /\ DOMAIN registry' = DOMAIN registry
      /\ \A c \in DOMAIN registry : registry'[c] \in Strategy
  <2>1. \E new \in Strategy : registry' = [registry EXCEPT ![Target] = new]
    <3> DEFINE old == registry[Target]
    <3>1. CASE AssignBase
      <4>1. [old EXCEPT !.pair.base = adding.pair.base] \in Strategy
        BY <1>1 DEF Strategy, Pair
      <4>2. QED
        BY <3>1, <4>1 DEF AssignBase
    <3>2. CASE AssignQuote
      <4>1. [old EXCEPT !.pair.quote = adding.pair.quote] \in Strategy
        BY <1>1 DEF Strategy, Pair
      <4>2. QED
        BY <3>2, <4>1 DEF AssignQuote
    <3>3. CASE AssignTerms
      <4>1. [old EXCEPT !.spread = adding.spread, !.both = adding.both] \in Strategy
        BY <1>1 DEF Strategy
      <4>2. registry' = [registry EXCEPT ![Target] =
                            [old EXCEPT !.spread = adding.spread, !.both = adding.both]]
        BY <1>1, <3>3 DEF AssignTerms
      <4>3. QED
        BY <4>1, <4>2
    <3>4. QED
      BY <3>1, <3>2, <3>3 DEF Assign
  <2>2. QED
    BY <2>1 DEF TypeInv, TypeOK
<1>3. UNCHANGED <<sm, left, locals, book, keepAlive, fault>>
  BY DEF Assign, AssignBase, AssignQuote, AssignTerms
<1>4. adding' \in Strategy /\ (http' # "idle" => adding' = adding) /\ http' \in HttpSteps
  BY <1>1, BlankType DEF Assign, AssignBase, AssignQuote, AssignTerms
<1>5. (http' # "idle" => Target' \in DOMAIN registry') /\ AddingSubmitted'
  BY <1>1, <1>2, <1>4 DEF Assign, AssignBase, AssignQuote, AssignTerms, Target,
     TypeInv, AddingSubmitted
<1>6. QED
  BY <1>2, <1>3, <1>4, <1>5 DEF TypeInv, TypeOK, locals

LEMMA LevelType ==
    ASSUME TypeInv, sm = "terms", NEW terms \in Strategy, NEW sell \in BOOLEAN,
           NEW price \in Nat
    PROVE  Level(terms, sell, price) \in Quote
  BY DEF Level, Quote, TypeInv, TypeOK, Strategy

LEMMA BuildGroupType == TypeInv /\ BuildGroup => TypeInv'
<1> SUFFICES ASSUME TypeInv, BuildGroup PROVE TypeInv'
  OBVIOUS
<1> DEFINE terms == registry[key]
<1>1. terms \in Strategy /\ terms.spread \in 0..1000 /\ mid \in Nat /\ sm = "terms"
  BY DEF BuildGroup, TypeInv, TypeOK, Strategy
<1>2. BidPrice(mid, terms.spread) \in Nat /\ AskPrice(mid, terms.spread) \in Nat
  BY <1>1, QuotesOnTheirSide
<1>3. /\ Level(terms, FALSE, BidPrice(mid, terms.spread)) \in Quote
      /\ Level(terms, TRUE, AskPrice(mid, terms.spread)) \in Quote
  BY <1>1, <1>2, LevelType
<1>4. group' \subseteq Quote
  BY <1>3 DEF BuildGroup
<1>5. QED
  BY <1>4, BlankType DEF BuildGroup, httpVars, TypeInv, TypeOK, AddingSubmitted, Target

LEMMA SmType == TypeInv /\ Sm => TypeInv'
<1> SUFFICES ASSUME TypeInv, Sm PROVE TypeInv'
  OBVIOUS
<1> USE DEF httpVars, locals, TypeInv, TypeOK, AddingSubmitted, Target
<1>1. CASE BeginRound
  BY <1>1 DEF BeginRound
<1>2. CASE Quit
  BY <1>2 DEF Quit
<1>3. CASE RoundDone
  BY <1>3 DEF RoundDone
<1>4. CASE NextStrategy
  BY <1>4 DEF NextStrategy
<1>5. CASE AskForPrice
  BY <1>5 DEF AskForPrice, Strategy
<1>6. CASE TakePrice
  <2>1. mid' \in Nat
    BY <1>6, PriceType DEF TakePrice
  <2>2. QED
    BY <1>6, <2>1 DEF TakePrice
<1>7. CASE NoPrice
  BY <1>7 DEF NoPrice
<1>8. CASE ReadPair
  BY <1>8 DEF ReadPair, Strategy
<1>9. CASE BuildGroup
  BY <1>9, BuildGroupType
<1>10. CASE CancelOrders
  <2>1. book' \subseteq Quote
    BY <1>10 DEF CancelOrders, QuotesOf
  <2>2. QED
    BY <1>10, <2>1 DEF CancelOrders
<1>11. CASE PlaceOrder
  <2>1. book' \subseteq Quote /\ group' \subseteq Quote /\ pair' \in Pair
    BY <1>11, BlankType DEF PlaceOrder
  <2>2. QED
    BY <1>11, <2>1 DEF PlaceOrder
<1>12. QED
  BY <1>1, <1>2, <1>3, <1>4, <1>5, <1>6, <1>7, <1>8, <1>9, <1>10, <1>11 DEF Sm

LEMMA TypeStep == TypeInv /\ [Next]_vars => TypeInv'
<1> SUFFICES ASSUME TypeInv, [Next]_vars PROVE TypeInv'
  OBVIOUS
<1> USE DEF httpVars, locals, vars, TypeInv, TypeOK, AddingSubmitted, Target
<1>1. CASE \E s \in Submitted : AddStrategy(s)
  BY <1>1, AddStrategyType
<1>2. CASE Assign
  BY <1>2, AssignType
<1>3. CASE Destroy
  BY <1>3 DEF Destroy
<1>4. CASE Sm
  BY <1>4, SmType
<1>5. CASE Crash
  BY <1>5 DEF Crash
<1>6. CASE \E q \in book : Leave(q)
  BY <1>6 DEF Leave
<1>7. CASE UNCHANGED vars
  BY <1>7
<1>8. QED
  BY <1>1, <1>2, <1>3, <1>4, <1>5, <1>6, <1>7 DEF Next, Http

\* Every variable of the strategy manager keeps its type, whatever the two
\* threads see of each other's half-written strategies.
THEOREM TypeCorrect == Spec => []TypeOK
<1>1. TypeInv /\ [Next]_vars => TypeInv'
  BY TypeStep
<1>2. TypeInv => TypeOK
  BY DEF TypeInv
<1>3. QED
  BY InitType, <1>1, <1>2, PTL DEF Spec

-------------------------------------------------------------------------------
(* Quotes stay on their side of the mid.                                    *)

\* What QuotesAroundMid says of one quote
Around(q) ==
    \E m \in PricesOf[q.asked] : IF q.sell THEN m <= q.price ELSE q.price <= m

\* The mid the sm thread holds is one of the pair it asked about, and the levels
\* it is about to place are on their sides of it.
AroundInv ==
    /\ sm \in {"pair", "terms"} => mid \in PricesOf[asked]
    /\ sm \in {"cancel", "place"} => \A q \in group : Around(q)
    /\ \A q \in book : Around(q)

LEMMA BuildGroupAround == TypeInv /\ AroundInv /\ BuildGroup => AroundInv'
<1> SUFFICES ASSUME TypeInv, AroundInv, BuildGroup PROVE AroundInv'
  OBVIOUS
<1> DEFINE terms == registry[key]
           bid == Level(terms, FALSE, BidPrice(mid, terms.spread))
           ask == Level(terms, TRUE, AskPrice(mid, terms.spread))
<1>1. mid \in Nat /\ terms.spread \in 0..1000 /\ mid \in PricesOf[asked]
  BY DEF BuildGroup, TypeInv, TypeOK, Strategy, AroundInv
<1>2. BidPrice(mid, terms.spread) <= mid /\ mid <= AskPrice(mid, terms.spread)
  BY <1>1, QuotesOnTheirSide
<1>3. Around(bid) /\ Around(ask)
  BY <1>1, <1>2 DEF Around, Level
<1>4. group' \subseteq {bid, ask}
  BY DEF BuildGroup
<1>5. \A q \in group' : Around(q)
  BY <1>3, <1>4
<1>6. UNCHANGED book /\ sm' = "cancel"
  BY DEF BuildGroup
<1>7. QED
  BY <1>5, <1>6 DEF AroundInv

LEMMA AroundStep == TypeInv /\ AroundInv /\ [Next]_vars => AroundInv'
<1> SUFFICES ASSUME TypeInv, AroundInv, [Next]_vars PROVE AroundInv'
  OBVIOUS
<1> USE DEF httpVars, locals, AroundInv
<1>1. CASE \E s \in Submitted : AddStrategy(s)
  BY <1>1 DEF AddStrategy
<1>2. CASE Assign
  BY <1>2 DEF Assign, AssignBase, AssignQuote, AssignTerms
<1>3. CASE Destroy \/ Crash \/ UNCHANGED vars
  BY <1>3 DEF Destroy, Crash, vars
<1>4. CASE BeginRound \/ Quit \/ RoundDone \/ NextStrategy \/ AskForPrice \/ NoPrice
  BY <1>4 DEF BeginRound, Quit, RoundDone, NextStrategy, AskForPrice, NoPrice
<1>5. CASE TakePrice
  BY <1>5 DEF TakePrice
<1>6. CASE ReadPair
  BY <1>6 DEF ReadPair
<1>7. CASE BuildGroup
  BY <1>7, BuildGroupAround
<1>8. CASE CancelOrders
  BY <1>8 DEF CancelOrders, QuotesOf
<1>9. CASE PlaceOrder
  <2>1. book' \subseteq book \cup group /\ (sm' = "place" => group' = group)
    BY <1>9 DEF PlaceOrder
  <2>2. sm = "place" /\ sm' \in {"place", "next"}
    BY <1>9 DEF PlaceOrder
  <2>3. QED
    BY <2>1, <2>2
<1>10. CASE \E q \in book : Leave(q)
  BY <1>10 DEF Leave
<1>11. QED
  BY <1>1, <1>2, <1>3, <1>4, <1>5, <1>6, <1>7, <1>8, <1>9, <1>10 DEF Next, Http, Sm

\* No quote of the bot is on the wrong side of the price it was made from, for
\* every spread from 0 to 1, any truncation of the product, any interleaving with
\* add_strategy, and cancels and places that may fail.
THEOREM QuotesStayAround == Spec => []QuotesAroundMid
<1>1. Init => TypeInv /\ AroundInv
  BY InitType DEF Init, AroundInv
<1>2. TypeInv /\ AroundInv /\ [Next]_vars => TypeInv' /\ AroundInv'
  BY TypeStep, AroundStep
<1>3. AroundInv => QuotesAroundMid
  BY DEF AroundInv, QuotesAroundMid, Around
<1>4. QED
  BY <1>1, <1>2, <1>3, PTL DEF Spec

-------------------------------------------------------------------------------
(* The bot never trades with itself.                                        *)

\* No bid of Q on the pair of an ask of Q is above it
Uncrossed(Q) ==
    \A b, a \in Q : ~b.sell /\ a.sell /\ b.pair = a.pair => b.price <= a.price

\* The assets of p are those of the cross, or not assigned yet
Within(p, cross) == CrossOf(p) \subseteq cross \cup {NoAsset}

\* A strategy half assigned has a pair that is either of its cross or one that
\* place_order cannot place; and cancel_orders left nothing of the cross.
CrossInv ==
    /\ http # "idle" => Within(adding.pair, Target)
    /\ \A c \in DOMAIN registry : Within(registry[c].pair, c)
    /\ sm \in {"terms", "cancel", "place"} => Within(pair, key)
    /\ sm \in {"cancel", "place"} => Uncrossed(group) /\ \A q \in group : q.pair = pair
    /\ sm = "place" => QuotesOf(key) = {}
    /\ Uncrossed(book)

LEMMA WithinCross ==
    ASSUME NEW p \in Pair, NEW c \in Crosses, Within(p, c),
           NoAsset \notin CrossOf(p), p.base # p.quote
    PROVE  CrossOf(p) = c
<1>1. PICK p2 \in Pair : c = {p2.base, p2.quote}
  BY DEF Crosses, CrossOf
<1>2. p.base \in c /\ p.quote \in c
  BY DEF Within, CrossOf
<1>3. QED
  BY <1>1, <1>2 DEF CrossOf

LEMMA AddStrategyCross ==
    TypeInv /\ CrossInv /\ (\E s \in Submitted : AddStrategy(s)) => CrossInv'
<1> SUFFICES ASSUME TypeInv, CrossInv, NEW s \in Submitted, AddStrategy(s) PROVE CrossInv'
  OBVIOUS
<1>1. adding' = s /\ Within(s.pair, CrossOf(s.pair))
  BY DEF AddStrategy, Within
<1>2. \A c \in DOMAIN registry' : Within(registry'[c].pair, c)
  BY DEF AddStrategy, CrossInv, Within, CrossOf, Blank
<1>3. UNCHANGED <<sm, locals, book>>
  BY DEF AddStrategy
<1>4. QED
  BY <1>1, <1>2, <1>3 DEF CrossInv, Target, locals, QuotesOf

LEMMA AssignCross == TypeInv /\ CrossInv /\ Assign => CrossInv'
<1> SUFFICES ASSUME TypeInv, CrossInv, Assign PROVE CrossInv'
  OBVIOUS
<1>1. Target \in DOMAIN registry /\ registry[Target] \in Strategy /\ adding.pair \in Pair
  BY DEF TypeInv, TypeOK, Assign, AssignBase, AssignQuote, AssignTerms, Strategy
<1>2. Within(adding.pair, Target) /\ Within(registry[Target].pair, Target)
  BY <1>1 DEF CrossInv, Assign, AssignBase, AssignQuote, AssignTerms
<1>3. DOMAIN registry' = DOMAIN registry
  BY DEF Assign, AssignBase, AssignQuote, AssignTerms
<1>4. \A c \in DOMAIN registry \ {Target} : registry'[c] = registry[c]
  BY DEF Assign, AssignBase, AssignQuote, AssignTerms
<1>5. Within(registry'[Target].pair, Target)
  <2>1. /\ registry'[Target].pair.base \in {registry[Target].pair.base, adding.pair.base}
        /\ registry'[Target].pair.quote \in {registry[Target].pair.quote, adding.pair.quote}
    BY <1>1 DEF Assign, AssignBase, AssignQuote, AssignTerms, Strategy, Pair
  <2>2. QED
    BY <1>2, <2>1 DEF Within, CrossOf
<1>6. http' # "idle" => adding' = adding
  BY DEF Assign, AssignBase, AssignQuote, AssignTerms
<1>7. UNCHANGED <<sm, locals, book>>
  BY DEF Assign, AssignBase, AssignQuote, AssignTerms
<1>8. QED
  BY <1>2, <1>3, <1>4, <1>5, <1>6, <1>7 DEF CrossInv, Target, locals, QuotesOf

LEMMA BuildGroupCross == TypeInv /\ CrossInv /\ BuildGroup => CrossInv'
<1> SUFFICES ASSUME TypeInv, CrossInv, BuildGroup PROVE CrossInv'
  OBVIOUS
<1> DEFINE terms == registry[key]
           bid == Level(terms, FALSE, BidPrice(mid, terms.spread))
           ask == Level(terms, TRUE, AskPrice(mid, terms.spread))
<1>1. mid \in Nat /\ terms.spread \in 0..1000
  BY DEF BuildGroup, TypeInv, TypeOK, Strategy
<1>2. /\ BidPrice(mid, terms.spread) \in Nat /\ AskPrice(mid, terms.spread) \in Nat
      /\ BidPrice(mid, terms.spread) <= mid /\ mid <= AskPrice(mid, terms.spread)
  BY <1>1, QuotesOnTheirSide
<1>3. bid.price <= ask.price
  BY <1>1, <1>2 DEF Level
<1>4. ~bid.sell /\ ask.sell /\ bid.pair = pair /\ ask.pair = pair
  BY DEF Level
<1>5. group' \subseteq {bid, ask}
  BY DEF BuildGroup
<1>6. Uncrossed(group') /\ \A q \in group' : q.pair = pair
  BY <1>3, <1>4, <1>5 DEF Uncrossed
<1>7. UNCHANGED <<registry, http, adding, book, key, pair>> /\ sm = "terms" /\ sm' = "cancel"
  BY DEF BuildGroup, httpVars
<1>8. QED
  BY <1>6, <1>7 DEF CrossInv, Target

LEMMA PlaceOrderCross == TypeInv /\ CrossInv /\ PlaceOrder => CrossInv'
<1> SUFFICES ASSUME TypeInv, CrossInv, PlaceOrder PROVE CrossInv'
  OBVIOUS
<1>1. /\ sm = "place" /\ UNCHANGED <<registry, http, adding, key>>
      /\ pair \in Pair /\ key \in Crosses
  BY DEF PlaceOrder, httpVars, TypeInv, TypeOK
<1>2. CASE NoAsset \in CrossOf(pair)
  BY <1>1, <1>2 DEF PlaceOrder, CrossInv, Target, QuotesOf
<1>3. CASE NoAsset \notin CrossOf(pair)
  <2>1. sm' = "next"
    BY <1>3 DEF PlaceOrder
  <2>2. CASE book' = book
    BY <1>1, <2>1, <2>2 DEF CrossInv, Target
  <2>3. CASE pair.base # pair.quote
    <3>1. CrossOf(pair) = key
      BY <1>1, <1>3, <2>3, WithinCross DEF CrossInv
    <3>2. book' \subseteq book \cup group
      BY <1>3 DEF PlaceOrder
    <3>3. \A q \in book : q.pair # pair
      BY <1>1, <3>1 DEF CrossInv, QuotesOf
    <3>4. Uncrossed(book) /\ Uncrossed(group) /\ \A q \in group : q.pair = pair
      BY <1>1 DEF CrossInv
    <3>5. Uncrossed(book')
      BY <3>2, <3>3, <3>4 DEF Uncrossed
    <3>6. QED
      BY <1>1, <2>1, <3>5 DEF CrossInv, Target
  <2>4. QED
    BY <1>3, <2>2, <2>3 DEF PlaceOrder
<1>4. QED
  BY <1>2, <1>3

LEMMA CrossStep ==
    ASSUME Faulty = FALSE PROVE TypeInv /\ CrossInv /\ [Next]_vars => CrossInv'
<1> SUFFICES ASSUME TypeInv, CrossInv, [Next]_vars PROVE CrossInv'
  OBVIOUS
<1> USE DEF httpVars, locals, CrossInv, Target, QuotesOf
<1>1. CASE \E s \in Submitted : AddStrategy(s)
  BY <1>1, AddStrategyCross
<1>2. CASE Assign
  BY <1>2, AssignCross
<1>3. CASE Destroy \/ Crash \/ UNCHANGED vars
  BY <1>3 DEF Destroy, Crash, vars
<1>4. CASE BeginRound \/ Quit \/ RoundDone \/ NextStrategy
  BY <1>4 DEF BeginRound, Quit, RoundDone, NextStrategy
<1>5. CASE AskForPrice \/ TakePrice \/ NoPrice
  BY <1>5 DEF AskForPrice, TakePrice, NoPrice
<1>6. CASE ReadPair
  BY <1>6 DEF ReadPair, TypeInv, TypeOK
<1>7. CASE BuildGroup
  BY <1>7, BuildGroupCross
<1>8. CASE CancelOrders
  <2>1. book' = book \ QuotesOf(key)
    BY <1>8, Faulty = FALSE DEF CancelOrders
  <2>2. Uncrossed(book')
    BY <2>1 DEF Uncrossed
  <2>3. QED
    BY <1>8, <2>1, <2>2 DEF CancelOrders
<1>9. CASE PlaceOrder
  BY <1>9, PlaceOrderCross
<1>10. CASE \E q \in book : Leave(q)
  <2>1. book' \subseteq book
    BY <1>10 DEF Leave
  <2>2. Uncrossed(book')
    BY <2>1 DEF Uncrossed
  <2>3. QED
    BY <1>10, <2>1, <2>2 DEF Leave
<1>11. QED
  BY <1>1, <1>2, <1>3, <1>4, <1>5, <1>6, <1>7, <1>8, <1>9, <1>10 DEF Next, Http, Sm

\* With every cancel served, no bid of the bot is ever above one of its asks on
\* the same pair, for any strategies, replaced at any time, and any prices.
THEOREM NeverCrossesItself == ASSUME Faulty = FALSE PROVE Spec => []NoSelfCross
<1>1. Init => TypeInv /\ CrossInv
  <2>1. SUFFICES ASSUME Init PROVE CrossInv
    BY InitType
  <2>2. QED
    BY <2>1 DEF Init, CrossInv, Uncrossed
<1>2. TypeInv /\ CrossInv /\ [Next]_vars => TypeInv' /\ CrossInv'
  BY TypeStep, CrossStep
<1>3. CrossInv => NoSelfCross
  BY DEF CrossInv, Uncrossed, NoSelfCross
<1>4. QED
  BY <1>1, <1>2, <1>3, PTL DEF Spec

===============================================================================
