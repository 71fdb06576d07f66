--------------------------- MODULE StrategyManager ---------------------------
(***************************************************************************)
(* The strategy manager (src/strategy_manager): a registry with one        *)
(* strategy per cross, written by the thread of the HTTP server            *)
(* (add_strategy) and read without any lock by the sm thread, which for    *)
(* each strategy asks for a price, builds a group of orders, cancels what  *)
(* is on the book for the cross and places the group.                      *)
(*                                                                         *)
(* The fields of a strategy are assigned one by one, and the sm thread     *)
(* holds a reference to it while it waits for the price, so it may build a *)
(* group from pieces of two strategies.  A step is one access to the       *)
(* registry or one call; spread and both, which fit each other whatever    *)
(* strategy they come from, are written in one step and read in one.       *)
(*                                                                         *)
(* The order manager is here what its calls do to the book: cancel_orders  *)
(* takes the quotes of a cross off, place_order adds the levels of the     *)
(* group, and either may fall short when Faulty (OrderManager has the      *)
(* detail).  The quantity is not modelled: nothing depends on it.          *)
(***************************************************************************)
EXTENDS Quoting

CONSTANTS
    Assets,     \* the symbols strategies use
    NoAsset,    \* the symbol "" of a default-constructed pair
    Submitted,  \* the strategies add_strategy is called with
    PricesOf,   \* the prices the service may answer for a pair, none if {}
    Faulty      \* may the price service, a cancel or a place fail?

AnyAsset == Assets \cup {NoAsset}
Pair == [base : AnyAsset, quote : AnyAsset]
Strategy == [pair : Pair, spread : 0..1000, both : BOOLEAN]

ASSUME StrategyAssumption ==
    /\ NoAsset \notin Assets
    /\ Submitted \subseteq [pair : [base : Assets, quote : Assets],
                            spread : 0..1000, both : BOOLEAN]
    /\ \A s \in Submitted : s.pair.base # s.pair.quote
    /\ PricesOf \in [Pair -> SUBSET (Nat \ {0})]
    /\ Faulty \in BOOLEAN

\* pair::to_cross, with cross::operator== and its hash: the order of the two
\* assets does not count
CrossOf(pair) == {pair.base, pair.quote}
Crosses == {CrossOf(pair) : pair \in Pair}

\* registry_strategies_[cross] for a new cross: a strategy with empty symbols
Blank == [pair |-> [base |-> NoAsset, quote |-> NoAsset], spread |-> 0, both |-> TRUE]

\* An order of the bot on the book: a level, the pair its mid price is of and
\* the spread it was made with (neither is in the code: the properties use them)
Quote == [pair : Pair, sell : BOOLEAN, price : Nat, asked : Pair, spread : 0..1000]

HttpSteps == {"idle", "base", "quote", "terms"}
SmSteps == {"sleep", "next", "ask", "answer", "pair", "terms", "cancel", "place", "done"}

VARIABLES
    registry,   \* registry_strategies_
    http,       \* where the HTTP thread is
    adding,     \* the strategy it is adding
    sm,         \* where the sm thread is
    left,       \* the crosses its loop has still to visit
    key,        \* the cross it is at
    asked,      \* the pair get_price was called with
    mid,        \* what it returned
    pair,       \* a local of create_order_group
    group,      \* the levels of the group
    book,       \* the live quotes of the bot
    keepAlive,  \* keep_thread_alive_
    fault       \* why the process was terminated

httpVars == <<http, adding>>
locals == <<key, asked, mid, pair, group>>
vars == <<registry, http, adding, sm, left, key, asked, mid, pair, group,
          book, keepAlive, fault>>

Init ==
    /\ registry = [c \in {} |-> Blank]
    /\ http = "idle"
    /\ adding = Blank
    /\ sm = "sleep"
    /\ left = {}
    /\ key = {}
    /\ asked = Blank.pair
    /\ mid = 0
    /\ pair = Blank.pair
    /\ group = {}
    /\ book = {}
    /\ keepAlive = TRUE
    /\ fault = "none"

-------------------------------------------------------------------------------
(* The HTTP thread: add_strategy.                                           *)

\* registry_strategies_[cross]: a new key may rehash the map the sm thread
\* iterates over, and which elements its loop still meets is anyone's guess
AddStrategy(s) ==
    /\ http = "idle"
    /\ sm # "done"
    /\ adding' = s
    /\ http' = "base"
    /\ IF CrossOf(s.pair) \in DOMAIN registry
       THEN UNCHANGED <<registry, left>>
       ELSE /\ registry' = [c \in DOMAIN registry \cup {CrossOf(s.pair)} |->
                               IF c \in DOMAIN registry THEN registry[c] ELSE Blank]
            /\ IF sm = "sleep" THEN UNCHANGED left ELSE left' \in SUBSET DOMAIN registry'
    /\ UNCHANGED <<sm, locals, book, keepAlive, fault>>

\* The element of the strategy being added
Target == CrossOf(adding.pair)

AssignBase ==
    /\ http = "base"
    /\ registry' = [registry EXCEPT ![Target].pair.base = adding.pair.base]
    /\ http' = "quote"
    /\ UNCHANGED <<adding, sm, left, locals, book, keepAlive, fault>>

AssignQuote ==
    /\ http = "quote"
    /\ registry' = [registry EXCEPT ![Target].pair.quote = adding.pair.quote]
    /\ http' = "terms"
    /\ UNCHANGED <<adding, sm, left, locals, book, keepAlive, fault>>

AssignTerms ==
    /\ http = "terms"
    /\ registry' = [registry EXCEPT ![Target].spread = adding.spread,
                                   ![Target].both = adding.both]
    /\ http' = "idle"
    /\ adding' = Blank
    /\ UNCHANGED <<sm, left, locals, book, keepAlive, fault>>

\* The server has returned: the destructor clears the flag
Destroy ==
    /\ http = "idle"
    /\ keepAlive' = FALSE
    /\ UNCHANGED <<registry, httpVars, sm, left, locals, book, fault>>

-------------------------------------------------------------------------------
(* The sm thread.                                                           *)

\* Mutant: the flag is not read again
RoundForever ==
    /\ sm = "sleep"
    /\ left' = DOMAIN registry
    /\ sm' = "next"
    /\ UNCHANGED <<registry, httpVars, locals, book, keepAlive, fault>>

\* while (keep_thread_alive_) for (pair, strats : registry_strategies_)
BeginRound ==
    /\ sm = "sleep"
    /\ keepAlive
    /\ left' = DOMAIN registry
    /\ sm' = "next"
    /\ UNCHANGED <<registry, httpVars, locals, book, keepAlive, fault>>

Quit ==
    /\ sm = "sleep"
    /\ ~keepAlive
    /\ sm' = "done"
    /\ UNCHANGED <<registry, httpVars, left, locals, book, keepAlive, fault>>

RoundDone ==
    /\ sm = "next"
    /\ left = {}
    /\ sm' = "sleep"
    /\ UNCHANGED <<registry, httpVars, left, locals, book, keepAlive, fault>>

\* Mutant: a cross that has quotes on the book is left alone
NextUnquoted ==
    /\ sm = "next"
    /\ \E c \in left :
          /\ left' = left \ {c}
          /\ key' = c
          /\ sm' = IF \E q \in book : CrossOf(q.pair) = c THEN "next" ELSE "ask"
    /\ UNCHANGED <<registry, httpVars, asked, mid, pair, group, book,
                   keepAlive, fault>>

NextStrategy ==
    /\ sm = "next"
    /\ \E c \in left :
          /\ left' = left \ {c}
          /\ key' = c
    /\ sm' = "ask"
    /\ UNCHANGED <<registry, httpVars, asked, mid, pair, group, book,
                   keepAlive, fault>>

\* ps_.get_price(strat.pair): the argument is a copy
AskForPrice ==
    /\ sm = "ask"
    /\ asked' = registry[key].pair
    /\ sm' = "answer"
    /\ UNCHANGED <<registry, httpVars, left, key, mid, pair, group, book,
                   keepAlive, fault>>

TakePrice ==
    /\ sm = "answer"
    /\ mid' \in PricesOf[asked]
    /\ sm' = "pair"
    /\ UNCHANGED <<registry, httpVars, left, key, asked, pair, group, book,
                   keepAlive, fault>>

\* pair_not_available, which nothing catches on this thread
NoPrice ==
    /\ sm = "answer"
    /\ PricesOf[asked] = {} \/ Faulty
    /\ fault' = "pair_not_available"
    /\ UNCHANGED <<registry, httpVars, sm, left, locals, book, keepAlive>>

\* create_order_group(strat, mid): the fields are read through the reference
ReadPair ==
    /\ sm = "pair"
    /\ pair' = registry[key].pair
    /\ sm' = "terms"
    /\ UNCHANGED <<registry, httpVars, left, key, asked, mid, group, book,
                   keepAlive, fault>>

Level(terms, sell, price) ==
    [pair |-> pair, sell |-> sell, price |-> price, asked |-> asked,
     spread |-> terms.spread]

BuildGroup ==
    /\ sm = "terms"
    /\ LET terms == registry[key]
           bid == Level(terms, FALSE, BidPrice(mid, terms.spread))
           ask == Level(terms, TRUE, AskPrice(mid, terms.spread))
       IN  group' = {bid} \cup IF terms.both THEN {ask} ELSE {}
    /\ asked' = Blank.pair
    /\ mid' = 0
    /\ sm' = "cancel"
    /\ UNCHANGED <<registry, httpVars, left, key, pair, book, keepAlive, fault>>

QuotesOf(cross) == {q \in book : CrossOf(q.pair) = cross}

\* Mutant: only the bids are cancelled
CancelBids ==
    /\ sm = "cancel"
    /\ book' = book \ {q \in QuotesOf(key) : ~q.sell}
    /\ sm' = "place"
    /\ UNCHANGED <<registry, httpVars, left, locals, keepAlive, fault>>

\* om_.cancel_orders(cross); what it could not cancel stays
CancelOrders ==
    /\ sm = "cancel"
    /\ \E kept \in IF Faulty THEN SUBSET QuotesOf(key) ELSE {{}} :
          book' = (book \ QuotesOf(key)) \cup kept
    /\ sm' = "place"
    /\ UNCHANGED <<registry, httpVars, left, locals, keepAlive, fault>>

\* om_.place_order(group): mm2 refuses what it cannot trade (a pair of one asset
\* caught half assigned), and a symbol the configuration does not have throws in
\* get_price_as_string_decimal, which is noexcept
PlaceOrder ==
    /\ sm = "place"
    /\ IF NoAsset \in CrossOf(pair)
       THEN fault' = "unknown_asset" /\ UNCHANGED <<sm, book, pair, group>>
       ELSE /\ \E placed \in IF pair.base = pair.quote THEN {{}}
                             ELSE IF Faulty THEN SUBSET group ELSE {group} :
                  book' = book \cup placed
            /\ pair' = Blank.pair
            /\ group' = {}
            /\ sm' = "next"
            /\ UNCHANGED fault
    /\ UNCHANGED <<registry, httpVars, left, key, asked, mid, keepAlive>>

-------------------------------------------------------------------------------
\* A quote is filled, or cancelled by another user of mm2
Leave(q) ==
    /\ book' = book \ {q}
    /\ UNCHANGED <<registry, httpVars, sm, left, locals, keepAlive, fault>>

\* The two threads are at the same element, or one moves what the other walks
DataRace ==
    \/ http \in HttpSteps \ {"idle"} /\ key = Target
         /\ sm \in {"ask", "pair", "terms"}
    \/ http = "base" /\ registry[Target] = Blank /\ sm = "next"

\* Undefined behaviour may also end the process
Crash ==
    /\ DataRace
    /\ fault' = "undefined"
    /\ UNCHANGED <<registry, httpVars, sm, left, locals, book, keepAlive>>

Assign == AssignBase \/ AssignQuote \/ AssignTerms
Http == (\E s \in Submitted : AddStrategy(s)) \/ Assign \/ Destroy

Sm ==
    \/ BeginRound \/ Quit \/ RoundDone \/ NextStrategy
    \/ AskForPrice \/ TakePrice \/ NoPrice
    \/ ReadPair \/ BuildGroup
    \/ CancelOrders \/ PlaceOrder

Ended == fault # "none" \/ sm = "done"

Next ==
    \/ fault = "none" /\ (Http \/ Sm \/ Crash \/ \E q \in book : Leave(q))
    \/ Ended /\ UNCHANGED vars

Spec == Init /\ [][Next]_vars

\* A handler once begun runs to its end, and the sm thread is scheduled; a price
\* is not owed, but nor is it the thread's only step that may be taken
Fairness == WF_vars(fault = "none" /\ Assign) /\ WF_vars(fault = "none" /\ Sm)
FairSpec == Spec /\ Fairness

-------------------------------------------------------------------------------
(* Properties.                                                              *)

\* Every variable holds a value of its type.
TypeOK ==
    /\ DOMAIN registry \subseteq Crosses
    /\ \A c \in DOMAIN registry : registry[c] \in Strategy
    /\ http \in HttpSteps /\ sm \in SmSteps
    /\ adding \in Strategy
    /\ http # "idle" => Target \in DOMAIN registry
    /\ left \subseteq DOMAIN registry
    /\ key \in {{}} \cup DOMAIN registry
    /\ sm \notin {"sleep", "next", "done"} => key \in DOMAIN registry
    /\ asked \in Pair /\ pair \in Pair
    /\ mid \in Nat
    /\ group \subseteq Quote /\ book \subseteq Quote
    /\ keepAlive \in BOOLEAN
    /\ fault \in {"none", "pair_not_available", "unknown_asset", "undefined"}

\* The bot never trades with itself: of its own quotes on one pair no bid is
\* above an ask, although the price moves from round to round, the strategy is
\* replaced while it is read, and the two levels of a group are placed after the
\* ones of the last round were cancelled.  Needs every cancel to be served.
NoSelfCross ==
    \A b, a \in book : ~b.sell /\ a.sell /\ b.pair = a.pair => b.price <= a.price

\* Each quote is on its side of a price the service answered for the pair it
\* asked about: truncation, a strategy replaced half way and calls that fail
\* never make the bot sell below the mid or buy above it.
QuotesAroundMid ==
    \A q \in book : \E m \in PricesOf[q.asked] :
        IF q.sell THEN m <= q.price ELSE q.price <= m

\* The quotes on the book for the cross of s are those of s
QuotedAs(s) ==
    LET quotes == QuotesOf(CrossOf(s.pair))
    IN  /\ quotes # {}
        /\ \A q \in quotes : /\ q.pair = s.pair /\ q.asked = s.pair
                             /\ q.spread = s.spread /\ (q.sell => s.both)

\* A strategy that stays registered gets its quotes on the book, alone: what an
\* older strategy of the cross left there, or what was built from pieces of
\* both, is withdrawn.
LatestQuoted ==
    \A s \in Submitted :
        LET Stays == CrossOf(s.pair) \in DOMAIN registry /\ registry[CrossOf(s.pair)] = s
        IN  Stays ~> (QuotedAs(s) \/ ~Stays \/ ~keepAlive \/ fault # "none")

\* The destructor's join returns: the sm thread ends its round and stops.
SmStops == ~keepAlive ~> (sm = "done" \/ fault # "none")

\* The orders placed are those create_order_group makes from the strategy and
\* the price of its pair (strategy.manager.tests.cpp:136-146).
PricedForItsPair == \A q \in book : q.asked = q.pair
===============================================================================
