--------------------------------- MODULE Wire ---------------------------------
(***************************************************************************)
(* What crosses the wire: the orders class dex (src/dex) places with mm2   *)
(* and reads back, the calls the mm2 client (src/mm2) writes for the HTTP  *)
(* server, the answers it reads, and the prices of the platforms.  Each    *)
(* step sends one message or reads one, which may lack a member.           *)
(*                                                                         *)
(* A number in a message is a decimal text [n, s] of PriceText.  mm2 and   *)
(* the platforms are external.  Doubles are taken to be exact on the texts *)
(* that are read into them.                                                *)
(***************************************************************************)
EXTENDS Config, PriceText, Mm2Messages

CONSTANTS
    Entries,         \* coins.json
    Electrums,       \* the files of assets/electrums
    Ids,             \* the ids mm2 gives to orders
    Levels,          \* the levels placed: [base, quote, price, quantity, sell]
    Bodies,          \* what a client posts: [form, body]
    Answers,         \* what mm2 answers: [call, body]
    Lacking,         \* the members an answer about orders may lack, sets of them
    Tokens,          \* the numbers a platform may answer: [symbol, token]
    ToStringDigits,  \* 6: the decimals std::to_string writes of a double
    Refused, None

Registry == CoinInfos(Entries, Electrums)
Decimals(coin) == Registry[coin].nb_decimals

\* The calls a client's body is forwarded for
Forms == {"buy", "sell", "setprice", "cancel_order", "cancel_all_orders",
          "my_recent_swaps", "withdraw", "send_raw_transaction"}

\* The calls whose answer the HTTP server reads
Calls == {"electrum", "orderbook", "my_balance", "version", "setprice", "buy", "sell",
          "cancel_order", "cancel_all_orders", "get_enabled_coins", "my_orders",
          "my_recent_swaps", "withdraw", "send_raw_transaction"}

\* The members of their answers that list objects
ListsIn(call) ==
    CASE call = "orderbook" -> {"bids", "asks"}
      [] call = "get_enabled_coins" -> {"result"}
      [] call = "my_orders" -> {"maker_orders", "taker_orders"}
      [] call = "my_recent_swaps" -> {"swaps"}
      [] OTHER -> {}

\* What an answer says it says with a value
Says(j) == \A f \in DOMAIN j : j[f] \notin {Empty, Absent}
SaysAll(answer) ==
    /\ Says(answer.body)
    /\ \A list \in ListsIn(answer.call) \cap DOMAIN answer.body :
          \A i \in DOMAIN answer.body[list] :
             LET j == answer.body[list][i]
             IN  /\ Says(j)
                 /\ answer.call = "my_recent_swaps" /\ "events" \in DOMAIN j =>
                       \A k \in DOMAIN j["events"] : Says(j["events"][k])

ASSUME WireAssumption ==
    /\ ToStringDigits \in Nat
    /\ \A level \in Levels :
          /\ Decimals(level.base) \in Nat /\ Decimals(level.quote) \in Nat
          /\ level.price \in Nat /\ IsText(level.quantity)
    /\ \A post \in Bodies : /\ post.form \in Forms
                            /\ \A f \in DOMAIN post.body : post.body[f] # Absent
    /\ \A answer \in Answers : answer.call \in Calls /\ SaysAll(answer)
    /\ \A t \in Tokens : Decimals(t.symbol) \in Nat /\ Normal(t.token)

VARIABLES
    book,   \* mm2's orders: a function of their ids
    heard,  \* what was last read of each
    last,   \* the message of the last step
    ended   \* has an exception ended the process?

vars == <<book, heard, last, ended>>

Init ==
    /\ book = [id \in Ids |-> None]
    /\ heard = [id \in Ids |-> None]
    /\ last = [op |-> "none"]
    /\ ended = FALSE

-------------------------------------------------------------------------------
(* Orders.                                                                  *)

\* Mutant: the price goes through a double, like the volume
PriceAsDouble(level) ==
    [base |-> level.base, rel |-> level.quote,
     price |-> StdToString(Represented(level.price, Decimals(level.base), Decimals(level.base)),
                           ToStringDigits),
     volume |-> StdToString(level.quantity, ToStringDigits)]

\* to_request: the price is written with the decimals of the base
ToRequest(level) ==
    [base |-> level.base, rel |-> level.quote,
     price |-> Represented(level.price, Decimals(level.base), Decimals(level.base)),
     volume |-> StdToString(level.quantity, ToStringDigits)]

\* mm2 takes an order of a positive price and volume, and puts what it was asked
\* on its book; an order that meets no other at once becomes a maker order
Takes(request) == request.price.n > 0 /\ request.volume.n > 0
Booked(level, request) == Merged(request, [kind |-> "taker", level |-> level])
RelAmount(o) == [n |-> o.volume.n * o.price.n, s |-> o.volume.s + o.price.s]

\* No order is None, no number the empty text
ASSUME OrdersAssumption ==
    \A level \in Levels :
        LET o == Booked(level, ToRequest(level))
        IN  /\ \A kind \in {"taker", "maker"} : [o EXCEPT !.kind = kind] # None
            /\ Empty \notin {o.volume, RelAmount(o)}

\* Prices stay in the range of their type
ASSUME RangeAssumption ==
    /\ \A level \in Levels :
          LET o == Booked(level, ToRequest(level))
          IN  /\ Formatted(o.price, Decimals(o.rel)) < PriceModulus
              /\ Formatted(StdToString(o.price, ToStringDigits), Decimals(o.rel)) < PriceModulus
    /\ \A t \in Tokens : t.token # NoFloat =>
          Formatted(Extracted(t.token), Decimals(t.symbol)) < PriceModulus

\* The members of mm2's answers that say something of an order
AnswerOn(id, o) ==
    [base |-> o.base, rel |-> o.rel, uuid |-> id, action |-> o.level.sell,
     method |-> "request", base_amount |-> o.volume, rel_amount |-> RelAmount(o),
     dest_pub_key |-> "key", sender_pubkey |-> "key",
     max_base_vol |-> o.volume, price |-> o.price]
Without(j, lacking) == [f \in DOMAIN j \ lacking |-> j[f]]

\* order_builder: live and not filled, which no conversion changes
BuildOrder(t, price, quantity) ==
    [id |-> t.uuid, base |-> t.base, rel |-> t.rel, price |-> price, quantity |-> quantity]

\* The quotient of two amounts, the first of which the second divides
Quotient(a, b) == [n |-> a.n \div b.n, s |-> a.s - b.s]

\* The price of an order whose price is not computed is Terminates
BuiltFrom(t) ==
    BuildOrder(t, Generated(StdToString(Quotient(t.rel_amount, t.base_amount), ToStringDigits),
                            Decimals(t.rel)),
               t.base_amount)

\* to_order(trade_result): stod throws on an empty text.  dex::place does not look at
\* the code of the answer
TradeOrder(t) ==
    IF Empty \in {t.base_amount, t.rel_amount} THEN BuildOrder(t, Terminates, t.base_amount)
    ELSE BuiltFrom(t)

\* to_order(taker_order), to_order(mm2::order)
TakerToOrder(t) == BuiltFrom(t)
MakerToOrder(t) == BuildOrder(t, Generated(t.price, Decimals(t.rel)), t.base_amount)

\* The orders read, a function of their ids, reach the manager
Learn(orders) ==
    IF \E id \in DOMAIN orders : orders[id].price = Terminates
    THEN ended' = TRUE /\ UNCHANGED heard
    ELSE heard' = Merged(orders, heard) /\ UNCHANGED ended

\* dex::place: mm2 refuses, or answers; a lost answer teaches nothing
PlaceRefused ==
    /\ last' = [op |-> "refused"]
    /\ UNCHANGED <<book, heard, ended>>

Place(id, level, lacking) ==
    LET o == Booked(level, ToRequest(level))
    IN  /\ book[id] = None
        /\ Takes(o)
        /\ book' = [book EXCEPT ![id] = o]
        /\ last' = [op |-> "place", id |-> id, lacking |-> lacking]
        /\ Learn(Single(id, TradeOrder(FillTrade(Without(AnswerOn(id, o), lacking)).value)))

PlaceLost(id, level) ==
    LET o == Booked(level, ToRequest(level))
    IN  /\ book[id] = None
        /\ Takes(o)
        /\ book' = [book EXCEPT ![id] = o]
        /\ last' = [op |-> "lost"]
        /\ UNCHANGED <<heard, ended>>

\* mm2: a taker order waits no longer, an order is gone
Rest(id) ==
    /\ book[id] # None /\ book[id].kind = "taker"
    /\ book' = [book EXCEPT ![id].kind = "maker"]
    /\ last' = [op |-> "none"]
    /\ UNCHANGED <<heard, ended>>

Remove(id) ==
    /\ book[id] # None
    /\ book' = [book EXCEPT ![id] = None]
    /\ heard' = [heard EXCEPT ![id] = None]
    /\ last' = [op |-> "none"]
    /\ UNCHANGED ended

OfKind(kind) == {id \in Ids : book[id] # None /\ book[id].kind = kind}

\* from_json(my_orders_answer): the maker orders, then the taker orders, unless an
\* order before them lacks a member
Listed(lacking) ==
    LET on(id) == Without(AnswerOn(id, book[id]), lacking)
        makers == \A id \in OfKind("maker") : FillMaker(on(id)).whole
        takers == makers /\ \A id \in OfKind("taker") : FillTaker(on(id)).whole
    IN  (IF makers THEN OfKind("maker") ELSE {}) \cup (IF takers THEN OfKind("taker") ELSE {})

\* to_orders
ToOrders(ids) ==
    [id \in ids |-> LET j == AnswerOn(id, book[id])
                    IN  IF book[id].kind = "maker" THEN MakerToOrder(FillMaker(j).value)
                        ELSE TakerToOrder(FillTaker(j).value)]

\* dex::get_live_orders, which does not look at the code either
GetLiveOrders(lacking) ==
    /\ last' = [op |-> "live", ids |-> Listed(lacking)]
    /\ Learn(ToOrders(Listed(lacking)))
    /\ UNCHANGED book

-------------------------------------------------------------------------------
(* The calls of the HTTP server, and the price platforms.                   *)

ReadBody(form, j) ==
    CASE form \in {"buy", "sell"} -> ReadTrade(j)
      [] form = "setprice" -> ReadSetPrice(j)
      [] form = "cancel_order" -> ReadCancelOrder(j)
      [] form = "cancel_all_orders" -> ReadCancelAll(j)
      [] form = "my_recent_swaps" -> ReadRecentSwaps(j)
      [] form = "withdraw" -> ReadWithdraw(j)
      [] form = "send_raw_transaction" -> ReadSendRaw(j)

WriteBody(form, r) ==
    CASE form \in {"buy", "sell"} -> WriteTrade(r)
      [] form = "setprice" -> WriteSetPrice(r)
      [] form = "cancel_order" -> WriteCancelOrder(r)
      [] form = "cancel_all_orders" -> WriteCancelAll(r)
      [] form = "my_recent_swaps" -> WriteRecentSwaps(r)
      [] form = "withdraw" -> WriteWithdraw(r)
      [] form = "send_raw_transaction" -> WriteSendRaw(r)

\* process_post_function: a body from_json refuses asks mm2 nothing
Forward(post) ==
    LET r == ReadBody(post.form, post.body)
    IN  /\ last' = [op |-> "forward", post |-> post,
                    asked |-> IF r = IllFormed THEN None ELSE WriteBody(post.form, r)]
        /\ UNCHANGED <<book, heard, ended>>

FillAnswer(call, j) ==
    CASE call = "electrum" -> FillElectrum(j)
      [] call = "orderbook" -> FillOrderbook(j)
      [] call = "my_balance" -> FillBalance(j)
      [] call = "version" -> FillVersion(j)
      [] call = "setprice" -> FillSetPrice(j)
      [] call \in {"buy", "sell"} -> FillTradeAnswer(j)
      [] call = "cancel_order" -> FillCancelOrder(j)
      [] call = "cancel_all_orders" -> FillCancelAll(j)
      [] call = "get_enabled_coins" -> FillEnabledCoins(j)
      [] call = "my_orders" -> FillMyOrders(j)
      [] call = "my_recent_swaps" -> FillRecentSwaps(j)
      [] call = "withdraw" -> FillWithdraw(j)
      [] call = "send_raw_transaction" -> FillSendRaw(j)

\* rpc_process_call: a read that throws leaves the members already read
Process(answer) ==
    LET filled == FillAnswer(answer.call, answer.body)
    IN  /\ last' = [op |-> "answer", answer |-> answer,
                    code |-> IF filled.whole THEN 200 ELSE -1, got |-> filled.value]
        /\ UNCHANGED <<book, heard, ended>>

\* coinpaprika's get_price reads the number of the body
ReadPrice(t) ==
    LET price == PriceOf(t.token, Decimals(t.symbol))
    IN  /\ last' = [op |-> "price", symbol |-> t.symbol, token |-> t.token, price |-> price]
        /\ ended' = (price = Terminates)
        /\ UNCHANGED <<book, heard>>

-------------------------------------------------------------------------------
Next ==
    \/ /\ ~ended
       /\ \/ \E id \in Ids, level \in Levels, lacking \in Lacking : Place(id, level, lacking)
          \/ \E id \in Ids, level \in Levels : PlaceLost(id, level)
          \/ PlaceRefused
          \/ \E id \in Ids : Rest(id) \/ Remove(id)
          \/ \E lacking \in Lacking : GetLiveOrders(lacking)
          \/ \E post \in Bodies : Forward(post)
          \/ \E answer \in Answers : Process(answer)
          \/ \E t \in Tokens : ReadPrice(t)
    \/ ended /\ UNCHANGED vars

Spec == Init /\ [][Next]_vars

-------------------------------------------------------------------------------
(* Properties.                                                              *)

\* Every variable holds a value of its type; in particular what was heard of an
\* order is whole: no step leaves half an order with the manager.
TypeOK ==
    /\ \A id \in Ids : book[id] # None =>
          /\ book[id].kind \in {"taker", "maker"}
          /\ IsText(book[id].price) /\ IsText(book[id].volume)
    /\ \A id \in Ids : heard[id] # None =>
          /\ heard[id].id = id /\ book[id] # None
          /\ heard[id].price \in Nat \ {0} /\ IsText(heard[id].quantity)
    /\ ended \in BOOLEAN

\* An order as the manager holds it is the order mm2 has: the same pair and
\* quantity, and a price that is mm2's up to the rounding of the texts it went
\* through, whether it came from the answer to buy and sell, from the list of taker
\* orders or from that of maker orders.
HeardIsBooked ==
    \A id \in Ids : heard[id] # None =>
        LET h == heard[id]  o == book[id]
            d == Decimals(o.rel)  k == ToStringDigits
            gap == 2 * (h.price * Pow[o.price.s + k] - o.price.n * Pow[d + k])
            bound == Pow[o.price.s + k] + Pow[d + o.price.s]
        IN  /\ h.base = o.base /\ h.rel = o.rel
            /\ h.quantity = o.volume
            /\ gap <= bound /\ -gap <= bound

\* A number of a platform is read as the price nearest to it in the units of the
\* quote, with and without an exponent.
QuoteIsNear ==
    last.op = "price" /\ last.price # Terminates =>
        Near(last.price, Decimals(last.symbol), last.token.m, Scale(last.token))

Given(m, f) == IF f \in DOMAIN m THEN m[f] ELSE Absent

\* The members mm2 reads of the calls it has no defaults for
Members(form) ==
    CASE form \in {"buy", "sell"} -> {"base", "rel", "price", "volume"}
      [] form = "cancel_order" -> {"uuid"}
      [] OTHER -> {"coin", "tx_hex"}

\* What mm2 carries out when it is sent m
Effect(form, m) ==
    CASE form = "withdraw" ->
            IF Given(m, "max") = "true" THEN <<Given(m, "coin"), Given(m, "to"), "all">>
            ELSE IF Given(m, "amount") \in {Absent, Empty} THEN Refused
            ELSE <<Given(m, "coin"), Given(m, "to"), m["amount"]>>
      [] form = "cancel_all_orders" ->
            CASE Given(m, "type") = "All" -> <<"all">>
              [] Given(m, "type") = "Pair" -> <<"pair", Given(m, "base"), Given(m, "rel")>>
              [] Given(m, "type") = "Coin" /\ Given(m, "ticker") # Absent ->
                    <<"coin", m["ticker"]>>
              [] OTHER -> Refused
      [] form = "my_recent_swaps" ->
            <<Given(m, "from_uuid"), IF "limit" \in DOMAIN m THEN m["limit"] ELSE "10">>
      [] form = "setprice" ->
            <<Given(m, "rel"), Given(m, "base"), Given(m, "price"), Given(m, "volume"),
              IF "max" \in DOMAIN m THEN m["max"] ELSE "false",
              IF "cancel_previous" \in DOMAIN m THEN m["cancel_previous"] ELSE "true">>
      [] OTHER -> Restrict(m, Members(form) \cap DOMAIN m)

\* A body goes through a struct on its way to mm2.  What mm2 carries out for it is
\* what it would carry out for the body itself, or nothing: a member the struct
\* loses (the amount next to a max of false, the ticker of a cancel by coin) never
\* turns into a withdrawal or a cancel of something else.
AskedAsMeant ==
    last.op = "forward" /\ last.asked # None =>
        Effect(last.post.form, last.asked) \in {Effect(last.post.form, last.post.body), Refused}

\* The members of a struct that hold what was said, its lists apart
Held(struct) == {f \in DOMAIN struct : struct[f] \notin {Empty, Absent}}
Filled(struct, lists, unread) == Held(struct) \cup lists = DOMAIN struct \ unread
AllFilled(structs, objects, lists, unread) ==
    /\ DOMAIN structs = DOMAIN objects
    /\ \A i \in DOMAIN structs : Filled(structs[i], lists, unread)

\* A struct that holds all of an answer to call, as far as from_json reads it
Complete(call, body, got) ==
    CASE call \in {"buy", "sell"} ->
            IF "error" \in DOMAIN body THEN Held(got) = {"error"} ELSE Filled(got, {}, {"error"})
      [] call = "setprice" -> Filled(got, {}, {"min_base_vol"})
      [] call = "orderbook" ->
            /\ Filled(got, {"bids", "asks"}, {})
            /\ \A side \in {"bids", "asks"} :
                  AllFilled(got[side], body[side], {},
                            {"price_as_integer", "num_utxos", "ave_volume", "depth"})
      [] call = "get_enabled_coins" ->
            AllFilled(got["result_enabled_coins"], body["result"], {}, {})
      [] call = "my_orders" ->
            /\ AllFilled(got["m_orders"], body["maker_orders"], {}, {})
            /\ AllFilled(got["t_orders"], body["taker_orders"], {}, {})
      [] call = "my_recent_swaps" ->
            /\ AllFilled(got["swaps"], body["swaps"], {"events"}, {})
            /\ \A i \in DOMAIN got["swaps"] :
                  AllFilled(got["swaps"][i]["events"], body["swaps"][i]["events"], {"data"}, {})
      [] OTHER -> Filled(got, {}, {})

\* A struct whose code is 200 holds all of the answer: no member is left as it was
\* declared when another was read or a list broke off, a struct stands in a list for
\* each object of the answer, and a trade mm2 declined holds the error and no trade.
\* Only what no from_json reads stays unfilled: the least volume of setprice, which is
\* read into the greatest, four members of an order of the orderbook, and the data of
\* a swap's event if there is none.
OkIsFilled ==
    last.op = "answer" /\ last.code = 200 =>
        Complete(last.answer.call, last.answer.body, last.got)

\* Is the price a text says at least half a unit of both decimals?
Shown(text, d, k) ==
    2 * text.n * Pow[d] >= Pow[text.s] /\ 2 * text.n * Pow[k] >= Pow[text.s]

\* An exception ends the process only on what no conversion can keep: an answer
\* without the amounts, a price too small for the decimals of its coin or of
\* std::to_string, a body without a number.  In particular an answer that lacks only
\* the keys of the traders, which the bot does not use, is survived.
Survives ==
    ended =>
        \/ /\ last.op = "place"
           /\ LET o == book[last.id]
              IN  \/ ~(last.lacking \subseteq {"dest_pub_key", "sender_pubkey"})
                  \/ ~Shown(o.price, Decimals(o.rel), ToStringDigits)
        \/ /\ last.op = "live"
           /\ \E id \in last.ids :
                 LET o == book[id]  d == Decimals(o.rel)
                 IN  ~Shown(o.price, d, IF o.kind = "taker" THEN ToStringDigits ELSE d)
        \/ /\ last.op = "price"
           /\ \/ last.token = NoFloat
              \/ 2 * last.token.m * Pow[Decimals(last.symbol)] < Pow[Scale(last.token)]

\* Between coins of the same decimals an order is on the book at the price of its
\* level, to the last digit.
ExactBetweenEquals ==
    \A id \in Ids : book[id] # None /\ Decimals(book[id].base) = Decimals(book[id].rel) =>
        book[id].price.n * Pow[Decimals(book[id].rel)]
            = book[id].level.price * Pow[book[id].price.s]

\* An order is on the book at the price of its level, which counts units of the
\* quote: dex.utils.tests.cpp:49-57 reads the price of a pair in the decimals of
\* its rel, and antara.utils.tests.cpp:91 writes one from those of its quote.
PlacedAtItsPrice ==
    \A id \in Ids : book[id] # None =>
        book[id].price.n * Pow[Decimals(book[id].rel)]
            = book[id].level.price * Pow[book[id].price.s]
===============================================================================
