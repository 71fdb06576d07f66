-------------------------------- MODULE MCWire --------------------------------
(* A small instance of Wire: coins of three kinds of decimals, small prices,   *)
(* every body with and without each of its members.                           *)
EXTENDS Wire

CONSTANT some  \* a value like any other

Entry(coin) == [coin |-> coin, mm2 |-> 1]
MCEntries == << Entry("KMD"), Entry("LTC"), Merged(Entry("USDC"), [etomic |-> some, decimals |-> 1]),
                Merged(Entry("ETH"), [etomic |-> some]), Merged(Entry("KMD"), [etomic |-> some]),
                Merged(Entry("BTC"), [decimals |-> 1]) >>
MCElectrums == [KMD |-> << [url |-> "u"] >>]

Level(base, quote, price, quantity) ==
    [base |-> base, quote |-> quote, price |-> price, quantity |-> quantity, sell |-> FALSE]
MCLevels ==
    {Level(p[1], p[2], price, quantity) :
        p \in {<<"KMD", "LTC">>, <<"KMD", "BTC">>, <<"USDC", "KMD">>, <<"ETH", "KMD">>,
               <<"KMD", "USDC">>, <<"LTC", "ETH">>},
        price \in {0, 1, 4, 5, 26, 104},
        quantity \in {[n |-> 1505, s |-> 3], [n |-> 3, s |-> 3]}}

MCLacking == {{}} \cup {{f} : f \in {"rel", "base", "uuid", "rel_amount", "base_amount",
                                     "dest_pub_key", "sender_pubkey", "price", "max_base_vol"}}

\* The bodies of a form: any of its optional members, and all or all but one of
\* those it needs
BodiesOf(form, needed, optional) ==
    UNION {{[form |-> form, body |-> [f \in s \cup o |-> some]] : o \in SUBSET optional} :
           s \in {needed} \cup {needed \ {f} : f \in needed}}
With(posts, f, values) ==
    {[p EXCEPT !.body = IF f \in DOMAIN p.body THEN [p.body EXCEPT ![f] = v] ELSE p.body] :
     p \in posts, v \in values}
MCBodies ==
    UNION {BodiesOf("buy", {"base", "rel", "price", "volume"}, {"unknown"}),
           BodiesOf("sell", {"base", "rel", "price", "volume"}, {}),
           BodiesOf("setprice", {"base", "rel", "price", "volume"}, {"max", "cancel_previous"}),
           BodiesOf("cancel_order", {"uuid"}, {}),
           BodiesOf("my_recent_swaps", {}, {"from_uuid", "limit"}),
           BodiesOf("send_raw_transaction", {"coin", "tx_hex"}, {}),
           With(BodiesOf("withdraw", {"coin", "to"}, {"amount", "max"}), "max",
                {"true", "false"}),
           With(BodiesOf("cancel_all_orders", {"type"}, {"base", "rel", "ticker"}), "type",
                {"All", "Pair", "Coin"})}

\* An answer with all its members, and with all but one
AnswersOf(call, members) ==
    {[call |-> call, body |-> [f \in s |-> some]] :
     s \in {members} \cup {members \ {f} : f \in members}}
Trade == {"rel", "base", "action", "uuid", "method", "rel_amount", "base_amount",
          "dest_pub_key", "sender_pubkey"}
Event(members, data) == Merged([f \in members |-> some], data)
SwapOf(events) == [events |-> events, error_events |-> some, type |-> some]
Events == {Event(members, data) : members \in {{"type", "timestamp"}, {"timestamp"}, {"type"}},
                                  data \in {<<>>, [data |-> <<>>], [data |-> [uuid |-> some]]}}
Maker == {"base", "rel", "uuid", "max_base_vol", "price"}
Taker == {"base", "rel", "uuid", "base_amount", "rel_amount"}
AllBut(members) == {[f \in members \ lacking |-> some] : lacking \in {{}} \cup {{f} : f \in members}}
Contents == {"coin", "address", "price", "maxvolume", "pubkey", "age", "zcredits"}
Orderbook(bid) ==
    [askdepth |-> 0, biddepth |-> 0, netid |-> 0, numasks |-> 0, numbids |-> 1,
     timestamp |-> 0, asks |-> <<>>, bids |-> <<bid>>, base |-> "KMD", rel |-> "LTC"]
MCAnswers ==
    UNION {AnswersOf("electrum", {"address", "balance", "result"}),
           AnswersOf("my_balance", {"address", "balance", "coin"}),
           AnswersOf("version", {"result"}),
           AnswersOf("setprice", {"rel", "base", "price", "uuid", "started_swaps",
                                  "max_base_vol", "min_base_vol", "created_at", "matches"}),
           AnswersOf("buy", Trade), AnswersOf("sell", Trade),
           {[call |-> "sell", body |-> [error |-> some]]},
           {[call |-> "my_orders",
             body |-> [maker_orders |-> [u1 |-> maker], taker_orders |-> [u2 |-> taker]]] :
               maker \in AllBut(Maker), taker \in {[f \in Taker |-> some]}},
           {[call |-> "my_orders", body |-> [maker_orders |-> <<>>, taker_orders |-> [u2 |-> taker]]] :
               taker \in AllBut(Taker)},
           AnswersOf("my_recent_swaps", {}),
           {[call |-> "my_recent_swaps", body |-> [swaps |-> <<swap>>]] :
               swap \in AllBut({"error_events", "type"})
                        \cup {SwapOf(<<Event({"type", "timestamp"}, <<>>), e>>) : e \in Events}},
           AnswersOf("cancel_order", {"result"}),
           AnswersOf("cancel_all_orders", {"cancelled", "currently_matching"}),
           AnswersOf("withdraw", {"from", "to", "spent_by_me", "total_amount", "tx_hash",
                                  "my_balance_change", "received_by_me", "tx_hex"}),
           AnswersOf("send_raw_transaction", {"tx_hash"}),
           {[call |-> "orderbook", body |-> Orderbook([f \in Contents \ lacking |-> some])] :
               lacking \in {{}} \cup {{f} : f \in Contents}},
           {[call |-> "get_enabled_coins",
             body |-> [result |-> << [f \in s |-> some] >>]] :
               s \in {{"address", "ticker"}, {"ticker"}}}}

MCTokens ==
    {[symbol |-> symbol, token |-> token] :
        symbol \in {"KMD", "USDC"},
        token \in {NoFloat} \cup {Token("plain", m, 1, s, 0) : m \in {0, 5, 1249, 98765}, s \in {1, 4}}
                  \cup {Token("small", m, 1, s, e) : m \in {5, 49}, s \in {0, 1}, e \in 1 .. 4}}
===============================================================================
