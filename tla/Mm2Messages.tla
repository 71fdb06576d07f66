------------------------------ MODULE Mm2Messages ------------------------------
(***************************************************************************)
(* The messages of the mm2 client (src/mm2): the structs, and the          *)
(* conversions that fill them from JSON and write them to JSON.            *)
(*                                                                         *)
(* An object of JSON, and a struct, is a function from the names of its    *)
(* members to their values.  A member of a struct that was not filled      *)
(* holds the value its declaration gives it: the empty text, Absent for an *)
(* optional, or a default.  What every answer holds besides, the raw body  *)
(* and the code of rpc_process_call, is not a member here.                 *)
(***************************************************************************)
EXTENDS Integers, Sequences, FiniteSetsExt, Objects

CONSTANTS
    Empty,     \* the empty text
    Absent,    \* an optional without a value
    IllFormed  \* no struct: from_json threw

ASSUME MessagesAssumption == Absent \notin {Empty, "true", "10"}

Blank(members) == [f \in members |-> Empty]
Optional(members) == [f \in members |-> Absent]

-------------------------------------------------------------------------------
(* Requests.  j.at throws when a member is needed and is not there.         *)

Read(struct, j, needed, taken) ==
    IF needed \subseteq DOMAIN j
    THEN Merged(Restrict(j, (needed \cup taken) \cap DOMAIN j), struct)
    ELSE IllFormed

Written(struct, members) == Restrict(struct, {f \in members : struct[f] # Absent})
All(struct) == Written(struct, DOMAIN struct)

ElectrumRequest == Merged(Blank({"coin", "servers"}), [tx_history |-> "true"])
WriteElectrum(r) == All(r)

OrderbookRequest == Blank({"base", "rel"})
WriteOrderbook(r) == All(r)

BalanceRequest == Blank({"coin"})
WriteBalance(r) == All(r)

TradeRequest == Blank({"base", "rel", "price", "volume"})
ReadTrade(j) == Read(TradeRequest, j, DOMAIN TradeRequest, {})
WriteTrade(r) == All(r)

SetPriceRequest == Merged(TradeRequest, Optional({"max", "cancel_previous"}))
ReadSetPrice(j) ==
    Read(SetPriceRequest, j, DOMAIN TradeRequest, {"max", "cancel_previous"})
WriteSetPrice(r) == All(r)

CancelOrderRequest == Blank({"uuid"})
ReadCancelOrder(j) == Read(CancelOrderRequest, j, {"uuid"}, {})
WriteCancelOrder(r) == All(r)

\* The members of cancel_by and of its data.  Only the data of a pair is read.
CancelAllRequest == Merged(Blank({"type"}), Optional({"base", "rel"}))
ReadCancelAll(j) ==
    Read(CancelAllRequest, j,
         {"type"} \cup IF "type" \in DOMAIN j /\ j["type"] = "Pair" THEN {"base", "rel"} ELSE {},
         {})
WriteCancelAll(r) == All(r)

RecentSwapsRequest == Merged(Optional({"from_uuid"}), [limit |-> "10"])
ReadRecentSwaps(j) == Read(RecentSwapsRequest, j, {}, {"from_uuid", "limit"})
WriteRecentSwaps(r) == All(r)

SwapStatusRequest == Blank({"uuid"})
WriteSwapStatus(r) == All(r)

\* The amount is read only if max is not there, and written if max is false
WithdrawRequest == Merged(Blank({"coin", "to", "amount"}), [max |-> "false"])
ReadWithdraw(j) ==
    Read(WithdrawRequest, j,
         {"coin", "to"} \cup IF "max" \in DOMAIN j THEN {"max"} ELSE {"amount"}, {})

\* Mutant: the branches are swapped
MaxUnlessAsked(r) ==
    Written([r EXCEPT !["max"] = "true"],
            {"coin", "to"} \cup IF r["max"] = "true" THEN {"amount"} ELSE {"max"})
WriteWithdraw(r) ==
    Written(r, {"coin", "to"} \cup IF r["max"] = "true" THEN {"max"} ELSE {"amount"})

SendRawRequest == Blank({"coin", "tx_hex"})
ReadSendRaw(j) == Read(SendRawRequest, j, DOMAIN SendRawRequest, {})
WriteSendRaw(r) == All(r)

-------------------------------------------------------------------------------
(* Answers.  Members are read one after the other: a member that is not     *)
(* there throws, and leaves those after it as they were.  A read is a pair: *)
(* the member of the object, and the member of the struct it goes to.       *)

Same(members) == [i \in DOMAIN members |-> <<members[i], members[i]>>]

\* How many of the reads succeed
Done(j, reads) ==
    LET missing == {i \in DOMAIN reads : reads[i][1] \notin DOMAIN j}
    IN  IF missing = {} THEN Len(reads) ELSE Min(missing) - 1

Fill(struct, j, reads) ==
    LET into(f) == {i \in 1 .. Done(j, reads) : reads[i][2] = f}
    IN  [value |-> [f \in DOMAIN struct |-> IF into(f) = {} THEN struct[f]
                                            ELSE j[reads[Max(into(f))][1]]],
         whole |-> Done(j, reads) = Len(reads)]

\* The objects of a list go each through a from_json of their own.  A list with an
\* object that is refused throws as if it lacked; one read holds the structs.
Each(objects, fill(_)) == [i \in DOMAIN objects |-> fill(objects[i])]
Parsed(j, list, filled) ==
    IF list \notin DOMAIN j \/ \E i \in DOMAIN filled : ~filled[i].whole
    THEN Restrict(j, DOMAIN j \ {list})
    ELSE [j EXCEPT ![list] = [i \in DOMAIN filled |-> filled[i].value]]

ElectrumAnswer == Blank({"address", "balance", "result"})
FillElectrum(j) == Fill(ElectrumAnswer, j, Same(<<"address", "balance", "result">>))

OrderContents ==
    Blank({"coin", "address", "price_as_integer", "price", "num_utxos", "ave_volume",
           "max_volume", "depth", "pub_key", "age", "zcredits"})
FillContents(j) ==
    Fill(OrderContents, j, Same(<<"coin", "address", "price">>)
                           \o << <<"maxvolume", "max_volume">>, <<"pubkey", "pub_key">> >>
                           \o Same(<<"age", "zcredits">>))

OrderbookAnswer ==
    Merged([asks |-> <<>>, bids |-> <<>>],
           Blank({"ask_depth", "base", "bid_depth", "net_id", "num_asks", "num_bids",
                  "rel", "timestamp"}))
FillOrderbook(j) ==
    LET bids == Parsed(j, "bids", Each(j["bids"], FillContents))
    IN  Fill(OrderbookAnswer, Parsed(bids, "asks", Each(j["asks"], FillContents)),
             << <<"askdepth", "ask_depth">>, <<"biddepth", "bid_depth">>,
                <<"netid", "net_id">>, <<"numasks", "num_asks">>,
                <<"numbids", "num_bids">> >>
             \o Same(<<"timestamp", "bids", "asks", "base", "rel">>))

BalanceAnswer == Blank({"address", "balance", "coin"})
FillBalance(j) == Fill(BalanceAnswer, j, Same(<<"address", "balance", "coin">>))

VersionAnswer == Blank({"version"})
FillVersion(j) == Fill(VersionAnswer, j, << <<"result", "version">> >>)

\* The least volume goes where the greatest went
SetPriceResult ==
    Blank({"base", "rel", "price", "max_base_vol", "min_base_vol", "created_at",
           "matches", "started_swaps", "uuid"})
FillSetPrice(j) ==
    Fill(SetPriceResult, j, Same(<<"rel", "base", "price", "uuid", "started_swaps",
                                   "max_base_vol">>)
                            \o << <<"min_base_vol", "max_base_vol">> >>
                            \o Same(<<"created_at", "matches">>))

\* No member of the answer to a cancel is read
FillCancelOrder(j) == Fill(<<>>, j, <<>>)

CancelAllAnswer == Blank({"cancelled", "currently_matching"})

\* Mutant: both lists are read into the first
IntoCancelled(j) ==
    Fill(CancelAllAnswer, j, << <<"cancelled", "cancelled">>,
                                <<"currently_matching", "cancelled">> >>)
FillCancelAll(j) == Fill(CancelAllAnswer, j, Same(<<"cancelled", "currently_matching">>))

EnabledCoin == Blank({"ticker", "address"})
FillEnabledCoin(j) == Fill(EnabledCoin, j, Same(<<"address", "ticker">>))
EnabledCoinsAnswer == [result_enabled_coins |-> <<>>]
FillEnabledCoins(j) ==
    Fill(EnabledCoinsAnswer, Parsed(j, "result", Each(j["result"], FillEnabledCoin)),
         << <<"result", "result_enabled_coins">> >>)

\* The members of an event's data are read if they are there, and so is the data
EventData ==
    Optional({"uuid", "maker_coin", "taker_coin", "maker_amount", "taker_amount"})
FillEventData(j) == Merged(Restrict(j, DOMAIN EventData \cap DOMAIN j), EventData)

\* The time of an event and the members of the event
EventTs == Merged([data |-> Absent], Blank({"type", "timestamp"}))
FillEventTs(j) ==
    Fill([EventTs EXCEPT !["data"] = IF "data" \in DOMAIN j THEN FillEventData(j["data"]) ELSE @],
         j, Same(<<"type", "timestamp">>))

SwapInfo == Merged([events |-> <<>>], Blank({"error_events", "type"}))
FillSwap(j) ==
    Fill(SwapInfo, Parsed(j, "events", Each(j["events"], FillEventTs)),
         Same(<<"events", "error_events", "type">>))

RecentSwapsAnswer == [swaps |-> <<>>]
FillRecentSwaps(j) ==
    Fill(RecentSwapsAnswer, Parsed(j, "swaps", Each(j["swaps"], FillSwap)),
         Same(<<"swaps">>))

WithdrawAnswer ==
    Blank({"from", "to", "tx_hash", "tx_hex", "my_balance_change", "received_by_me",
           "spent_by_me", "total_amount"})
FillWithdraw(j) ==
    Fill(WithdrawAnswer, j, Same(<<"from", "to", "spent_by_me", "total_amount",
                                   "my_balance_change", "received_by_me", "tx_hash",
                                   "tx_hex">>))

SendRawAnswer == Blank({"tx_hash"})
FillSendRaw(j) == Fill(SendRawAnswer, j, Same(<<"tx_hash">>))

-------------------------------------------------------------------------------
(* The answers that say something of orders, which dex reads too.           *)

TradeResult ==
    Blank({"action", "base", "rel", "base_amount", "rel_amount", "method",
           "dest_pub_key", "sender_pub_key", "uuid"})

\* Mutant: the key of the sender is read before the amounts
KeysFirst(j) ==
    Fill(TradeResult, j, << <<"sender_pubkey", "sender_pub_key">> >>
                         \o Same(<<"rel", "base", "action", "uuid", "method",
                                   "rel_amount", "base_amount", "dest_pub_key">>))
FillTrade(j) ==
    Fill(TradeResult, j, Same(<<"rel", "base", "action", "uuid", "method",
                                "rel_amount", "base_amount", "dest_pub_key">>)
                         \o << <<"sender_pubkey", "sender_pub_key">> >>)

\* A trade that mm2 declined is an answer all the same: its error is read, and nothing
\* else
FillTradeAnswer(j) ==
    IF "error" \in DOMAIN j
    THEN [value |-> Merged(Single("error", j["error"]), Optional(DOMAIN TradeResult)),
          whole |-> TRUE]
    ELSE [value |-> Merged(FillTrade(j).value, Optional({"error"})),
          whole |-> FillTrade(j).whole]

\* The members of the request of a taker order
TakerOrder == Blank({"base", "rel", "base_amount", "rel_amount", "uuid"})
FillTaker(j) ==
    Fill(TakerOrder, j, Same(<<"base", "rel", "uuid", "base_amount", "rel_amount">>))

MakerOrder == Blank({"base", "rel", "uuid", "base_amount", "price"})
FillMaker(j) ==
    Fill(MakerOrder, j, Same(<<"base", "rel", "uuid">>)
                        \o << <<"max_base_vol", "base_amount">>, <<"price", "price">> >>)

MyOrdersAnswer == [m_orders |-> <<>>, t_orders |-> <<>>]
FillMyOrders(j) ==
    LET makers == Parsed(j, "maker_orders", Each(j["maker_orders"], FillMaker))
    IN  Fill(MyOrdersAnswer,
             Parsed(makers, "taker_orders", Each(j["taker_orders"], FillTaker)),
             << <<"maker_orders", "m_orders">>, <<"taker_orders", "t_orders">> >>)
===============================================================================
