---------------------------- MODULE MCHttpServer ----------------------------
(* A small instance of HttpServer: requests of every kind of handler.         *)
EXTENDS HttpServer

CONSTANTS r1, r2, kmd, rfox, ltc

Call(to, form) == [to |-> to, form |-> form]

MCCalls ==
    {Call(to, "good") : to \in {"/", "getprice", "my_balance", "version", EnableAll,
                                "setprice", "cancel_order", "buy", "addstrategy",
                                "getstrategy", "unknown"}}
    \cup {Call(to, form) : to \in {"getprice", "my_balance"}, form \in {"short", "misnamed"}}
    \cup {Call(to, "short") : to \in {"setprice", "addstrategy"}}
==============================================================================
