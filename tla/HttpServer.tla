------------------------------ MODULE HttpServer ------------------------------
(***************************************************************************)
(* The HTTP server (src/http) and the mm2 client it calls (src/mm2).  One  *)
(* thread takes the requests one after the other; a handler answers at     *)
(* once, asks the price service, or posts a call to the mm2 daemon, a      *)
(* child process that may refuse it, die before or after carrying it out,  *)
(* or (Faulty) answer something its from_json does not accept.  Three of   *)
(* the from_json accept an error, too.                                     *)
(*                                                                         *)
(* A request is a route and a form: "good", or how its parameters or its   *)
(* body are wrong.  Fields and values are not modelled, nor is what an     *)
(* answer says beyond its code: an answer of mm2 is told apart by its      *)
(* status and by which of the parsers takes it.                            *)
(***************************************************************************)
EXTENDS Integers, Sequences

CONSTANTS
    Requests,   \* the requests clients send
    NoRequest,  \* none: the server is idle
    Calls,      \* what a request may be
    NoCall,     \* the request was not sent yet
    Coins,      \* the coins enable_all_coins goes through
    Tcp, Ssl,   \* those whose electrum servers answer with either protocol
    Faulty      \* may mm2 answer 200 with something unexpected?

\* create_routes: the handlers of parameters in the query, of a body, and those
\* that forward the call to mm2
Queries == {"getprice", "getorderbook", "my_balance"}
Mm2Posts == {"setprice", "cancel_order", "buy", "sell", "withdraw",
             "send_raw_transaction", "my_recent_swaps", "cancel_all_orders"}
SmPosts == {"addstrategy", "getstrategy"}
EnableAll == "enable_all_electrums_coins"
Mm2Gets == {"getorderbook", "my_balance", "my_orders", "version",
            "get_enabled_coins", EnableAll}
\* The calls whose from_json takes a 200 with an error in it for an answer: it looks
\* for "error" before the result, or at nothing at all
Lenient == {"buy", "sell", "cancel_order"}
Routes == {"/", "getallprice"} \cup Queries \cup Mm2Gets \cup Mm2Posts \cup SmPosts

Forms == {"good", "short", "misnamed"}

ASSUME ServerAssumption ==
    /\ NoRequest \notin Requests
    /\ NoCall \notin Calls
    /\ \A c \in Calls : /\ c = [to |-> c.to, form |-> c.form]
                        /\ c.form \in Forms
    /\ Tcp \subseteq Coins /\ Ssl \subseteq Coins
    /\ Faulty \in BOOLEAN

\* What came back: a result, an error with another code than 200, an error with 200
\* that from_json takes, a 200 it does not take, nothing
Replies == {"none", "expected", "error", "declined", "unexpected", "lost"}
Refusals == {"error", "declined"}

VARIABLES
    pc,       \* where the server's thread is
    at,       \* the request it handles
    call,     \* what each request is
    answers,  \* the codes answered to each request
    closed,   \* the requests whose handler threw: restinio closes the connection
    refused,  \* the requests answered with an error of mm2 in the body
    carried,  \* how often mm2 carried out the call of each request
    reply,    \* what came back from mm2
    left,     \* enable_all_coins: the coins it has still to try
    again,    \* the coin it tries again with ssl, a set of at most one
    enabled,  \* the coins mm2 has enabled
    stored,   \* has the registry a strategy for the cross?
    up        \* is mm2 alive?

mm2 == <<carried, enabled, up>>
loop == <<left, again>>
vars == <<pc, at, call, answers, closed, refused, carried, reply, left, again, enabled,
          stored, up>>

Init ==
    /\ pc = "idle"
    /\ at = NoRequest
    /\ call = [r \in Requests |-> NoCall]
    /\ answers = [r \in Requests |-> <<>>]
    /\ closed = {}
    /\ refused = {}
    /\ carried = [r \in Requests |-> 0]
    /\ reply = "none"
    /\ left = {}
    /\ again = {}
    /\ enabled = {}
    /\ stored = FALSE
    /\ up \in BOOLEAN

\* A client sends a request
Send(r, c) ==
    /\ call[r] = NoCall
    /\ call' = [call EXCEPT ![r] = c]
    /\ UNCHANGED <<pc, at, answers, closed, refused, reply, loop, stored, mm2>>

Sent(r) == call[r] # NoCall
Ended(r) == answers[r] # <<>> \/ r \in closed

-------------------------------------------------------------------------------
(* Handlers that answer at once.                                            *)

Taken(r) == pc = "idle" /\ Sent(r) /\ ~Ended(r)
To(r) == call[r].to
Good(r) == call[r].form = "good"

AnswerAtOnce(r, code) ==
    /\ Taken(r)
    /\ answers' = [answers EXCEPT ![r] = <<code>>]
    /\ UNCHANGED <<pc, at, call, closed, refused, reply, loop, mm2>>

\* "/" and getallprice, which reads the cache
Welcome(r) ==
    /\ AnswerAtOnce(r, 200)
    /\ To(r) \in {"/", "getallprice"}
    /\ UNCHANGED stored

NotFound(r) ==
    /\ AnswerAtOnce(r, 404)
    /\ To(r) \notin Routes
    /\ UNCHANGED stored

\* The wrong number of parameters, or other names
RejectQuery(r) ==
    /\ AnswerAtOnce(r, IF call[r].form = "short" THEN 400 ELSE 422)
    /\ To(r) \in Queries /\ ~Good(r)
    /\ UNCHANGED stored

\* The body is no JSON, or from_json lacks a field in it
RejectPost(r) ==
    /\ AnswerAtOnce(r, 400)
    /\ To(r) \in Mm2Posts \cup SmPosts /\ ~Good(r)
    /\ UNCHANGED stored

AddStrategy(r) ==
    /\ AnswerAtOnce(r, 200)
    /\ To(r) = "addstrategy" /\ Good(r)
    /\ stored' = TRUE

\* registry_strategies_.at throws out_of_range, no exception of the json library
GetStrategy(r) ==
    /\ AnswerAtOnce(r, IF stored THEN 200 ELSE 500)
    /\ To(r) = "getstrategy" /\ Good(r)
    /\ UNCHANGED stored

-------------------------------------------------------------------------------
(* getprice.                                                                *)

AskPrice(r) ==
    /\ Taken(r)
    /\ To(r) = "getprice" /\ Good(r)
    /\ pc' = "pricing"
    /\ at' = r
    /\ UNCHANGED <<call, answers, closed, refused, reply, loop, stored, mm2>>

\* The handler is done with the request, and has completed responses with codes; the
\* body is what mm2 said, if it said anything
Return(codes) ==
    /\ pc' = "idle"
    /\ at' = NoRequest
    /\ answers' = [answers EXCEPT ![at] = codes]
    /\ refused' = IF reply \in Refusals THEN refused \cup {at} ELSE refused
    /\ reply' = "none"

\* pair_not_available: the catch block answers 500 and does not return; restinio
\* throws when the code after it creates a second response
AnswerPrice ==
    /\ pc = "pricing"
    /\ \/ Return(<<200>>) /\ UNCHANGED closed
       \/ Return(<<500>>) /\ closed' = closed \cup {at}
    /\ UNCHANGED <<call, loop, stored, mm2>>

-------------------------------------------------------------------------------
(* Calls of mm2.                                                            *)

\* rpc_*: the request is written again and posted
Forward(r) ==
    /\ Taken(r)
    /\ pc' = "asking"
    /\ at' = r
    /\ UNCHANGED <<call, answers, closed, refused, reply, loop, stored, mm2>>

ForwardPost(r) ==
    /\ Forward(r)
    /\ To(r) \in Mm2Posts /\ Good(r)

ForwardGet(r) ==
    /\ Forward(r)
    /\ To(r) \in Mm2Gets \ {EnableAll}
    /\ To(r) \in Queries => Good(r)

\* mm2 carries the call out, or refuses it with a message; what the client cannot read
\* says neither
Serve ==
    /\ pc = "asking"
    /\ up
    /\ LET done == [carried EXCEPT ![at] = @ + 1]
       IN  \/ reply' = "expected" /\ carried' = done
           \/ reply' = "error" /\ UNCHANGED carried
           \/ To(at) \in Lenient /\ reply' = "declined" /\ UNCHANGED carried
           \/ Faulty /\ reply' = "unexpected" /\ carried' \in {carried, done}
    /\ pc' = "asked"
    /\ UNCHANGED <<at, call, answers, closed, refused, loop, enabled, stored, up>>

\* mm2 is dead, or dies on the call, carried out or not: the post fails
Lose ==
    /\ pc = "asking"
    /\ carried' \in {carried} \cup
                    IF up THEN {[carried EXCEPT ![at] = @ + 1]} ELSE {}
    /\ up' = FALSE
    /\ reply' = "lost"
    /\ pc' = "asked"
    /\ UNCHANGED <<at, call, answers, closed, refused, loop, enabled, stored>>

Die ==
    /\ up
    /\ up' = FALSE
    /\ UNCHANGED <<pc, at, call, answers, closed, refused, reply, loop, carried, enabled, stored>>

\* Mutant: 200 unless mm2 refused, whatever from_json and the connection say
AlwaysOk(k) == [code |-> IF k = "error" THEN 500 ELSE 200, json |-> TRUE]

\* Mutant: whatever goes wrong is an error of mm2
AlwaysError(k) == [code |-> IF k \in {"expected", "declined"} THEN 200 ELSE 500, json |-> TRUE]

\* rpc_process_call: the code it reports, and whether the text that goes with it
\* (the body, or the message of the exception) is JSON
Processed(k) ==
    [code |-> IF k \in {"expected", "declined"} THEN 200 ELSE IF k = "error" THEN 500 ELSE -1,
     json |-> k \in {"expected"} \cup Refusals]

\* Mutant: the code is answered whatever the text
AnswerAnyway ==
    /\ pc = "asked" /\ To(at) \in Mm2Posts
    /\ Return(<<Processed(reply).code>>)
    /\ UNCHANGED <<call, closed, loop, stored, mm2>>

\* process_post_function answers 400 when the text does not parse
AnswerPost ==
    /\ pc = "asked" /\ To(at) \in Mm2Posts
    /\ LET answer == Processed(reply)
       IN  Return(<<IF answer.json THEN answer.code ELSE 400>>)
    /\ UNCHANGED <<call, closed, loop, stored, mm2>>

\* The handlers of gets do not catch
AnswerGet ==
    /\ pc = "asked" /\ To(at) \in Mm2Gets
    /\ LET answer == Processed(reply)
       IN  \/ answer.json /\ Return(<<answer.code>>) /\ UNCHANGED closed
           \/ ~answer.json /\ Return(<<>>) /\ closed' = closed \cup {at}
    /\ UNCHANGED <<call, loop, stored, mm2>>

-------------------------------------------------------------------------------
(* enable_all_coins: each coin once, and once more with ssl.                *)

BeginEnable(r) ==
    /\ Taken(r)
    /\ To(r) = EnableAll
    /\ pc' = "electrum"
    /\ at' = r
    /\ left' = Coins
    /\ UNCHANGED <<call, answers, closed, refused, reply, again, stored, mm2>>

\* rpc_electrum: mm2 enables the coin if it reaches its servers
Electrum(coin, servers) ==
    /\ pc = "electrum"
    /\ enabled' = IF up /\ coin \in servers THEN enabled \cup {coin} ELSE enabled
    /\ UNCHANGED <<pc, at, call, answers, closed, refused, reply, carried, stored, up>>

\* Mutants: no second try, and a second try repeated until it succeeds
TryOnce(coin) ==
    /\ Electrum(coin, Tcp)
    /\ coin \in left /\ again = {}
    /\ left' = left \ {coin}
    /\ UNCHANGED again

Try(coin) ==
    /\ Electrum(coin, Tcp)
    /\ coin \in left /\ again = {}
    /\ IF up /\ coin \in Tcp THEN left' = left \ {coin} /\ UNCHANGED again
                             ELSE again' = {coin} /\ UNCHANGED left

TryForever(coin) ==
    /\ Electrum(coin, Ssl)
    /\ coin \in again
    /\ IF up /\ coin \in Ssl THEN left' = left \ {coin} /\ again' = {}
                             ELSE UNCHANGED <<left, again>>

TryWithSsl(coin) ==
    /\ Electrum(coin, Ssl)
    /\ coin \in again
    /\ left' = left \ {coin}
    /\ again' = {}

\* The handler goes on as get_enabled_coins
EnableDone ==
    /\ pc = "electrum"
    /\ left = {}
    /\ pc' = "asking"
    /\ UNCHANGED <<at, call, answers, closed, refused, reply, loop, stored, mm2>>

-------------------------------------------------------------------------------
\* SIGINT: the server returns once its handler has, and closes what is left
Stop ==
    /\ pc = "idle"
    /\ pc' = "stopped"
    /\ closed' = closed \cup {r \in Requests : Sent(r) /\ ~Ended(r)}
    /\ UNCHANGED <<at, call, answers, refused, reply, loop, stored, mm2>>

Handle(r) ==
    \/ Welcome(r) \/ NotFound(r) \/ RejectQuery(r) \/ RejectPost(r)
    \/ AddStrategy(r) \/ GetStrategy(r)
    \/ AskPrice(r) \/ ForwardPost(r) \/ ForwardGet(r) \/ BeginEnable(r)

Server ==
    \/ \E r \in Requests : Handle(r)
    \/ AnswerPrice \/ AnswerPost \/ AnswerGet
    \/ \E coin \in Coins : Try(coin) \/ TryWithSsl(coin)
    \/ EnableDone

Mm2 == Serve \/ Lose

Next ==
    \/ \E r \in Requests, c \in Calls : pc # "stopped" /\ Send(r, c)
    \/ Server
    \/ Mm2
    \/ Die
    \/ Stop
    \/ pc = "stopped" /\ UNCHANGED vars

Spec == Init /\ [][Next]_vars

\* The server's thread is scheduled, a price is answered or refused, and a post
\* to mm2 comes back or fails
FairSpec == Spec /\ WF_vars(Server) /\ WF_vars(Mm2)

-------------------------------------------------------------------------------
(* Properties.                                                              *)

Codes == {200, 400, 404, 422, 500}

\* Every variable holds a value of its type; in particular the codes answered
\* are codes of HTTP: the -1 rpc_process_call reports never reaches a client.
TypeOK ==
    /\ pc \in {"idle", "pricing", "electrum", "asking", "asked", "stopped"}
    /\ at \in Requests \cup {NoRequest}
    /\ pc \in {"pricing", "electrum", "asking", "asked"} => at \in Requests
    /\ call \in [Requests -> Calls \cup {NoCall}]
    /\ answers \in [Requests -> Seq(Codes)]
    /\ closed \subseteq Requests /\ refused \subseteq Requests
    /\ carried \in [Requests -> Nat]
    /\ reply \in Replies
    /\ left \subseteq Coins /\ again \subseteq left /\ enabled \subseteq Coins
    /\ stored \in BOOLEAN /\ up \in BOOLEAN

\* A client told 200 by a route of mm2, with no error of mm2 in the body, had its call
\* carried out; with an error in it, which only buy, sell and cancel_order let through,
\* it had not; and no call is carried out twice.  All this although the answer may be
\* lost after the call was carried out, and mm2 may be dead, refuse it or answer what
\* the client cannot read.
OkMeansCarriedOut ==
    \A r \in Requests :
        /\ carried[r] <= 1
        /\ Sent(r) /\ To(r) \in Mm2Posts \cup Mm2Gets /\ answers[r] = <<200>>
              => IF r \in refused THEN carried[r] = 0 /\ To(r) \in Lenient
                 ELSE carried[r] = 1

\* When enable_all_electrums_coins answers 200, every coin whose servers answer
\* over either protocol is enabled.
AllEnabled ==
    \A r \in Requests :
        Sent(r) /\ To(r) = EnableAll /\ answers[r] = <<200>> => Tcp \cup Ssl \subseteq enabled

\* Every request is answered or its connection closed, although one thread serves
\* them all and mm2 may die under any of them.
EveryRequestEnds == \A r \in Requests : Sent(r) ~> Ended(r)

\* A client told 500 by a route of mm2 was refused: nothing was carried out for it,
\* and it may ask again. (A 400 says less: it also answers a body of the client's
\* that was carried out, when the answer of mm2 was lost or no JSON.)
ErrorMeansRefused ==
    \A r \in Requests :
        Sent(r) /\ To(r) \in Mm2Posts \cup Mm2Gets /\ answers[r] = <<500>> => carried[r] = 0
===============================================================================
