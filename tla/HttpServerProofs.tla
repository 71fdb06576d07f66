--------------------------- MODULE HttpServerProofs ---------------------------
(***************************************************************************)
(* What a client of the routes of mm2 may conclude from a 200 or a 500,    *)
(* for any requests, calls and coins.  The invariant follows a             *)
(* request through the server: nothing is carried out for one the server   *)
(* has not posted yet, and what came back says whether it was.             *)
(***************************************************************************)
EXTENDS HttpServer, TLAPS

Busy == {"pricing", "electrum", "asking", "asked"}

\* A request nobody answered yet, and whose call was not posted
Untouched(r) == answers[r] = <<>> /\ carried[r] = 0 /\ r \notin refused

\* What a handler answers: a code, or nothing when it throws
Lists == {<<>>} \cup {<<n>> : n \in Codes}

Ok == <<200>>
ServerError == <<500>>

\* The types the argument needs
Shape ==
    /\ answers \in [Requests -> Lists]
    /\ carried \in [Requests -> Nat]
    /\ call \in [Requests -> Calls \cup {NoCall}]
    /\ at \in Requests \cup {NoRequest}
    /\ pc \in Busy \cup {"idle", "stopped"}
    /\ pc \in Busy => at \in Requests

\* The request the server's thread is busy with, if it is busy
Current ==
    /\ pc \in Busy => call[at] # NoCall /\ answers[at] = <<>> /\ at \notin refused
    /\ pc \in {"pricing", "electrum", "asking"} => carried[at] = 0
    /\ pc = "asked" /\ reply = "expected" => carried[at] = 1
    /\ pc = "asked" /\ reply \in Refusals => carried[at] = 0
    /\ pc = "asked" /\ reply = "declined" => call[at].to \in Lenient
    /\ pc = "pricing" => call[at].to \notin Mm2Posts \cup Mm2Gets

\* Every request, waiting, handled or answered
Track(r) ==
    /\ carried[r] <= 1
    /\ (pc \in Busy => r # at) /\ r \notin closed /\ (call[r] = NoCall \/ answers[r] = <<>>)
          => Untouched(r)
    /\ call[r] = NoCall => Untouched(r) /\ r \notin closed
    /\ call[r] # NoCall /\ call[r].to \in Mm2Posts \cup Mm2Gets /\ answers[r] = <<200>>
          => IF r \in refused THEN carried[r] = 0 /\ call[r].to \in Lenient
             ELSE carried[r] = 1
    /\ call[r] # NoCall /\ call[r].to \in Mm2Posts \cup Mm2Gets /\ answers[r] = <<500>>
          => carried[r] = 0

IInv == Shape /\ Current /\ \A r \in Requests : Track(r)

\* Nothing is carried out before the server starts.
LEMMA InitIInv == Init => IInv
  BY ServerAssumption DEF Init, IInv, Shape, Current, Track, Lists, Busy, Untouched

\* The invariant is preserved by every step of the clients, of the server, of mm2.
LEMMA NextIInv == IInv /\ [Next]_vars => IInv'
<1> SUFFICES ASSUME IInv, [Next]_vars
             PROVE  IInv'
  OBVIOUS
<1>b. NoRequest \notin Requests /\ NoCall \notin Calls
  BY ServerAssumption
<1> USE <1>b DEF IInv, Shape, Busy, Ok, ServerError
<1>0. \A n : /\ <<n>> # <<>>
             /\ (n # 200 => <<n>> # <<200>>)
             /\ (n # 500 => <<n>> # <<500>>)
  OBVIOUS
<1>a. <<>> \in Lists /\ \A n \in Codes : <<n>> \in Lists
  BY DEF Lists
<1>1. ASSUME NEW r \in Requests, NEW c \in Calls, pc # "stopped", Send(r, c)
      PROVE  IInv'
  <2> USE <1>1 DEF Send, mm2, loop
  <2>1. Shape'
    OBVIOUS
  <2>2. Untouched(r) /\ r \notin closed /\ (pc \in Busy => at # r)
    BY DEF Track, Current
  <2>3. Current'
    BY <2>2 DEF Current
  <2>4. ASSUME NEW q \in Requests PROVE Track(q)'
    <3>1. CASE q = r
      BY <1>0, <2>2, <3>1 DEF Track, Untouched
    <3>2. CASE q # r
      BY <3>2 DEF Track, Untouched
    <3> QED
      BY <3>1, <3>2
  <2> QED
    BY <2>1, <2>3, <2>4
<1>2. ASSUME NEW r \in Requests, NEW code \in Codes, AnswerAtOnce(r, code),
             code # 200 \/ call[r].to \notin Mm2Posts \cup Mm2Gets
      PROVE  IInv'
  <2> USE <1>2 DEF AnswerAtOnce, Taken, mm2, loop, Sent, Ended
  <2>1. Shape'
    BY <1>a
  <2>2. Current'
    BY DEF Current
  <2>3. ASSUME NEW q \in Requests PROVE Track(q)'
    <3>1. CASE q = r
      BY <1>0, <3>1 DEF Track, Untouched
    <3>2. CASE q # r
      BY <3>2 DEF Track, Untouched
    <3> QED
      BY <3>1, <3>2
  <2> QED
    BY <2>1, <2>2, <2>3
<1>3. ASSUME NEW r \in Requests, Taken(r), at' = r, pc' \in {"pricing", "electrum", "asking"},
             pc' = "pricing" => call[r].to \notin Mm2Posts \cup Mm2Gets,
             UNCHANGED <<call, answers, closed, refused, carried>>
      PROVE  IInv'
  <2> USE <1>3 DEF Taken, Sent, Ended
  <2>1. Untouched(r)
    BY DEF Track
  <2>2. Shape' /\ Current'
    BY <2>1 DEF Current, Untouched
  <2>3. ASSUME NEW q \in Requests PROVE Track(q)'
    BY DEF Track, Untouched
  <2> QED
    BY <2>2, <2>3
<1>4. ASSUME NEW r \in Requests, Handle(r)
      PROVE  IInv'
  <2> USE DEF To, Codes
  <2>1. CASE Welcome(r)
    BY <1>2, <2>1 DEF Welcome, Mm2Posts, Mm2Gets, EnableAll
  <2>2. CASE NotFound(r)
    BY <1>2, <2>2 DEF NotFound
  <2>3. CASE RejectQuery(r)
    BY <1>2, <2>3 DEF RejectQuery
  <2>4. CASE RejectPost(r)
    BY <1>2, <2>4 DEF RejectPost
  <2>5. CASE AddStrategy(r)
    BY <1>2, <2>5 DEF AddStrategy, Mm2Posts, Mm2Gets, EnableAll
  <2>6. CASE GetStrategy(r)
    BY <1>2, <2>6 DEF GetStrategy, Mm2Posts, Mm2Gets, EnableAll
  <2>7. CASE AskPrice(r)
    BY <1>3, <2>7 DEF AskPrice, mm2, Mm2Posts, Mm2Gets, EnableAll
  <2>8. CASE ForwardPost(r) \/ ForwardGet(r)
    BY <1>3, <2>8 DEF ForwardPost, ForwardGet, Forward, mm2
  <2>9. CASE BeginEnable(r)
    BY <1>3, <2>9 DEF BeginEnable, mm2
  <2> QED
    BY <1>4, <2>1, <2>2, <2>3, <2>4, <2>5, <2>6, <2>7, <2>8, <2>9 DEF Handle
<1>5. ASSUME NEW codes \in Lists, pc \in Busy, Return(codes), UNCHANGED <<call, carried>>,
             (closed' = closed /\ codes # <<>>) \/ closed' = closed \cup {at},
             codes = Ok /\ call[at].to \in Mm2Posts \cup Mm2Gets =>
                 IF reply \in Refusals THEN carried[at] = 0 /\ call[at].to \in Lenient
                 ELSE carried[at] = 1,
             codes = ServerError /\ call[at].to \in Mm2Posts \cup Mm2Gets => carried[at] = 0
      PROVE  IInv'
  <2> USE <1>5 DEF Return
  <2>1. Shape' /\ Current'
    BY DEF Current
  <2>2. ASSUME NEW q \in Requests PROVE Track(q)'
    <3>1. CASE q = at
      <4>1. /\ answers'[q] = codes
            /\ q \in refused' <=> reply \in Refusals
            /\ carried'[q] <= 1 /\ call'[q] # NoCall
            /\ q \notin closed' => codes # <<>>
        BY <3>1 DEF Track, Current
      <4> QED
        BY <3>1, <4>1 DEF Track, Untouched
    <3>2. CASE q # at
      <4>1. UNCHANGED <<answers[q], carried[q], call[q]>>
            /\ (q \in refused' <=> q \in refused) /\ (q \in closed' <=> q \in closed)
        BY <3>2
      <4> QED
        BY <3>2, <4>1 DEF Track, Untouched
    <3> QED
      BY <3>1, <3>2
  <2> QED
    BY <2>1, <2>2
<1>6. CASE AnswerPrice
  <2>1. PICK codes \in Lists : Return(codes) /\ codes # <<>>
    <3>1. <<200>> \in Lists /\ <<500>> \in Lists
      BY <1>a DEF Codes
    <3> QED
      BY <1>0, <1>6, <3>1 DEF AnswerPrice
  <2>2. UNCHANGED closed \/ closed' = closed \cup {at}
    BY <1>6 DEF AnswerPrice
  <2>3. pc = "pricing" /\ call[at].to \notin Mm2Posts \cup Mm2Gets
    BY <1>6 DEF AnswerPrice, Current
  <2> QED
    BY <1>5, <1>6, <2>1, <2>2, <2>3 DEF AnswerPrice, mm2
<1>7. CASE AnswerPost \/ AnswerGet
  <2>1. ASSUME Processed(reply).json, Return(<<Processed(reply).code>>), UNCHANGED closed
        PROVE  IInv'
    <3>1. \/ reply = "expected" /\ Processed(reply).code = 200
          \/ reply = "declined" /\ Processed(reply).code = 200
          \/ reply = "error" /\ Processed(reply).code = 500
      <4>1. reply = "expected" \/ reply \in Refusals
        BY <2>1 DEF Processed
      <4> QED
        BY <4>1 DEF Processed, Refusals
    <3>2. /\ <<Processed(reply).code>> \in Lists /\ <<Processed(reply).code>> # <<>>
          /\ <<Processed(reply).code>> = <<200>> =>
                 IF reply \in Refusals THEN carried[at] = 0 /\ call[at].to \in Lenient
                 ELSE carried[at] = 1
          /\ <<Processed(reply).code>> = <<500>> => carried[at] = 0
      BY <1>0, <1>a, <1>7, <3>1 DEF AnswerPost, AnswerGet, Current, Codes, Refusals
    <3> QED
      BY <1>5, <1>7, <2>1, <3>2 DEF AnswerPost, AnswerGet, mm2
  <2>2. CASE Return(<<400>>) /\ UNCHANGED closed
    <3> DEFINE codes == <<400>>
    <3>1. codes \in Lists /\ codes # <<>> /\ codes # <<200>> /\ codes # <<500>>
      BY <1>0, <1>a DEF Codes
    <3>2. pc \in Busy /\ Return(codes) /\ UNCHANGED <<call, carried, closed>>
      BY <1>7, <2>2 DEF AnswerPost, AnswerGet, mm2
    <3> HIDE DEF codes
    <3> QED
      BY <1>5, <3>1, <3>2
  <2>3. ASSUME Return(<<>>), closed' = closed \cup {at}
        PROVE  IInv'
    BY <1>0, <1>5, <1>7, <1>a, <2>3 DEF AnswerPost, AnswerGet, mm2
  <2> QED
    BY <1>7, <2>1, <2>2, <2>3 DEF AnswerPost, AnswerGet
<1>8. ASSUME UNCHANGED <<pc, at, call, answers, closed, refused, carried, reply>>
      PROVE  IInv'
  BY <1>8 DEF Current, Track, Untouched
<1>9. ASSUME NEW coin \in Coins, Try(coin) \/ TryWithSsl(coin)
      PROVE  IInv'
  BY <1>8, <1>9 DEF Try, TryWithSsl, Electrum
<1>10. CASE EnableDone
  BY <1>10 DEF EnableDone, mm2, Current, Track, Untouched
<1>11. CASE Mm2
  <2>1. pc = "asking" /\ pc' = "asked" /\ UNCHANGED <<at, call, answers, closed, refused>>
    BY <1>11 DEF Mm2, Serve, Lose
  <2>2. /\ \/ carried' = carried /\ reply' # "expected"
           \/ carried' = [carried EXCEPT ![at] = @ + 1] /\ reply' \notin Refusals
        /\ reply' = "declined" => call[at].to \in Lenient
    <3> USE DEF Refusals
    <3>1. CASE Serve
      BY <3>1 DEF Serve, To
    <3>2. CASE Lose
      BY <3>2 DEF Lose
    <3> QED
      BY <1>11, <3>1, <3>2 DEF Mm2
  <2>3. Shape' /\ Current'
    BY <2>1, <2>2 DEF Current
  <2>4. ASSUME NEW q \in Requests PROVE Track(q)'
    <3>1. CASE q = at
      <4>1. answers[at] # <<200>> /\ answers[at] # <<500>>
        BY <1>0, <2>1 DEF Current
      <4> QED
        BY <2>1, <2>2, <3>1, <4>1 DEF Track, Current
    <3>2. CASE q # at
      BY <2>1, <2>2, <3>2 DEF Track, Untouched
    <3> QED
      BY <3>1, <3>2
  <2> QED
    BY <2>3, <2>4
<1>12. CASE Die
  BY <1>8, <1>12 DEF Die
<1>13. CASE Stop
  <2> USE <1>13 DEF Stop, mm2, Sent, Ended
  <2>1. Shape' /\ Current'
    BY DEF Current
  <2>2. ASSUME NEW q \in Requests PROVE Track(q)'
    BY DEF Track, Untouched
  <2> QED
    BY <2>1, <2>2
<1>14. CASE UNCHANGED vars
  BY <1>8, <1>14 DEF vars, mm2, loop
<1> QED
  BY <1>1, <1>4, <1>6, <1>7, <1>9, <1>10, <1>11, <1>12, <1>13, <1>14
     DEF Next, Server

\* A client told 200 by a route of mm2 had its call carried out, or reads in the body
\* that buy, sell or cancel_order was refused; and no call is carried out twice
\* (rpc_process_call, process_post_function and the handlers that forward a get).
THEOREM OkIsCarriedOut == Spec => []OkMeansCarriedOut
<1>1. Spec => []IInv
  BY InitIInv, NextIInv, PTL DEF Spec
<1>2. IInv => OkMeansCarriedOut
  BY DEF IInv, Track, OkMeansCarriedOut, Sent, To
<1> QED
  BY <1>1, <1>2, PTL

\* A client told 500 by a route of mm2 was refused: nothing was carried out for it
\* (rpc_process_call, which has no other way to 500 than an error of mm2).
THEOREM ErrorIsRefused == Spec => []ErrorMeansRefused
<1>1. Spec => []IInv
  BY InitIInv, NextIInv, PTL DEF Spec
<1>2. IInv => ErrorMeansRefused
  BY DEF IInv, Track, ErrorMeansRefused, Sent, To
<1> QED
  BY <1>1, <1>2, PTL

-------------------------------------------------------------------------------
(* The variables the argument above does not need: enable_all_coins's, and *)
(* what is known of mm2 and of the registry.                               *)

Rest ==
    /\ closed \subseteq Requests /\ refused \subseteq Requests
    /\ reply \in Replies
    /\ left \subseteq Coins /\ again \subseteq left /\ enabled \subseteq Coins
    /\ stored \in BOOLEAN /\ up \in BOOLEAN

LEMMA InitRest == Init => Rest
  BY DEF Init, Rest, Replies

\* Only a thread that handles a request closes its connection.
LEMMA NextRest == IInv /\ Rest /\ [Next]_vars => Rest'
<1> SUFFICES ASSUME IInv, Rest, [Next]_vars
             PROVE  Rest'
  OBVIOUS
<1> USE DEF Rest, Replies
<1>1. ASSUME NEW r \in Requests, NEW c \in Calls, Send(r, c)
      PROVE  Rest'
  BY <1>1 DEF Send, mm2, loop
<1>2. ASSUME NEW r \in Requests, Handle(r)
      PROVE  Rest'
  <2>1. CASE Welcome(r) \/ NotFound(r) \/ RejectQuery(r) \/ RejectPost(r)
    BY <2>1 DEF Welcome, NotFound, RejectQuery, RejectPost, AnswerAtOnce, mm2, loop
  <2>2. CASE AddStrategy(r) \/ GetStrategy(r)
    <3>1. UNCHANGED <<closed, refused, reply, left, again, enabled, up>>
      BY <2>2 DEF AddStrategy, GetStrategy, AnswerAtOnce, mm2, loop
    <3>2. stored' \in BOOLEAN
      BY <2>2 DEF AddStrategy, GetStrategy
    <3> QED
      BY <3>1, <3>2
  <2>3. CASE AskPrice(r)
    BY <2>3 DEF AskPrice, mm2, loop
  <2>4. CASE ForwardPost(r) \/ ForwardGet(r)
    BY <2>4 DEF ForwardPost, ForwardGet, Forward, mm2, loop
  <2>5. CASE BeginEnable(r)
    BY <2>5 DEF BeginEnable, mm2
  <2> QED
    BY <1>2, <2>1, <2>2, <2>3, <2>4, <2>5 DEF Handle
<1>3. CASE AnswerPrice \/ AnswerPost \/ AnswerGet
  <2>1. at \in Requests
    BY <1>3 DEF AnswerPrice, AnswerPost, AnswerGet, IInv, Shape, Busy
  <2>2. UNCHANGED <<left, again, stored, enabled, up>> /\ reply' = "none"
    BY <1>3 DEF AnswerPrice, AnswerPost, AnswerGet, Return, mm2, loop
  <2>3. /\ closed' = closed \/ closed' = closed \cup {at}
        /\ refused' = refused \/ refused' = refused \cup {at}
    BY <1>3 DEF AnswerPrice, AnswerPost, AnswerGet, Return
  <2> QED
    BY <2>1, <2>2, <2>3
<1>4. ASSUME NEW coin \in Coins, Try(coin) \/ TryWithSsl(coin)
      PROVE  Rest'
  <2>1. /\ UNCHANGED <<closed, refused, reply, stored, up>>
        /\ enabled' = enabled \/ enabled' = enabled \cup {coin}
    BY <1>4 DEF Try, TryWithSsl, Electrum
  <2>2. CASE Try(coin)
    BY <2>1, <2>2 DEF Try
  <2>3. CASE TryWithSsl(coin)
    BY <2>1, <2>3 DEF TryWithSsl
  <2> QED
    BY <1>4, <2>2, <2>3
<1>5. CASE EnableDone
  BY <1>5 DEF EnableDone, mm2, loop
<1>6. CASE Serve
  BY <1>6 DEF Serve, loop
<1>7. CASE Lose
  BY <1>7 DEF Lose, loop
<1>8. CASE Die
  BY <1>8 DEF Die, loop
<1>9. CASE Stop
  BY <1>9 DEF Stop, mm2, loop
<1>10. CASE UNCHANGED vars
  BY <1>10 DEF vars, mm2, loop
<1> QED
  BY <1>1, <1>2, <1>3, <1>4, <1>5, <1>6, <1>7, <1>8, <1>9, <1>10 DEF Next, Server, Mm2

\* Every variable keeps its type, and every code a client sees is one of HTTP: the
\* -1 of rpc_process_call is answered by no handler.
THEOREM TypeCorrect == Spec => []TypeOK
<1>1. Init => IInv /\ Rest
  BY InitIInv, InitRest
<1>2. (IInv /\ Rest) /\ [Next]_vars => (IInv /\ Rest)'
  BY NextIInv, NextRest
<1>3. IInv /\ Rest => TypeOK
  <2> SUFFICES ASSUME IInv, Rest PROVE TypeOK
    OBVIOUS
  <2>1. ASSUME NEW l \in Lists PROVE l \in Seq(Codes)
    <3>1. <<>> \in Seq(Codes) /\ \A n \in Codes : <<n>> \in Seq(Codes)
      OBVIOUS
    <3> QED
      BY <3>1 DEF Lists
  <2>2. answers \in [Requests -> Seq(Codes)]
    BY <2>1 DEF IInv, Shape
  <2> QED
    BY <2>2 DEF IInv, Shape, Rest, TypeOK, Busy
<1> QED
  BY <1>1, <1>2, <1>3, PTL DEF Spec

-------------------------------------------------------------------------------
(* enable_all_coins.  A coin leaves the loop enabled, or mm2 is dead; and a *)
(* dead mm2 never answers get_enabled_coins.                               *)

Servers == Tcp \cup Ssl

Enabling ==
    /\ pc # "electrum" => left = {} /\ again = {}
    /\ up => \A coin \in again : coin \notin Tcp
    /\ pc = "electrum" /\ up => Servers \subseteq left \cup enabled
    /\ pc = "asking" /\ up /\ To(at) = EnableAll => Servers \subseteq enabled
    /\ pc = "asked" /\ reply = "expected" /\ To(at) = EnableAll => Servers \subseteq enabled
    /\ AllEnabled

LEMMA InitEnabling == Init => Enabling
  BY ServerAssumption DEF Init, Enabling, AllEnabled, Sent

LEMMA NextEnabling == IInv /\ Rest /\ Enabling /\ [Next]_vars => Enabling'
<1> SUFFICES ASSUME IInv, Rest, Enabling, [Next]_vars
             PROVE  Enabling'
  OBVIOUS
<1>a. /\ pc \in Busy => at \in Requests /\ call[at] # NoCall
      /\ NoRequest \notin Requests /\ NoCall \notin Calls
      /\ DOMAIN answers = Requests /\ DOMAIN call = Requests
  BY ServerAssumption DEF IInv, Shape, Current
<1>b. Servers \subseteq Coins
  BY ServerAssumption DEF Servers
<1>c. \A n : n # 200 => <<n>> # <<200>>
  OBVIOUS
<1>d. <<>> # <<200>>
  OBVIOUS
<1> USE DEF Enabling, AllEnabled, Sent, To, Busy, Ok
<1>1. ASSUME NEW r \in Requests, NEW c \in Calls, Send(r, c)
      PROVE  Enabling'
  <2>1. Untouched(r) /\ (pc \in Busy => at # r)
    BY <1>1, <1>a DEF Send, IInv, Track
  <2> QED
    BY <1>1, <1>a, <1>d, <2>1 DEF Send, mm2, loop, Untouched
<1>2. ASSUME NEW r \in Requests, NEW code \in Codes, AnswerAtOnce(r, code),
             code # 200 \/ call[r].to # EnableAll
      PROVE  Enabling'
  BY <1>2, <1>a, <1>c DEF AnswerAtOnce, Taken, mm2, loop
<1>3. ASSUME NEW r \in Requests, Handle(r)
      PROVE  Enabling'
  <2> USE DEF Codes
  <2>1. CASE Welcome(r)
    BY <1>2, <2>1 DEF Welcome, EnableAll
  <2>2. CASE NotFound(r)
    BY <1>2, <2>2 DEF NotFound
  <2>3. CASE RejectQuery(r)
    BY <1>2, <2>3 DEF RejectQuery
  <2>4. CASE RejectPost(r)
    BY <1>2, <2>4 DEF RejectPost
  <2>5. CASE AddStrategy(r)
    BY <1>2, <2>5 DEF AddStrategy, EnableAll
  <2>6. CASE GetStrategy(r)
    BY <1>2, <2>6 DEF GetStrategy, EnableAll
  <2>7. CASE AskPrice(r)
    BY <2>7 DEF AskPrice, Taken, mm2, loop
  <2>8. CASE ForwardPost(r) \/ ForwardGet(r)
    BY <2>8 DEF ForwardPost, ForwardGet, Forward, Taken, mm2, loop, Mm2Posts, EnableAll
  <2>9. CASE BeginEnable(r)
    BY <1>b, <2>9 DEF BeginEnable, Taken, mm2
  <2> QED
    BY <1>3, <2>1, <2>2, <2>3, <2>4, <2>5, <2>6, <2>7, <2>8, <2>9 DEF Handle
<1>4. ASSUME pc \in {"pricing", "asked"}, NEW codes, Return(codes),
             UNCHANGED <<call, left, again, enabled>>,
             codes = Ok /\ call[at].to = EnableAll => Servers \subseteq enabled
      PROVE  Enabling'
  BY <1>4, <1>a DEF Return, Servers
<1>5. CASE AnswerPrice
  <2>1. PICK codes : Return(codes)
    BY <1>5 DEF AnswerPrice
  <2>2. pc = "pricing" /\ call[at].to # EnableAll
    BY <1>5 DEF AnswerPrice, IInv, Current, Mm2Gets
  <2> QED
    BY <1>4, <1>5, <2>1, <2>2 DEF AnswerPrice, mm2, loop
<1>6. CASE AnswerPost
  <2>1. PICK codes : Return(codes)
    BY <1>6 DEF AnswerPost
  <2>2. pc = "asked" /\ call[at].to # EnableAll
    BY <1>6 DEF AnswerPost, Mm2Posts, EnableAll
  <2> QED
    BY <1>4, <1>6, <2>1, <2>2 DEF AnswerPost, mm2, loop
<1>7. CASE AnswerGet
  <2>1. CASE Processed(reply).json /\ Return(<<Processed(reply).code>>)
    <3> DEFINE codes == <<Processed(reply).code>>
    <3>1. codes = <<200>> /\ call[at].to = EnableAll => reply = "expected"
      <4>1. reply \notin {"expected", "declined"} => Processed(reply).code # 200
        BY DEF Processed
      <4>2. reply = "declined" => call[at].to # EnableAll
        BY <1>7 DEF AnswerGet, IInv, Current, Lenient, EnableAll
      <4> QED
        BY <1>c, <4>1, <4>2
    <3>2. Return(codes) /\ pc = "asked" /\ UNCHANGED <<call, left, again, enabled>>
      BY <1>7, <2>1 DEF AnswerGet, mm2, loop
    <3> HIDE DEF codes
    <3> QED
      BY <1>4, <3>1, <3>2
  <2>2. CASE Return(<<>>)
    BY <1>4, <1>7, <1>d, <2>2 DEF AnswerGet, mm2, loop
  <2> QED
    BY <1>7, <2>1, <2>2 DEF AnswerGet
<1>8. ASSUME NEW coin \in Coins, Try(coin)
      PROVE  Enabling'
  BY <1>8 DEF Try, Electrum
<1>9. ASSUME NEW coin \in Coins, TryWithSsl(coin)
      PROVE  Enabling'
  BY <1>9 DEF TryWithSsl, Electrum, Servers
<1>10. CASE EnableDone
  BY <1>10 DEF EnableDone, mm2, loop, Rest
<1>11. CASE Serve
  BY <1>11 DEF Serve, loop
<1>12. CASE Lose
  BY <1>12 DEF Lose, loop
<1>13. CASE Die
  BY <1>13 DEF Die, loop
<1>14. CASE Stop
  BY <1>14 DEF Stop, mm2, loop
<1>15. CASE UNCHANGED vars
  BY <1>15 DEF vars, mm2, loop
<1> QED
  BY <1>1, <1>3, <1>5, <1>6, <1>7, <1>8, <1>9, <1>10, <1>11, <1>12, <1>13, <1>14, <1>15
     DEF Next, Server, Mm2

\* Whatever dies or refuses, a 200 of enable_all_electrums_coins says that every coin
\* whose servers answer over either protocol is enabled (enable_all_coins).
THEOREM AllAreEnabled == Spec => []AllEnabled
<1>1. Init => IInv /\ Rest /\ Enabling
  BY InitIInv, InitRest, InitEnabling
<1>2. (IInv /\ Rest /\ Enabling) /\ [Next]_vars => (IInv /\ Rest /\ Enabling)'
  BY NextIInv, NextRest, NextEnabling
<1>3. IInv /\ Rest /\ Enabling => AllEnabled
  BY DEF Enabling
<1> QED
  BY <1>1, <1>2, <1>3, PTL DEF Spec
===============================================================================
