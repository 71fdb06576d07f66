-------------------------- MODULE PriceServiceProofs --------------------------
(***************************************************************************)
(* The mean get_price returns, for any number of platforms and any prices. *)
(***************************************************************************)
EXTENDS PriceService, TLAPS

USE DEF Threads, Steps

\* The sum and the count one call has reached are those of prices it heard: count
\* times some of them, at least, and count times some of them, at most.
Bounded(sum, count, prices) ==
    IF count = 0 THEN sum = 0
    ELSE \E lo, hi \in prices : lo * count <= sum /\ sum <= hi * count

CallInv(t) ==
    /\ pc[t] \in Steps
    /\ price[t] \in Nat /\ succeeded[t] \in Nat /\ heard[t] \subseteq Prices
    /\ pc[t] = "asking" => Bounded(price[t], succeeded[t], heard[t])
    /\ pc[t] = "answered" =>
          \E lo, hi \in heard[t] : lo <= price[t] /\ price[t] <= hi
    /\ pc[t] \notin {"asking", "answered", "refused"} => price[t] = 0 /\ succeeded[t] = 0

\* The invariant speaks of each thread's call alone: a step of one call leaves the
\* other's sum, count and prices as they are.
MeanInv ==
    /\ DOMAIN pc = Threads /\ DOMAIN price = Threads
    /\ DOMAIN succeeded = Threads /\ DOMAIN heard = Threads
    /\ \A t \in Threads : CallInv(t)

\* The call of u, and what CallInv says of it, is as before
Untouched(u) ==
    /\ pc'[u] = pc[u] /\ price'[u] = price[u]
    /\ succeeded'[u] = succeeded[u] /\ heard'[u] = heard[u]

\* Adding a price to a bounded sum keeps it bounded.
LEMMA OneMore ==
    ASSUME NEW sum \in Nat, NEW count \in Nat, NEW prices \in SUBSET Nat, NEW x \in Nat,
           Bounded(sum, count, prices)
    PROVE  Bounded(sum + x, count + 1, prices \cup {x})
<1>1. CASE count = 0
  <2>1. x * 1 <= x /\ x <= x * 1
    BY SMT
  <2>2. QED
    BY <1>1, <2>1 DEF Bounded
<1>2. CASE count # 0
  <2>1. PICK lo, hi \in prices : lo * count <= sum /\ sum <= hi * count
    BY <1>2 DEF Bounded
  <2>2. PICK l \in {lo, x} : l <= lo /\ l <= x
    BY <2>1, SMT
  <2>3. PICK h \in {hi, x} : hi <= h /\ x <= h
    BY <2>1, SMT
  <2>4. lo \in Nat /\ hi \in Nat /\ l \in Nat /\ h \in Nat
    BY <2>1, <2>2, <2>3
  <2>5. l * count <= lo * count /\ hi * count <= h * count
    BY <2>2, <2>3, <2>4, SMT
  <2>6. l * (count + 1) = l * count + l /\ h * (count + 1) = h * count + h
    BY <2>4, SMT
  <2>7. /\ lo * count \in Nat /\ hi * count \in Nat
        /\ l * count \in Nat /\ h * count \in Nat
    BY <2>4, SMT
  <2>8. l * (count + 1) <= sum + x /\ sum + x <= h * (count + 1)
    BY <2>1, <2>2, <2>3, <2>4, <2>5, <2>6, <2>7, SMT
  <2>9. l \in prices \cup {x} /\ h \in prices \cup {x}
    BY <2>1, <2>2, <2>3
  <2>10. QED
    BY <1>2, <2>8, <2>9 DEF Bounded
<1>3. QED
  BY <1>1, <1>2

\* The quotient by the count lies between the two prices.
LEMMA Quotient ==
    ASSUME NEW sum \in Nat, NEW count \in Nat \ {0}, NEW lo \in Nat, NEW hi \in Nat,
           lo * count <= sum, sum <= hi * count
    PROVE  LET mean == sum \div count
           IN  mean \in Nat /\ lo <= mean /\ mean <= hi
<1> DEFINE mean == sum \div count
<1>1. mean \in Nat /\ mean * count <= sum /\ sum < (mean + 1) * count
  BY SMT
<1> HIDE DEF mean
<1>2. lo < mean + 1
  <2>1. SUFFICES ASSUME mean + 1 <= lo PROVE FALSE
    BY <1>1, SMT
  <2>2. (mean + 1) * count <= lo * count
    BY <1>1, <2>1, SMT
  <2>3. (mean + 1) * count \in Nat /\ lo * count \in Nat
    BY <1>1, SMT
  <2>4. QED
    BY <1>1, <2>2, <2>3, SMT
<1>3. mean <= hi
  <2>1. SUFFICES ASSUME hi + 1 <= mean PROVE FALSE
    BY <1>1, SMT
  <2>2. (hi + 1) * count <= mean * count
    BY <1>1, <2>1, SMT
  <2>3. (hi + 1) * count = hi * count + count
    BY SMT
  <2>4. hi * count \in Nat /\ mean * count \in Nat
    BY <1>1, SMT
  <2>5. QED
    BY <1>1, <2>2, <2>3, <2>4, SMT
<1>4. QED
  BY <1>1, <1>2, <1>3 DEF mean

-------------------------------------------------------------------------------
(* The steps of one call.                                                   *)

LEMMA UntouchedInv ==
    ASSUME NEW u \in Threads, CallInv(u), Untouched(u) PROVE CallInv(u)'
  BY DEF CallInv, Untouched

LEMMA AnswerInv ==
    ASSUME MeanInv, NEW t \in Threads, NEW p \in Platforms, Answer(t, p)
    PROVE  CallInv(t)'
<1>1. PICK x \in Prices : /\ price' = [price EXCEPT ![t] = @ + x]
                          /\ heard' = [heard EXCEPT ![t] = @ \cup {x}]
  BY DEF Answer
<1>2. /\ price'[t] = price[t] + x /\ heard'[t] = heard[t] \cup {x}
      /\ succeeded'[t] = succeeded[t] + 1 /\ pc' = pc /\ pc[t] = "asking"
  BY <1>1 DEF Answer, Settle, MeanInv
<1>3. /\ price[t] \in Nat /\ succeeded[t] \in Nat /\ heard[t] \in SUBSET Nat
      /\ heard[t] \subseteq Prices /\ x \in Nat
      /\ Bounded(price[t], succeeded[t], heard[t])
  BY <1>2, PriceAssumption DEF MeanInv, CallInv
<1>4. Bounded(price[t] + x, succeeded[t] + 1, heard[t] \cup {x})
  BY <1>3, OneMore
<1>5. price[t] + x \in Nat /\ succeeded[t] + 1 \in Nat
  BY <1>3
<1>6. QED
  BY <1>2, <1>3, <1>4, <1>5 DEF CallInv

LEMMA JoinInv ==
    ASSUME MeanInv, NEW t \in Threads, Join(t) PROVE CallInv(t)'
<1>1. /\ pc[t] = "asking" /\ UNCHANGED <<succeeded, heard>>
      /\ price[t] \in Nat /\ succeeded[t] \in Nat /\ heard[t] \subseteq Prices
      /\ Bounded(price[t], succeeded[t], heard[t])
  BY DEF Join, MeanInv, CallInv
<1>2. CASE succeeded[t] = 0
  <2>1. pc'[t] = "refused" /\ price' = price
    BY <1>2 DEF Join, Goto, MeanInv
  <2>2. QED
    BY <1>1, <2>1 DEF CallInv
<1>3. CASE succeeded[t] # 0
  <2>1. pc'[t] = "answered" /\ price'[t] = price[t] \div succeeded[t]
    BY <1>3 DEF Join, Goto, MeanInv
  <2>2. PICK lo, hi \in heard[t] :
            lo * succeeded[t] <= price[t] /\ price[t] <= hi * succeeded[t]
    BY <1>1, <1>3 DEF Bounded
  <2>3. lo \in Nat /\ hi \in Nat
    BY <1>1, <2>2, PriceAssumption
  <2>4. price'[t] \in Nat /\ lo <= price'[t] /\ price'[t] <= hi
    BY <1>1, <1>3, <2>1, <2>2, <2>3, Quotient
  <2>5. QED
    BY <1>1, <2>1, <2>2, <2>4 DEF CallInv
<1>4. QED
  BY <1>2, <1>3

LEMMA RequestInv ==
    ASSUME MeanInv, NEW t \in Threads, Request(t) PROVE MeanInv'
<1>1. /\ DOMAIN pc' = Threads /\ DOMAIN price' = Threads
      /\ DOMAIN succeeded' = Threads /\ DOMAIN heard' = Threads
  BY DEF Request, Answer, NoAnswer, Unreadable, Retry, Join, Settle, Goto, MeanInv
<1>2. ASSUME NEW u \in Threads \ {t} PROVE CallInv(u)'
  <2>1. Untouched(u)
    BY DEF Untouched, Request, Answer, NoAnswer, Unreadable, Retry, Join, Settle, Goto, MeanInv
  <2>2. QED
    BY <2>1, UntouchedInv DEF MeanInv
<1>3. CallInv(t)'
  <2>1. CASE \E p \in Platforms : Answer(t, p)
    BY <2>1, AnswerInv
  <2>2. CASE \E p \in Platforms : NoAnswer(t, p) \/ Unreadable(t, p) \/ Retry(t, p)
    <3>1. Untouched(t)
      BY <2>2 DEF Untouched, NoAnswer, Unreadable, Retry, Settle
    <3>2. QED
      BY <3>1, UntouchedInv DEF MeanInv
  <2>3. CASE Join(t)
    BY <2>3, JoinInv
  <2>4. QED
    BY <2>1, <2>2, <2>3 DEF Request
<1>4. QED
  BY <1>1, <1>2, <1>3 DEF MeanInv

\* A call begins from a sum and a count of zero.
LEMMA AskInv ==
    ASSUME MeanInv, NEW t \in Threads, NEW pair \in Pairs, Ask(t, pair),
           pc[t] \in {"idle", "fetching"}
    PROVE  MeanInv'
<1>1. pc' = [pc EXCEPT ![t] = "asking"] /\ UNCHANGED <<price, succeeded, heard>>
  BY DEF Ask, Goto
<1>2. CallInv(t)'
  BY <1>1 DEF MeanInv, CallInv, Bounded
<1>3. ASSUME NEW u \in Threads \ {t} PROVE CallInv(u)'
  BY <1>1, UntouchedInv DEF Untouched, MeanInv
<1>4. QED
  BY <1>1, <1>2, <1>3 DEF MeanInv

\* A call ends, and leaves a sum and a count of zero behind.
LEMMA ForgetInv ==
    ASSUME MeanInv, NEW t \in Threads, Forget(t), NEW step \in {"idle", "fetching"},
           Goto(t, step)
    PROVE  MeanInv'
<1>1. /\ DOMAIN pc' = Threads /\ DOMAIN price' = Threads
      /\ DOMAIN succeeded' = Threads /\ DOMAIN heard' = Threads
  BY DEF Forget, Goto, MeanInv
<1>2. CallInv(t)'
  BY DEF Forget, Goto, MeanInv, CallInv
<1>3. ASSUME NEW u \in Threads \ {t} PROVE CallInv(u)'
  BY UntouchedInv DEF Untouched, Forget, Goto, MeanInv
<1>4. QED
  BY <1>1, <1>2, <1>3 DEF MeanInv

\* A thread moves between two calls.
LEMMA GotoInv ==
    ASSUME MeanInv, NEW t \in Threads, NEW step \in {"idle", "fetching", "sleep", "done"},
           pc[t] \notin {"asking", "answered", "refused"}, Goto(t, step),
           UNCHANGED <<price, succeeded, heard>>
    PROVE  MeanInv'
<1>1. CallInv(t)'
  BY DEF Goto, MeanInv, CallInv
<1>2. ASSUME NEW u \in Threads \ {t} PROVE CallInv(u)'
  BY UntouchedInv DEF Untouched, Goto, MeanInv
<1>3. DOMAIN pc' = Threads
  BY DEF Goto, MeanInv
<1>4. QED
  BY <1>1, <1>2, <1>3 DEF MeanInv

LEMMA MeanStep == MeanInv /\ [Next]_vars => MeanInv'
<1> SUFFICES ASSUME MeanInv, [Next]_vars PROVE MeanInv'
  OBVIOUS
<1>1. CASE Request("fetcher") \/ Request("client")
  BY <1>1, RequestInv
<1>2. CASE \E pair \in Pairs : CallFrom(pair)
  BY <1>2, AskInv DEF CallFrom
<1>3. CASE Return
  BY <1>3, ForgetInv DEF Return
<1>4. CASE Uncaught \/ UNCHANGED vars
  <2>1. UNCHANGED <<pc, price, succeeded, heard>>
    BY <1>4 DEF Uncaught, vars, call
  <2>2. QED
    BY <2>1 DEF MeanInv, CallInv
<1>5. CASE BeginFetch
  BY <1>5, GotoInv DEF BeginFetch, call
<1>6. CASE FetchNext
  <2>1. PICK pair \in left : Ask("fetcher", pair)
    BY <1>6 DEF FetchNext
  <2>2. /\ pc' = [pc EXCEPT !["fetcher"] = "asking"] /\ pc["fetcher"] = "fetching"
        /\ UNCHANGED <<price, succeeded, heard>>
    BY <1>6, <2>1 DEF FetchNext, Ask, Goto
  <2>3. CallInv("fetcher")'
    BY <2>2 DEF MeanInv, CallInv, Bounded
  <2>4. CallInv("client")'
    BY <2>2, UntouchedInv DEF Untouched, MeanInv
  <2>5. QED
    BY <2>2, <2>3, <2>4 DEF MeanInv
<1>7. CASE Record
  BY <1>7, ForgetInv DEF Record
<1>8. CASE Publish
  BY <1>8, GotoInv DEF Publish, call
<1>9. CASE Sleep
  BY <1>9, GotoInv DEF Sleep, call
<1>10. CASE QuitFetcher
  BY <1>10, GotoInv DEF QuitFetcher, call
<1>11. CASE Destroy
  BY <1>11, GotoInv DEF Destroy, call
<1>12. QED
  BY <1>1, <1>2, <1>3, <1>4, <1>5, <1>6, <1>7, <1>8, <1>9, <1>10, <1>11
     DEF Next, Fetcher, Client

\* For any number of platforms, any prices, any number of retries and failures, and
\* another call in progress: the price returned lies between two that were heard.
THEOREM MeanStaysBetween == Spec => []MeanBetween
<1>1. Init => MeanInv
  BY DEF Init, MeanInv, CallInv
<1>2. MeanInv => MeanBetween
  BY DEF MeanInv, MeanBetween, CallInv
<1>3. QED
  BY <1>1, <1>2, MeanStep, PTL DEF Spec

-------------------------------------------------------------------------------
(* The types, over the invariant of the mean, which gives those of the sum *)
(* and of the count.                                                       *)

\* A thread that has asked, or holds an answer, knows for which pair: without it the
\* fetcher could record a price under no pair.
Types ==
    /\ TypeOK
    /\ \A t \in Threads : pc[t] \in {"asking", "answered", "refused"} => wanted[t] \in Pairs
    /\ pc["fetcher"] \in {"asking", "answered", "refused"} => wanted["fetcher"] \in Tracked

LEMMA InitTypes == Init => Types
  BY PriceAssumption DEF Init, Types, TypeOK, Empty

\* A platform answers, retries or fails, and the join: the call of one thread.
LEMMA RequestTypes ==
    ASSUME MeanInv, MeanInv', Types, NEW t \in Threads, Request(t) PROVE Types'
<1> USE DEF Types, TypeOK
<1>1. UNCHANGED <<wanted, left, fetched, registry, keepAlive>>
  BY DEF Request, Answer, NoAnswer, Unreadable, Retry, Join, Settle
<1>2. /\ price' \in [Threads -> Nat] /\ succeeded' \in [Threads -> Nat]
      /\ heard' \in [Threads -> SUBSET Prices]
  <2>1. ASSUME NEW p \in Platforms, Answer(t, p)
        PROVE  /\ price' \in [Threads -> Nat] /\ succeeded' \in [Threads -> Nat]
               /\ heard' \in [Threads -> SUBSET Prices]
    BY <2>1, PriceAssumption DEF Answer
  <2>2. ASSUME NEW p \in Platforms, NoAnswer(t, p) \/ Unreadable(t, p) \/ Retry(t, p)
        PROVE  UNCHANGED <<price, succeeded, heard>>
    BY <2>2 DEF NoAnswer, Unreadable, Retry
  <2>3. CASE Join(t)
    <3>1. \A u \in Threads : price'[u] \in Nat
      BY DEF MeanInv, CallInv
    <3>2. price' = price \/ price' = [price EXCEPT ![t] = price[t] \div succeeded[t]]
      BY <2>3 DEF Join
    <3>3. price' \in [Threads -> Nat]
      BY <3>1, <3>2
    <3>4. QED
      BY <2>3, <3>3 DEF Join
  <2>4. QED
    BY <2>1, <2>2, <2>3 DEF Request
<1>3. pending' \in [Threads -> SUBSET Platforms]
  BY DEF Request, Answer, NoAnswer, Unreadable, Retry, Join, Settle
<1>4. tries' \in [Threads -> [Platforms -> 0 .. MaxTries]]
  <2>1. ASSUME NEW p \in Platforms, Retry(t, p)
        PROVE  tries' \in [Threads -> [Platforms -> 0 .. MaxTries]]
    <3>1. tries[t][p] + 1 \in 0 .. MaxTries
      BY <2>1, PriceAssumption DEF Retry
    <3>2. QED
      BY <2>1, <3>1 DEF Retry
  <2>2. QED
    BY <2>1 DEF Request, Answer, NoAnswer, Unreadable, Join, Settle
<1>5. /\ pc' \in [Threads -> Steps]
      /\ \A u \in Threads : pc'[u] \in {"asking", "answered", "refused"}
                            => pc[u] \in {"asking", "answered", "refused"}
  BY DEF Request, Answer, NoAnswer, Unreadable, Retry, Join, Settle, Goto
<1>6. fault' \in {"none", "pair_not_available", "unreadable_price"}
  BY DEF Request, Answer, NoAnswer, Unreadable, Retry, Join
<1>7. QED
  BY <1>1, <1>2, <1>3, <1>4, <1>5, <1>6

\* A call ends.
LEMMA ForgetTypes ==
    ASSUME Types, NEW t \in Threads, Forget(t), NEW step \in {"idle", "fetching"},
           Goto(t, step), UNCHANGED <<left, registry, keepAlive, fault>>,
           DOMAIN fetched' \subseteq Tracked, \A x \in DOMAIN fetched' : fetched'[x] \in Nat
    PROVE  Types'
<1> USE DEF Types, TypeOK
<1>1. /\ wanted' \in [Threads -> Pairs \cup {NoPair}]
      /\ \A u \in Threads \ {t} : wanted'[u] = wanted[u]
  BY DEF Forget
<1>2. /\ tries' \in [Threads -> [Platforms -> 0 .. MaxTries]]
      /\ pending' \in [Threads -> SUBSET Platforms]
  <2>1. [p \in Platforms |-> 0] \in [Platforms -> 0 .. MaxTries]
    BY PriceAssumption
  <2>2. QED
    BY <2>1 DEF Forget
<1>3. /\ price' \in [Threads -> Nat] /\ succeeded' \in [Threads -> Nat]
      /\ heard' \in [Threads -> SUBSET Prices]
  BY DEF Forget
<1>4. /\ pc' \in [Threads -> Steps]
      /\ pc'[t] = step /\ \A u \in Threads \ {t} : pc'[u] = pc[u]
  BY DEF Goto
<1>5. QED
  BY <1>1, <1>2, <1>3, <1>4

LEMMA NextTypes == MeanInv /\ MeanInv' /\ Types /\ [Next]_vars => Types'
<1> SUFFICES ASSUME MeanInv, MeanInv', Types, [Next]_vars PROVE Types'
  OBVIOUS
<1> USE DEF Types, TypeOK
<1>1. CASE Request("fetcher") \/ Request("client")
  BY <1>1, RequestTypes
<1>2. ASSUME NEW t \in Threads, NEW pair \in Pairs, Ask(t, pair),
             t = "fetcher" => pair \in Tracked,
             left' \subseteq Tracked, UNCHANGED <<fetched, registry, keepAlive, fault>>
      PROVE  Types'
  BY <1>2 DEF Ask, Goto
<1>3. CASE Return
  BY <1>3, ForgetTypes DEF Return
<1>4. CASE Record
  <2>1. /\ DOMAIN fetched' \subseteq Tracked
        /\ \A x \in DOMAIN fetched' : fetched'[x] \in Nat
    <3>1. wanted["fetcher"] \in Tracked /\ price["fetcher"] \in Nat
      BY <1>4 DEF Record
    <3>2. QED
      BY <1>4, <3>1 DEF Record
  <2>2. QED
    BY <1>4, <2>1, ForgetTypes DEF Record
<1>5. CASE Uncaught \/ UNCHANGED vars
  BY <1>5 DEF Uncaught, vars, call
<1>6. CASE BeginFetch \/ Publish
  BY <1>6 DEF BeginFetch, Publish, Empty, Goto, call
<1>7. CASE Sleep \/ QuitFetcher \/ Destroy
  BY <1>7 DEF Sleep, QuitFetcher, Destroy, Goto, call
<1>8. CASE FetchNext
  <2>1. PICK pair \in left : left' = left \ {pair} /\ Ask("fetcher", pair)
    BY <1>8 DEF FetchNext
  <2>2. pair \in Pairs /\ pair \in Tracked
    BY <2>1, PriceAssumption
  <2>3. QED
    BY <1>2, <1>8, <2>1, <2>2 DEF FetchNext
<1>9. CASE \E pair \in Pairs : CallFrom(pair)
  BY <1>2, <1>9 DEF CallFrom
<1>10. QED
  BY <1>1, <1>3, <1>4, <1>5, <1>6, <1>7, <1>8, <1>9 DEF Next, Fetcher, Client

\* Every variable keeps its type, whatever the platforms answer and however often
\* they are asked again: the number of tries stays within MaxTries, a price is
\* recorded only under a tracked pair, and the registry holds no other.
THEOREM TypeCorrect == Spec => []TypeOK
<1>1. Init => MeanInv /\ Types
  BY InitTypes DEF Init, MeanInv, CallInv
<1>2. MeanInv /\ Types /\ [Next]_vars => (MeanInv /\ Types)'
  BY MeanStep, NextTypes
<1>3. Types => TypeOK
  BY DEF Types
<1>4. QED
  BY <1>1, <1>2, <1>3, PTL DEF Spec

===============================================================================
