----------------------------- MODULE PriceService -----------------------------
(***************************************************************************)
(* The price service (src/price).  get_price asks every platform at once   *)
(* and answers the mean of what they answer, or throws when none does; a   *)
(* platform that is told to slow down (HTTP 429) asks again up to          *)
(* MaxTries times.  It is called by                                        *)
(*                                                                         *)
(*   "fetcher"  the service's own thread, for the tracked pairs in turn,   *)
(*              to publish a registry of all their prices, and             *)
(*   "client"   a thread from outside: the server's, which catches the     *)
(*              exception, or the strategy manager's, which does not.      *)
(*                                                                         *)
(* A step is one answer of a platform or what a thread does between two    *)
(* calls.  The registry is read and replaced under its mutex, in one step. *)
(***************************************************************************)
EXTENDS Integers, FiniteSets

CONSTANTS
    Platforms,    \* the platforms the factory created
    Pairs,        \* the pairs somebody asks for
    NoPair,       \* no pair: the thread has made no call yet
    Tracked,      \* those of coins_to_track_
    Translated,   \* the pairs whose symbols a platform translates
    Prices,       \* what a platform may answer
    MaxTries,     \* retries after a 429 (ten in the code)
    Faulty        \* may a platform answer something else than a price or a 429?

ASSUME PriceAssumption ==
    /\ NoPair \notin Pairs
    /\ Tracked \subseteq Pairs
    /\ Translated \subseteq Pairs
    /\ Prices \subseteq Nat \ {0}
    /\ MaxTries \in Nat
    /\ Faulty \in BOOLEAN
    /\ IsFiniteSet(Platforms)

Threads == {"fetcher", "client"}
Steps == {"idle", "asking", "answered", "refused", "fetching", "sleep",
          "done"}

Empty == [x \in {} |-> 0]

VARIABLES
    pc,         \* where each thread is
    wanted,     \* the pair of its call
    pending,    \* the platforms that have not answered its call yet
    tries,      \* nb_try_in_a_row of each request
    price,      \* TransformResult::price: the sum, then the mean returned
    succeeded,  \* TransformResult::calls_succeeded
    heard,      \* the prices its platforms answered (for the properties)
    left,       \* fetcher: the pairs still to fetch
    fetched,    \* fetcher: json_data, a partial function from pairs to prices
    registry,   \* price_registry_, a set with at most one such function
    keepAlive,  \* keep_thread_alive_
    fault       \* why the process was terminated

call == <<wanted, pending, tries, price, succeeded, heard>>
vars == <<pc, wanted, pending, tries, price, succeeded, heard, left, fetched,
          registry, keepAlive, fault>>

Init ==
    /\ pc = [t \in Threads |-> "idle"]
    /\ wanted = [t \in Threads |-> NoPair]
    /\ pending = [t \in Threads |-> {}]
    /\ tries = [t \in Threads |-> [p \in Platforms |-> 0]]
    /\ price = [t \in Threads |-> 0]
    /\ succeeded = [t \in Threads |-> 0]
    /\ heard = [t \in Threads |-> {}]
    /\ left = {}
    /\ fetched = Empty
    /\ registry = {}
    /\ keepAlive = TRUE
    /\ fault = "none"

Goto(t, step) == pc' = [pc EXCEPT ![t] = step]

-------------------------------------------------------------------------------
(* get_price.                                                               *)

\* The call begins: every platform is asked at once, for the first time
Ask(t, pair) ==
    /\ wanted' = [wanted EXCEPT ![t] = pair]
    /\ pending' = [pending EXCEPT ![t] = Platforms]
    /\ Goto(t, "asking")
    /\ UNCHANGED <<tries, price, succeeded, heard>>

\* A platform is done with the request of t
Settle(t, p) ==
    /\ pc[t] = "asking"
    /\ p \in pending[t]
    /\ pending' = [pending EXCEPT ![t] = @ \ {p}]
    /\ UNCHANGED <<pc, wanted, tries, left, fetched, registry, keepAlive>>

\* Status 200: the reduction adds the price and counts the call
Answer(t, p) ==
    /\ Settle(t, p)
    /\ wanted[t] \in Translated
    /\ \E x \in Prices :
          /\ price' = [price EXCEPT ![t] = @ + x]
          /\ heard' = [heard EXCEPT ![t] = @ \cup {x}]
    /\ succeeded' = [succeeded EXCEPT ![t] = @ + 1]
    /\ UNCHANGED fault

\* No price: a symbol that is not translated, an error status, or a 429 too many;
\* mutant: counted all the same
CountZero(t, p) ==
    /\ Settle(t, p)
    /\ wanted[t] \notin Translated \/ tries[t][p] = MaxTries \/ Faulty
    /\ succeeded' = [succeeded EXCEPT ![t] = @ + 1]
    /\ UNCHANGED <<price, heard, fault>>

NoAnswer(t, p) ==
    /\ Settle(t, p)
    /\ wanted[t] \notin Translated \/ tries[t][p] = MaxTries \/ Faulty
    /\ UNCHANGED <<price, succeeded, heard, fault>>

\* A body without a decimal number (an integer price is one): the empty string
\* reaches std::stoull inside a noexcept function
Unreadable(t, p) ==
    /\ Faulty
    /\ Settle(t, p)
    /\ wanted[t] \in Translated
    /\ fault' = "unreadable_price"
    /\ UNCHANGED <<price, succeeded, heard>>

\* Status 429: wait a second and ask again; mutants: the count starts over, and
\* one try too many
RetryAfresh(t, p) ==
    /\ pc[t] = "asking"
    /\ p \in pending[t] /\ wanted[t] \in Translated
    /\ tries[t][p] < MaxTries
    /\ tries' = [tries EXCEPT ![t][p] = (@ + 1) % MaxTries]
    /\ UNCHANGED <<pc, wanted, pending, price, succeeded, heard, left, fetched,
                   registry, keepAlive, fault>>

RetryOnceMore(t, p) ==
    /\ pc[t] = "asking"
    /\ p \in pending[t] /\ wanted[t] \in Translated
    /\ tries[t][p] <= MaxTries
    /\ tries' = [tries EXCEPT ![t][p] = @ + 1]
    /\ UNCHANGED <<pc, wanted, pending, price, succeeded, heard, left, fetched,
                   registry, keepAlive, fault>>

Retry(t, p) ==
    /\ pc[t] = "asking"
    /\ p \in pending[t] /\ wanted[t] \in Translated
    /\ tries[t][p] < MaxTries
    /\ tries' = [tries EXCEPT ![t][p] = @ + 1]
    /\ UNCHANGED <<pc, wanted, pending, price, succeeded, heard, left, fetched,
                   registry, keepAlive, fault>>

\* The taskflow is joined: the mean, or pair_not_available
Join(t) ==
    /\ pc[t] = "asking"
    /\ pending[t] = {}
    /\ IF succeeded[t] = 0
       THEN Goto(t, "refused") /\ UNCHANGED price
       ELSE Goto(t, "answered") /\ price' = [price EXCEPT ![t] = @ \div succeeded[t]]
    /\ UNCHANGED <<wanted, pending, tries, succeeded, heard, left, fetched, registry,
                   keepAlive, fault>>

-------------------------------------------------------------------------------
(* The callers.                                                             *)

\* The locals of get_price end with it
Forget(t) ==
    /\ wanted' = [wanted EXCEPT ![t] = NoPair]
    /\ tries' = [tries EXCEPT ![t] = [p \in Platforms |-> 0]]
    /\ price' = [price EXCEPT ![t] = 0]
    /\ succeeded' = [succeeded EXCEPT ![t] = 0]
    /\ heard' = [heard EXCEPT ![t] = {}]
    /\ UNCHANGED pending

CallFrom(pair) ==
    /\ pc["client"] = "idle"
    /\ Ask("client", pair)
    /\ UNCHANGED <<left, fetched, registry, keepAlive, fault>>

\* The strategy manager goes on with the price; the server answers it, or the
\* error it caught
Return ==
    /\ pc["client"] \in {"answered", "refused"}
    /\ Forget("client")
    /\ Goto("client", "idle")
    /\ UNCHANGED <<left, fetched, registry, keepAlive, fault>>

\* Nothing on the strategy manager's thread catches pair_not_available
Uncaught ==
    /\ pc["client"] = "refused"
    /\ fault' = "pair_not_available"
    /\ UNCHANGED <<pc, call, left, fetched, registry, keepAlive>>

\* fetch_all_price: once before the loop, then after each sleep
BeginFetch ==
    /\ \/ pc["fetcher"] = "idle" /\ registry = {}
       \/ pc["fetcher"] = "sleep"
    /\ left' = Tracked
    /\ fetched' = Empty
    /\ Goto("fetcher", "fetching")
    /\ UNCHANGED <<call, registry, keepAlive, fault>>

FetchNext ==
    /\ pc["fetcher"] = "fetching"
    /\ \E pair \in left :
          /\ left' = left \ {pair}
          /\ Ask("fetcher", pair)
    /\ UNCHANGED <<fetched, registry, keepAlive, fault>>

\* A pair without a price is left out
Record ==
    /\ pc["fetcher"] \in {"answered", "refused"}
    /\ fetched' = IF pc["fetcher"] = "refused" THEN fetched
                  ELSE [x \in DOMAIN fetched \cup {wanted["fetcher"]} |->
                           IF x = wanted["fetcher"] THEN price["fetcher"] ELSE fetched[x]]
    /\ Forget("fetcher")
    /\ Goto("fetcher", "fetching")
    /\ UNCHANGED <<left, registry, keepAlive, fault>>

\* price_registry_ = json_data, under the mutex
Publish ==
    /\ pc["fetcher"] = "fetching"
    /\ left = {}
    /\ registry' = {fetched}
    /\ fetched' = Empty
    /\ Goto("fetcher", "idle")
    /\ UNCHANGED <<call, left, keepAlive, fault>>

\* while (keep_thread_alive_), read before the sleep; mutant: not read
SleepAnyway ==
    /\ pc["fetcher"] = "idle"
    /\ registry # {}
    /\ Goto("fetcher", "sleep")
    /\ UNCHANGED <<call, left, fetched, registry, keepAlive, fault>>

Sleep ==
    /\ pc["fetcher"] = "idle"
    /\ registry # {} /\ keepAlive
    /\ Goto("fetcher", "sleep")
    /\ UNCHANGED <<call, left, fetched, registry, keepAlive, fault>>

QuitFetcher ==
    /\ pc["fetcher"] = "idle"
    /\ registry # {} /\ ~keepAlive
    /\ Goto("fetcher", "done")
    /\ UNCHANGED <<call, left, fetched, registry, keepAlive, fault>>

\* The server has returned and the sm thread was joined when ~price_service_platform
\* clears the flag and joins the fetcher
Destroy ==
    /\ pc["client"] = "idle"
    /\ keepAlive' = FALSE
    /\ Goto("client", "done")
    /\ UNCHANGED <<call, left, fetched, registry, fault>>

-------------------------------------------------------------------------------
Request(t) ==
    \/ \E p \in Platforms : Answer(t, p) \/ NoAnswer(t, p) \/ Unreadable(t, p) \/ Retry(t, p)
    \/ Join(t)

Fetcher ==
    \/ BeginFetch \/ FetchNext \/ Request("fetcher") \/ Record \/ Publish
    \/ Sleep \/ QuitFetcher

Client == Request("client") \/ Return \/ Uncaught

Ended == fault # "none" \/ pc = [t \in Threads |-> "done"]

Next ==
    \/ /\ fault = "none"
       /\ \/ Fetcher
          \/ Client
          \/ \E pair \in Pairs : CallFrom(pair)
          \/ Destroy
    \/ Ended /\ UNCHANGED vars

Spec == Init /\ [][Next]_vars

\* The fetcher and a call begun are scheduled, and a platform answers something
\* to every request: a price, an error, or for ever 429
Fairness == WF_vars(fault = "none" /\ Fetcher) /\ WF_vars(fault = "none" /\ Client)
FairSpec == Spec /\ Fairness

-------------------------------------------------------------------------------
(* Properties.                                                              *)

\* Every variable holds a value of its type.
TypeOK ==
    /\ pc \in [Threads -> Steps]
    /\ wanted \in [Threads -> Pairs \cup {NoPair}]
    /\ pending \in [Threads -> SUBSET Platforms]
    /\ tries \in [Threads -> [Platforms -> 0..MaxTries]]
    /\ price \in [Threads -> Nat]
    /\ succeeded \in [Threads -> Nat]
    /\ heard \in [Threads -> SUBSET Prices]
    /\ left \subseteq Tracked
    /\ DOMAIN fetched \subseteq Tracked
    /\ \A x \in DOMAIN fetched : fetched[x] \in Nat
    /\ \A r \in registry : DOMAIN r \subseteq Tracked
    /\ keepAlive \in BOOLEAN
    /\ fault \in {"none", "pair_not_available", "unreadable_price"}

\* A price returned lies between two prices the platforms gave for this call: the
\* zeros of platforms that failed or gave up retrying do not pull the mean down,
\* and another call running at the same time adds nothing to it.
MeanBetween ==
    \A t \in Threads :
        pc[t] = "answered" =>
            \E lo, hi \in heard[t] : lo <= price[t] /\ price[t] <= hi

\* Every call ends with a price or an exception, even if the platforms answer 429
\* for ever: the recursion hands on the number of tries.
CallEnds == \A t \in Threads : pc[t] = "asking" ~> (pc[t] # "asking" \/ fault # "none")

\* The destructor's join returns: the fetcher ends the fetch it is in, or the one
\* its sleep precedes, and stops.
FetcherStops == ~keepAlive ~> (pc["fetcher"] = "done" \/ fault # "none")
===============================================================================
