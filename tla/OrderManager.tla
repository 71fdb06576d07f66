----------------------------- MODULE OrderManager -----------------------------
(***************************************************************************)
(* The order manager (src/order_manager): the maps orders_,                *)
(* orders_by_pair_ and executions_, shared without a common lock by        *)
(*                                                                         *)
(*   "om"  the thread that runs poll() every ten seconds, and              *)
(*   "sm"  the strategy manager's thread, which calls cancel_orders() and  *)
(*         place_order() whenever it likes.                                *)
(*                                                                         *)
(* A step is what one thread does between two points at which the other    *)
(* can get in: a call to mm2, or one critical section.  The critical       *)
(* sections call nothing outside the three maps, so each is one step and   *)
(* the mutexes themselves need no variable; accesses made outside a lock   *)
(* are steps of their own, and DataRace says when two of them collide.     *)
(*                                                                         *)
(* The manager is written against abstract_dex.  What its implementations  *)
(* let it see differs, and four constants say what: the class dex over the *)
(* shipped mm2 client has all four FALSE, the mocks of the tests have them *)
(* TRUE.  The exchange itself (market, swaps) is external: the manager     *)
(* only learns of it through the calls.                                    *)
(***************************************************************************)
EXTENDS FiniteSets, Integers

CONSTANTS
    OrderIds,       \* the ids mm2 can issue: a bound on the orders placed
    Pairs,          \* crosses a strategy may name
    ExecIds,        \* the swaps that can happen: a bound on the fills
    NoOrder,        \* the id "" of a default-constructed order
    NoPair,         \* the cross of the pair ("", "") of that order
    PairOf,         \* the cross of each order
    OrderOf,        \* the order each swap executes
    MaxLevels,      \* orders in a group: a bid, or a bid and an ask
    CallsStart,     \* does the owner call start() before it polls?
    CancelSeen,     \* is a cancellation mm2 accepted reported as success?
    StatusSeen,     \* does get_order_status answer about the order asked for?
    DetailSeen,     \* do returned orders carry their status and executions?
    RecentSeen,     \* does get_recent_executions return the executions?
    CexImplemented, \* does cex.mirror return (or throw not_implemented)?
    Faulty          \* may a call to mm2 go unanswered?

AllIds == OrderIds \cup {NoOrder}
AllPairs == Pairs \cup {NoPair}

ASSUME IdsAssumption ==
    /\ NoOrder \notin OrderIds
    /\ NoPair \notin Pairs
    /\ PairOf \in [AllIds -> AllPairs]
    /\ PairOf[NoOrder] = NoPair
    /\ \A id \in OrderIds : PairOf[id] \in Pairs
    /\ OrderOf \in [ExecIds -> OrderIds]
    /\ MaxLevels \in Nat

ASSUME DexAssumption ==
    {CallsStart, CancelSeen, StatusSeen, DetailSeen, RecentSeen,
     CexImplemented, Faulty} \subseteq BOOLEAN

Threads == {"om", "sm"}

\* order_status; what orders::finished() calls finished, and its mutant
Status == {"live", "cancelled", "filled"}
FinishedInverted(status) == status # "cancelled"
Finished(status) == status = "cancelled"

\* An order as a call returns it and orders_ keeps it: no pair (PairOf has
\* it), no price and no quantities, which no decision of the manager reads.
Order == [id : AllIds, status : Status, execs : SUBSET ExecIds]
EmptyOrder == [id |-> NoOrder, status |-> "live", execs |-> {}]

AddSteps == {"insert", "ref", "emplace"}
RemoveSteps == {"unexec", "unindex", "erase"}
OmSteps == {"start", "load", "sleep", "refresh", "update", "addlive", "collect",
            "fetch", "recent", "check", "mirror", "known", "sweep", "done"}
SmSteps == {"idle", "find", "snapshot", "cancel", "lookup", "place", "done"}

Faults == {"none", "out_of_range", "not_implemented", "undefined"}

VARIABLES
    market,     \* mm2: what became of each order
    swaps,      \* mm2: the executions that have happened
    mirrored,   \* the CEX: the executions mirror() was completed for
    orders,     \* orders_
    byPair,     \* orders_by_pair_
    executions, \* executions_
    baseline,   \* executions start() loaded without mirroring them
    pc,         \* where each thread is
    todo,       \* ids the loop of each thread has still to visit
    cur,        \* the id each thread's loop is at
    ord,        \* the order each thread is adding
    back,       \* the om loop an add_order call returns to
    batch,      \* om: all_executions, those not yet looked at
    ex,         \* om: the execution being mirrored, if any
    dangling,   \* om: the node its iterator over orders_ is at was erased
    starting,   \* om: start() has not returned
    cross,      \* sm: the argument of cancel_orders, or the group's pair
    levels,     \* sm: levels of the group still to place
    cancelled,  \* sm: cancelled_orders, what cancel_orders returns
    keepAlive,  \* keep_thread_alive_
    fault       \* why the process was terminated

exchange == <<market, swaps, mirrored>>
omLocal == <<back, batch, ex, starting, baseline>>
smLocal == <<cross, levels, cancelled>>
vars == <<market, swaps, mirrored, orders, byPair, executions, baseline, pc,
          todo, cur, ord, back, batch, ex, dangling, starting, cross, levels,
          cancelled, keepAlive, fault>>

-------------------------------------------------------------------------------
(* What the calls to mm2 can answer at the moment mm2 serves them.          *)

ExecutionsOf(id) == {e \in swaps : OrderOf[e] = id}

\* to_order: status and executions are not converted, an order built is live
Converted(id, status) ==
    [id |-> id,
     status |-> IF DetailSeen THEN status ELSE "live",
     execs |-> IF DetailSeen THEN ExecutionsOf(id) ELSE {}]

\* get_order_status: the default order when there is no answer to convert
StatusAnswers(id) ==
    LET known == StatusSeen /\ id # NoOrder /\ market[id] # "none"
    IN  (IF known THEN {Converted(id, market[id])} ELSE {})
          \cup (IF ~known \/ Faulty THEN {EmptyOrder} ELSE {})

LiveOrders == {id \in OrderIds : market[id] = "live"}
LiveAnswers == {LiveOrders} \cup (IF Faulty THEN {{}} ELSE {})

\* get_executions(id): the swaps the status of the order names
ExecutionsAnswers(id) ==
    (IF StatusSeen THEN {ExecutionsOf(id)} ELSE {{}})
      \cup (IF Faulty THEN {{}} ELSE {})

\* What the caller of dex::cancel takes for a success; mutant: any answer
AnyAnswer(done, heard) == TRUE
Reported(done, heard) == done /\ heard /\ CancelSeen

\* get_recent_executions; mutant: the stub
NoRecent == {{}}
RecentAnswers ==
    (IF RecentSeen THEN {swaps} ELSE {{}}) \cup (IF Faulty THEN {{}} ELSE {})

-------------------------------------------------------------------------------
(* Unsynchronised accesses.                                                 *)

\* om is inside a range-for over orders_
Iterating ==
    \/ pc["om"] \in {"refresh", "sweep"} \cup RemoveSteps
    \/ pc["om"] \in AddSteps /\ back = "refresh"

\* remove_order holds a reference into orders_: the other thread may have freed the
\* order since, and what is read through the reference is then anything, the id and
\* the cross of another order among them (a node is reused), or of none.
Freed(t) == pc[t] \in RemoveSteps /\ cur[t] \notin DOMAIN orders

ReadId(t) ==
    IF Freed(t) THEN {{}} \cup {{id} : id \in AllIds} ELSE {{cur[t]}}
ReadPair(t) ==
    IF Freed(t) THEN {{}} \cup {{p} : p \in AllPairs} ELSE {{PairOf[cur[t]]}}
ReadExecutions(t) ==
    IF Freed(t) THEN SUBSET ExecIds ELSE {orders[cur[t]].execs}

UseAfterFree == \E t \in Threads : Freed(t)

\* The crosses whose set of ids a thread at an index step may touch
IndexOf(t) ==
    IF pc[t] = "emplace" THEN {PairOf[ord[t].id]}
    ELSE IF pc[t] = "unindex" THEN UNION ReadPair(t)
    ELSE {cross}

\* An emplace, made after the unlock, meets an access of one of these steps to
\* the same set
EmplaceMeets(t, steps) ==
    /\ pc[t] = "emplace"
    /\ \E u \in Threads \ {t} : pc[u] \in steps /\ IndexOf(u) \cap IndexOf(t) # {}

\* orders_[o.id] = o writes the order that the other thread's remove_order reads
\* with no lock: its executions, then its id and its cross
InsertMeetsRemoval ==
    \E t \in Threads : \E u \in Threads \ {t} :
        pc[t] = "insert" /\ pc[u] \in {"unexec", "unindex"} /\ ord[t].id = cur[u]

IndexRace(t) == EmplaceMeets(t, {"emplace", "unindex", "snapshot"})

DataRace ==
    \/ \E t \in Threads : IndexRace(t)
    \/ pc["om"] \in {"refresh", "collect", "sweep"} /\ pc["sm"] \in {"insert", "erase"}
    \/ pc["om"] = "check" /\ pc["sm"] = "unexec"
    \/ pc["om"] = "ref" /\ pc["sm"] = "find"
    \/ InsertMeetsRemoval

-------------------------------------------------------------------------------
Init ==
    /\ market = [id \in AllIds |-> "none"]
    /\ swaps = {}
    /\ mirrored = {}
    /\ orders = [id \in {} |-> EmptyOrder]
    /\ byPair = [p \in {} |-> {}]
    /\ executions = {}
    /\ baseline = {}
    /\ pc = [t \in Threads |-> IF t = "sm" THEN "idle"
                               ELSE IF CallsStart THEN "start" ELSE "sleep"]
    /\ todo = [t \in Threads |-> {}]
    /\ cur = [t \in Threads |-> NoOrder]
    /\ ord = [t \in Threads |-> EmptyOrder]
    /\ back = "refresh"
    /\ batch = {}
    /\ ex = {}
    /\ dangling = FALSE
    /\ starting = CallsStart
    /\ cross = NoPair
    /\ levels = 0
    /\ cancelled = {}
    /\ keepAlive = TRUE
    /\ fault = "none"

Goto(t, step) == pc' = [pc EXCEPT ![t] = step]

-------------------------------------------------------------------------------
(* add_order: orders_ under its lock, then add_order_to_pair_map.           *)

Put(f, key, value) ==
    [k \in DOMAIN f \cup {key} |-> IF k = key THEN value ELSE f[k]]
Without(f, keys) == [k \in DOMAIN f \ keys |-> f[k]]

\* orders_[o.id] = o.  A new key may rehash the table om iterates over: which
\* nodes the loop still meets is then anyone's guess.
Insert(t) ==
    /\ pc[t] = "insert"
    /\ orders' = Put(orders, ord[t].id, ord[t])
    /\ IF Iterating /\ ord[t].id \notin DOMAIN orders
       THEN \E rest \in SUBSET DOMAIN orders' : todo' = [todo EXCEPT !["om"] = rest]
       ELSE UNCHANGED todo
    /\ Goto(t, "ref")
    /\ UNCHANGED <<exchange, byPair, executions, cur, ord, omLocal, dangling,
                   smLocal, keepAlive, fault>>

\* Under the lock: create the set of the cross, take a reference to it
IndexRef(t) ==
    /\ pc[t] = "ref"
    /\ LET p == PairOf[ord[t].id]
       IN  byPair' = IF p \in DOMAIN byPair THEN byPair ELSE Put(byPair, p, {})
    /\ Goto(t, "emplace")
    /\ UNCHANGED <<exchange, orders, executions, todo, cur, ord, omLocal, dangling,
                   smLocal, keepAlive, fault>>

\* Mutant: the emplace is left inside the if, so only a new set gets its order
EmplaceWhenNew(t) ==
    /\ pc[t] = "emplace"
    /\ LET p == PairOf[ord[t].id]
       IN  byPair' = [byPair EXCEPT ![p] = IF @ = {} THEN {ord[t].id} ELSE @]
    /\ ord' = [ord EXCEPT ![t] = EmptyOrder]
    /\ Goto(t, IF t = "sm" THEN "place" ELSE back)
    /\ UNCHANGED <<exchange, orders, executions, todo, cur, omLocal, dangling,
                   smLocal, keepAlive, fault>>

\* After the unlock: ids.emplace(id), which a colliding write may lose
IndexEmplace(t) ==
    /\ pc[t] = "emplace"
    /\ LET p == PairOf[ord[t].id]
       IN  \/ byPair' = [byPair EXCEPT ![p] = @ \cup {ord[t].id}]
           \/ EmplaceMeets(t, {"emplace", "unindex"}) /\ UNCHANGED byPair
    /\ ord' = [ord EXCEPT ![t] = EmptyOrder]
    /\ Goto(t, IF t = "sm" THEN "place" ELSE back)
    /\ UNCHANGED <<exchange, orders, executions, todo, cur, omLocal, dangling,
                   smLocal, keepAlive, fault>>

-------------------------------------------------------------------------------
(* remove_order, called with a reference to the element of orders_.         *)

\* The executions the order lists, erased under executions_mutex_
EraseExecutions(t) ==
    /\ pc[t] = "unexec"
    /\ \E ids \in ReadExecutions(t) : executions' = executions \ ids
    /\ Goto(t, "unindex")
    /\ UNCHANGED <<exchange, orders, byPair, todo, cur, ord, omLocal, dangling,
                   smLocal, keepAlive, fault>>

\* remove_order_from_pair_map: at() throws when the cross has no set
Unindex(t) ==
    /\ pc[t] = "unindex"
    /\ \E ids \in ReadId(t), crosses \in ReadPair(t) :
          \/ \E p \in crosses \cap DOMAIN byPair :
                /\ byPair' = [byPair EXCEPT ![p] = @ \ ids]
                /\ Goto(t, "erase")
                /\ UNCHANGED fault
          \/ /\ crosses \cap DOMAIN byPair = {}
             /\ fault' = "out_of_range"
             /\ UNCHANGED <<byPair, pc>>
    /\ UNCHANGED <<exchange, orders, executions, todo, cur, ord, omLocal, dangling,
                   smLocal, keepAlive>>

\* orders_.erase(order.id), which reads the order once more; the node om's iterator
\* is at may be the one erased
EraseOrder(t) ==
    /\ pc[t] = "erase"
    /\ \E ids \in ReadId(t) :
          /\ orders' = Without(orders, ids)
          /\ todo' = [todo EXCEPT !["om"] = IF Iterating THEN @ \ ids ELSE @]
          /\ dangling' = (dangling \/ (Iterating /\ cur["om"] \in ids))
    /\ Goto(t, IF t = "sm" THEN "cancel" ELSE "sweep")
    /\ UNCHANGED <<exchange, byPair, executions, cur, ord, omLocal, smLocal,
                   keepAlive, fault>>

-------------------------------------------------------------------------------
(* The om thread: start(), then poll() for as long as keep_thread_alive_.   *)

\* A loop of the om thread begins over the given ids
Loop(step, ids) ==
    /\ Goto("om", step)
    /\ todo' = [todo EXCEPT !["om"] = ids]
    /\ cur' = [cur EXCEPT !["om"] = NoOrder]
    /\ dangling' = FALSE

Start ==
    /\ pc["om"] = "start"
    /\ Goto("om", "update")
    /\ UNCHANGED <<exchange, orders, byPair, executions, todo, cur, ord, omLocal,
                   dangling, smLocal, keepAlive, fault>>

\* Mutant: the flag is not read again
PollForever ==
    /\ pc["om"] = "sleep"
    /\ Loop("refresh", DOMAIN orders)
    /\ UNCHANGED <<exchange, orders, byPair, executions, ord, omLocal, smLocal,
                   keepAlive, fault>>

\* while (keep_thread_alive_) poll()
BeginPoll ==
    /\ pc["om"] = "sleep"
    /\ keepAlive
    /\ Loop("refresh", DOMAIN orders)
    /\ UNCHANGED <<exchange, orders, byPair, executions, ord, omLocal, smLocal,
                   keepAlive, fault>>

Quit ==
    /\ pc["om"] = "sleep"
    /\ ~keepAlive
    /\ Goto("om", "done")
    /\ UNCHANGED <<exchange, orders, byPair, executions, todo, cur, ord, omLocal,
                   dangling, smLocal, keepAlive, fault>>

\* for (id : orders_) add_order(dex_.get_order_status(id))
RefreshOrder ==
    /\ pc["om"] = "refresh"
    /\ ~dangling
    /\ \E id \in todo["om"] :
          /\ todo' = [todo EXCEPT !["om"] = @ \ {id}]
          /\ cur' = [cur EXCEPT !["om"] = id]
          /\ \E o \in StatusAnswers(id) : ord' = [ord EXCEPT !["om"] = o]
    /\ back' = "refresh"
    /\ Goto("om", "insert")
    /\ UNCHANGED <<exchange, orders, byPair, executions, baseline, batch, ex,
                   dangling, starting, smLocal, keepAlive, fault>>

RefreshDone ==
    /\ pc["om"] = "refresh"
    /\ ~dangling
    /\ todo["om"] = {}
    /\ Goto("om", "update")
    /\ UNCHANGED <<exchange, orders, byPair, executions, todo, cur, ord, omLocal,
                   dangling, smLocal, keepAlive, fault>>

\* update_from_live
UpdateFromLive ==
    /\ pc["om"] = "update"
    /\ \E live \in LiveAnswers : Loop("addlive", live)
    /\ UNCHANGED <<exchange, orders, byPair, executions, ord, omLocal, smLocal,
                   keepAlive, fault>>

AddLive ==
    /\ pc["om"] = "addlive"
    /\ \E id \in todo["om"] :
          /\ todo' = [todo EXCEPT !["om"] = @ \ {id}]
          /\ ord' = [ord EXCEPT !["om"] = Converted(id, "live")]
    /\ back' = "addlive"
    /\ Goto("om", "insert")
    /\ UNCHANGED <<exchange, orders, byPair, executions, baseline, cur, batch, ex,
                   dangling, starting, smLocal, keepAlive, fault>>

AddLiveDone ==
    /\ pc["om"] = "addlive"
    /\ todo["om"] = {}
    /\ Goto("om", "collect")
    /\ UNCHANGED <<exchange, orders, byPair, executions, todo, cur, ord, omLocal,
                   dangling, smLocal, keepAlive, fault>>

\* order_ids, copied from orders_
CollectIds ==
    /\ pc["om"] = "collect"
    /\ Loop("fetch", DOMAIN orders)
    /\ batch' = {}
    /\ UNCHANGED <<exchange, orders, byPair, executions, baseline, ord, back, ex,
                   starting, smLocal, keepAlive, fault>>

\* dex_.get_executions(order_ids), one order at a time
FetchExecutions ==
    /\ pc["om"] = "fetch"
    /\ \E id \in todo["om"] :
          /\ todo' = [todo EXCEPT !["om"] = @ \ {id}]
          /\ \E es \in ExecutionsAnswers(id) : batch' = batch \cup es
    /\ UNCHANGED <<exchange, orders, byPair, executions, baseline, pc, cur, ord,
                   back, ex, dangling, starting, smLocal, keepAlive, fault>>

FetchDone ==
    /\ pc["om"] = "fetch"
    /\ todo["om"] = {}
    /\ Goto("om", IF starting THEN "load" ELSE "recent")
    /\ UNCHANGED <<exchange, orders, byPair, executions, todo, cur, ord, omLocal,
                   dangling, smLocal, keepAlive, fault>>

\* start(): add_executions, with no call to the CEX
LoadExecution ==
    /\ pc["om"] = "load"
    /\ \E e \in batch :
          /\ batch' = batch \ {e}
          /\ executions' = executions \cup {e}
          /\ baseline' = baseline \cup {e}
    /\ UNCHANGED <<exchange, orders, byPair, pc, todo, cur, ord, back, ex, dangling,
                   starting, smLocal, keepAlive, fault>>

StartDone ==
    /\ pc["om"] = "load"
    /\ batch = {}
    /\ starting' = FALSE
    /\ Goto("om", "sleep")
    /\ UNCHANGED <<exchange, orders, byPair, executions, baseline, todo, cur, ord,
                   back, batch, ex, dangling, smLocal, keepAlive, fault>>

\* all_executions: the executions of the known orders and the recent ones
FetchRecent ==
    /\ pc["om"] = "recent"
    /\ \E es \in RecentAnswers : batch' = batch \cup es
    /\ Goto("om", "check")
    /\ UNCHANGED <<exchange, orders, byPair, executions, baseline, todo, cur, ord,
                   back, ex, dangling, starting, smLocal, keepAlive, fault>>

\* Mutant: the execution is added before it is mirrored
CheckAndAdd ==
    /\ pc["om"] = "check"
    /\ \E e \in batch \ executions :
          /\ batch' = batch \ {e}
          /\ executions' = executions \cup {e}
          /\ ex' = {e}
    /\ Goto("om", "mirror")
    /\ UNCHANGED <<exchange, orders, byPair, baseline, todo, cur, ord, back,
                   dangling, starting, smLocal, keepAlive, fault>>

\* if (executions_.find(id) == executions_.end())
CheckExecution ==
    /\ pc["om"] = "check"
    /\ \E e \in batch :
          /\ batch' = batch \ {e}
          /\ IF e \in executions
             THEN UNCHANGED <<pc, ex>>
             ELSE Goto("om", "mirror") /\ ex' = {e}
    /\ UNCHANGED <<exchange, orders, byPair, executions, baseline, todo, cur, ord,
                   back, dangling, starting, smLocal, keepAlive, fault>>

\* cex_.mirror(ex): what it throws leaves the thread function
Mirror ==
    /\ pc["om"] = "mirror"
    /\ \/ /\ CexImplemented
          /\ mirrored' = mirrored \cup ex
          /\ Goto("om", "known")
          /\ UNCHANGED fault
       \/ /\ ~CexImplemented
          /\ fault' = "not_implemented"
          /\ UNCHANGED <<mirrored, pc>>
    /\ UNCHANGED <<market, swaps, orders, byPair, executions, todo, cur, ord,
                   omLocal, dangling, smLocal, keepAlive>>

\* Mutant: the execution is not added to the known ones
ForgetExecution ==
    /\ pc["om"] = "known"
    /\ ex' = {}
    /\ Goto("om", "check")
    /\ UNCHANGED <<exchange, orders, byPair, executions, baseline, todo, cur, ord, back,
                   batch, dangling, starting, smLocal, keepAlive, fault>>

AddExecution ==
    /\ pc["om"] = "known"
    /\ executions' = executions \cup ex
    /\ ex' = {}
    /\ Goto("om", "check")
    /\ UNCHANGED <<exchange, orders, byPair, baseline, todo, cur, ord, back, batch,
                   dangling, starting, smLocal, keepAlive, fault>>

BeginSweep ==
    /\ pc["om"] = "check"
    /\ batch = {}
    /\ Loop("sweep", DOMAIN orders)
    /\ UNCHANGED <<exchange, orders, byPair, executions, ord, omLocal, smLocal,
                   keepAlive, fault>>

\* for (order : orders_) if (order.finished()) remove_order(order)
SweepOrder ==
    /\ pc["om"] = "sweep"
    /\ ~dangling
    /\ \E id \in todo["om"] :
          /\ todo' = [todo EXCEPT !["om"] = @ \ {id}]
          /\ cur' = [cur EXCEPT !["om"] = id]
          /\ IF Finished(orders[id].status) THEN Goto("om", "unexec") ELSE UNCHANGED pc
    /\ UNCHANGED <<exchange, orders, byPair, executions, ord, omLocal, dangling,
                   smLocal, keepAlive, fault>>

SweepDone ==
    /\ pc["om"] = "sweep"
    /\ ~dangling
    /\ todo["om"] = {}
    /\ Goto("om", "sleep")
    /\ UNCHANGED <<exchange, orders, byPair, executions, todo, cur, ord, omLocal,
                   dangling, smLocal, keepAlive, fault>>

\* The increment of an iterator whose node is gone lands anywhere, or nowhere
StrayIterator ==
    /\ pc["om"] \in {"refresh", "sweep"}
    /\ dangling
    /\ \E rest \in SUBSET DOMAIN orders : todo' = [todo EXCEPT !["om"] = rest]
    /\ dangling' = FALSE
    /\ cur' = [cur EXCEPT !["om"] = NoOrder]
    /\ UNCHANGED <<exchange, orders, byPair, executions, pc, ord, omLocal, smLocal,
                   keepAlive, fault>>

-------------------------------------------------------------------------------
(* The sm thread: the two calls the strategy manager makes.                 *)

\* cancel_orders(pair)
BeginCancelOrders ==
    /\ pc["sm"] = "idle"
    /\ ~starting
    /\ cross' \in Pairs
    /\ cancelled' = {}
    /\ Goto("sm", "find")
    /\ UNCHANGED <<exchange, orders, byPair, executions, todo, cur, ord, omLocal,
                   dangling, levels, keepAlive, fault>>

\* orders_by_pair_.find(pair), before the lock
FindPair ==
    /\ pc["sm"] = "find"
    /\ Goto("sm", IF cross \in DOMAIN byPair THEN "snapshot" ELSE "idle")
    /\ UNCHANGED <<exchange, orders, byPair, executions, todo, cur, ord, omLocal,
                   dangling, smLocal, keepAlive, fault>>

\* Under the lock: a copy of the ids
CopyIds ==
    /\ pc["sm"] = "snapshot"
    /\ todo' = [todo EXCEPT !["sm"] = byPair[cross]]
    /\ Goto("sm", "cancel")
    /\ UNCHANGED <<exchange, orders, byPair, executions, cur, ord, omLocal, dangling,
                   smLocal, keepAlive, fault>>

\* dex_.cancel(id): what mm2 does, and what the manager hears of it
Cancel ==
    /\ pc["sm"] = "cancel"
    /\ \E id \in todo["sm"], served \in IF Faulty THEN BOOLEAN ELSE {TRUE},
          heard \in IF Faulty THEN BOOLEAN ELSE {TRUE} :
          LET done == served /\ market[id] = "live"
          IN  /\ todo' = [todo EXCEPT !["sm"] = @ \ {id}]
              /\ cur' = [cur EXCEPT !["sm"] = id]
              /\ market' = IF done THEN [market EXCEPT ![id] = "cancelled"] ELSE market
              /\ IF Reported(done, heard)
                 THEN cancelled' = cancelled \cup {id} /\ Goto("sm", "lookup")
                 ELSE UNCHANGED <<cancelled, pc>>
    /\ UNCHANGED <<swaps, mirrored, orders, byPair, executions, ord, omLocal,
                   dangling, cross, levels, keepAlive, fault>>

\* orders_.at(id) under orders_mutex_: it throws with the mutex locked
LookupCancelled ==
    /\ pc["sm"] = "lookup"
    /\ \/ cur["sm"] \in DOMAIN orders /\ Goto("sm", "unexec") /\ UNCHANGED fault
       \/ cur["sm"] \notin DOMAIN orders /\ fault' = "out_of_range" /\ UNCHANGED pc
    /\ UNCHANGED <<exchange, orders, byPair, executions, todo, cur, ord, omLocal,
                   dangling, smLocal, keepAlive>>

CancelOrdersDone ==
    /\ pc["sm"] = "cancel"
    /\ todo["sm"] = {}
    /\ cur' = [cur EXCEPT !["sm"] = NoOrder]
    /\ Goto("sm", "idle")
    /\ UNCHANGED <<exchange, orders, byPair, executions, todo, ord, omLocal, dangling,
                   smLocal, keepAlive, fault>>

\* place_order(group)
BeginPlaceOrder ==
    /\ pc["sm"] = "idle"
    /\ ~starting
    /\ cross' \in Pairs
    /\ levels' \in 1..MaxLevels
    /\ cancelled' = {}
    /\ Goto("sm", "place")
    /\ UNCHANGED <<exchange, orders, byPair, executions, todo, cur, ord, omLocal,
                   dangling, keepAlive, fault>>

\* dex_.place(level): an order comes back, and is added
PlaceLevel ==
    /\ pc["sm"] = "place"
    /\ levels > 0
    /\ levels' = levels - 1
    /\ \E id \in OrderIds :
          /\ market[id] = "none"
          /\ PairOf[id] = cross
          /\ market' = [market EXCEPT ![id] = "live"]
          /\ ord' = [ord EXCEPT !["sm"] = [id |-> id, status |-> "live", execs |-> {}]]
    /\ Goto("sm", "insert")
    /\ UNCHANGED <<swaps, mirrored, orders, byPair, executions, todo, cur, omLocal,
                   dangling, cross, cancelled, keepAlive, fault>>

\* Mutant: one level too many
PlaceOneMore ==
    /\ pc["sm"] = "place"
    /\ levels' = levels - 1
    /\ UNCHANGED <<exchange, orders, byPair, executions, pc, todo, cur, ord, omLocal,
                   dangling, cross, cancelled, keepAlive, fault>>

\* dex_.place(level) is nullopt: mm2 refused, or its answer was lost
PlaceRefused ==
    /\ pc["sm"] = "place"
    /\ levels > 0
    /\ levels' = levels - 1
    /\ \/ UNCHANGED market
       \/ /\ Faulty
          /\ \E id \in OrderIds :
                /\ market[id] = "none"
                /\ PairOf[id] = cross
                /\ market' = [market EXCEPT ![id] = "live"]
    /\ UNCHANGED <<swaps, mirrored, orders, byPair, executions, pc, todo, cur, ord,
                   omLocal, dangling, cross, cancelled, keepAlive, fault>>

PlaceOrderDone ==
    /\ pc["sm"] = "place"
    /\ levels = 0
    /\ Goto("sm", "idle")
    /\ UNCHANGED <<exchange, orders, byPair, executions, todo, cur, ord, omLocal,
                   dangling, smLocal, keepAlive, fault>>

-------------------------------------------------------------------------------
(* The rest of the process, and the exchange.                               *)

\* The sm thread has been joined; ~order_manager clears the flag and joins om
Destroy ==
    /\ pc["sm"] = "idle"
    /\ ~starting
    /\ keepAlive' = FALSE
    /\ Goto("sm", "done")
    /\ UNCHANGED <<exchange, orders, byPair, executions, todo, cur, ord, omLocal,
                   dangling, smLocal, fault>>

\* Undefined behaviour may also end the process
Crash ==
    /\ DataRace \/ UseAfterFree \/ (dangling /\ pc["om"] \in {"refresh", "sweep"})
    /\ fault' = "undefined"
    /\ UNCHANGED <<exchange, orders, byPair, executions, pc, todo, cur, ord, omLocal,
                   dangling, smLocal, keepAlive>>

\* Another user of mm2 (its REST proxy) places or cancels an order
ForeignPlace(id) ==
    /\ market[id] = "none"
    /\ market' = [market EXCEPT ![id] = "live"]
    /\ UNCHANGED <<swaps, mirrored>>

ForeignCancel(id) ==
    /\ market[id] = "live"
    /\ market' = [market EXCEPT ![id] = "cancelled"]
    /\ UNCHANGED <<swaps, mirrored>>

\* A swap executes part of an order, or what was left of it
Fill(e) ==
    /\ e \notin swaps
    /\ market[OrderOf[e]] = "live"
    /\ swaps' = swaps \cup {e}
    /\ \/ UNCHANGED market
       \/ market' = [market EXCEPT ![OrderOf[e]] = "filled"]
    /\ UNCHANGED mirrored

Exchange ==
    /\ \/ \E id \in OrderIds : ForeignPlace(id) \/ ForeignCancel(id)
       \/ \E e \in ExecIds : Fill(e)
    /\ UNCHANGED <<orders, byPair, executions, pc, todo, cur, ord, omLocal,
                   dangling, smLocal, keepAlive, fault>>

AddOrRemove(t) ==
    \/ Insert(t) \/ IndexRef(t) \/ IndexEmplace(t)
    \/ EraseExecutions(t) \/ Unindex(t) \/ EraseOrder(t)

Om ==
    \/ AddOrRemove("om")
    \/ Start \/ LoadExecution \/ StartDone
    \/ BeginPoll \/ Quit \/ RefreshOrder \/ RefreshDone
    \/ UpdateFromLive \/ AddLive \/ AddLiveDone
    \/ CollectIds \/ FetchExecutions \/ FetchDone \/ FetchRecent
    \/ CheckExecution \/ Mirror \/ AddExecution
    \/ BeginSweep \/ SweepOrder \/ SweepDone \/ StrayIterator

\* What the sm thread does once it is inside a call
SmCall ==
    \/ AddOrRemove("sm")
    \/ FindPair \/ CopyIds \/ Cancel \/ LookupCancelled \/ CancelOrdersDone
    \/ PlaceLevel \/ PlaceRefused \/ PlaceOrderDone

Sm == BeginCancelOrders \/ BeginPlaceOrder \/ Destroy \/ SmCall

Ended == fault # "none" \/ pc = [t \in Threads |-> "done"]

Next ==
    \/ fault = "none" /\ (Om \/ Sm \/ Crash \/ Exchange)
    \/ Ended /\ UNCHANGED vars

Spec == Init /\ [][Next]_vars

\* Both threads are scheduled, and every call they make to mm2 returns
Fairness == WF_vars(fault = "none" /\ Om) /\ WF_vars(fault = "none" /\ SmCall)
FairSpec == Spec /\ Fairness

-------------------------------------------------------------------------------
(* Properties.                                                              *)

\* Every variable holds a value of its type.
TypeOK ==
    /\ market \in [AllIds -> Status \cup {"none"}]
    /\ swaps \subseteq ExecIds /\ mirrored \subseteq ExecIds
    /\ DOMAIN orders \subseteq AllIds
    /\ \A id \in DOMAIN orders : orders[id] \in Order
    /\ DOMAIN byPair \subseteq AllPairs
    /\ \A p \in DOMAIN byPair : byPair[p] \subseteq AllIds
    /\ executions \subseteq ExecIds /\ baseline \subseteq ExecIds
    /\ batch \subseteq ExecIds /\ ex \subseteq ExecIds
    /\ pc \in [Threads -> OmSteps \cup SmSteps \cup AddSteps \cup RemoveSteps]
    /\ pc["om"] \in OmSteps \cup AddSteps \cup RemoveSteps
    /\ pc["sm"] \in SmSteps \cup AddSteps \cup RemoveSteps
    /\ todo \in [Threads -> SUBSET AllIds]
    /\ cur \in [Threads -> AllIds]
    /\ ord \in [Threads -> Order]
    /\ back \in {"refresh", "addlive"}
    /\ dangling \in BOOLEAN /\ starting \in BOOLEAN /\ keepAlive \in BOOLEAN
    /\ cross \in AllPairs
    /\ pc["sm"] = "snapshot" => cross \in DOMAIN byPair
    /\ levels \in Nat
    /\ cancelled \subseteq AllIds
    /\ fault \in Faults

\* An order leaves orders_ only once mm2 no longer has it on the book: neither a
\* cancellation whose outcome is unknown nor a stale status makes the manager forget
\* a live order.  When both threads remove orders, it can happen in one way only: in
\* a step of remove_order that reads an order the other thread has freed.
NeverForgetsLive ==
    [][UseAfterFree \/ \A id \in DOMAIN orders \ DOMAIN orders' : market[id] # "live"]_vars

\* cancel_orders and remove_order never let std::out_of_range escape: what the
\* index lists and mm2 cancels is in orders_, though the two maps are changed
\* under different locks.
NoOutOfRange == fault # "out_of_range"

\* An id the index lists and orders_ does not have names no live order, so
\* cancelling it cannot succeed: the reason why NoOutOfRange can hold at all.
DanglingIndexDead ==
    \A p \in DOMAIN byPair : \A id \in byPair[p] \ DOMAIN orders : market[id] # "live"

\* "We can't find the execution, it must be new and we mirror it": what poll is
\* about to mirror has not been mirrored, nor was it loaded by start().
MirrorsOnlyNew == pc["om"] = "mirror" => ex \cap (mirrored \cup baseline) = {}

\* poll never counts as known an execution that reached neither the CEX nor
\* start(): a missed hedge is not hidden by executions_.
KnownIsMirrored == executions \subseteq mirrored \cup baseline

\* What cancel_orders returned is no longer among the orders
\* (order.manager.tests.cpp:279).
CancelledForgotten ==
    pc["sm"] \in {"idle", "done"} => cancelled \cap DOMAIN orders = {}

\* Every execution reaches the CEX, unless the process ends.
EveryExecutionMirrored ==
    \A e \in ExecIds :
        e \in swaps ~> (e \in mirrored \cup baseline \/ ~keepAlive \/ fault # "none")

\* A tracked live order that the index lost is listed again, or dies.
IndexHeals ==
    \A id \in OrderIds :
        (id \in DOMAIN orders /\ market[id] = "live") ~>
            (\/ PairOf[id] \in DOMAIN byPair /\ id \in byPair[PairOf[id]]
             \/ market[id] # "live" \/ ~keepAlive \/ fault # "none")

\* Once the destructor cleared the flag the om thread ends, however far in a
\* poll it was.
ShutdownCompletes == ~keepAlive ~> (pc["om"] = "done" \/ fault # "none")

-------------------------------------------------------------------------------
(* The promise the manager implements when one thread removes orders.       *)

\* poll removes an order when its status says so, cancel_orders when the cancellation
\* is reported.  With both, the two threads may remove one order at a time.
OneRemover == ~(CancelSeen /\ StatusSeen /\ DetailSeen)

\* remove_order erases from executions_ those its order lists: its own, or none when
\* orders carry no detail, as with the class dex
TakenAlong ==
    [id \in OrderIds |-> IF DetailSeen THEN {e \in ExecIds : OrderOf[e] = id} ELSE {}]

Ledger == INSTANCE HedgeLedger WITH
    Orders <- OrderIds,
    Executions <- ExecIds,
    TakenAlong <- TakenAlong,
    live <- LiveOrders,
    issued <- {id \in OrderIds : market[id] # "none"},
    tracked <- DOMAIN orders \ {NoOrder},
    leaving <- {cur[t] : t \in {u \in Threads : pc[u] \in {"unindex", "erase"}}},
    happened <- swaps,
    past <- baseline,
    remembered <- executions \cup (IF pc["om"] = "known" THEN ex ELSE {}),
    outgoing <- IF pc["om"] = "mirror" THEN ex ELSE {},
    hedged <- mirrored

\* The two threads together keep the promise of HedgeLedger: an execution leaves for
\* the CEX once it happened, and again only after remove_order erased it with an order
\* of its own that is off the book; and live orders are never forgotten.
ImplementsLedger == Ledger!LSpec
===============================================================================
