# Verification of antara-makerbot

antara-makerbot is a market making bot. It quotes orders on a decentralised
exchange, through the mm2 daemon, around prices it reads from price platforms,
and hedges on a centralised exchange (CEX) what gets executed. This directory
holds TLA+ models of its components, the TLC runs that check them on small
instances and the TLAPS proofs of what holds for every instance.

    tlc -config OmRepaired.cfg MCOrderManager      # a run
    tlapm OrderManagerProofs.tla                   # a proof module

Paths below are relative to the repository; PROJECT.json maps every definition
to its lines.

## The system

    HTTP clients --> http server --> price service --> price platforms (HTTPS)
                        |   |              ^
                        |   +--> strategy manager --> order manager --> cex
                        |        (registry)   (sm thread) (om thread)
                        +--> mm2 client  <---- dex <----------+
                                  |
                             mm2 daemon (child process)

Five threads meet in it: the one that serves HTTP (and runs `application::run`),
the price fetcher, the sm thread, the om thread, and the drain of mm2's output.

| Component | State | Operations | What is hard | What makes it correct |
|---|---|---|---|---|
| order manager (`order_manager/`) | `orders_`, `orders_by_pair_`, `executions_`, each under a mutex of its own, `keep_thread_alive_` | `start`, `poll`, `add_order`, `remove_order`, `place_order`, `cancel_orders`, `~order_manager` | two threads; maps changed under different locks, iterated without any; the mm2 calls between a read and its use; `erase` in a range-for | a live order is not forgotten, an execution reaches the CEX once, `at()` never throws |
| orders (`orders/`) | none | builders, equality, `finished` | equality of groups of different sizes | an order built from an answer is the one mm2 has |
| dex (`dex/`) | none | `place`, `cancel`, `get_*`, conversions from mm2's answers | what a failed or partial answer becomes | the manager hears nothing false |
| mm2 client (`mm2/`) | the child process, its drain thread | one `rpc_*` per call, `enable_all_coins`, `enable_tests_coins`, the JSON conversions | mm2 dead, slow, refusing, unreadable; an answer lost after the effect; a member a struct loses | what is reported as done was done; mm2 is asked what the client asked |
| cex (`cex/`) | none | `mirror`, `place` (both throw `not_implemented`) | the exception on the om thread | |
| strategy manager (`strategy_manager/`) | `registry_strategies_`, no mutex | `add_strategy`, `get_strategy`, `create_order_group`, the sm thread, the destructor | the HTTP thread writes what the sm thread reads through a reference held over a network call | the quotes are those of the registered strategy, on their side of the mid, and never cross each other |
| strong types (`utils/mmbot_strong_types`) | none | `price * spread`, `pair`, `cross` and its hash | truncation of a double | |
| price service (`price/`) | `price_registry_` under a mutex, `keep_thread_alive_` | `get_price`, `fetch_all_price`, the fetcher, the destructor | platforms that fail or limit the rate; calls in parallel | the mean is one of prices really answered; every call ends |
| http server (`http/`) | none | one handler per route | one thread for all; exceptions out of a handler; 400 after an effect | every request ends; 200 means done, or hands on mm2's refusal |
| config (`config/`) | `mmbot_cfg` and its files | load, save, JSON conversions | what a round trip loses; a process killed while it writes | only a killed process leaves a torn file; a default written is accepted |
| utils (`utils/antara.utils`) | none | price text to integer and back | `noexcept` functions that throw; decimals that differ | a price read is the nearest to what was written |
| application (`app/`, `main.cpp`) | owns all the above | `run`, destruction in reverse order | threads still running while the members they use are destroyed; the process after a killed one | threads meet live members; an mm2 that runs has the wallet asked for; no execution is hedged twice |

`PROJECT.json` lists under "hazards" what of this is hard to test, each at its
line, with the properties that would notice.

## The modules

| Module | Models | Checked by | Proofs |
|---|---|---|---|
| `HedgeLedger` | what the order manager promises, abstractly | `om_repaired` (refinement) | with the next |
| `OrderManager` | order manager, its view of dex, cex and mm2 | `MCOrderManager`, `Om*.cfg` | `OrderManagerProofs` |
| `Quoting` | `make_bid`, `make_ask`, `price * spread` | with the next | with the next |
| `StrategyManager` | registry, HTTP writer, sm thread, book | `MCStrategyManager`, `Sm*.cfg` | `StrategyManagerProofs` |
| `PriceService` | `get_price`, retries, fetcher | `MCPriceService`, `Price.cfg` | `PriceServiceProofs` |
| `HttpServer` | routes, handlers, mm2 client, daemon | `MCHttpServer`, `Http.cfg` | `HttpServerProofs` |
| `Config` | the coins, `mmbot_config.json` read and written | with `Wire` and `Application` | |
| `Objects` | objects of JSON, structs and maps as functions | with the next three | with `Wire` |
| `PriceText` | `antara.utils`: prices read from text and written | with `Wire` | `PriceTextProofs` |
| `Mm2Messages` | the structs of the mm2 client and their conversions | with `Wire` | with `Wire` |
| `Wire` | dex, the forwarded calls and the platforms, message by message | `MCWire`, `Wire*.cfg` | `WireProofs`, `WireOrderProofs` |
| `Application` | `main`, `application`, the process and the next one | `MCApplication`, `App.cfg` | `ApplicationProofs` |

### OrderManager

Variables carry the names of the members (`orders`, `byPair`, `executions`,
`keepAlive`) and the locals of the two threads' loops. A step is what a thread
does between two points where the other can get in: one call to mm2, or one
critical section. The critical sections call nothing outside the three maps, so
each is one step and the mutexes need no variable. What the code does outside a
lock is a step of its own: `add_order_to_pair_map` is `IndexRef` (locked) and
`IndexEmplace` (after the unlock); `cancel_orders` looks the pair up (`FindPair`)
before the lock under which it copies the ids (`CopyIds`).

Undefined behaviour is a choice over its outcomes. `DataRace` and `UseAfterFree`
enable `Crash`; a lost concurrent `emplace` is the second disjunct of
`IndexEmplace`; an insertion while the other thread iterates leaves the loop any
subset of the map (`Insert`); the iterator whose element was erased goes anywhere
(`StrayIterator`). `remove_order` works through a reference into `orders_`, and the
other thread may have freed the order since (`Freed`): what it then reads as the
executions, the cross and the id is anything, so that it may take another order out of
the index and out of `orders_` (`ReadExecutions`, `ReadPair`, `ReadId`).

The manager is written against `abstract_dex`, and its implementations show it
different things. Four constants say what:

| Constant | class `dex` as shipped | mocks of the tests |
|---|---|---|
| `CancelSeen`: is an accepted cancel reported? (`dex.utils.cpp:115` compares the raw body with "success") | no | yes |
| `StatusSeen`: does `get_order_status` answer for the order? (`rpc_order_status` is a stub) | no | yes |
| `DetailSeen`: do orders carry status and executions? (`to_order` sets neither) | no | yes |
| `RecentSeen`: does `get_recent_executions` answer? (its body is commented out) | no | yes |

`CexImplemented` is FALSE in the shipped `cex`, and nobody calls `start()`
(`CallsStart`). With everything as shipped the manager can neither confirm a
cancel nor hear of an execution, so most properties would hold for want of
events. The runs therefore ask what the manager's own code does once an
implementation answers, which is what its tests assume; the theorems hold for
every choice of the constants, the shipped one included, unless they name one.

`CancelSeen` lets `cancel_orders` remove orders, `StatusSeen` with `DetailSeen` lets
`poll` remove them. With both (`OneRemover` is FALSE) the two threads may remove one
order at a time: this is the wiring of the mocks, and of `om_contract`. The second
then reads what the first freed, and a live order may be erased in its place.
`NeverForgetsLive` says that this is the only way to forget one. What the manager
keeps in that wiring is this, the types and `KnownIsMirrored`; the rest, the ledger
included, is checked and proved for one remover.

`HedgeLedger` has no thread, map or call. An execution leaves for the CEX after it
happened, and not while the manager remembers that it left or was accepted at the start
(before anything is hedged). `Drop` is what makes it unremembered: the manager drops an
order it answers for, which is off the book, and forgets with it some of the executions
that order takes along; only then is the order forgotten (`Forget`). `Ledger` in
`OrderManager` is the refinement mapping, and `TakenAlong` says what an order takes
along: its own executions, as `remove_order` erases from `executions_` those the order
lists, or nothing with the class `dex`, whose orders list nothing. The poll that hears of
them again (`get_recent_executions`) mirrors them again.

### Quoting and StrategyManager

`Times(price, k)` is the product of `mmbot_strong_types.cpp:22`, with a factor
counted in thousandths. `Short` names the factors whose double truncates to one
thousandth less, as `(1.0 + 0.001) * 1000` does; the theorems hold for any such
set. Spreads are 0 to 1; the wrap of `uint128` is not modelled.

The HTTP thread assigns base, quote and terms of the strategy in three steps, as
`operator=` may be interrupted; the spread and the side, read in one step in
`BuildGroup`, are written in one too, because any mix of the two is again a
strategy with a legal spread. The sm thread copies the pair for `get_price`, waits, then
reads the strategy again through its reference (`ReadPair`, `BuildGroup`). The
order manager appears as what its calls do to the book. Each quote carries the
pair its price was asked for and the spread it was made with: neither is in the
code, the properties compare with them.

### PriceService

A call by either thread asks every platform at once; the answers come in any order, the
reduction adds a price and counts a call, and `Join` divides or throws. `Retry`
is the recursion on 429. One client thread stands for the HTTP thread and the sm
thread (their calls share nothing but the network); it may catch the exception
(`Return`) or not (`Uncaught`). The registry is read and replaced under its mutex,
so publishing is one step.

### HttpServer

restinio runs on one thread (`on_this_thread`), so a handler runs to its end: `pc`
and `at` say which. A request is a route and a form; what matters of an answer of
mm2 is its status and which parser accepts it. The `from_json` of buy, sell and
cancel_order accept an error too (`Lenient`): the call was declined, and the client is
told 200 with the error in the body (`refused`). `Processed` is
`rpc_process_call`, `AnswerPost` is `process_post_function`, `AnswerGet` the
handlers of gets, whose `json::parse` no one catches. mm2 may be dead from the
start (the constructor only logs it), die at any time (`Die`), or die after it
carried a call out and before it answered (`Lose`). restinio accepts one response
per request and throws at a second one, which is how `getprice` ends when the pair
is not available. `ErrorMeansRefused` is about 500. A 400 says less: it answers a body
that does not parse, and also one that mm2 carried out when its answer was lost or
is no JSON.

### Config

Objects of JSON are functions from member names to values (`Objects`; its `Merged` and
`Single` are TLC's `@@` and `:>` in a form the prover knows). `CoinInfos` is
`fill_with_coins_cfg` with `extract_from_electrum_file`: the first entry of a coin
wins, `decimals` counts for tokens only. `ReadConfig` and `WriteConfig` are the
conversions of `mmbot::config`; they do not use the same names (`to_json` writes
`cex_infos` and `price_infos` beside the empty registries, `from_json` reads
`cex_infos_registry` and `price_infos_registry`), so that only a configuration without
exchanges and platforms survives a round trip: the default, the one the program
writes (`DefaultIsAccepted`).

### PriceText, Mm2Messages and Wire

A decimal text is `[n, s]`: the digits of `n`, the last `s` of them after the dot.
`PriceText` reads one from the token of a body (`Extracted`, `Formatted`,
`Generated`) and writes one (`Represented`, `StdToString`); an exception out of a
`noexcept` function is `Terminates`, and an order whose price is that ends the process when
the bot learns of it. `Mm2Messages` has a struct and two
conversions per call. A request is read whole or not at all (`Read`); an answer is
read member by member, and a member that is missing leaves the later ones as they were
(`Fill`), because `rpc_process_call` catches the exception and keeps the struct. The
objects of a list go through a conversion of their own (`Each`, `Parsed`).

`Wire` sends one message or reads one in each step. `book` is what mm2 has, `heard`
what the bot read last of each order, `last` the message of the step, `ended` says
that an exception ended the process. `Place` is `dex::place` with `to_request`, what
mm2 answers, and `to_order(trade_result)`; `GetLiveOrders` is
`dex::get_live_orders`, which reads the list up to the first order that lacks a
member. `Forward` is the way of a client's body through a struct
(`process_post_function`), `Process` is `rpc_process_call` over the answers to the
fourteen calls the server reads (`Calls`), `ReadPrice` the answer of a platform.
`Effect`, in the properties, says what mm2 carries out for a body, and `Complete` what a
struct holds that was read whole. It need not be every member: `from_json` reads the least
volume of setprice into the greatest, leaves four members of `order_contents` alone
(`price_as_integer`, `num_utxos`, `ave_volume`, `depth`), and reads of a declined trade the
error only.

### Application

`pc` is where `main` is: the files one by one (`config` to `rewrite`; a file is
opened, and so emptied, before it is written), the construction of the `Members` in the
order they are declared, the threads `run()` starts, serving, and the
destructors in reverse order. `Destroy` waits for the thread of its member
(`Quit`, or `EndWork` for the price fetcher, which looks at its flag after its work).
`Killed` may happen anywhere, `ServerThrows` is the fatal handler; the files, the
mm2 child and what the CEX was told survive, and `Boot` starts the next process. mm2 may
fail to start (`StartDaemon`; the constructor logs it and goes on), find the port taken by
one left behind, or die at any moment (`DaemonDies`); a call then brings nothing (`Seen`).
When the directory of the configuration cannot be made nothing is written, and the process
goes on with the default (`CreateDirectory`).
Of the order manager there is what a restart matters to: `orders`, `known`, the
executions a poll has to do, and the one between `cex_.mirror` and `add_execution`.

`wiring` says whether `run()` calls `order_manager::start()` (it does not) and whether
`get_recent_executions` answers (it does not); all four combinations are initial
states. They trade off. `start()` takes the executions of the live orders
as known: one made while the bot was down is never hedged (`HedgedOnce` holds).
Without it, or with recent executions seen, which may be of orders no longer live,
a restarted bot hedges what the last one already did (`HedgedInTheEnd` holds when recent
executions are seen and `start()` is not called).

## The runs

Bounds are sizes of the constant sets; every other quantity is bounded by them.

| Run | Instance | States | Shows |
|---|---|---|---|
| `om_repaired` | 2 orders, 1 pair, 1 execution, groups of 2; calls may fail; as dex but for `CancelSeen`, `StatusSeen`, `RecentSeen`, `CexImplemented` | 1.04 M | types; `at()` never throws; an indexed id without an order is dead; nothing is mirrored twice; no live order is forgotten; `HedgeLedger` is implemented |
| `om_contract` | 2 orders on 2 pairs, 1 execution; everything seen, `start()` runs, calls may fail | 5.3 M | where poll removes orders too, from under its own iterator and beside `cancel_orders`, a live order is forgotten only through a reference to a freed one; `executions_` holds nothing the CEX missed |
| `om_live` | 2 orders, 1 pair, 1 execution, no failures, fair threads | 0.23 M | executions reach the CEX; an order a race dropped from the index returns to it; the destructor's join returns |
| `om_resurrected` | `CancelSeen`, `StatusSeen` | violation | `CancelledForgotten`: poll stores an order `cancel_orders` removed meanwhile, for ever |
| `sm_quotes` | a strategy and its flipped successor, prices that move, fair | 0.14 M | types; no self-cross; a strategy that stays gets quoted, alone |
| `sm_faulty` | two crosses, failures, one price at the edge of truncation, fair | 0.11 M | quotes stay around the mid; the join returns |
| `sm_flipped` | as `sm_quotes` | violation | `PricedForItsPair`: quotes of the new pair around the mid of the old one |
| `price` | 2 platforms, 2 pairs of which one is translated, prices {1, 4}, 2 retries, failures, fair | 0.24 M | types (tries stay bounded); the mean lies between prices answered; every call ends; the fetcher stops |
| `http` | 2 requests of 16 calls, 3 coins, mm2 may refuse, die, answer nonsense, fair | 28 k | codes are HTTP codes; 200 means carried out, once, or declined with an error in the body; 500 means not at all; the coins are enabled; every request ends |
| `app` | 1 execution, 2 starts, 2 wallets, killed anywhere, mm2 dying anywhere, any wiring, fair | 100 k | types; threads meet live members; nothing is hedged twice, or everything is hedged (see above); an mm2 that runs has the wallet asked for; only a killed process leaves something broken; the default configuration is accepted; the way down ends |
| `wire` | 1 order, 6 prices and 2 quantities of 6 pairs, 14 calls, each message with and without each member | 27 k | what the bot holds of an order is what mm2 has; a price is the nearest to the text of the platform; mm2 is asked what the client asked, or refuses; a 200 is a filled struct, but for what no `from_json` reads; what may end the process; exact prices between coins of equal decimals |
| `wire_misplaced` | as `wire` | violation | `PlacedAtItsPrice`: between coins of different decimals mm2 has the order at a price wrong by powers of ten |

Why the bounds are enough. The two threads of the order manager disturb each other through
one order (both hold it), through two orders of one cross (one set of ids) or
through the absence of a cross (`at` on the pair map): two orders and one or two
crosses have them all. A second execution would only repeat the loop body, which
handles one at a time; the proofs below do not bound it. A round of the sm thread
handles crosses one after the other; two crosses show a replaced map, one cross
and two strategies a replaced strategy. Two platforms are the least with a mean
that could be diluted; the code retries ten times, the model two, and the bound is
only compared. Two requests let one be lost and the next meet the dead mm2. Two starts
are a crash and a restart; a third meets nothing new, as the theorems show. `Wire` treats orders one by
one, and one id can be reused after `Remove`. TLC's integers have 32 bits, so the
decimals are scaled: 3, 4, 1 and 2 stand for 8 (default), 18 (tokens), 2 (fiat) and 6
(`std::to_string`), in the same order but that a price keeps fewer digits, and the
least 20-digit number and 2^128 for numbers no price of the run reaches; prices around
the halves of the last digit (5, 26, 104) meet both roundings.

The three violations are findings: the program does other than what a test, a
comment or the API document says. PROJECT.json quotes both sides.

## Fairness

* `OrderManager`: each thread is weakly fair while no fault ended the process. A
  thread inside a call is never blocked for ever: mutexes are held for straight-line code
  only, and RestClient's calls return or fail. The sm thread need not begin a
  call, the exchange need not do anything.
* `StrategyManager`: a handler that began assigning finishes; the sm thread is
  scheduled. Adding strategies is not fair.
* `PriceService`: the fetcher and a call begun are scheduled, and each request gets
  some answer, which may be a 429 each time.
* `HttpServer`: the server's thread is scheduled and a post to mm2 comes back or
  fails. Clients and the death of mm2 are not fair.
* `Application`: main, the om thread, and the fetcher's and the sm thread's work once
  begun are scheduled, and what they do ends. Nothing is owed by the user, by the exchange, by mm2, or
  by who starts, interrupts and kills the process: `HedgedInTheEnd` asks that an execution be
  hedged while a process and an mm2 run.

`IndexHeals` holds because two writes collide only while an emplace is under way,
and a fair om thread emplaces again at the next poll, when sm's finitely many
placements are over.

## What is proved

The assumptions are the named ASSUMEs on the constants only, which TLC evaluates in
each run; a theorem that needs one implementation or a
faultless exchange says so (`OneRemover`, `DetailSeen = FALSE`, `Faulty = FALSE`).

**OrderManagerProofs.** `TypeCorrect`. `NeverForgetsLive` is not inductive; `BeliefInv` is:
what the manager believes finished is dead on mm2 (in `orders_`, in the order about to be
stored, at the order being removed), and a loop over `orders_` meets only its keys. From it
follows `LiveOrdersKept`, for every implementation of the dex, as the property exempts the
steps that read a freed order. `KnownWasMirrored` needs only who adds to `executions_`.

The others are about one remover. `RemoverInv` adds that the thread that removes finds its
order in `orders_` and its cross in the index, that every id in the index, on its way there or
copied from there is in `orders_` or dead, and that the index lists an id under its own cross.
From it follow `NothingFreedInUse`, so that `LiveOrdersKept` then holds of every step,
`DanglingIndexIsDead` and `AtNeverThrows`. `LedgerRefinement` is the step simulation of
`HedgeLedger`, from `RemoverInv`, `OnlyReal` (what is tracked was issued, what is mirrored
happened) and `ListsItsOwn` (an order lists executions of its own). `Sound`, an invariant of
`HedgeLedger` itself (`PromiseIsSound`), is inherited: `HedgesAreSound`. `MirrorOnce` is what
this leaves when orders carry no detail: nothing is ever unremembered, nor mirrored twice.

**StrategyManagerProofs.** `QuotesOnTheirSide` is the arithmetic: truncating the
factor and the division never moves a quote across the mid. `TypeCorrect`;
`QuotesStayAround` strengthens the property with the group being built and the
price held; `NeverCrossesItself` needs that a group has one mid and that the quotes of the
key's cross are withdrawn before the group is placed, which holds when every
cancel is served.

**PriceServiceProofs.** `MeanStaysBetween`: the sum lies between `count` times the least and
`count` times the greatest price heard in this call, and division keeps that.

`TypeCorrect` adds to `TypeOK` what an answer under way may be.

**HttpServerProofs.** `OkIsCarriedOut` and `ErrorIsRefused`: the invariant follows a
request from waiting (nothing carried out) over the handler (nothing until posted, once if
`expected` came back, nothing when refused or declined) to the answer. `AllAreEnabled`: while
`enable_all_coins` runs and mm2 lives, every coin with servers is enabled or still to be
asked for. `TypeCorrect`.

**ApplicationProofs.** One invariant, for any number of starts, executions and
wallets, with the parts that say how many members there are at each `pc` (`Stage`),
which threads (`Staffed`), whose wallet (`Funded`), what is whole until a process is killed
and whose an mm2 that listens is (`Sound`), and that an execution once mirrored is known, about to be, or, after a
restart with `start()`, taken as known or gone with its order (`Settled`, `Hedged`). From it
`LiveMembersOnly`, `NothingHedgedTwice`, `WalletIsItsOwn`, `EndsOrderly`, `TypeCorrect`.
`DefaultAccepted`: the configuration on disk is none, torn, the user's or the default as
`to_json` wrote it (`WriteConfig`), and `from_json` makes the default of the last
(`DefaultIsRead`); no configuration is taken for a torn one (`ApplicationAssumption`).

**PriceTextProofs.** The powers of ten are a recursive function; that it is what its recursion
says follows from induction over a set of numbers, which the least-number principle of
`WellFoundedInduction` gives without an operator as parameter. `HalfAUnit`: writing a text with
other decimals moves it by no more than half of the last one. `WrittenIsRead`: a price
written with its decimals is read back as itself. `TwiceRounded` bounds a price that goes
through `std::to_string` and is read with another number of decimals.

**WireProofs.** `MeaningSurvives`: for every body of every route, with any members
and values, mm2 carries out for what it is sent what it would for the body itself, or
refuses it; a lemma per route. `AnswersAreWhole`: a struct answered with 200 has exactly the members
that its reads fill (`Filling`, `WholeIsFilled`), and a list that only one read fills has the structs of
the list that was read (`WholeList`); a lemma per call. `QuotesAreNear`: a price
taken from a platform is within half a unit of its text.

**WireOrderProofs.** `BookInv`: an order on mm2's book is that of a level, in the units of
`to_request`. From it `ExactPrice`, between coins of the same decimals. Each of the three
conversions to an order (of a trade, a taker and a maker order) either understands the
order, at its price up to the two roundings, or lacks a member that is read first
(`TradeIsUnderstood`, `TakerIsUnderstood`, `MakerIsUnderstood`); `HeardInv` follows the
manager's orders from there. `HeardOrders`: what the manager holds of an order is what mm2 has;
`WireTypes`; `ProcessSurvives`: the process ends only on a price that no conversion can
keep, or on an answer that lacks its amounts.

The assumptions of these: the decimals of coins are numbers and `None`, `Empty`, `Absent` are
no orders, texts or values (`WireAssumption`, `OrdersAssumption`, `MessagesAssumption`);
and no price reaches 2^128 (`RangeAssumption`), as the conversion to `uint128` wraps there.

Only model-checked: the liveness properties (`EveryExecutionMirrored`, `IndexHeals`,
`ShutdownCompletes`, `LatestQuoted`, `SmStops`, `CallEnds`, `FetcherStops`,
`EveryRequestEnds`, `HedgedInTheEnd`, `ShutdownEnds`), since fairness is out of the prover's
reach. Every other property of a passing run is stated by a theorem.

## What is not modelled, and why

* `orders`: equality of orders, executions and groups, `execute` and
  `create_execution`, which tests and mocks call. `order_group::operator==` reads past
  a shorter vector.
* `dex`, `mm2 client`: `to_execution(s)`, which no call reaches, as
  `rpc_order_status` is a stub; the drain thread of the child process; mm2's password.
* `strategy_manager`: `refresh_orders`, `refresh_all_orders` and `start` are called
  by tests only; a spread above 1, whose conversion to `uint128` is undefined; the JSON
  conversions.
* `http`: `sm::cancel_orders` has no route. `HttpServer` abstracts a body to whether it
  parses; what it says is in `Wire`. `enable_all_coins` does not model an electrum call
  that succeeds on mm2 and whose answer is lost: the second try enables an enabled coin.
* `config`: `set_mmbot_config`, for tests. `utils`: logging and the base of the exceptions.
* Doubles are taken to be exact on the texts read into them (`Wire`), but for the product with
  a spread (`Quoting`).
* mm2, the platforms, restinio, the C++ library: external, modelled as their
  callers in `src/` use them.

Some hazards have no property that would catch them, or none in every wiring; their notes in
PROJECT.json say which. When both threads remove orders, one may erase a live order through a
freed reference, and the `at()` of `cancel_orders` may throw: outcomes of the code that nothing in
the repository forbids, and `om_contract` reaches both. An execution is mirrored twice when orders
carry their executions: the removal of the order forgets that it was (`TakenAlong`).
`add_order_to_pair_map` emplaces after the unlock; `IndexEmplace` models the race and its lost
update, and `IndexHeals` says what becomes of it. A partly filled order cancelled before the next
poll takes its execution along when `get_recent_executions` is a stub, hence the wiring of
`EveryExecutionMirrored`. A 400 for a call that mm2 carried out is why `ErrorMeansRefused` speaks of
500 only. What `cex::mirror` and `get_price` throw ends the process.

## Plan

Done: the order manager and its ledger, quoting, prices, the server, the process with its
restart, the configuration, and the messages; theorems for every safety property. What is
left, in this order:

1. `orders`: equality over bounded groups against a reference definition.
2. `refresh_orders` beside the sm thread, once a route or a thread calls it.
