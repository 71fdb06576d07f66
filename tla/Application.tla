------------------------------ MODULE Application ------------------------------
(***************************************************************************)
(* The process (src/main.cpp, src/app): the files it reads and writes on   *)
(* its way up, the members it constructs, the mm2 daemon it starts, the    *)
(* threads it runs, the way down, and the process that starts after it.    *)
(* It may be killed at any step: the files, mm2 and what the CEX was told  *)
(* survive.                                                                *)
(*                                                                         *)
(* Of the order manager there is what a restart matters to: which orders   *)
(* it knows, which executions, and when it mirrors one.  An order of the   *)
(* bot is named by its execution.                                          *)
(***************************************************************************)
EXTENDS Config, FiniteSets

CONSTANTS
    Swaps,        \* the executions of the bot's orders
    Entries,      \* coins.json
    Electrums,    \* the files of assets/electrums
    UserConfig,   \* the configuration a user installs
    Wallets,      \* the passphrases
    OwnWallet,    \* the one a user installs
    None,
    MaxBoots      \* bound: how often the process is started

ASSUME ApplicationAssumption ==
    /\ OwnWallet \in Wallets
    /\ None \notin Wallets /\ Unreadable \notin Wallets /\ None # Unreadable
    /\ MaxBoots \in Nat
    /\ \A b \in 0 .. MaxBoots, w \in Wallets : [boot |-> b, wallet |-> w] # None
    /\ Unreadable \notin {UserConfig, DefaultConfig, WriteConfig(DefaultConfig)}

\* Mutant: sm is declared before the order manager it uses
SmBeforeOm == <<"price", "mm2", "dex", "cex", "sm", "om", "server">>

\* application's members, in their order
Members == <<"price", "mm2", "dex", "cex", "om", "sm", "server">>
Threads == {"price", "om", "sm"}

\* The members the work of a thread refers to
Uses == [price |-> {"price"},
         om |-> {"om", "dex", "cex", "mm2"},
         sm |-> {"sm", "om", "dex", "mm2", "price"}]

VARIABLES
    pc,       \* where the main thread is; "off": there is no process
    boot,     \* which process it is
    faulted,  \* has a process been killed, or left by exit?
    disk,     \* the files: [dir, config, coins, wallet]
    forced,   \* FORCE_MM2_PASSPHRASE
    daemon,   \* the mm2 that listens: [boot, wallet], or None
    enabled,  \* the coins this process asked mm2 to enable
    made,     \* how many members are constructed and not destroyed
    threads,  \* the threads running
    busy,     \* those in the middle of their work
    orders,   \* om's orders_, executions_, ...
    known,
    todo,     \* ... the executions poll has still to look at, ...
    handing,  \* ... and those mirrored and not yet known, at most one
    swaps,    \* each order: live and not executed, executed, gone
    mirrored, \* how often the CEX was told of each execution
    wiring    \* [callsStart, recentSeen]: see Init

files == <<disk, forced>>
om == <<orders, known, todo, handing>>
market == <<swaps, mirrored, wiring>>
vars == <<pc, boot, faulted, files, daemon, enabled, made, threads, busy, om, market>>

Alive == {Members[i] : i \in 1 .. made}

\* Before the first start a user has installed the bot, or not.  run() does not call
\* order_manager::start() and dex::get_recent_executions is empty; the executions
\* matter once either is wired, and any of the two may be.
Init ==
    /\ pc = "off" /\ boot = 0 /\ faulted = FALSE
    /\ disk \in {[dir |-> FALSE, config |-> None, coins |-> FALSE, wallet |-> None],
                 [dir |-> TRUE, config |-> UserConfig, coins |-> TRUE, wallet |-> OwnWallet]}
    /\ forced = None /\ daemon = None /\ enabled = {} /\ made = 0
    /\ threads = {} /\ busy = {} /\ orders = {} /\ known = {} /\ todo = {} /\ handing = {}
    /\ swaps = [s \in Swaps |-> "live"] /\ mirrored = [s \in Swaps |-> 0]
    /\ wiring \in [callsStart : BOOLEAN, recentSeen : BOOLEAN]

-------------------------------------------------------------------------------
(* main: load_mmbot_config, noexcept: what throws in it ends the process.   *)

At(here, next) == pc = here /\ pc' = next
UpTo == <<boot, faulted, daemon, enabled, made, threads, busy, om, market>>

Boot ==
    /\ At("off", "config")
    /\ boot < MaxBoots
    /\ boot' = boot + 1
    /\ forced' \in Wallets \cup {None}
    /\ UNCHANGED <<faulted, disk, daemon, enabled, made, threads, busy, om, market>>

\* load_configuration: a directory that is there has the file, or reading it throws
LoadConfig ==
    /\ At("config", IF disk.config \in {None, Unreadable} \/ ReadConfig(disk.config) = Unreadable
                    THEN "off" ELSE "coins")
    /\ disk.dir
    /\ UNCHANGED <<files, UpTo>>

\* create_configuration: the directory, the file opened, the default written to it.
\* Without a directory the default is run on and not written.
CreateDirectory ==
    /\ ~disk.dir
    /\ \/ At("config", "open") /\ disk' = [disk EXCEPT !.dir = TRUE]
       \/ At("config", "coins") /\ UNCHANGED disk
    /\ UNCHANGED <<forced, UpTo>>

OpenConfig ==
    /\ At("open", "default")
    /\ disk' = [disk EXCEPT !.config = Unreadable]
    /\ UNCHANGED <<forced, UpTo>>

WriteDefault ==
    /\ At("default", "coins")
    /\ disk' = [disk EXCEPT !.config = WriteConfig(DefaultConfig)]
    /\ UNCHANGED <<forced, UpTo>>

FillCoins ==
    /\ At("coins", IF disk.coins THEN "wallet" ELSE "off")
    /\ UNCHANGED <<files, UpTo>>

ReadWallet ==
    /\ At("wallet", IF disk.wallet \in {None, Unreadable} THEN "off"
                    ELSE IF forced = None THEN "construct" ELSE "truncate")
    /\ UNCHANGED <<files, UpTo>>

Truncate ==
    /\ At("truncate", "rewrite")
    /\ disk' = [disk EXCEPT !.wallet = Unreadable]
    /\ UNCHANGED <<forced, UpTo>>

\* Mutant: the json data that was read is written back as it was
RewriteUnchanged ==
    /\ At("rewrite", "construct")
    /\ disk' = [disk EXCEPT !.wallet = OwnWallet]
    /\ UNCHANGED <<forced, UpTo>>

Rewrite ==
    /\ At("rewrite", "construct")
    /\ disk' = [disk EXCEPT !.wallet = forced]
    /\ UNCHANGED <<forced, UpTo>>

-------------------------------------------------------------------------------
(* application: construction, run().                                        *)

Construct ==
    /\ At("construct", IF made + 1 = Len(Members) THEN "threads" ELSE "construct")
    /\ Members[made + 1] # "mm2"
    /\ made' = made + 1
    /\ UNCHANGED <<boot, faulted, files, daemon, enabled, threads, busy, om, market>>

\* mm2_client's constructor: a start that fails, or an mm2 that exits at once, is
\* logged and no more.  An mm2 that listens already keeps its port and the one started
\* exits.
StartDaemon ==
    /\ At("construct", "electrum")
    /\ Members[made + 1] = "mm2"
    /\ IF daemon = None THEN daemon' \in {None, [boot |-> boot, wallet |-> disk.wallet]}
                        ELSE UNCHANGED daemon
    /\ UNCHANGED <<boot, faulted, files, enabled, made, threads, busy, om, market>>

\* enable_tests_coins
EnableTestsCoins ==
    /\ At("electrum", "construct")
    /\ enabled' = LET infos == CoinInfos(Entries, Electrums)
                  IN  {coin \in DOMAIN infos \cap {"RICK", "MORTY"} :
                          infos[coin].is_electrum_compatible}
    /\ made' = made + 1
    /\ UNCHANGED <<boot, faulted, files, daemon, threads, busy, om, market>>

EnablePriceThread ==
    /\ At("threads", IF wiring.callsStart THEN "start" ELSE "om")
    /\ threads' = threads \cup {"price"}
    /\ UNCHANGED <<boot, faulted, files, daemon, enabled, made, busy, om, market>>

Executed == {s \in Swaps : swaps[s] \in {"executed", "gone"}}
OnBook == {s \in Swaps : swaps[s] # "gone"}

\* Without an mm2 a call to it brings nothing
Seen(s) == IF daemon = None THEN {} ELSE s

\* Mutant: start() adds the orders and not their executions
StartOrders ==
    /\ At("start", "om")
    /\ orders' = Seen(OnBook)
    /\ UNCHANGED <<boot, faulted, files, daemon, enabled, made, threads, busy, known, todo,
                   handing, market>>

\* order_manager::start(): the live orders, and their executions as known
Start ==
    /\ At("start", "om")
    /\ orders' = Seen(OnBook)
    /\ known' = Seen(Executed \cap OnBook)
    /\ UNCHANGED <<boot, faulted, files, daemon, enabled, made, threads, busy, todo, handing,
                   market>>

EnableOmThread ==
    /\ At("om", "sm")
    /\ threads' = threads \cup {"om"}
    /\ UNCHANGED <<boot, faulted, files, daemon, enabled, made, busy, om, market>>

EnableSmThread ==
    /\ At("sm", "serve")
    /\ threads' = threads \cup {"sm"}
    /\ UNCHANGED <<boot, faulted, files, daemon, enabled, made, busy, om, market>>

\* SIGINT: the server returns
ServerReturns ==
    /\ At("serve", "closing")
    /\ UNCHANGED <<files, UpTo>>

\* The way down, last member first; a member with a thread tells it to stop and joins
\* it.  mm2_client's destructor stops the child it started.
Last == Members[made]
Told(t) == pc = "closing" /\ Last = t
Closed == At("closing", IF made = 1 THEN "off" ELSE "closing")

\* Mutant: no join
DestroyAtOnce ==
    /\ Closed
    /\ Last # "mm2"
    /\ threads' = threads \ {Last}
    /\ made' = made - 1
    /\ UNCHANGED <<boot, faulted, files, daemon, enabled, busy, om, market>>

Destroy ==
    /\ Closed
    /\ Last # "mm2"
    /\ Last \notin threads
    /\ made' = made - 1
    /\ IF Last = "om" THEN orders' = {} /\ known' = {} /\ UNCHANGED <<todo, handing>>
                      ELSE UNCHANGED om
    /\ UNCHANGED <<boot, faulted, files, daemon, enabled, threads, busy, market>>

\* Mutant: the child is left alone
LeaveDaemon ==
    /\ Closed
    /\ Last = "mm2"
    /\ made' = made - 1
    /\ UNCHANGED <<boot, faulted, files, daemon, enabled, threads, busy, om, market>>

DestroyMm2 ==
    /\ Closed
    /\ Last = "mm2"
    /\ daemon' = IF daemon # None /\ daemon.boot = boot THEN None ELSE daemon
    /\ enabled' = {}
    /\ made' = made - 1
    /\ UNCHANGED <<boot, faulted, files, threads, busy, om, market>>

\* The process is gone and nothing was destroyed; its child may live on
Vanish ==
    /\ pc' = "off"
    /\ faulted' = TRUE
    /\ daemon' \in {daemon, None}
    /\ enabled' = {}
    /\ made' = 0 /\ threads' = {} /\ busy' = {}
    /\ orders' = {} /\ known' = {} /\ todo' = {} /\ handing' = {}
    /\ UNCHANGED <<boot, files, market>>

\* The server throws: the fatal handler exits
ServerThrows == pc = "serve" /\ Vanish

Killed == pc # "off" /\ Vanish

-------------------------------------------------------------------------------
(* The threads, the exchange, and the user.                                 *)

Process == <<pc, boot, faulted, files, daemon, enabled, made, wiring>>
Around == <<Process, threads>>

\* The price fetcher looks at its flag after its work, the other two before it: told
\* to stop in its sleep it fetches once more
BeginWork(t) ==
    /\ t \in threads \ busy
    /\ t = "price" \/ ~Told(t)
    /\ busy' = busy \cup {t}
    /\ UNCHANGED <<Around, om, swaps, mirrored>>

\* Mutant: the fetcher's loop does not look at its flag
EndWorkOnly(t) ==
    /\ t \in busy
    /\ busy' = busy \ {t}
    /\ UNCHANGED <<Around, om, swaps, mirrored>>

EndWork(t) ==
    /\ t \in busy
    /\ busy' = busy \ {t}
    /\ threads' = IF t = "price" /\ Told(t) THEN threads \ {t} ELSE threads
    /\ UNCHANGED <<Process, om, swaps, mirrored>>

Quit(t) ==
    /\ t \in threads \ busy
    /\ t # "price" /\ Told(t)
    /\ threads' = threads \ {t}
    /\ UNCHANGED <<Process, busy, om, swaps, mirrored>>

\* Mutant: the executions of the orders it knows only
BlindPoll ==
    /\ "om" \in threads \ busy
    /\ ~Told("om")
    /\ busy' = busy \cup {"om"}
    /\ orders' = orders \cup Seen(OnBook)
    /\ todo' = Seen(Executed \cap orders') \ known
    /\ UNCHANGED <<Around, known, handing, swaps, mirrored>>

\* poll: the live orders, the executions it can see, and those it does not know
BeginPoll ==
    /\ "om" \in threads \ busy
    /\ ~Told("om")
    /\ busy' = busy \cup {"om"}
    /\ orders' = orders \cup Seen(OnBook)
    /\ todo' = Seen(IF wiring.recentSeen THEN Executed ELSE Executed \cap orders') \ known
    /\ UNCHANGED <<Around, known, handing, swaps, mirrored>>

Mirror(s) ==
    /\ s \in todo /\ handing = {}
    /\ mirrored' = [mirrored EXCEPT ![s] = @ + 1]
    /\ handing' = {s}
    /\ UNCHANGED <<Around, busy, orders, known, todo, swaps>>

AddExecution ==
    /\ handing # {}
    /\ known' = known \cup handing
    /\ todo' = todo \ handing
    /\ handing' = {}
    /\ UNCHANGED <<Around, busy, orders, swaps, mirrored>>

EndPoll ==
    /\ "om" \in busy
    /\ todo = {} /\ handing = {}
    /\ busy' = busy \ {"om"}
    /\ UNCHANGED <<Around, om, swaps, mirrored>>

Execute(s) ==
    /\ swaps[s] = "live"
    /\ swaps' = [swaps EXCEPT ![s] = "executed"]
    /\ UNCHANGED <<Around, busy, om, mirrored>>

Leave(s) ==
    /\ swaps[s] = "executed"
    /\ swaps' = [swaps EXCEPT ![s] = "gone"]
    /\ UNCHANGED <<Around, busy, om, mirrored>>

\* mm2 may exit at any moment; nothing starts it again before the next process does
DaemonDies ==
    /\ daemon # None
    /\ daemon' = None
    /\ UNCHANGED <<pc, boot, faulted, files, enabled, made, threads, busy, om, market>>

\* A user installs, or repairs, the files and stops an mm2 that was left
Install ==
    /\ pc = "off"
    /\ disk' = [dir |-> TRUE, coins |-> TRUE, wallet |-> OwnWallet,
                config |-> IF disk.config \in {None, Unreadable} THEN UserConfig ELSE disk.config]
    /\ daemon' = None
    /\ UNCHANGED <<pc, boot, faulted, forced, enabled, made, threads, busy, om, market>>

-------------------------------------------------------------------------------
Main ==
    \/ LoadConfig \/ CreateDirectory \/ OpenConfig \/ WriteDefault
    \/ FillCoins \/ ReadWallet \/ Truncate \/ Rewrite
    \/ Construct \/ StartDaemon \/ EnableTestsCoins
    \/ EnablePriceThread \/ Start \/ EnableOmThread \/ EnableSmThread
    \/ Destroy \/ DestroyMm2

OmThread == BeginPoll \/ (\E s \in Swaps : Mirror(s)) \/ AddExecution \/ EndPoll \/ Quit("om")

Next ==
    \/ Boot \/ Main \/ ServerReturns \/ ServerThrows \/ Killed
    \/ OmThread
    \/ \E t \in {"price", "sm"} : BeginWork(t) \/ EndWork(t)
    \/ Quit("sm")
    \/ \E s \in Swaps : Execute(s) \/ Leave(s)
    \/ DaemonDies \/ Install

Spec == Init /\ [][Next]_vars

\* The threads are scheduled, and their work ends.
\* Nothing is owed by the user, the exchange, mm2, or who starts and kills the process.
FairSpec ==
    /\ Spec
    /\ WF_vars(Main)
    /\ WF_vars(OmThread)
    /\ WF_vars(BeginWork("price")) /\ WF_vars(EndWork("price"))
    /\ WF_vars(EndWork("sm")) /\ WF_vars(Quit("sm"))

-------------------------------------------------------------------------------
(* Properties.                                                              *)

\* Every variable holds a value of its type; in particular no thread is at work that
\* was not started, or is still when its owner joined it.
TypeOK ==
    /\ pc \in {"off", "config", "open", "default", "coins", "wallet", "truncate", "rewrite",
               "construct", "electrum", "threads", "start", "om", "sm", "serve", "closing"}
    /\ boot \in 0 .. MaxBoots /\ faulted \in BOOLEAN
    /\ disk.dir \in BOOLEAN /\ disk.coins \in BOOLEAN
    /\ disk.wallet \in Wallets \cup {None, Unreadable}
    /\ forced \in Wallets \cup {None}
    /\ daemon # None => daemon.boot \in 1 .. MaxBoots /\ daemon.wallet \in Wallets
    /\ made \in 0 .. Len(Members)
    /\ enabled \subseteq {"RICK", "MORTY"}
    /\ busy \subseteq threads /\ threads \subseteq Threads
    /\ orders \subseteq Swaps /\ known \subseteq Swaps
    /\ todo \subseteq Swaps /\ handing \subseteq todo
    /\ swaps \in [Swaps -> {"live", "executed", "gone"}] /\ mirrored \in [Swaps -> Nat]
    /\ wiring \in [callsStart : BOOLEAN, recentSeen : BOOLEAN]

\* A thread at work finds every member it refers to constructed and not destroyed,
\* on the way up and on the way down: the members are declared in an order in which
\* each is destroyed, and its thread joined, before those its thread uses.
UsesLiveMembers == \A t \in busy : Uses[t] \subseteq Alive

\* When run() calls start() and recent executions stay unseen, an execution reaches
\* the CEX at most once, however often the process is killed and started again,
\* between cex_.mirror and add_execution too.
HedgedOnce ==
    wiring.callsStart /\ ~wiring.recentSeen => \A s \in Swaps : mirrored[s] <= 1

\* Unless a process was killed and left its mm2 behind, an mm2 that listens while a
\* process serves is the one this process started, and runs the wallet of MM2.json,
\* which is the one FORCE_MM2_PASSPHRASE asks for if it asks for one.  None may listen:
\* the process serves without an mm2 that did not start or has exited.
RunsItsWallet ==
    pc = "serve" /\ ~faulted =>
        /\ daemon # None => daemon.boot = boot /\ daemon.wallet = disk.wallet
        /\ forced # None => disk.wallet = forced

\* Only a process that was killed leaves a file torn or an mm2 behind.
OrderlyEnd ==
    pc = "off" /\ ~faulted =>
        daemon = None /\ disk.wallet # Unreadable /\ disk.config # Unreadable

\* The configuration a process writes because there was none is one the next process
\* reads, and reads as what this one ran on.
DefaultIsAccepted ==
    disk.config \notin {None, Unreadable, UserConfig} =>
        /\ ReadConfig(disk.config) # Unreadable
        /\ SameConfig(ReadConfig(disk.config), DefaultConfig)

\* When recent executions are seen and start() is not called, every execution reaches
\* the CEX while a process and an mm2 run, those the process before missed included.
HedgedInTheEnd ==
    \A s \in Swaps :
        s \in Executed /\ wiring.recentSeen /\ ~wiring.callsStart
            ~> mirrored[s] > 0 \/ pc \in {"off", "closing"} \/ daemon = None

\* Once the server returned the process ends, although each of its threads may be at
\* work and the others go on while it is joined.
ShutdownEnds == pc = "closing" ~> pc = "off"
===============================================================================
