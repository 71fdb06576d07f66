-------------------------- MODULE ApplicationProofs --------------------------
(***************************************************************************)
(* What Application guarantees for any number of starts, executions and    *)
(* wallets: its threads meet live members only, a process that serves runs *)
(* its own wallet, only a killed one leaves something broken behind, and   *)
(* no execution is hedged twice once start() is called.                    *)
(***************************************************************************)
EXTENDS Application, TLAPS

-------------------------------------------------------------------------------
(* The inductive invariant.                                                 *)

Early == {"config", "open", "default", "coins", "wallet", "truncate", "rewrite"}
Running == {"threads", "start", "om", "sm", "serve"}

\* The types of the variables that TypeOK describes, the files as a record
Types ==
    /\ TypeOK
    /\ disk = [dir |-> disk.dir, config |-> disk.config, coins |-> disk.coins,
               wallet |-> disk.wallet]

\* How many members there are where
Stage ==
    /\ pc \in Early \cup {"off"} => made = 0
    /\ pc = "construct" => made <= 6
    /\ pc = "electrum" => made = 1
    /\ pc \in Running => made = 7
    /\ pc = "closing" => 1 <= made
    /\ pc # "off" => boot \in 1 .. MaxBoots

\* Which threads there are where
Staffed ==
    /\ pc \in Early \cup {"off", "construct", "electrum", "threads"} => threads = {}
    /\ pc \in {"start", "om"} => "om" \notin threads
    /\ "price" \in threads => 1 <= made
    /\ "om" \in threads => 5 <= made
    /\ "sm" \in threads => 6 <= made

\* Where the wallet is the one this process is to run
Funded ==
    /\ pc \in {"truncate", "rewrite"} => forced \in Wallets
    /\ pc \in {"construct", "electrum", "closing"} \cup Running =>
          disk.wallet \in Wallets /\ (forced # None => disk.wallet = forced)

\* Where an mm2 of this process may run
Mm2Up == pc \in {"electrum"} \cup Running \/ (pc \in {"construct", "closing"} /\ 2 <= made)

\* What is so until a process is killed
Sound ==
    ~faulted =>
        /\ disk.config = Unreadable => pc = "default"
        /\ disk.wallet = Unreadable => pc = "rewrite"
        /\ Mm2Up /\ daemon # None => daemon.boot = boot /\ daemon.wallet = disk.wallet
        /\ ~Mm2Up => daemon = None

\* What poll still has to do, the om thread has, and it was executed; the manager
\* knows nothing before start() and after its end
Settled ==
    /\ "om" \notin busy => todo = {} /\ handing = {}
    /\ \A s \in todo : swaps[s] # "live"
    /\ \/ pc \in Early \cup {"off", "construct", "electrum", "threads", "start"}
       \/ pc = "closing" /\ made <= 4
       => orders = {} /\ known = {} /\ todo = {} /\ handing = {}

\* An execution that was mirrored is not looked at again
Hedged ==
    wiring.callsStart /\ ~wiring.recentSeen =>
        /\ \A s \in Swaps : mirrored[s] \in {0, 1}
        /\ \A s \in Swaps : mirrored[s] = 1 => swaps[s] # "live"
        /\ \A s \in todo \ handing : mirrored[s] = 0
        /\ \A s \in Swaps :
              (pc = "om" \/ "om" \in threads) /\ mirrored[s] = 1
                /\ s \in orders \cup Seen(OnBook)
                  => s \in known \cup handing

IInv == Types /\ Stage /\ Staffed /\ Funded /\ Sound /\ Settled /\ Hedged

-------------------------------------------------------------------------------
(* Members.                                                                 *)

LEMMA MembersAre ==
    /\ Len(Members) = 7
    /\ Members[1] = "price" /\ Members[2] = "mm2" /\ Members[3] = "dex"
    /\ Members[4] = "cex" /\ Members[5] = "om" /\ Members[6] = "sm"
    /\ Members[7] = "server"
  BY DEF Members

-------------------------------------------------------------------------------
(* The invariant holds.                                                     *)

LEMMA InitInv == Init => IInv
<1> SUFFICES ASSUME Init PROVE IInv
  OBVIOUS
<1>1. /\ disk = [dir |-> disk.dir, config |-> disk.config, coins |-> disk.coins,
                wallet |-> disk.wallet]
      /\ disk.dir \in BOOLEAN /\ disk.coins \in BOOLEAN
      /\ disk.wallet \in Wallets \cup {None, Unreadable}
      /\ disk.config # Unreadable /\ disk.wallet # Unreadable
  <2>1. CASE disk = [dir |-> FALSE, config |-> None, coins |-> FALSE, wallet |-> None]
    BY <2>1, ApplicationAssumption
  <2>2. CASE disk = [dir |-> TRUE, config |-> UserConfig, coins |-> TRUE,
                     wallet |-> OwnWallet]
    BY <2>2, ApplicationAssumption
  <2>3. QED
    BY <2>1, <2>2 DEF Init
<1>2. mirrored \in [Swaps -> Nat] /\ swaps \in [Swaps -> {"live", "executed", "gone"}]
      /\ wiring \in [callsStart : BOOLEAN, recentSeen : BOOLEAN]
  BY DEF Init
<1>3. pc = "off" /\ boot \in 0 .. MaxBoots /\ made \in 0 .. Len(Members)
  BY MembersAre, ApplicationAssumption DEF Init
<1>4. Types
  BY <1>1, <1>2, <1>3 DEF Init, Types, TypeOK
<1>5. Stage /\ Staffed /\ Funded /\ Settled
  BY DEF Init, Stage, Staffed, Funded, Settled, Early, Running
<1>6. Sound
  BY ApplicationAssumption DEF Init, Sound, Mm2Up, Running
<1>7. Hedged
  BY DEF Init, Hedged
<1>8. QED
  BY <1>4, <1>5, <1>6, <1>7 DEF IInv

\* One step per action; the parts of the invariant are proved together where the
\* action disturbs them in one way.
LEMMA NextInv == IInv /\ [Next]_vars => IInv'
<1> SUFFICES ASSUME IInv, [Next]_vars PROVE IInv'
  OBVIOUS
<1> USE MembersAre, ApplicationAssumption DEF IInv, Types, TypeOK, Stage, Staffed, Funded,
        Sound, Mm2Up, Settled, Hedged, Early, Running, At, Threads, files, om,
        market, vars
<1>1. CASE Boot
  BY <1>1 DEF Boot, OnBook, Seen
<1>2. CASE LoadConfig
  BY <1>2 DEF LoadConfig, UpTo, OnBook, Seen
<1>3. CASE CreateDirectory
  BY <1>3 DEF CreateDirectory, UpTo, OnBook, Seen
<1>4. CASE OpenConfig
  BY <1>4 DEF OpenConfig, UpTo, OnBook, Seen
<1>5. CASE WriteDefault
  BY <1>5 DEF WriteDefault, UpTo, OnBook, Seen
<1>6. CASE FillCoins
  BY <1>6 DEF FillCoins, UpTo, OnBook, Seen
<1>7. CASE ReadWallet
  BY <1>7 DEF ReadWallet, UpTo, OnBook, Seen
<1>8. CASE Truncate
  BY <1>8 DEF Truncate, UpTo, OnBook, Seen
<1>9. CASE Rewrite
  BY <1>9 DEF Rewrite, UpTo, OnBook, Seen
<1>10. CASE Construct
  BY <1>10 DEF Construct, OnBook, Seen
<1>11. CASE StartDaemon
  <2>1. made = 1 /\ made' = 1 /\ pc = "construct" /\ pc' = "electrum"
    BY <1>11 DEF StartDaemon
  <2>2. disk.wallet \in Wallets /\ boot \in 1 .. MaxBoots
    BY <2>1
  <2>3. ~faulted => daemon = None
    BY <2>1
  <2>4. \/ daemon = None /\ daemon' \in {None, [boot |-> boot, wallet |-> disk.wallet]}
        \/ daemon # None /\ daemon' = daemon
    BY <1>11 DEF StartDaemon
  <2>5. daemon' # None => daemon'.boot \in 1 .. MaxBoots /\ daemon'.wallet \in Wallets
    BY <2>2, <2>4
  <2>6. ~faulted /\ daemon' # None => daemon'.boot = boot /\ daemon'.wallet = disk.wallet
    BY <2>2, <2>3, <2>4
  <2>7. UNCHANGED <<boot, faulted, files, enabled, made, threads, busy, om, market>>
    BY <1>11 DEF StartDaemon
  <2>8. Types' /\ Stage' /\ Staffed' /\ Funded'
    BY <2>1, <2>2, <2>5, <2>7
  <2>9. Sound'
    BY <2>1, <2>6, <2>7
  <2>10. Settled' /\ Hedged'
    BY <2>1, <2>7 DEF OnBook, Seen
  <2>11. QED
    BY <2>8, <2>9, <2>10
<1>12. CASE EnableTestsCoins
  BY <1>12 DEF EnableTestsCoins, OnBook, Seen
<1>13. CASE EnablePriceThread
  BY <1>13 DEF EnablePriceThread, OnBook, Seen
<1>14. CASE Start
  BY <1>14 DEF Start, OnBook, Seen, Executed
<1>15. CASE EnableOmThread
  BY <1>15 DEF EnableOmThread, OnBook, Seen
<1>16. CASE EnableSmThread
  BY <1>16 DEF EnableSmThread, OnBook, Seen
<1>17. CASE Destroy
  <2>1. pc = "closing" /\ made \in 1 .. 7 /\ made' = made - 1 /\ made # 2
    BY <1>17 DEF Destroy, Closed, Last
  <2>2. pc' = IF made = 1 THEN "off" ELSE "closing"
    BY <1>17 DEF Destroy, Closed
  <2>3. (made = 5 => "om" \notin threads) /\ (made = 6 => "sm" \notin threads)
        /\ (made = 1 => "price" \notin threads)
    BY <1>17 DEF Destroy, Last
  <2>4. (made = 5) = (Last = "om")
    BY <2>1 DEF Last
  <2>5. Types' /\ Stage' /\ Funded'
    BY <1>17, <2>1, <2>2, <2>4 DEF Destroy
  <2>6. Staffed'
    BY <1>17, <2>1, <2>2, <2>3 DEF Destroy
  <2>7. Sound'
    BY <1>17, <2>1, <2>2 DEF Destroy
  <2>8. Settled'
    BY <1>17, <2>1, <2>2, <2>3, <2>4 DEF Destroy
  <2>9. Hedged'
    <3>1. CASE made = 5
      BY <1>17, <2>1, <2>2, <2>3, <2>4, <3>1 DEF Destroy, OnBook, Seen
    <3>2. CASE made # 5
      BY <1>17, <2>1, <2>2, <2>4, <3>2 DEF Destroy, OnBook, Seen
    <3>3. QED
      BY <3>1, <3>2
  <2>10. QED
    BY <2>5, <2>6, <2>7, <2>8, <2>9
<1>18. CASE DestroyMm2
  BY <1>18 DEF DestroyMm2, Closed, Last, OnBook, Seen
<1>19. CASE ServerReturns
  BY <1>19 DEF ServerReturns, UpTo, OnBook, Seen
<1>20. CASE ServerThrows
  BY <1>20 DEF ServerThrows, Vanish, OnBook, Seen
<1>21. CASE Killed
  BY <1>21 DEF Killed, Vanish, OnBook, Seen
<1>22. CASE BeginPoll
  BY <1>22 DEF BeginPoll, Around, Process, OnBook, Seen, Executed, Told, Last
<1>23. CASE AddExecution
  BY <1>23 DEF AddExecution, Around, Process, OnBook, Seen
<1>24. CASE EndPoll
  BY <1>24 DEF EndPoll, Around, Process, OnBook, Seen
<1>25. CASE Install
  BY <1>25 DEF Install, OnBook, Seen
<1>26. ASSUME NEW s \in Swaps, Mirror(s) PROVE IInv'
  <2>1. /\ handing = {} /\ "om" \in busy /\ s \in todo /\ handing' = {s}
        /\ mirrored' = [mirrored EXCEPT ![s] = @ + 1]
        /\ UNCHANGED <<Around, busy, orders, known, todo, swaps>>
    BY <1>26 DEF Mirror
  <2>2. Types'
    BY <2>1 DEF Around, Process
  <2>3. Stage' /\ Staffed' /\ Funded' /\ Sound' /\ Settled'
    BY <2>1 DEF Around, Process
  <2>4. \A x \in Swaps : mirrored'[x] = IF x = s THEN mirrored[s] + 1 ELSE mirrored[x]
    BY <2>1
  <2>5. wiring.callsStart /\ ~wiring.recentSeen => mirrored[s] = 0
    BY <2>1
  <2>6. Hedged'
    BY <2>1, <2>4, <2>5 DEF Around, Process, OnBook, Seen
  <2>7. QED
    BY <2>2, <2>3, <2>6
<1>27. ASSUME NEW s \in Swaps, Execute(s) PROVE IInv'
  BY <1>27 DEF Execute, Around, Process, OnBook, Seen
<1>28. ASSUME NEW s \in Swaps, Leave(s) PROVE IInv'
  BY <1>28 DEF Leave, Around, Process, OnBook, Seen
<1>29. ASSUME NEW t \in {"price", "sm"}, BeginWork(t) PROVE IInv'
  BY <1>29 DEF BeginWork, Around, Process, OnBook, Seen
<1>30. ASSUME NEW t \in {"price", "sm"}, EndWork(t) PROVE IInv'
  BY <1>30 DEF EndWork, Process, OnBook, Seen
<1>31. ASSUME NEW t \in {"om", "sm"}, Quit(t) PROVE IInv'
  BY <1>31 DEF Quit, Process, OnBook, Seen
<1>32. CASE UNCHANGED vars
  BY <1>32 DEF OnBook, Seen
<1>33. CASE DaemonDies
  <2>1. /\ daemon' = None
        /\ UNCHANGED <<pc, boot, faulted, files, enabled, made, threads, busy, om, market>>
    BY <1>33 DEF DaemonDies
  <2>2. Types' /\ Stage' /\ Staffed' /\ Funded' /\ Sound' /\ Settled'
    BY <2>1
  <2>3. Hedged'
    BY <2>1 DEF OnBook, Seen
  <2>4. QED
    BY <2>2, <2>3
<1>34. QED
  BY <1>1, <1>2, <1>3, <1>4, <1>5, <1>6, <1>7, <1>8, <1>9, <1>10, <1>11, <1>12, <1>13, <1>14, <1>15, <1>16, <1>17, <1>18, <1>19, <1>20, <1>21, <1>22, <1>23, <1>24, <1>25, <1>26, <1>27, <1>28, <1>29, <1>30, <1>31, <1>32, <1>33
  DEF Next, Main, OmThread

LEMMA Invariant == Spec => []IInv
<1>1. QED
  BY InitInv, NextInv, PTL DEF Spec

-------------------------------------------------------------------------------
(* Theorems.                                                                *)

\* Every variable keeps its type, however often the process is killed.
THEOREM TypeCorrect == Spec => []TypeOK
<1>1. IInv => TypeOK
  BY DEF IInv, Types
<1>2. QED
  BY <1>1, Invariant, PTL

\* The price, om and sm threads only work while every member they refer to is
\* constructed and not destroyed: the order of application's members, and the join
\* in the destructor of each that has a thread.
THEOREM LiveMembersOnly == Spec => []UsesLiveMembers
<1>1. IInv => UsesLiveMembers
  <2> SUFFICES ASSUME IInv, NEW t \in busy PROVE Uses[t] \subseteq Alive
    BY DEF UsesLiveMembers
  <2>1. made \in 0 .. 7 /\ t \in threads /\ t \in Threads
    BY MembersAre DEF IInv, Types, TypeOK
  <2>2. CASE t = "price"
    <3>1. 1 <= made
      BY <2>1, <2>2 DEF IInv, Staffed
    <3>2. QED
      BY <2>1, <2>2, <3>1, MembersAre DEF Uses, Alive
  <2>3. CASE t = "om"
    <3>1. 5 <= made
      BY <2>1, <2>3 DEF IInv, Staffed
    <3>2. QED
      BY <2>1, <2>3, <3>1, MembersAre DEF Uses, Alive
  <2>4. CASE t = "sm"
    <3>1. 6 <= made
      BY <2>1, <2>4 DEF IInv, Staffed
    <3>2. QED
      BY <2>1, <2>4, <3>1, MembersAre DEF Uses, Alive
  <2>5. QED
    BY <2>1, <2>2, <2>3, <2>4 DEF Threads
<1>2. QED
  BY <1>1, Invariant, PTL

\* With order_manager::start() called and recent executions unseen, the CEX is told
\* of no execution twice, over any number of processes killed anywhere.
THEOREM NothingHedgedTwice == Spec => []HedgedOnce
<1>1. IInv => HedgedOnce
  BY DEF IInv, Hedged, HedgedOnce
<1>2. QED
  BY <1>1, Invariant, PTL

\* Unless a process was killed, a process that serves serves on no other mm2 than its
\* own, which runs the wallet of MM2.json, the forced one if one is forced; it may be
\* left without one (mm2_client's constructor, FORCE_MM2_PASSPHRASE).
THEOREM WalletIsItsOwn == Spec => []RunsItsWallet
<1>1. IInv => RunsItsWallet
  BY DEF IInv, Funded, Sound, Mm2Up, Running, RunsItsWallet
<1>2. QED
  BY <1>1, Invariant, PTL

\* Unless a process was killed, none leaves a torn file or an mm2 behind.
THEOREM EndsOrderly == Spec => []OrderlyEnd
<1>1. IInv => OrderlyEnd
  BY DEF IInv, Sound, Mm2Up, Running, OrderlyEnd
<1>2. QED
  BY <1>1, Invariant, PTL

-------------------------------------------------------------------------------
(* The configuration written by default.                                    *)

\* What from_json reads of what to_json writes of a default configuration is a default
\* configuration, although the registries go under other names: they are empty.
LEMMA DefaultIsRead ==
    /\ ReadConfig(WriteConfig(DefaultConfig)) # Unreadable
    /\ SameConfig(ReadConfig(WriteConfig(DefaultConfig)), DefaultConfig)
<1> DEFINE j == WriteConfig(DefaultConfig)
           empty == [name \in {} |-> name]
<1>1. <<>> = empty /\ DOMAIN empty = {}
  OBVIOUS
<1>2. /\ DOMAIN j = {"cex_infos_registry", "price_infos_registry", "http_port"}
      /\ j["cex_infos_registry"] = <<>> /\ j["price_infos_registry"] = <<>>
      /\ j["http_port"] = 0
  <2>1. Merged(<<>>, <<>>) = empty
    BY <1>1 DEF Merged
  <2>2. j = Merged([cex_infos_registry |-> <<>>, price_infos_registry |-> <<>>,
                    http_port |-> 0], Merged(<<>>, <<>>))
    BY DEF WriteConfig, DefaultConfig
  <2> QED
    BY <1>1, <2>1, <2>2 DEF Merged
<1> HIDE DEF j
<1>3. /\ ReadAll(<<>>, ReadCex) = <<>> /\ ReadAll(<<>>, ReadPlatform) = <<>>
      /\ AllRead(<<>>)
  BY <1>1 DEF ReadAll, AllRead, Range
<1>4. ReadConfig(j) = DefaultConfig
  BY <1>2, <1>3 DEF ReadConfig, DefaultConfig
<1>5. SameConfig(DefaultConfig, DefaultConfig)
  BY <1>1 DEF SameConfig, SameRegistry, DefaultConfig
<1> QED
  BY <1>4, <1>5, ApplicationAssumption DEF j

\* The configuration a process writes because there was none is read by the next
\* process, however often one is killed in between (create_configuration,
\* load_configuration, the to_json and from_json of mmbot::config).
THEOREM DefaultAccepted == Spec => []DefaultIsAccepted
<1> DEFINE Configs == {None, Unreadable, UserConfig, WriteConfig(DefaultConfig)}
           CInv == IInv /\ disk.config \in Configs
<1>1. Init => CInv
  <2>1. Init => disk.config \in Configs
    BY DEF Init
  <2> QED
    BY <2>1, InitInv
<1>2. CInv /\ [Next]_vars => CInv'
  <2> SUFFICES ASSUME CInv, [Next]_vars PROVE disk'.config \in Configs
    BY NextInv
  <2>1. disk = [dir |-> disk.dir, config |-> disk.config, coins |-> disk.coins,
                wallet |-> disk.wallet]
    BY DEF IInv, Types
  <2> HIDE DEF Configs
  <2>2. {None, Unreadable, UserConfig, WriteConfig(DefaultConfig)} \subseteq Configs
    BY DEF Configs
  <2>3. CASE \/ CreateDirectory \/ OpenConfig \/ WriteDefault \/ Truncate \/ Rewrite
             \/ Install
    BY <2>1, <2>2, <2>3 DEF CreateDirectory, OpenConfig, WriteDefault, Truncate, Rewrite, Install
  <2>4. CASE UNCHANGED disk
    BY <2>4
  <2>5. [Next]_vars => \/ CreateDirectory \/ OpenConfig \/ WriteDefault \/ Truncate
                       \/ Rewrite \/ Install \/ UNCHANGED disk
    BY DEF Next, Main, OmThread, Boot, LoadConfig, FillCoins, ReadWallet, Construct,
           StartDaemon, EnableTestsCoins, EnablePriceThread, Start, EnableOmThread,
           EnableSmThread, Destroy, DestroyMm2, ServerReturns, ServerThrows, Killed, Vanish,
           BeginPoll, Mirror, AddExecution, EndPoll, Quit, BeginWork, EndWork, Execute,
           Leave, DaemonDies, UpTo, Around, Process, files, vars
  <2> QED
    BY <2>3, <2>4, <2>5
<1>3. CInv => DefaultIsAccepted
  BY DefaultIsRead DEF DefaultIsAccepted
<1> HIDE DEF CInv
<1> QED
  BY <1>1, <1>2, <1>3, PTL DEF Spec
===============================================================================
