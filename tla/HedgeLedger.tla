------------------------------ MODULE HedgeLedger ------------------------------
(***************************************************************************)
(* What the order manager promises its owner, with no thread, no map and   *)
(* no call in sight: a book of the orders it answers for, and a ledger of  *)
(* the executions passed on to the CEX.                                    *)
(*                                                                         *)
(*   - An execution leaves for the CEX only after it happened, and not     *)
(*     while the manager remembers that it left, or was there at the start.*)
(*   - An execution is unremembered only by dropping an order the manager  *)
(*     answered for, which mm2 no longer has on the book, and which takes  *)
(*     that execution along.                                               *)
(*   - An order is forgotten only after it was dropped.                    *)
(***************************************************************************)
CONSTANTS
    Orders,
    Executions,
    TakenAlong \* the executions each order takes along when it is dropped

VARIABLES
    live,       \* orders on the book of mm2
    issued,     \* orders mm2 ever had
    tracked,    \* orders the manager answers for
    leaving,    \* those of them that were dropped and are to be forgotten
    happened,   \* executions on mm2
    past,       \* executions accepted as they were, with no hedge
    remembered, \* executions not to be passed on
    outgoing,   \* the execution on its way to the CEX, if any
    hedged      \* executions the CEX has

mm2 == <<live, issued, happened>>
book == <<tracked, leaving>>
ledger == <<past, remembered, outgoing, hedged>>
lvars == <<mm2, book, ledger>>

LInit ==
    /\ live = {} /\ issued = {} /\ happened = {}
    /\ tracked = {} /\ leaving = {}
    /\ past = {} /\ remembered = {} /\ outgoing = {} /\ hedged = {}

\* mm2: orders appear and go, executions happen to those that are live
Open(id) ==
    /\ id \notin issued
    /\ live' = live \cup {id}
    /\ issued' = issued \cup {id}
    /\ UNCHANGED <<happened, book, ledger>>

Close(id) ==
    /\ id \in live
    /\ live' = live \ {id}
    /\ UNCHANGED <<issued, happened, book, ledger>>

Execute(e, id) ==
    /\ e \notin happened
    /\ id \in live
    /\ happened' = happened \cup {e}
    /\ live' \in {live, live \ {id}}
    /\ UNCHANGED <<issued, book, ledger>>

\* The manager
Track(id) ==
    /\ id \in issued \ tracked
    /\ tracked' = tracked \cup {id}
    /\ UNCHANGED <<mm2, leaving, ledger>>

Drop(id) ==
    /\ id \in tracked \ live
    /\ \E es \in SUBSET TakenAlong[id] : remembered' = remembered \ es
    /\ leaving' = leaving \cup {id}
    /\ UNCHANGED <<mm2, tracked, past, outgoing, hedged>>

Forget(id) ==
    /\ id \in leaving
    /\ tracked' = tracked \ {id}
    /\ leaving' = leaving \ {id}
    /\ UNCHANGED <<mm2, ledger>>

Accept(e) ==
    /\ hedged = {} /\ outgoing = {}
    /\ e \in happened
    /\ past' = past \cup {e}
    /\ remembered' = remembered \cup {e}
    /\ UNCHANGED <<mm2, book, outgoing, hedged>>

Send(e) ==
    /\ outgoing = {}
    /\ e \in happened \ remembered
    /\ outgoing' = {e}
    /\ UNCHANGED <<mm2, book, past, remembered, hedged>>

Deliver ==
    /\ outgoing # {}
    /\ hedged' = hedged \cup outgoing
    /\ remembered' = remembered \cup outgoing
    /\ outgoing' = {}
    /\ UNCHANGED <<mm2, book, past>>

LNext ==
    \/ \E id \in Orders : Open(id) \/ Close(id) \/ Track(id) \/ Drop(id) \/ Forget(id)
    \/ \E e \in Executions : Accept(e) \/ Send(e)
    \/ \E e \in Executions, id \in Orders : Execute(e, id)
    \/ Deliver

LSpec == LInit /\ [][LNext]_lvars

\* What the owner may rely on at any moment: nothing is hedged, or on its way, that
\* did not happen; the orders answered for are orders of mm2, and those about to be
\* forgotten are off its book; what is on its way is not remembered; and what was
\* hedged or accepted and is no longer remembered went along with an order that is
\* off the book.
Sound ==
    /\ remembered \subseteq past \cup hedged
    /\ past \cup hedged \subseteq happened
    /\ outgoing \subseteq happened \ remembered
    /\ tracked \cup live \subseteq issued
    /\ leaving \subseteq tracked \ live
    /\ \A e \in (past \cup hedged) \ remembered :
          \E id \in issued \ live : e \in TakenAlong[id]
===============================================================================
