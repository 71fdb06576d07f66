-------------------------- MODULE OrderManagerProofs --------------------------
(***************************************************************************)
(* Theorems about OrderManager, for any number of orders, executions and   *)
(* pairs.                                                                  *)
(*                                                                         *)
(* BeliefInv holds whatever the exchange lets the manager see: what the    *)
(* manager believes dead is dead.  RemoverInv needs OneRemover, that poll  *)
(* and cancel_orders do not both remove orders: no thread then works on an *)
(* order the other freed, and the two maps agree as far as at() needs.     *)
(* With OnlyReal and ListsItsOwn it carries the refinement of HedgeLedger, *)
(* from which the rest follows.                                            *)
(***************************************************************************)
EXTENDS OrderManager, TLAPS

\* mm2 issued the id and took the order off the book for good
Dead(id) == market[id] = "cancelled"

\* Where the sm thread holds an id mm2 cancelled for it
SmRemoving == pc["sm"] \in {"lookup"} \cup RemoveSteps

\* What the manager believes dead is dead: in orders_, in the order a thread is
\* about to store, and at the order a thread set out to remove.
BelievedDeadIsDead ==
    /\ \A id \in DOMAIN orders : Finished(orders[id].status) => Dead(id)
    /\ \A t \in Threads : Finished(ord[t].status) => Dead(ord[t].id)
    /\ pc["om"] \in RemoveSteps => Dead(cur["om"])
    /\ SmRemoving => Dead(cur["sm"])

\* The range-for over orders_ meets keys of orders_ only.
IteratesOrders == Iterating => todo["om"] \subseteq DOMAIN orders

BeliefInv == TypeOK /\ BelievedDeadIsDead /\ IteratesOrders

-------------------------------------------------------------------------------

\* om removes an order only if it is told that it is finished, sm only if it is told
\* that it cancelled it.
OneThreadRemoves ==
    /\ ~CancelSeen => ~SmRemoving
    /\ ~(StatusSeen /\ DetailSeen) =>
          /\ pc["om"] \notin RemoveSteps
          /\ \A id \in DOMAIN orders : orders[id].status = "live"
          /\ \A t \in Threads : ord[t].status = "live"

\* What a thread removes is still in orders_, and its cross has a set in the index.
Removable(id) == id \in DOMAIN orders /\ PairOf[id] \in DOMAIN byPair
RemovesTracked ==
    /\ pc["om"] \in RemoveSteps => Removable(cur["om"])
    /\ SmRemoving => Removable(cur["sm"])

\* An id in the index, on its way there, or copied from there, that is not in
\* orders_ is dead: orders_ is written before the index, and a dead order alone
\* leaves orders_.
TrackedOrDead(id) == id \in DOMAIN orders \/ Dead(id)
IndexTrackedOrDead ==
    /\ \A p \in DOMAIN byPair : \A id \in byPair[p] : TrackedOrDead(id)
    /\ \A t \in Threads : pc[t] \in {"ref", "emplace"} => TrackedOrDead(ord[t].id)
    /\ \A id \in todo["sm"] : TrackedOrDead(id)

\* The index lists an id under its own cross; and a finished order, which om alone
\* stores, has a set there by the time om removes it.
IndexedByCross ==
    /\ \A p \in DOMAIN byPair : \A id \in byPair[p] : PairOf[id] = p
    /\ \A id \in todo["sm"] : PairOf[id] \in DOMAIN byPair
    /\ \A id \in DOMAIN orders : Finished(orders[id].status) =>
          \/ PairOf[id] \in DOMAIN byPair
          \/ pc["om"] = "ref" /\ ord["om"].id = id
    /\ ord["sm"].status = "live"

RemoverRest ==
    /\ OneThreadRemoves
    /\ RemovesTracked
    /\ IndexTrackedOrDead
    /\ IndexedByCross
    /\ NoOutOfRange

RemoverInv == BeliefInv /\ RemoverRest

-------------------------------------------------------------------------------

\* Nothing is mirrored before it happened, nor tracked before mm2 issued it.
OnlyReal ==
    /\ batch \subseteq swaps
    /\ pc["om"] = "mirror" => \E e \in swaps : ex = {e}
    /\ starting => mirrored = {} /\ pc["om"] \notin {"recent", "check", "mirror", "known"}
    /\ pc["om"] \in {"start", "load"} => starting
    /\ \A t \in Threads : ord[t].id = NoOrder \/ market[ord[t].id] # "none"
    /\ (pc["om"] = "addlive" \/ (pc["om"] \in AddSteps /\ back = "addlive")) =>
          \A id \in todo["om"] : id \in OrderIds /\ market[id] # "none"

\* An order lists executions of its own, and none when orders carry no detail.
Own(id) == IF DetailSeen THEN {e \in ExecIds : OrderOf[e] = id} ELSE {}
ListsItsOwn ==
    /\ \A id \in DOMAIN orders : orders[id].execs \subseteq Own(id)
    /\ \A t \in Threads : ord[t].execs \subseteq Own(ord[t].id)
    /\ market[NoOrder] = "none"

-------------------------------------------------------------------------------

\* The types hold of every behaviour, whatever mm2 answers.
THEOREM TypeCorrect == Spec => []TypeOK
<1>. USE IdsAssumption, DexAssumption
     DEF AllIds, AllPairs, Threads, Status, Order, EmptyOrder, AddSteps, RemoveSteps,
         OmSteps, SmSteps, Faults, Goto, exchange, omLocal, smLocal
<1>1. ASSUME Init PROVE TypeOK
  <2>1. DOMAIN orders = {} /\ DOMAIN byPair = {}
    BY <1>1 DEF Init
  <2>2. /\ todo \in [Threads -> SUBSET AllIds]
        /\ cur \in [Threads -> AllIds]
        /\ ord \in [Threads -> Order]
        /\ market \in [AllIds -> Status \cup {"none"}]
    BY <1>1 DEF Init
  <2>3. /\ pc["sm"] = "idle"
        /\ pc["om"] \in {"start", "sleep"}
        /\ pc \in [Threads -> OmSteps \cup SmSteps \cup AddSteps \cup RemoveSteps]
    BY <1>1 DEF Init
  <2>. QED
    BY <1>1, <2>1, <2>2, <2>3 DEF Init, TypeOK
<1>2. TypeOK /\ [Next]_vars => TypeOK'
  <2>. SUFFICES ASSUME TypeOK, [Next]_vars PROVE TypeOK'
    OBVIOUS
  <2>. USE DEF TypeOK
  <2>1. ASSUME NEW t \in Threads, Insert(t) PROVE TypeOK'
    BY <2>1 DEF Insert, Put
  <2>2. ASSUME NEW t \in Threads, IndexRef(t) PROVE TypeOK'
    BY <2>2 DEF IndexRef, Put
  <2>3. ASSUME NEW t \in Threads, IndexEmplace(t) PROVE TypeOK'
    BY <2>3 DEF IndexEmplace
  <2>4. ASSUME NEW t \in Threads, EraseExecutions(t) PROVE TypeOK'
    BY <2>4 DEF EraseExecutions
  <2>5. ASSUME NEW t \in Threads, Unindex(t) PROVE TypeOK'
    BY <2>5 DEF Unindex, ReadId
  <2>6. ASSUME NEW t \in Threads, EraseOrder(t) PROVE TypeOK'
    BY <2>6 DEF EraseOrder, ReadId, Without
  <2>7. CASE Start
    BY <2>7 DEF Start
  <2>8. CASE LoadExecution
    BY <2>8 DEF LoadExecution
  <2>9. CASE StartDone
    BY <2>9 DEF StartDone
  <2>10. CASE BeginPoll
    BY <2>10 DEF BeginPoll, Loop
  <2>11. CASE Quit
    BY <2>11 DEF Quit
  <2>12. CASE RefreshOrder
    BY <2>12 DEF RefreshOrder, StatusAnswers, Converted, ExecutionsOf
  <2>13. CASE RefreshDone
    BY <2>13 DEF RefreshDone
  <2>14. CASE UpdateFromLive
    <3>1. PICK live \in LiveAnswers : Loop("addlive", live)
      BY <2>14 DEF UpdateFromLive
    <3>2. live \subseteq AllIds
      BY <3>1 DEF LiveAnswers, LiveOrders
    <3>. QED
      BY <2>14, <3>1, <3>2 DEF UpdateFromLive, Loop
  <2>15. CASE AddLive
    BY <2>15 DEF AddLive, Converted, ExecutionsOf
  <2>16. CASE AddLiveDone
    BY <2>16 DEF AddLiveDone
  <2>17. CASE CollectIds
    BY <2>17 DEF CollectIds, Loop
  <2>18. CASE FetchExecutions
    BY <2>18 DEF FetchExecutions, ExecutionsAnswers, ExecutionsOf
  <2>19. CASE FetchDone
    BY <2>19 DEF FetchDone
  <2>20. CASE FetchRecent
    BY <2>20 DEF FetchRecent, RecentAnswers
  <2>21. CASE CheckExecution
    BY <2>21 DEF CheckExecution
  <2>22. CASE Mirror
    BY <2>22 DEF Mirror
  <2>23. CASE AddExecution
    BY <2>23 DEF AddExecution
  <2>24. CASE BeginSweep
    BY <2>24 DEF BeginSweep, Loop
  <2>25. CASE SweepOrder
    BY <2>25 DEF SweepOrder
  <2>26. CASE SweepDone
    BY <2>26 DEF SweepDone
  <2>27. CASE StrayIterator
    <3>1. PICK rest \in SUBSET DOMAIN orders : todo' = [todo EXCEPT !["om"] = rest]
      BY <2>27 DEF StrayIterator
    <3>2. todo' \in [Threads -> SUBSET AllIds]
      BY <3>1
    <3>. QED
      BY <2>27, <3>2 DEF StrayIterator
  <2>28. CASE FindPair
    BY <2>28 DEF FindPair
  <2>29. CASE CopyIds
    BY <2>29 DEF CopyIds
  <2>30. CASE Cancel
    BY <2>30 DEF Cancel, Reported
  <2>31. CASE LookupCancelled
    BY <2>31 DEF LookupCancelled
  <2>32. CASE CancelOrdersDone
    BY <2>32 DEF CancelOrdersDone
  <2>33. CASE PlaceLevel
    BY <2>33 DEF PlaceLevel
  <2>34. CASE PlaceRefused
    BY <2>34 DEF PlaceRefused
  <2>35. CASE PlaceOrderDone
    BY <2>35 DEF PlaceOrderDone
  <2>36. CASE BeginCancelOrders
    BY <2>36 DEF BeginCancelOrders
  <2>37. CASE BeginPlaceOrder
    BY <2>37 DEF BeginPlaceOrder
  <2>38. CASE Destroy
    BY <2>38 DEF Destroy
  <2>39. CASE Crash
    BY <2>39 DEF Crash
  <2>40. CASE Exchange
    BY <2>40 DEF Exchange, ForeignPlace, ForeignCancel, Fill
  <2>41. CASE UNCHANGED vars
    BY <2>41 DEF vars
  <2>. QED
    BY <2>1, <2>2, <2>3, <2>4, <2>5, <2>6, <2>7, <2>8, <2>9, <2>10, <2>11,
       <2>12, <2>13, <2>14, <2>15, <2>16, <2>17, <2>18, <2>19, <2>20, <2>21,
       <2>22, <2>23, <2>24, <2>25, <2>26, <2>27, <2>28, <2>29, <2>30, <2>31,
       <2>32, <2>33, <2>34, <2>35, <2>36, <2>37, <2>38, <2>39, <2>40, <2>41
    DEF Next, Om, Sm, SmCall, AddOrRemove
<1>. QED
  BY <1>1, <1>2, PTL DEF Spec

-------------------------------------------------------------------------------

\* What poll and cancel_orders take for dead is dead, over any implementation of
\* abstract_dex.
THEOREM BeliefInvariant == Spec => []BeliefInv
<1>. USE IdsAssumption, DexAssumption
     DEF AllIds, AllPairs, Threads, Status, Order, EmptyOrder, AddSteps, RemoveSteps,
         Goto, exchange, omLocal, smLocal
<1>1. ASSUME Init PROVE BelievedDeadIsDead /\ IteratesOrders
  BY <1>1 DEF Init, BelievedDeadIsDead, IteratesOrders, Iterating, SmRemoving, Finished
<1>2. BeliefInv /\ TypeOK' /\ [Next]_vars => BeliefInv'
  <2>. SUFFICES ASSUME BeliefInv, TypeOK', [Next]_vars PROVE BeliefInv'
    OBVIOUS
  <2>. USE DEF BeliefInv, TypeOK, BelievedDeadIsDead, IteratesOrders,
               Iterating, SmRemoving, Finished, Dead
  <2>1. ASSUME NEW t \in Threads, Insert(t) PROVE BeliefInv'
    BY <2>1 DEF Insert, Put
  <2>2. ASSUME NEW t \in Threads, IndexRef(t) PROVE BeliefInv'
    BY <2>2 DEF IndexRef, Put
  <2>3. ASSUME NEW t \in Threads, IndexEmplace(t) PROVE BeliefInv'
    BY <2>3 DEF IndexEmplace
  <2>4. ASSUME NEW t \in Threads, EraseExecutions(t) PROVE BeliefInv'
    BY <2>4 DEF EraseExecutions
  <2>5. ASSUME NEW t \in Threads, Unindex(t) PROVE BeliefInv'
    BY <2>5 DEF Unindex
  <2>6. ASSUME NEW t \in Threads, EraseOrder(t) PROVE BeliefInv'
    BY <2>6 DEF EraseOrder, Without
  <2>7. CASE Start
    BY <2>7 DEF Start
  <2>8. CASE LoadExecution
    BY <2>8 DEF LoadExecution
  <2>9. CASE StartDone
    BY <2>9 DEF StartDone
  <2>10. CASE BeginPoll
    BY <2>10 DEF BeginPoll, Loop
  <2>11. CASE Quit
    BY <2>11 DEF Quit
  <2>12. CASE RefreshOrder
    BY <2>12 DEF RefreshOrder, StatusAnswers, Converted, ExecutionsOf
  <2>13. CASE RefreshDone
    BY <2>13 DEF RefreshDone
  <2>14. CASE UpdateFromLive
    BY <2>14 DEF UpdateFromLive, Loop, LiveAnswers, LiveOrders
  <2>15. CASE AddLive
    BY <2>15 DEF AddLive, Converted, ExecutionsOf
  <2>16. CASE AddLiveDone
    BY <2>16 DEF AddLiveDone
  <2>17. CASE CollectIds
    BY <2>17 DEF CollectIds, Loop
  <2>18. CASE FetchExecutions
    BY <2>18 DEF FetchExecutions, ExecutionsAnswers, ExecutionsOf
  <2>19. CASE FetchDone
    BY <2>19 DEF FetchDone
  <2>20. CASE FetchRecent
    BY <2>20 DEF FetchRecent, RecentAnswers
  <2>21. CASE CheckExecution
    BY <2>21 DEF CheckExecution
  <2>22. CASE Mirror
    BY <2>22 DEF Mirror
  <2>23. CASE AddExecution
    BY <2>23 DEF AddExecution
  <2>24. CASE BeginSweep
    BY <2>24 DEF BeginSweep, Loop
  <2>25. CASE SweepOrder
    BY <2>25 DEF SweepOrder
  <2>26. CASE SweepDone
    BY <2>26 DEF SweepDone
  <2>27. CASE StrayIterator
    BY <2>27 DEF StrayIterator
  <2>28. CASE FindPair
    BY <2>28 DEF FindPair
  <2>29. CASE CopyIds
    BY <2>29 DEF CopyIds
  <2>30. CASE Cancel
    BY <2>30 DEF Cancel, Reported
  <2>31. CASE LookupCancelled
    BY <2>31 DEF LookupCancelled
  <2>32. CASE CancelOrdersDone
    BY <2>32 DEF CancelOrdersDone
  <2>33. CASE PlaceLevel
    BY <2>33 DEF PlaceLevel
  <2>34. CASE PlaceRefused
    BY <2>34 DEF PlaceRefused
  <2>35. CASE PlaceOrderDone
    BY <2>35 DEF PlaceOrderDone
  <2>36. CASE BeginCancelOrders
    BY <2>36 DEF BeginCancelOrders
  <2>37. CASE BeginPlaceOrder
    BY <2>37 DEF BeginPlaceOrder
  <2>38. CASE Destroy
    BY <2>38 DEF Destroy
  <2>39. CASE Crash
    BY <2>39 DEF Crash
  <2>40. CASE Exchange
    BY <2>40 DEF Exchange, ForeignPlace, ForeignCancel, Fill
  <2>41. CASE UNCHANGED vars
    BY <2>41 DEF vars
  <2>. QED
    BY <2>1, <2>2, <2>3, <2>4, <2>5, <2>6, <2>7, <2>8, <2>9, <2>10, <2>11, <2>12,
       <2>13, <2>14, <2>15, <2>16, <2>17, <2>18, <2>19, <2>20, <2>21, <2>22, <2>23,
       <2>24, <2>25, <2>26, <2>27, <2>28, <2>29, <2>30, <2>31, <2>32, <2>33, <2>34,
       <2>35, <2>36, <2>37, <2>38, <2>39, <2>40, <2>41
    DEF Next, Om, Sm, SmCall, AddOrRemove
<1>. QED
  BY <1>1, <1>2, TypeCorrect, PTL DEF Spec, BeliefInv

\* A live order leaves orders_ in no step but one that reads a freed order.
THEOREM LiveOrdersKept == Spec => NeverForgetsLive
<1>1. ASSUME BeliefInv, ~UseAfterFree, [Next]_vars
      PROVE  \A id \in DOMAIN orders \ DOMAIN orders' : market[id] # "live"
  <2>. USE DEF exchange, omLocal, smLocal, Goto
  <2>1. ASSUME NEW t \in Threads, EraseOrder(t)
        PROVE  \A id \in DOMAIN orders \ DOMAIN orders' : market[id] # "live"
    <3>1. ReadId(t) = {{cur[t]}}
      BY <1>1, <2>1 DEF ReadId, UseAfterFree
    <3>2. DOMAIN orders \ DOMAIN orders' \subseteq {cur[t]}
      BY <2>1, <3>1 DEF EraseOrder, Without
    <3>3. Dead(cur[t])
      BY <1>1, <2>1 DEF EraseOrder, BeliefInv, BelievedDeadIsDead, SmRemoving,
         Threads, RemoveSteps
    <3>. QED
      BY <3>2, <3>3 DEF Dead
  <2>2. ASSUME NEW t \in Threads, Insert(t) PROVE DOMAIN orders \subseteq DOMAIN orders'
    BY <2>2 DEF Insert, Put
  <2>3. CASE \E t \in Threads : \/ IndexRef(t) \/ IndexEmplace(t)
                              \/ EraseExecutions(t) \/ Unindex(t)
    BY <2>3 DEF IndexRef, IndexEmplace, EraseExecutions, Unindex
  <2>4. CASE Om /\ ~AddOrRemove("om")
    BY <2>4 DEF Om, Start, LoadExecution, StartDone, BeginPoll, Quit, RefreshOrder,
       RefreshDone, UpdateFromLive, AddLive, AddLiveDone, CollectIds, FetchExecutions,
       FetchDone, FetchRecent, CheckExecution, Mirror, AddExecution, BeginSweep,
       SweepOrder, SweepDone, StrayIterator
  <2>5. CASE Sm /\ ~AddOrRemove("sm")
    BY <2>5 DEF Sm, SmCall, FindPair, CopyIds, Cancel, LookupCancelled,
       CancelOrdersDone, PlaceLevel, PlaceRefused, PlaceOrderDone, BeginCancelOrders,
       BeginPlaceOrder, Destroy
  <2>6. CASE Crash \/ Exchange \/ UNCHANGED vars
    BY <2>6 DEF Crash, Exchange, vars
  <2>. QED
    BY <1>1, <2>1, <2>2, <2>3, <2>4, <2>5, <2>6
    DEF Next, Om, Sm, SmCall, AddOrRemove, Threads
<1>2. BeliefInv /\ [Next]_vars =>
        [UseAfterFree \/ \A id \in DOMAIN orders \ DOMAIN orders' : market[id] # "live"]_vars
  BY <1>1
<1>. QED
  BY <1>2, BeliefInvariant, PTL DEF Spec, NeverForgetsLive

-------------------------------------------------------------------------------

\* With one remover, RemoverInv holds.
THEOREM RemoverInvariant == ASSUME OneRemover PROVE Spec => []RemoverInv
<1>. USE OneRemover, IdsAssumption, DexAssumption
     DEF OneRemover, AllIds, AllPairs, Threads, Status, Order, EmptyOrder, AddSteps,
         RemoveSteps, Goto, exchange, omLocal, smLocal
<1>1. ASSUME Init PROVE RemoverRest
  BY <1>1 DEF Init, RemoverRest, OneThreadRemoves, RemovesTracked, IndexTrackedOrDead,
      IndexedByCross, NoOutOfRange, SmRemoving, Finished
<1>2. RemoverRest /\ BeliefInv /\ TypeOK' /\ [Next]_vars => RemoverRest'
  <2>. SUFFICES ASSUME RemoverRest, BeliefInv, TypeOK', [Next]_vars PROVE RemoverRest'
    OBVIOUS
  <2>. USE DEF RemoverRest, BeliefInv, TypeOK, BelievedDeadIsDead, IteratesOrders,
               OneThreadRemoves, RemovesTracked, Removable, IndexTrackedOrDead,
               TrackedOrDead, IndexedByCross, Iterating, SmRemoving, Finished, Dead,
               NoOutOfRange
  <2>1. ASSUME NEW t \in Threads, Insert(t) PROVE RemoverRest'
    BY <2>1 DEF Insert, Put
  <2>2. ASSUME NEW t \in Threads, IndexRef(t) PROVE RemoverRest'
    BY <2>2 DEF IndexRef, Put
  <2>3. ASSUME NEW t \in Threads, IndexEmplace(t) PROVE RemoverRest'
    BY <2>3 DEF IndexEmplace
  <2>4. ASSUME NEW t \in Threads, EraseExecutions(t) PROVE RemoverRest'
    BY <2>4 DEF EraseExecutions
  <2>5. ASSUME NEW t \in Threads, Unindex(t) PROVE RemoverRest'
    BY <2>5 DEF Unindex, ReadId, ReadPair, Freed
  <2>6. ASSUME NEW t \in Threads, EraseOrder(t) PROVE RemoverRest'
    BY <2>6 DEF EraseOrder, Without, ReadId, Freed
  <2>7. CASE Start
    BY <2>7 DEF Start
  <2>8. CASE LoadExecution
    BY <2>8 DEF LoadExecution
  <2>9. CASE StartDone
    BY <2>9 DEF StartDone
  <2>10. CASE BeginPoll
    BY <2>10 DEF BeginPoll, Loop
  <2>11. CASE Quit
    BY <2>11 DEF Quit
  <2>12. CASE RefreshOrder
    BY <2>12 DEF RefreshOrder, StatusAnswers, Converted, ExecutionsOf
  <2>13. CASE RefreshDone
    BY <2>13 DEF RefreshDone
  <2>14. CASE UpdateFromLive
    BY <2>14 DEF UpdateFromLive, Loop, LiveAnswers, LiveOrders
  <2>15. CASE AddLive
    BY <2>15 DEF AddLive, Converted, ExecutionsOf
  <2>16. CASE AddLiveDone
    BY <2>16 DEF AddLiveDone
  <2>17. CASE CollectIds
    BY <2>17 DEF CollectIds, Loop
  <2>18. CASE FetchExecutions
    BY <2>18 DEF FetchExecutions, ExecutionsAnswers, ExecutionsOf
  <2>19. CASE FetchDone
    BY <2>19 DEF FetchDone
  <2>20. CASE FetchRecent
    BY <2>20 DEF FetchRecent, RecentAnswers
  <2>21. CASE CheckExecution
    BY <2>21 DEF CheckExecution
  <2>22. CASE Mirror
    BY <2>22 DEF Mirror
  <2>23. CASE AddExecution
    BY <2>23 DEF AddExecution
  <2>24. CASE BeginSweep
    BY <2>24 DEF BeginSweep, Loop
  <2>25. CASE SweepOrder
    BY <2>25 DEF SweepOrder
  <2>26. CASE SweepDone
    BY <2>26 DEF SweepDone
  <2>27. CASE StrayIterator
    BY <2>27 DEF StrayIterator
  <2>28. CASE FindPair
    BY <2>28 DEF FindPair
  <2>29. CASE CopyIds
    BY <2>29 DEF CopyIds
  <2>30. CASE Cancel
    BY <2>30 DEF Cancel, Reported
  <2>31. CASE LookupCancelled
    BY <2>31 DEF LookupCancelled
  <2>32. CASE CancelOrdersDone
    BY <2>32 DEF CancelOrdersDone
  <2>33. CASE PlaceLevel
    BY <2>33 DEF PlaceLevel
  <2>34. CASE PlaceRefused
    BY <2>34 DEF PlaceRefused
  <2>35. CASE PlaceOrderDone
    BY <2>35 DEF PlaceOrderDone
  <2>36. CASE BeginCancelOrders
    BY <2>36 DEF BeginCancelOrders
  <2>37. CASE BeginPlaceOrder
    BY <2>37 DEF BeginPlaceOrder
  <2>38. CASE Destroy
    BY <2>38 DEF Destroy
  <2>39. CASE Crash
    BY <2>39 DEF Crash
  <2>40. CASE Exchange
    BY <2>40 DEF Exchange, ForeignPlace, ForeignCancel, Fill
  <2>41. CASE UNCHANGED vars
    BY <2>41 DEF vars
  <2>. QED
    BY <2>1, <2>2, <2>3, <2>4, <2>5, <2>6, <2>7, <2>8, <2>9, <2>10, <2>11, <2>12,
       <2>13, <2>14, <2>15, <2>16, <2>17, <2>18, <2>19, <2>20, <2>21, <2>22, <2>23,
       <2>24, <2>25, <2>26, <2>27, <2>28, <2>29, <2>30, <2>31, <2>32, <2>33, <2>34,
       <2>35, <2>36, <2>37, <2>38, <2>39, <2>40, <2>41
    DEF Next, Om, Sm, SmCall, AddOrRemove
<1>. QED
  BY <1>1, <1>2, BeliefInvariant, PTL DEF Spec, RemoverInv, BeliefInv

\* With one remover, remove_order never works on an order the other thread freed: a
\* live order is then never forgotten at all (LiveOrdersKept).
THEOREM NothingFreedInUse == ASSUME OneRemover PROVE Spec => []~UseAfterFree
<1>1. RemoverInv => ~UseAfterFree
  BY DEF RemoverInv, RemoverRest, RemovesTracked, Removable, SmRemoving, UseAfterFree,
     Freed, Threads
<1>. QED
  BY <1>1, RemoverInvariant, PTL

\* With one remover, what the index lists beside the orders is dead, and mm2 refuses to
\* cancel it.
THEOREM DanglingIndexIsDead == ASSUME OneRemover PROVE Spec => []DanglingIndexDead
<1>1. RemoverInv => DanglingIndexDead
  BY DEF RemoverInv, RemoverRest, IndexTrackedOrDead, TrackedOrDead, Dead, DanglingIndexDead
<1>. QED
  BY <1>1, RemoverInvariant, PTL

\* With one remover, neither at() of cancel_orders nor that of remove_order throws.
THEOREM AtNeverThrows == ASSUME OneRemover PROVE Spec => []NoOutOfRange
<1>1. RemoverInv => NoOutOfRange
  BY DEF RemoverInv, RemoverRest
<1>. QED
  BY <1>1, RemoverInvariant, PTL

-------------------------------------------------------------------------------

\* Whatever mm2 lets the manager see, executions_ holds only what reached the
\* CEX or was there at the start: cex_.mirror comes before add_execution.
THEOREM KnownWasMirrored == Spec => []KnownIsMirrored
<1>. DEFINE Inv == /\ KnownIsMirrored
                   /\ pc["om"] = "known" => ex \subseteq mirrored
<1>. USE DEF KnownIsMirrored, Goto, exchange, omLocal, smLocal
<1>1. Init => Inv
  BY DEF Init, Threads
<1>2. ASSUME Inv, TypeOK, [Next]_vars PROVE Inv'
  <2>. USE <1>2 DEF TypeOK, Threads, AddSteps, RemoveSteps
  <2>1. ASSUME NEW t \in Threads, Insert(t) \/ IndexRef(t) \/ IndexEmplace(t) PROVE Inv'
    BY <2>1 DEF Insert, IndexRef, IndexEmplace
  <2>2. ASSUME NEW t \in Threads, EraseExecutions(t) \/ Unindex(t) \/ EraseOrder(t)
        PROVE  Inv'
    BY <2>2 DEF EraseExecutions, Unindex, EraseOrder
  <2>3. CASE Start \/ LoadExecution \/ StartDone \/ BeginPoll \/ Quit \/ RefreshOrder
    BY <2>3 DEF Start, LoadExecution, StartDone, BeginPoll, Quit, RefreshOrder, Loop
  <2>4. CASE \/ RefreshDone \/ UpdateFromLive \/ AddLive \/ AddLiveDone \/ CollectIds
             \/ FetchExecutions \/ FetchDone \/ FetchRecent
    BY <2>4 DEF RefreshDone, UpdateFromLive, AddLive, AddLiveDone, CollectIds,
       FetchExecutions, FetchDone, FetchRecent, Loop
  <2>5. CASE CheckExecution \/ Mirror \/ AddExecution
    BY <2>5 DEF CheckExecution, Mirror, AddExecution
  <2>6. CASE BeginSweep \/ SweepOrder \/ SweepDone \/ StrayIterator
    BY <2>6 DEF BeginSweep, SweepOrder, SweepDone, StrayIterator, Loop
  <2>7. CASE FindPair \/ CopyIds \/ Cancel \/ LookupCancelled \/ CancelOrdersDone
    BY <2>7 DEF FindPair, CopyIds, Cancel, LookupCancelled, CancelOrdersDone
  <2>8. CASE \/ PlaceLevel \/ PlaceRefused \/ PlaceOrderDone
             \/ BeginCancelOrders \/ BeginPlaceOrder \/ Destroy
    BY <2>8 DEF PlaceLevel, PlaceRefused, PlaceOrderDone, BeginCancelOrders,
       BeginPlaceOrder, Destroy
  <2>9. CASE Crash \/ Exchange \/ UNCHANGED vars
    BY <2>9 DEF Crash, Exchange, ForeignPlace, ForeignCancel, Fill, vars
  <2>. QED
    BY <2>1, <2>2, <2>3, <2>4, <2>5, <2>6, <2>7, <2>8, <2>9
    DEF Next, Om, Sm, SmCall, AddOrRemove
<1>. QED
  BY <1>1, <1>2, TypeCorrect, PTL DEF Spec

-------------------------------------------------------------------------------

\* Whatever mm2 lets the manager see, it tracks what mm2 issued and mirrors what
\* happened (poll and start only pass on what the answers name).
THEOREM RealInvariant == Spec => []OnlyReal
<1>. USE IdsAssumption, DexAssumption
     DEF AllIds, AllPairs, Threads, Status, Order, EmptyOrder, AddSteps, RemoveSteps,
         Goto, exchange, omLocal, smLocal
<1>1. ASSUME Init PROVE OnlyReal
  BY <1>1 DEF Init, OnlyReal
<1>2. OnlyReal /\ TypeOK /\ TypeOK' /\ [Next]_vars => OnlyReal'
  <2>. SUFFICES ASSUME OnlyReal, TypeOK, TypeOK', [Next]_vars PROVE OnlyReal'
    OBVIOUS
  <2>. USE DEF TypeOK, OnlyReal, Iterating
  <2>1. ASSUME NEW t \in Threads, Insert(t) PROVE OnlyReal'
    BY <2>1 DEF Insert, Put
  <2>2. ASSUME NEW t \in Threads, IndexRef(t) PROVE OnlyReal'
    BY <2>2 DEF IndexRef, Put
  <2>3. ASSUME NEW t \in Threads, IndexEmplace(t) PROVE OnlyReal'
    BY <2>3 DEF IndexEmplace
  <2>4. ASSUME NEW t \in Threads, EraseExecutions(t) PROVE OnlyReal'
    BY <2>4 DEF EraseExecutions
  <2>5. ASSUME NEW t \in Threads, Unindex(t) PROVE OnlyReal'
    BY <2>5 DEF Unindex
  <2>6. ASSUME NEW t \in Threads, EraseOrder(t) PROVE OnlyReal'
    BY <2>6 DEF EraseOrder, Without
  <2>7. CASE Start
    BY <2>7 DEF Start
  <2>8. CASE LoadExecution
    BY <2>8 DEF LoadExecution
  <2>9. CASE StartDone
    BY <2>9 DEF StartDone
  <2>10. CASE BeginPoll
    BY <2>10 DEF BeginPoll, Loop
  <2>11. CASE Quit
    BY <2>11 DEF Quit
  <2>12. CASE RefreshOrder
    BY <2>12 DEF RefreshOrder, StatusAnswers, Converted, ExecutionsOf
  <2>13. CASE RefreshDone
    BY <2>13 DEF RefreshDone
  <2>14. CASE UpdateFromLive
    BY <2>14 DEF UpdateFromLive, Loop, LiveAnswers, LiveOrders
  <2>15. CASE AddLive
    BY <2>15 DEF AddLive, Converted, ExecutionsOf
  <2>16. CASE AddLiveDone
    BY <2>16 DEF AddLiveDone
  <2>17. CASE CollectIds
    BY <2>17 DEF CollectIds, Loop
  <2>18. CASE FetchExecutions
    BY <2>18 DEF FetchExecutions, ExecutionsAnswers, ExecutionsOf
  <2>19. CASE FetchDone
    BY <2>19 DEF FetchDone
  <2>20. CASE FetchRecent
    BY <2>20 DEF FetchRecent, RecentAnswers
  <2>21. CASE CheckExecution
    BY <2>21 DEF CheckExecution
  <2>22. CASE Mirror
    BY <2>22 DEF Mirror
  <2>23. CASE AddExecution
    BY <2>23 DEF AddExecution
  <2>24. CASE BeginSweep
    BY <2>24 DEF BeginSweep, Loop
  <2>25. CASE SweepOrder
    BY <2>25 DEF SweepOrder
  <2>26. CASE SweepDone
    BY <2>26 DEF SweepDone
  <2>27. CASE StrayIterator
    BY <2>27 DEF StrayIterator
  <2>28. CASE FindPair
    BY <2>28 DEF FindPair
  <2>29. CASE CopyIds
    BY <2>29 DEF CopyIds
  <2>30. CASE Cancel
    BY <2>30 DEF Cancel, Reported
  <2>31. CASE LookupCancelled
    BY <2>31 DEF LookupCancelled
  <2>32. CASE CancelOrdersDone
    BY <2>32 DEF CancelOrdersDone
  <2>33. CASE PlaceLevel
    BY <2>33 DEF PlaceLevel
  <2>34. CASE PlaceRefused
    BY <2>34 DEF PlaceRefused
  <2>35. CASE PlaceOrderDone
    BY <2>35 DEF PlaceOrderDone
  <2>36. CASE BeginCancelOrders
    BY <2>36 DEF BeginCancelOrders
  <2>37. CASE BeginPlaceOrder
    BY <2>37 DEF BeginPlaceOrder
  <2>38. CASE Destroy
    BY <2>38 DEF Destroy
  <2>39. CASE Crash
    BY <2>39 DEF Crash
  <2>40. CASE Exchange
    BY <2>40 DEF Exchange, ForeignPlace, ForeignCancel, Fill
  <2>41. CASE UNCHANGED vars
    BY <2>41 DEF vars
  <2>. QED
    BY <2>1, <2>2, <2>3, <2>4, <2>5, <2>6, <2>7, <2>8, <2>9, <2>10, <2>11,
       <2>12, <2>13, <2>14, <2>15, <2>16, <2>17, <2>18, <2>19, <2>20, <2>21, <2>22,
       <2>23, <2>24, <2>25, <2>26, <2>27, <2>28, <2>29, <2>30, <2>31, <2>32, <2>33,
       <2>34, <2>35, <2>36, <2>37, <2>38, <2>39, <2>40, <2>41
    DEF Next, Om, Sm, SmCall, AddOrRemove
<1>. QED
  BY <1>1, <1>2, TypeCorrect, PTL DEF Spec

\* An order that comes back from mm2 lists its own executions, and orders_ keeps them.
THEOREM OwnInvariant == Spec => []ListsItsOwn
<1>. USE IdsAssumption, DexAssumption
     DEF AllIds, AllPairs, Threads, Status, Order, EmptyOrder, AddSteps, RemoveSteps,
         Goto, exchange, omLocal, smLocal
<1>1. ASSUME Init PROVE ListsItsOwn
  BY <1>1 DEF Init, ListsItsOwn, Own
<1>2. ListsItsOwn /\ TypeOK /\ TypeOK' /\ [Next]_vars => ListsItsOwn'
  <2>. SUFFICES ASSUME ListsItsOwn, TypeOK, TypeOK', [Next]_vars PROVE ListsItsOwn'
    OBVIOUS
  <2>. USE DEF TypeOK, ListsItsOwn, Own
  <2>1. ASSUME NEW t \in Threads, Insert(t) PROVE ListsItsOwn'
    BY <2>1 DEF Insert, Put
  <2>2. ASSUME NEW t \in Threads, IndexRef(t) PROVE ListsItsOwn'
    BY <2>2 DEF IndexRef, Put
  <2>3. ASSUME NEW t \in Threads, IndexEmplace(t) PROVE ListsItsOwn'
    BY <2>3 DEF IndexEmplace
  <2>4. ASSUME NEW t \in Threads, EraseExecutions(t) PROVE ListsItsOwn'
    BY <2>4 DEF EraseExecutions
  <2>5. ASSUME NEW t \in Threads, Unindex(t) PROVE ListsItsOwn'
    BY <2>5 DEF Unindex
  <2>6. ASSUME NEW t \in Threads, EraseOrder(t) PROVE ListsItsOwn'
    BY <2>6 DEF EraseOrder, Without
  <2>7. CASE Start
    BY <2>7 DEF Start
  <2>8. CASE LoadExecution
    BY <2>8 DEF LoadExecution
  <2>9. CASE StartDone
    BY <2>9 DEF StartDone
  <2>10. CASE BeginPoll
    BY <2>10 DEF BeginPoll, Loop
  <2>11. CASE Quit
    BY <2>11 DEF Quit
  <2>12. CASE RefreshOrder
    BY <2>12 DEF RefreshOrder, StatusAnswers, Converted, ExecutionsOf
  <2>13. CASE RefreshDone
    BY <2>13 DEF RefreshDone
  <2>14. CASE UpdateFromLive
    BY <2>14 DEF UpdateFromLive, Loop, LiveAnswers, LiveOrders
  <2>15. CASE AddLive
    BY <2>15 DEF AddLive, Converted, ExecutionsOf
  <2>16. CASE AddLiveDone
    BY <2>16 DEF AddLiveDone
  <2>17. CASE CollectIds
    BY <2>17 DEF CollectIds, Loop
  <2>18. CASE FetchExecutions
    BY <2>18 DEF FetchExecutions, ExecutionsAnswers, ExecutionsOf
  <2>19. CASE FetchDone
    BY <2>19 DEF FetchDone
  <2>20. CASE FetchRecent
    BY <2>20 DEF FetchRecent, RecentAnswers
  <2>21. CASE CheckExecution
    BY <2>21 DEF CheckExecution
  <2>22. CASE Mirror
    BY <2>22 DEF Mirror
  <2>23. CASE AddExecution
    BY <2>23 DEF AddExecution
  <2>24. CASE BeginSweep
    BY <2>24 DEF BeginSweep, Loop
  <2>25. CASE SweepOrder
    BY <2>25 DEF SweepOrder
  <2>26. CASE SweepDone
    BY <2>26 DEF SweepDone
  <2>27. CASE StrayIterator
    BY <2>27 DEF StrayIterator
  <2>28. CASE FindPair
    BY <2>28 DEF FindPair
  <2>29. CASE CopyIds
    BY <2>29 DEF CopyIds
  <2>30. CASE Cancel
    BY <2>30 DEF Cancel, Reported
  <2>31. CASE LookupCancelled
    BY <2>31 DEF LookupCancelled
  <2>32. CASE CancelOrdersDone
    BY <2>32 DEF CancelOrdersDone
  <2>33. CASE PlaceLevel
    BY <2>33 DEF PlaceLevel
  <2>34. CASE PlaceRefused
    BY <2>34 DEF PlaceRefused
  <2>35. CASE PlaceOrderDone
    BY <2>35 DEF PlaceOrderDone
  <2>36. CASE BeginCancelOrders
    BY <2>36 DEF BeginCancelOrders
  <2>37. CASE BeginPlaceOrder
    BY <2>37 DEF BeginPlaceOrder
  <2>38. CASE Destroy
    BY <2>38 DEF Destroy
  <2>39. CASE Crash
    BY <2>39 DEF Crash
  <2>40. CASE Exchange
    BY <2>40 DEF Exchange, ForeignPlace, ForeignCancel, Fill
  <2>41. CASE UNCHANGED vars
    BY <2>41 DEF vars
  <2>. QED
    BY <2>1, <2>2, <2>3, <2>4, <2>5, <2>6, <2>7, <2>8, <2>9, <2>10, <2>11, <2>12,
       <2>13, <2>14, <2>15, <2>16, <2>17, <2>18, <2>19, <2>20, <2>21, <2>22, <2>23,
       <2>24, <2>25, <2>26, <2>27, <2>28, <2>29, <2>30, <2>31, <2>32, <2>33, <2>34,
       <2>35, <2>36, <2>37, <2>38, <2>39, <2>40, <2>41
    DEF Next, Om, Sm, SmCall, AddOrRemove
<1>. QED
  BY <1>1, <1>2, TypeCorrect, PTL DEF Spec

-------------------------------------------------------------------------------
(* The refinement: each step is one of HedgeLedger, or changes nothing there. *)

\* With one remover, the order manager keeps the promise of HedgeLedger: poll,
\* cancel_orders and place_order, in two threads, over calls that may fail.
THEOREM LedgerRefinement == ASSUME OneRemover PROVE Spec => ImplementsLedger
<1>. USE OneRemover, IdsAssumption, DexAssumption
     DEF AllIds, Threads, AddSteps, RemoveSteps, Goto, exchange, omLocal, smLocal
<1>1. Init => Ledger!LInit
  BY DEF Init, Ledger!LInit, LiveOrders
<1> DEFINE Inv == RemoverInv /\ OnlyReal /\ ListsItsOwn
<1>2. ASSUME Inv, [Next]_vars PROVE [Ledger!LNext]_(Ledger!lvars)
  <2>. USE DEF RemoverInv, BeliefInv, TypeOK, Ledger!lvars, Ledger!mm2, Ledger!book,
               Ledger!ledger, LiveOrders
  <2>1. ASSUME NEW t \in Threads, Insert(t) PROVE [Ledger!LNext]_(Ledger!lvars)
    <3>1. /\ DOMAIN orders' = DOMAIN orders \cup {ord[t].id}
          /\ UNCHANGED <<exchange, executions, baseline, ex, cur>>
          /\ \A s \in {"mirror", "known"} : pc["om"] = s <=> pc'["om"] = s
          /\ \A u \in Threads : pc[u] \in {"unindex", "erase"} <=> pc'[u] \in {"unindex", "erase"}
      BY <1>2, <2>1 DEF Insert, Put
    <3>2. CASE ord[t].id \in DOMAIN orders \cup {NoOrder}
      BY <3>1, <3>2
    <3>3. CASE ord[t].id \notin DOMAIN orders \cup {NoOrder}
      <4>1. ord[t].id \in OrderIds /\ market[ord[t].id] # "none"
        BY <1>2, <2>1, <3>3 DEF OnlyReal, Order
      <4>2. Ledger!Track(ord[t].id)
        BY <3>1, <3>3, <4>1 DEF Ledger!Track
      <4>. QED
        BY <4>1, <4>2 DEF Ledger!LNext
    <3>. QED
      BY <3>2, <3>3
  <2>2. ASSUME NEW t \in Threads, IndexRef(t) PROVE [Ledger!LNext]_(Ledger!lvars)
    BY <1>2, <2>2 DEF IndexRef, Put
  <2>3. ASSUME NEW t \in Threads, IndexEmplace(t) PROVE [Ledger!LNext]_(Ledger!lvars)
    BY <1>2, <2>3 DEF IndexEmplace
  <2>4. ASSUME NEW t \in Threads, EraseExecutions(t) PROVE [Ledger!LNext]_(Ledger!lvars)
    <3>1. /\ cur[t] \in OrderIds /\ cur[t] \in DOMAIN orders \ {NoOrder}
          /\ market[cur[t]] # "live"
          /\ ReadExecutions(t) = {orders[cur[t]].execs}
          /\ orders[cur[t]].execs \subseteq TakenAlong[cur[t]]
      BY <1>2, <2>4 DEF EraseExecutions, RemoverInv, RemoverRest, BelievedDeadIsDead, Dead,
         RemovesTracked, Removable, SmRemoving, ListsItsOwn, Own, TakenAlong,
         ReadExecutions, Freed
    <3>2. /\ executions' = executions \ orders[cur[t]].execs
          /\ UNCHANGED <<exchange, orders, baseline, ex, cur>>
          /\ pc[t] \notin {"mirror", "known", "unindex", "erase"}
          /\ pc' = [pc EXCEPT ![t] = "unindex"]
      BY <2>4, <3>1 DEF EraseExecutions
    <3> DEFINE kept == IF pc["om"] = "known" THEN ex ELSE {}
               es == orders[cur[t]].execs \ kept
    <3>3. /\ (pc'["om"] = "known") <=> (pc["om"] = "known")
          /\ (pc'["om"] = "mirror") <=> (pc["om"] = "mirror")
      BY <1>2, <3>2
    <3>4. /\ es \in SUBSET TakenAlong[cur[t]]
          /\ executions' \cup (IF pc'["om"] = "known" THEN ex' ELSE {})
               = (executions \cup kept) \ es
      BY <3>1, <3>2, <3>3
    <3>5. {cur'[u] : u \in {v \in Threads : pc'[v] \in {"unindex", "erase"}}}
            = {cur[u] : u \in {v \in Threads : pc[v] \in {"unindex", "erase"}}} \cup {cur[t]}
      BY <1>2, <3>2
    <3>6. UNCHANGED <<market, swaps, mirrored, orders, baseline>> /\ ex' = ex
      BY <3>2
    <3>7. \E gone \in SUBSET TakenAlong[cur[t]] :
              executions' \cup (IF pc'["om"] = "known" THEN ex' ELSE {})
                = (executions \cup (IF pc["om"] = "known" THEN ex ELSE {})) \ gone
      BY <3>4
    <3>8. PICK id \in OrderIds : id = cur[t]
      BY <3>1
    <3>9. Ledger!Drop(id)
      BY <3>8, <3>1, <3>3, <3>5, <3>6, <3>7 DEF Ledger!Drop
    <3>. QED
      BY <3>8, <3>9 DEF Ledger!LNext
  <2>5. ASSUME NEW t \in Threads, Unindex(t) PROVE [Ledger!LNext]_(Ledger!lvars)
    BY <1>2, <2>5 DEF Unindex
  <2>6. ASSUME NEW t \in Threads, EraseOrder(t) PROVE [Ledger!LNext]_(Ledger!lvars)
    <3>1. /\ cur[t] \in OrderIds /\ cur[t] # NoOrder
          /\ ReadId(t) = {{cur[t]}}
          /\ \A u \in Threads \ {t} : pc[u] \notin {"unindex", "erase"}
      BY <1>2, <2>6 DEF EraseOrder, RemoverInv, RemoverRest, BelievedDeadIsDead, Dead,
         OneThreadRemoves, OneRemover, RemovesTracked, Removable, SmRemoving,
         ListsItsOwn, ReadId, Freed
    <3>2. /\ DOMAIN orders' = DOMAIN orders \ {cur[t]}
          /\ UNCHANGED <<exchange, executions, baseline, ex, cur>>
          /\ pc[t] = "erase"
          /\ pc' = [pc EXCEPT ![t] = IF t = "sm" THEN "cancel" ELSE "sweep"]
      BY <2>6, <3>1 DEF EraseOrder, Without
    <3>3. /\ \A s \in {"mirror", "known"} : pc["om"] = s <=> pc'["om"] = s
          /\ {u \in Threads : pc[u] \in {"unindex", "erase"}} = {t}
          /\ {u \in Threads : pc'[u] \in {"unindex", "erase"}} = {}
      BY <1>2, <3>1, <3>2
    <3>4. /\ {cur[u] : u \in {v \in Threads : pc[v] \in {"unindex", "erase"}}} = {cur[t]}
          /\ {cur'[u] : u \in {v \in Threads : pc'[v] \in {"unindex", "erase"}}} = {}
      BY <3>3
    <3>5. UNCHANGED <<market, swaps, mirrored, executions, baseline>> /\ ex' = ex
      BY <3>2
    <3>6. DOMAIN orders' \ {NoOrder} = (DOMAIN orders \ {NoOrder}) \ {cur[t]}
      BY <3>2
    <3>7. /\ (pc'["om"] = "known") <=> (pc["om"] = "known")
          /\ (pc'["om"] = "mirror") <=> (pc["om"] = "mirror")
      BY <3>3
    <3>8. PICK id \in OrderIds : id = cur[t]
      BY <3>1
    <3>9. Ledger!Forget(id)
      BY <3>8, <3>4, <3>5, <3>6, <3>7 DEF Ledger!Forget
    <3>. QED
      BY <3>8, <3>9 DEF Ledger!LNext
  <2>7. CASE Start
    BY <1>2, <2>7 DEF Start
  <2>8. CASE LoadExecution
    BY <1>2, <2>8 DEF LoadExecution, OnlyReal, Ledger!LNext, Ledger!Accept
  <2>9. CASE StartDone
    BY <1>2, <2>9 DEF StartDone
  <2>10. CASE BeginPoll
    BY <1>2, <2>10 DEF BeginPoll, Loop
  <2>11. CASE Quit
    BY <1>2, <2>11 DEF Quit
  <2>12. CASE RefreshOrder
    BY <1>2, <2>12 DEF RefreshOrder
  <2>13. CASE RefreshDone
    BY <1>2, <2>13 DEF RefreshDone
  <2>14. CASE UpdateFromLive
    BY <1>2, <2>14 DEF UpdateFromLive, Loop
  <2>15. CASE AddLive
    BY <1>2, <2>15 DEF AddLive
  <2>16. CASE AddLiveDone
    BY <1>2, <2>16 DEF AddLiveDone
  <2>17. CASE CollectIds
    BY <1>2, <2>17 DEF CollectIds, Loop
  <2>18. CASE FetchExecutions
    BY <1>2, <2>18 DEF FetchExecutions
  <2>19. CASE FetchDone
    BY <1>2, <2>19 DEF FetchDone
  <2>20. CASE FetchRecent
    BY <1>2, <2>20 DEF FetchRecent
  <2>21. CASE CheckExecution
    BY <1>2, <2>21 DEF CheckExecution, OnlyReal, Ledger!LNext, Ledger!Send
  <2>22. CASE Mirror
    <3>1. /\ pc["om"] = "mirror"
          /\ ex # {}
          /\ UNCHANGED <<market, swaps, orders, executions, baseline, cur, ex>>
      BY <1>2, <2>22 DEF Mirror, OnlyReal
    <3>2. CASE CexImplemented
      <4>1. mirrored' = mirrored \cup ex /\ pc' = [pc EXCEPT !["om"] = "known"]
        BY <2>22, <3>2 DEF Mirror
      <4>2. {u \in Threads : pc'[u] \in {"unindex", "erase"}}
              = {u \in Threads : pc[u] \in {"unindex", "erase"}}
        BY <1>2, <3>1, <4>1
      <4>3. pc'["om"] = "known"
        BY <1>2, <4>1
      <4>4. Ledger!Deliver
        BY <3>1, <4>1, <4>2, <4>3 DEF Ledger!Deliver
      <4>. QED
        BY <4>4 DEF Ledger!LNext
    <3>3. CASE ~CexImplemented
      BY <2>22, <3>1, <3>3 DEF Mirror
    <3>. QED
      BY <3>2, <3>3
  <2>23. CASE AddExecution
    BY <1>2, <2>23 DEF AddExecution
  <2>24. CASE BeginSweep
    BY <1>2, <2>24 DEF BeginSweep, Loop
  <2>25. CASE SweepOrder
    BY <1>2, <2>25 DEF SweepOrder
  <2>26. CASE SweepDone
    BY <1>2, <2>26 DEF SweepDone
  <2>27. CASE StrayIterator
    BY <1>2, <2>27 DEF StrayIterator
  <2>28. CASE FindPair
    BY <1>2, <2>28 DEF FindPair
  <2>29. CASE CopyIds
    BY <1>2, <2>29 DEF CopyIds
  <2>30. CASE Cancel
    BY <1>2, <2>30 DEF Cancel, Ledger!LNext, Ledger!Close
  <2>31. CASE LookupCancelled
    BY <1>2, <2>31 DEF LookupCancelled
  <2>32. CASE CancelOrdersDone
    BY <1>2, <2>32 DEF CancelOrdersDone
  <2>33. CASE PlaceLevel
    BY <1>2, <2>33 DEF PlaceLevel, Ledger!LNext, Ledger!Open
  <2>34. CASE PlaceRefused
    BY <1>2, <2>34 DEF PlaceRefused, Ledger!LNext, Ledger!Open
  <2>35. CASE PlaceOrderDone
    BY <1>2, <2>35 DEF PlaceOrderDone
  <2>36. CASE BeginCancelOrders
    BY <1>2, <2>36 DEF BeginCancelOrders
  <2>37. CASE BeginPlaceOrder
    BY <1>2, <2>37 DEF BeginPlaceOrder
  <2>38. CASE Destroy
    BY <1>2, <2>38 DEF Destroy
  <2>39. CASE Crash
    BY <1>2, <2>39 DEF Crash
  <2>40. CASE Exchange
    BY <1>2, <2>40 DEF Exchange, ForeignPlace, ForeignCancel, Fill, Ledger!LNext,
       Ledger!Open, Ledger!Close, Ledger!Execute
  <2>41. CASE UNCHANGED vars
    BY <1>2, <2>41 DEF vars
  <2>. QED
    BY <1>2, <2>1, <2>2, <2>3, <2>4, <2>5, <2>6, <2>7, <2>8, <2>9, <2>10, <2>11,
       <2>12, <2>13, <2>14, <2>15, <2>16, <2>17, <2>18, <2>19, <2>20, <2>21, <2>22,
       <2>23, <2>24, <2>25, <2>26, <2>27, <2>28, <2>29, <2>30, <2>31, <2>32, <2>33,
       <2>34, <2>35, <2>36, <2>37, <2>38, <2>39, <2>40, <2>41
    DEF Next, Om, Sm, SmCall, AddOrRemove
<1>. QED
  BY <1>1, <1>2, RemoverInvariant, RealInvariant, OwnInvariant, PTL
  DEF Spec, ImplementsLedger, Ledger!LSpec

\* What HedgeLedger promises makes its book sound, whoever implements it.
LEMMA PromiseIsSound == Ledger!LSpec => []Ledger!Sound
<1>1. Ledger!LInit => Ledger!Sound
  BY DEF Ledger!LInit, Ledger!Sound
<1>2. Ledger!Sound /\ [Ledger!LNext]_(Ledger!lvars) => Ledger!Sound'
  <2> SUFFICES ASSUME Ledger!Sound, [Ledger!LNext]_(Ledger!lvars) PROVE Ledger!Sound'
    OBVIOUS
  <2> USE DEF Ledger!Sound, Ledger!mm2, Ledger!book, Ledger!ledger
  <2>1. ASSUME NEW id \in OrderIds,
               \/ Ledger!Open(id) \/ Ledger!Close(id) \/ Ledger!Track(id) \/ Ledger!Forget(id)
        PROVE  Ledger!Sound'
    BY <2>1 DEF Ledger!Open, Ledger!Close, Ledger!Track, Ledger!Forget
  <2>2. ASSUME NEW id \in OrderIds, Ledger!Drop(id) PROVE Ledger!Sound'
    BY <2>2 DEF Ledger!Drop
  <2>3. ASSUME NEW e \in ExecIds, Ledger!Accept(e) \/ Ledger!Send(e) PROVE Ledger!Sound'
    BY <2>3 DEF Ledger!Accept, Ledger!Send
  <2>4. ASSUME NEW e \in ExecIds, NEW id \in OrderIds, Ledger!Execute(e, id)
        PROVE  Ledger!Sound'
    BY <2>4 DEF Ledger!Execute
  <2>5. CASE Ledger!Deliver
    BY <2>5 DEF Ledger!Deliver
  <2>6. CASE UNCHANGED Ledger!lvars
    BY <2>6 DEF Ledger!lvars
  <2> QED
    BY <2>1, <2>2, <2>3, <2>4, <2>5, <2>6 DEF Ledger!LNext
<1> QED
  BY <1>1, <1>2, PTL DEF Ledger!LSpec

\* So, with one remover, the CEX has nothing that did not happen on mm2, orders_ nothing
\* that mm2 did not issue, and what poll mirrors again went out of executions_ with an
\* order of its own that is off the book.
THEOREM HedgesAreSound == ASSUME OneRemover PROVE Spec => []Ledger!Sound
  BY LedgerRefinement, PromiseIsSound DEF ImplementsLedger

\* When returned orders carry no executions, as with the class dex, no execution is
\* mirrored twice, and none that start() loaded is.
THEOREM MirrorOnce == ASSUME DetailSeen = FALSE PROVE Spec => []MirrorsOnlyNew
<1>1. OneRemover
  BY DEF OneRemover
<1>2. OnlyReal /\ Ledger!Sound => MirrorsOnlyNew
  <2>. SUFFICES ASSUME OnlyReal, Ledger!Sound, pc["om"] = "mirror"
                PROVE  ex \cap (mirrored \cup baseline) = {}
    BY DEF MirrorsOnlyNew
  <2>1. \A id \in OrderIds : TakenAlong[id] = {}
    BY DEF TakenAlong
  <2>. QED
    BY <2>1 DEF Ledger!Sound, LiveOrders
<1>. QED
  BY <1>1, <1>2, HedgesAreSound, RealInvariant, PTL
===============================================================================
