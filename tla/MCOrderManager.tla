---------------------------- MODULE MCOrderManager ----------------------------
(***************************************************************************)
(* Small instances of OrderManager.  The orders all trade one pair unless  *)
(* a run gives two; the first swap executes the first order.               *)
(***************************************************************************)
EXTENDS OrderManager

CONSTANTS o1, e1, p1

\* The first order trades the first pair, the second one the other if there is one
MCPairOf ==
    [id \in AllIds |->
        IF id = NoOrder THEN NoPair
        ELSE IF id = o1 \/ Pairs = {p1} THEN p1
        ELSE CHOOSE p \in Pairs : p # p1]
MCOrderOf == [e \in ExecIds |-> o1]
===============================================================================
