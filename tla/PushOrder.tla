------------------------------ MODULE PushOrder ------------------------------
(***************************************************************************)
(* IOFWriteJob with a history variable that records the order in which     *)
(* parcels entered the queues, to say in which order their blocks are      *)
(* written.                                                                *)
(***************************************************************************)
EXTENDS IOFWriteJob

VARIABLE order      \* history: the parcels pushed, oldest first

JustPushed == pushed' \ pushed

OrderInit == Init /\ order = <<>>

OrderNext ==
    /\ Next
    /\ \/ JustPushed = {} /\ UNCHANGED order
       \/ \E p \in JustPushed : order' = Append(order, p)

OrderSpec == OrderInit /\ [][OrderNext]_<<vars, order>>

OrderFairSpec == OrderSpec /\ Fairness

(***************************************************************************)
(* The deployment in which order can be kept: a queue has one source task, *)
(* and the ranks that write one block are of one node, so that MY_SERVER   *)
(* sends its parcels to one queue.                                         *)
(***************************************************************************)
OneTaskPerQueue == IsInjective(Serves)

OneQueuePerBlock ==
    \A p, q \in Parcel : BlockOf[p] = BlockOf[q] => HomeOf[p] = HomeOf[q]
-----------------------------------------------------------------------------
(***************************************************************************)
(* In that deployment parcels for one block are written in the order in    *)
(* which they were pushed, so a block never goes back to what an earlier   *)
(* parcel published.                                                       *)
(***************************************************************************)
BlocksFollowPushOrder ==
    \A i, j \in DOMAIN order :
        (i < j /\ BlockOf[order[i]] = BlockOf[order[j]] /\ order[j] \in Written) =>
            /\ order[i] \in Written
            /\ storage[BlockOf[order[i]]] # order[i]
=============================================================================
