---------------------------- MODULE IOFWriteJob ----------------------------
(***************************************************************************)
(* Jobs 2, 3 and 4 of librhea_job: the source task alone, which writes     *)
(* every popped parcel straight to its target block and marks it DONE.     *)
(* The emit at the end of the loop has no link to send the parcel to.      *)
(***************************************************************************)
EXTENDS WriteClient

vars == <<storeVars, clientVars, sourceVars, terminated>>

SourceState == {"poll", "drain", "load", "delete", "status", "stopped"}

TypeOK ==
    /\ ClientTypeOK
    /\ task \in [Collector -> SourceState]

Init == ClientInit
-----------------------------------------------------------------------------
(***************************************************************************)
(* The for loop of the source task.  As in RheaWriteJob, GetData and the   *)
(* write that follows it are one step.                                     *)
(***************************************************************************)
Current(c) == Head(batch[c])

Advance(c, from, to) ==
    /\ task[c] = from
    /\ batch[c] # <<>>
    /\ task' = [task EXCEPT ![c] = to]

\* mutant: the payload is deleted before it is read
WriteAfterDelete(c) ==
    LET p == Current(c) IN
    /\ Advance(c, "load", "delete")
    /\ warehouse' = Erase(warehouse, p)
    /\ storage' = [storage EXCEPT ![BlockOf[p]] = Fetched(warehouse'[p])]
    /\ UNCHANGED <<parselState, clientVars, batch, terminated>>

WriteTarget(c) ==
    LET p == Current(c) IN
    /\ Advance(c, "load", "delete")
    /\ storage' = [storage EXCEPT ![BlockOf[p]] = Fetched(warehouse[p])]
    /\ UNCHANGED <<warehouse, parselState, clientVars, batch, terminated>>

DeleteData(c) ==
    /\ Advance(c, "delete", "status")
    /\ warehouse' = Erase(warehouse, Current(c))
    /\ UNCHANGED <<parselState, storage, clientVars, batch, terminated>>

\* mutant: the rest of the batch is forgotten
MarkDropsRest(c) ==
    /\ Advance(c, "status", "poll")
    /\ parselState' = Put(parselState, Current(c), "DONE")
    /\ batch' = [batch EXCEPT ![c] = <<>>]
    /\ UNCHANGED <<warehouse, storage, clientVars, terminated>>

MarkDone(c) ==
    /\ Advance(c, "status", IF Tail(batch[c]) = <<>> THEN "poll" ELSE "load")
    /\ parselState' = Put(parselState, Current(c), "DONE")
    /\ batch' = [batch EXCEPT ![c] = Tail(@)]
    /\ UNCHANGED <<warehouse, storage, clientVars, terminated>>

SourceStep(c) ==
    \/ GetWriteParsel(c)
    \/ WriteTarget(c) \/ DeleteData(c) \/ MarkDone(c)

Next ==
    \/ ClientNext
    \/ \E c \in Collector : SourceStep(c)

Spec == Init /\ [][Next]_vars

(***************************************************************************)
(* As in RheaWriteJob: threads keep running, applications owe nothing.     *)
(***************************************************************************)
Fairness ==
    /\ \A p \in Parcel : WF_vars(ClientStep(p))
    /\ \A c \in Collector : WF_vars(SourceStep(c))

FairSpec == Spec /\ Fairness
-----------------------------------------------------------------------------
(***************************************************************************)
(* The parcels whose write has happened: they have left the queue, and the *)
(* task that popped them, if it still has them, is past the write.         *)
(***************************************************************************)
InQueue(p) == p \in Range(writeQueue[HomeOf[p]])

Unwritten(p, c) ==
    /\ p \in Range(batch[c])
    /\ task[c] \in {"delete", "status"} => p # Current(c)

Written ==
    {p \in pushed : ~InQueue(p) /\ \A c \in Collector : ~Unwritten(p, c)}

(***************************************************************************)
(* The direct job keeps the promise of DurableWrite also when parcels      *)
(* share blocks: there is no temporary file to share.                      *)
(***************************************************************************)
Durable == INSTANCE DurableWrite WITH
    accepted <- pushed,
    written <- Written,
    acked <- {p \in Parcel : pc[p] = "acked"},
    disk <- storage

ImplementsDurableWrite == Durable!Spec

(***************************************************************************)
(* A parcel in a queue reaches its block, if only for the moment until the *)
(* next parcel for that block, unless the job is terminated meanwhile.     *)
(***************************************************************************)
PushedIsWritten ==
    \A p \in Parcel : InQueue(p) ~> (storage[BlockOf[p]] = p \/ terminated)
=============================================================================
