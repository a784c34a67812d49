---------------------------- MODULE WriteClient ----------------------------
(***************************************************************************)
(* The client half of a write: rhea::Client::Publish and Wait as an        *)
(* application rank runs them, FinalizeClient, and GetWriteParsel as the   *)
(* source tasks of a write job run it.  RheaWriteJob and IOFWriteJob add   *)
(* what their source tasks do with the parcels they popped.                *)
(*                                                                         *)
(* Every call on a basket container is one step, because other processes   *)
(* act on the same container between two of them.                          *)
(***************************************************************************)
EXTENDS ParcelStore

CONSTANTS
    Collector,  \* the source tasks of the write job
    Serves      \* Serves[c]: the server_id whose queue task c pops

\* the payload of a published parcel is identified with the parcel
ASSUME WriteAssumption ==
    /\ Serves \in [Collector -> Server]
    /\ Parcel \subseteq Payload

VARIABLES
    writeQueue,     \* WRITE_QUEUE: one FIFO per server
    pc,             \* where the owner of a parcel is in Publish or Wait
    pushed,         \* history: the parcels that entered writeQueue
    terminated,     \* TerminateJob has signalled loop_cond_ of every source
    task,           \* where a source task is in its loop
    batch           \* the vector GetWriteParsel returned, popped in order

clientVars == <<writeQueue, pc, pushed>>
sourceVars == <<task, batch>>

(***************************************************************************)
(*   new        -> PublishPut        refused     Publish returned false    *)
(*   pushing    -> PublishPush                   before the push           *)
(*   recording  -> PublishRecord     published   Publish is over, with or  *)
(*   waiting    -> WaitPoll                      without a record          *)
(*   erasing    -> WaitErase         acked       Wait returned             *)
(***************************************************************************)
InCall == {"pushing", "recording", "waiting", "erasing"}
ClientState == InCall \cup {"new", "refused", "published", "acked"}

ClientTypeOK ==
    /\ StoreTypeOK
    /\ writeQueue \in [Server -> Seq(Parcel)]
    /\ pc \in [Parcel -> ClientState]
    /\ pushed \in SUBSET Parcel
    /\ terminated \in BOOLEAN
    /\ batch \in [Collector -> Seq(Parcel)]

ClientInit ==
    /\ StoreInit
    /\ writeQueue = [s \in Server |-> <<>>]
    /\ pc = [p \in Parcel |-> "new"]
    /\ pushed = {}
    /\ terminated = FALSE
    /\ task = [c \in Collector |-> "poll"]
    /\ batch = [c \in Collector |-> <<>>]

(***************************************************************************)
(* A rank starts a call only when none of its parcels is inside one, and   *)
(* none after FinalizeClient.                                              *)
(***************************************************************************)
Idle(r) == \A p \in Parcel : RankOf[p] = r => pc[p] \notin InCall
MayCall(p) == ~terminated /\ Idle(RankOf[p])

Goto(p, l) == pc' = [pc EXCEPT ![p] = l]
-----------------------------------------------------------------------------
(***************************************************************************)
(* Publish: the payload first, then the queue, then the state.  Each call  *)
(* may report failure, after which the calls behind it are skipped and     *)
(* nothing already done is undone.                                         *)
(***************************************************************************)
PublishPut(p) ==
    /\ pc[p] = "new"
    /\ MayCall(p)
    /\ \/ /\ warehouse' = Put(warehouse, p, p)
          /\ Goto(p, "pushing")
       \/ /\ UNCHANGED warehouse
          /\ Goto(p, "refused")
    /\ UNCHANGED <<parselState, storage, writeQueue, pushed, terminated, sourceVars>>

PublishPush(p) ==
    /\ pc[p] = "pushing"
    /\ \/ /\ writeQueue' = [writeQueue EXCEPT ![HomeOf[p]] = Append(@, p)]
          /\ pushed' = pushed \cup {p}
          /\ Goto(p, "recording")
       \/ /\ UNCHANGED <<writeQueue, pushed>>
          /\ Goto(p, "refused")
    /\ UNCHANGED <<storeVars, terminated, sourceVars>>

PublishRecord(p) ==
    /\ pc[p] = "recording"
    /\ \/ parselState' = Put(parselState, p, "QUEUED")
       \/ UNCHANGED parselState
    /\ Goto(p, "published")
    /\ UNCHANGED <<warehouse, storage, writeQueue, pushed, terminated, sourceVars>>

(***************************************************************************)
(* Wait, which applications call whatever Publish returned.  A poll that   *)
(* does not see DONE sleeps and polls again: it changes nothing.           *)
(***************************************************************************)
WaitBegin(p) ==
    /\ pc[p] \in {"published", "refused"}
    /\ MayCall(p)
    /\ Goto(p, "waiting")
    /\ UNCHANGED <<storeVars, writeQueue, pushed, terminated, sourceVars>>

\* mutant: any record ends the wait
WaitPollAnyRecord(p) ==
    /\ pc[p] = "waiting"
    /\ parselState[p] # Nothing
    /\ Goto(p, "erasing")
    /\ UNCHANGED <<storeVars, writeQueue, pushed, terminated, sourceVars>>

WaitPoll(p) ==
    /\ pc[p] = "waiting"
    /\ parselState[p] = "DONE"
    /\ Goto(p, "erasing")
    /\ UNCHANGED <<storeVars, writeQueue, pushed, terminated, sourceVars>>

\* mutant: the record is set to NONE instead of being erased
WaitKeepsRecord(p) ==
    /\ pc[p] = "erasing"
    /\ parselState' = Put(parselState, p, "NONE")
    /\ Goto(p, "acked")
    /\ UNCHANGED <<warehouse, storage, writeQueue, pushed, terminated, sourceVars>>

WaitErase(p) ==
    /\ pc[p] = "erasing"
    /\ parselState' = Erase(parselState, p)
    /\ Goto(p, "acked")
    /\ UNCHANGED <<warehouse, storage, writeQueue, pushed, terminated, sourceVars>>

(***************************************************************************)
(* FinalizeClient: when every rank has reached the barrier, that is when   *)
(* none is inside a call, rank 0 terminates the job.  Nothing is drained.  *)
(***************************************************************************)
FinalizeClient ==
    /\ ~terminated
    /\ \A r \in Rank : Idle(r)
    /\ terminated' = TRUE
    /\ UNCHANGED <<storeVars, clientVars, sourceVars>>

ClientStep(p) ==
    \/ PublishPush(p) \/ PublishRecord(p)
    \/ WaitPoll(p) \/ WaitErase(p)

ClientNext ==
    \/ \E p \in Parcel : PublishPut(p) \/ WaitBegin(p) \/ ClientStep(p)
    \/ FinalizeClient
-----------------------------------------------------------------------------
(***************************************************************************)
(* The head of the loop of a source task and GetWriteParsel: a non-zero    *)
(* Size starts a loop of Pops that ends only when a Pop finds the queue    *)
(* empty, because the amount the loop tests is never decremented.          *)
(***************************************************************************)
Poll(c) ==
    /\ task[c] = "poll"
    /\ ~terminated
    /\ writeQueue[Serves[c]] # <<>>
    /\ task' = [task EXCEPT ![c] = "drain"]
    /\ UNCHANGED <<storeVars, clientVars, terminated, batch>>

\* mutant: the head stays in the queue while the batch is empty
PopPeeks(c) ==
    LET s == Serves[c] IN
    /\ task[c] = "drain"
    /\ writeQueue[s] # <<>>
    /\ batch' = [batch EXCEPT ![c] = Append(@, Head(writeQueue[s]))]
    /\ writeQueue' = [writeQueue EXCEPT ![s] = IF batch[c] = <<>> THEN @ ELSE Tail(@)]
    /\ UNCHANGED <<storeVars, pc, pushed, terminated, task>>

\* mutant: the newest parcel first
PopNewest(c) ==
    LET s == Serves[c]
        n == Len(writeQueue[s])
    IN
    /\ task[c] = "drain"
    /\ n > 0
    /\ batch' = [batch EXCEPT ![c] = Append(@, writeQueue[s][n])]
    /\ writeQueue' = [writeQueue EXCEPT ![s] = SubSeq(@, 1, n - 1)]
    /\ UNCHANGED <<storeVars, pc, pushed, terminated, task>>

Pop(c) ==
    LET s == Serves[c] IN
    /\ task[c] = "drain"
    /\ writeQueue[s] # <<>>
    /\ batch' = [batch EXCEPT ![c] = Append(@, Head(writeQueue[s]))]
    /\ writeQueue' = [writeQueue EXCEPT ![s] = Tail(@)]
    /\ UNCHANGED <<storeVars, pc, pushed, terminated, task>>

PopFails(c) ==
    /\ task[c] = "drain"
    /\ writeQueue[Serves[c]] = <<>>
    /\ task' = [task EXCEPT ![c] = IF batch[c] = <<>> THEN "poll" ELSE "load"]
    /\ UNCHANGED <<storeVars, clientVars, terminated, batch>>

Stop(c) ==
    /\ task[c] = "poll"
    /\ terminated
    /\ task' = [task EXCEPT ![c] = "stopped"]
    /\ UNCHANGED <<storeVars, clientVars, terminated, batch>>

GetWriteParsel(c) == Poll(c) \/ Pop(c) \/ PopFails(c) \/ Stop(c)
=============================================================================
