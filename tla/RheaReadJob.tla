---------------------------- MODULE RheaReadJob ----------------------------
(***************************************************************************)
(* Job 1 of librhea_job and the client calls that feed it: Subscribe,      *)
(* AsyncSubscribe, Wait and GetSubscribedData, RheaReadQueueSourceTask and *)
(* RheaReadSinkTask.  Subscribe is a push to READ_QUEUE, a Wait and a      *)
(* fetch from the warehouse in one call; with AsyncSubscribe the           *)
(* application makes the same steps in calls of its own.                   *)
(***************************************************************************)
EXTENDS ParcelStore

CONSTANTS
    Collector,  \* the source tasks of the read job
    Serves,     \* Serves[c]: the server_id whose queue task c pops
    Sink        \* the sink tasks

ASSUME ReadAssumption == Serves \in [Collector -> Server]

VARIABLES
    readQueue,      \* READ_QUEUE: one FIFO per server
    pc,             \* where the owner of a parcel is
    after,          \* where it goes on when its Wait returns
    subscribed,     \* history: the parcels that entered readQueue
    got,            \* the caller's buffer
    seen,           \* history: what the block has held since the call began
    terminated,     \* TerminateJob has signalled loop_cond_ of every source
    task,           \* where a source task is in its loop
    batch,          \* the vector GetReadParsel returned, popped in order
    toSink,         \* parcels emitted and not yet taken by a sink
    sink,           \* where a sink is in Run
    event,          \* the parcel a sink is running
    buffer          \* what the sink read

callVars == <<pc, after, got>>
sourceVars == <<task, batch>>
sinkVars == <<sink, event, buffer>>
readVars == <<readQueue, callVars, subscribed, seen, terminated, sourceVars,
              toSink, sinkVars>>
vars == <<storeVars, readVars>>

(***************************************************************************)
(*   new       -> Subscribe, AsyncSubscribe   waiting  -> WaitPoll         *)
(*   pending   -> WaitBegin, GetSubscribedData                             *)
(*   ready     -> GetSubscribedData                                        *)
(*   erasing   -> WaitErase                   fetching -> Fetch            *)
(*   dropping  -> Drop                        done     -> WaitBegin        *)
(***************************************************************************)
InCall == {"waiting", "erasing", "fetching", "dropping"}
CallState == InCall \cup {"new", "pending", "ready", "done"}
SourceState == {"poll", "drain", "mark", "emit", "stopped"}
SinkState == {"idle", "put", "done"}

TypeOK ==
    /\ StoreTypeOK
    /\ readQueue \in [Server -> Seq(Parcel)]
    /\ pc \in [Parcel -> CallState]
    /\ after \in [Parcel -> {"fetching", "ready", "done"}]
    /\ subscribed \in SUBSET Parcel
    /\ got \in [Parcel -> Held]
    /\ seen \in [Parcel -> SUBSET Held]
    /\ terminated \in BOOLEAN
    /\ task \in [Collector -> SourceState]
    /\ batch \in [Collector -> Seq(Parcel)]
    /\ toSink \in SUBSET Parcel
    /\ sink \in [Sink -> SinkState]
    /\ event \in [Sink -> Parcel \cup {Nothing}]
    /\ buffer \in [Sink -> Held]

ReadInit ==
    /\ readQueue = [s \in Server |-> <<>>]
    /\ pc = [p \in Parcel |-> "new"]
    /\ after = [p \in Parcel |-> "done"]
    /\ subscribed = {}
    /\ got = [p \in Parcel |-> Nothing]
    /\ seen = [p \in Parcel |-> {}]
    /\ terminated = FALSE
    /\ task = [c \in Collector |-> "poll"]
    /\ batch = [c \in Collector |-> <<>>]
    /\ toSink = {}
    /\ sink = [s \in Sink |-> "idle"]
    /\ event = [s \in Sink |-> Nothing]
    /\ buffer = [s \in Sink |-> Nothing]

Init == StoreInit /\ ReadInit

Idle(r) == \A p \in Parcel : RankOf[p] = r => pc[p] \notin InCall
MayCall(p) == ~terminated /\ Idle(RankOf[p])
Goto(p, l) == pc' = [pc EXCEPT ![p] = l]
-----------------------------------------------------------------------------
(***************************************************************************)
(* The push both calls begin with.  A push that fails leaves the queue as  *)
(* it was; Subscribe goes on to its Wait all the same, and AsyncSubscribe  *)
(* reports it to an application that does not look.                        *)
(***************************************************************************)
PushRead(p) ==
    /\ pc[p] = "new"
    /\ MayCall(p)
    /\ seen' = [seen EXCEPT ![p] = {storage[BlockOf[p]]}]
    /\ \/ /\ readQueue' = [readQueue EXCEPT ![HomeOf[p]] = Append(@, p)]
          /\ subscribed' = subscribed \cup {p}
       \/ UNCHANGED <<readQueue, subscribed>>
    /\ UNCHANGED <<storeVars, got, terminated, sourceVars, toSink, sinkVars>>

Subscribe(p) ==
    /\ PushRead(p)
    /\ Goto(p, "waiting")
    /\ after' = [after EXCEPT ![p] = "fetching"]

AsyncSubscribe(p) ==
    /\ PushRead(p)
    /\ Goto(p, "pending")
    /\ UNCHANGED after

(***************************************************************************)
(* Wait, called for a parcel of AsyncSubscribe or, as single_write does,   *)
(* once more for a parcel that has been fetched.                           *)
(***************************************************************************)
WaitBegin(p) ==
    /\ pc[p] \in {"pending", "done"}
    /\ MayCall(p)
    /\ after' = [after EXCEPT ![p] = IF pc[p] = "pending" THEN "ready" ELSE "done"]
    /\ Goto(p, "waiting")
    /\ UNCHANGED <<storeVars, readQueue, subscribed, got, seen, terminated,
                   sourceVars, toSink, sinkVars>>

\* mutant: any record ends the wait
WaitPollAnyRecord(p) ==
    /\ pc[p] = "waiting"
    /\ parselState[p] # Nothing
    /\ Goto(p, "erasing")
    /\ UNCHANGED <<storeVars, readQueue, after, subscribed, got, seen, terminated,
                   sourceVars, toSink, sinkVars>>

WaitPoll(p) ==
    /\ pc[p] = "waiting"
    /\ parselState[p] = "DONE"
    /\ Goto(p, "erasing")
    /\ UNCHANGED <<storeVars, readQueue, after, subscribed, got, seen, terminated,
                   sourceVars, toSink, sinkVars>>

\* mutant: the record is set to NONE instead of being erased
WaitKeepsRecord(p) ==
    /\ pc[p] = "erasing"
    /\ parselState' = Put(parselState, p, "NONE")
    /\ Goto(p, after[p])
    /\ UNCHANGED <<warehouse, storage, readQueue, after, subscribed, got, seen,
                   terminated, sourceVars, toSink, sinkVars>>

WaitErase(p) ==
    /\ pc[p] = "erasing"
    /\ parselState' = Erase(parselState, p)
    /\ Goto(p, after[p])
    /\ UNCHANGED <<warehouse, storage, readQueue, after, subscribed, got, seen,
                   terminated, sourceVars, toSink, sinkVars>>

(***************************************************************************)
(* The copy at the end of Subscribe, made whether or not Get found an      *)
(* entry (an empty result copies no byte), and the one GetSubscribedData   *)
(* makes only when Get found it.  Both then erase the entry.               *)
(***************************************************************************)
CopyOut(p) ==
    /\ got' = [got EXCEPT ![p] = IF warehouse[p] = Nothing THEN @ ELSE warehouse[p]]
    /\ Goto(p, "dropping")
    /\ UNCHANGED <<storeVars, readQueue, after, subscribed, seen, terminated,
                   sourceVars, toSink, sinkVars>>

Fetch(p) == pc[p] = "fetching" /\ CopyOut(p)

GetSubscribedData(p) ==
    /\ pc[p] \in {"pending", "ready"}
    /\ MayCall(p)
    /\ warehouse[p] # Nothing
    /\ CopyOut(p)

\* mutant: the payload stays in the warehouse
DropNothing(p) ==
    /\ pc[p] = "dropping"
    /\ Goto(p, "done")
    /\ UNCHANGED <<storeVars, readQueue, after, subscribed, got, seen,
                   terminated, sourceVars, toSink, sinkVars>>

Drop(p) ==
    /\ pc[p] = "dropping"
    /\ warehouse' = Erase(warehouse, p)
    /\ Goto(p, "done")
    /\ UNCHANGED <<parselState, storage, readQueue, after, subscribed, got, seen,
                   terminated, sourceVars, toSink, sinkVars>>

FinalizeClient ==
    /\ ~terminated
    /\ \A r \in Rank : Idle(r)
    /\ terminated' = TRUE
    /\ UNCHANGED <<storeVars, readQueue, callVars, subscribed, seen, sourceVars,
                   toSink, sinkVars>>

ClientStep(p) == WaitPoll(p) \/ WaitErase(p) \/ Fetch(p) \/ Drop(p)

ClientCall(p) ==
    \/ Subscribe(p) \/ AsyncSubscribe(p)
    \/ WaitBegin(p) \/ GetSubscribedData(p)
-----------------------------------------------------------------------------
(***************************************************************************)
(* RheaReadQueueSourceTask::Run and GetReadParsel, as for the write queue. *)
(***************************************************************************)
sourceFrame == <<storeVars, callVars, subscribed, seen, terminated, sinkVars>>

Poll(c) ==
    /\ task[c] = "poll"
    /\ ~terminated
    /\ readQueue[Serves[c]] # <<>>
    /\ task' = [task EXCEPT ![c] = "drain"]
    /\ UNCHANGED <<sourceFrame, readQueue, batch, toSink>>

Pop(c) ==
    LET s == Serves[c] IN
    /\ task[c] = "drain"
    /\ readQueue[s] # <<>>
    /\ batch' = [batch EXCEPT ![c] = Append(@, Head(readQueue[s]))]
    /\ readQueue' = [readQueue EXCEPT ![s] = Tail(@)]
    /\ UNCHANGED <<sourceFrame, task, toSink>>

PopFails(c) ==
    /\ task[c] = "drain"
    /\ readQueue[Serves[c]] = <<>>
    /\ task' = [task EXCEPT ![c] = IF batch[c] = <<>> THEN "poll" ELSE "mark"]
    /\ UNCHANGED <<sourceFrame, readQueue, batch, toSink>>

Stop(c) ==
    /\ task[c] = "poll"
    /\ terminated
    /\ task' = [task EXCEPT ![c] = "stopped"]
    /\ UNCHANGED <<sourceFrame, readQueue, batch, toSink>>

MarkInProgress(c) ==
    /\ task[c] = "mark"
    /\ parselState' = Put(parselState, Head(batch[c]), "IN_PROGRESS")
    /\ task' = [task EXCEPT ![c] = "emit"]
    /\ UNCHANGED <<warehouse, storage, callVars, subscribed, seen, terminated,
                   sinkVars, readQueue, batch, toSink>>

\* mutant: the rest of the batch is forgotten
EmitDropsRest(c) ==
    /\ task[c] = "emit"
    /\ toSink' = toSink \cup {Head(batch[c])}
    /\ batch' = [batch EXCEPT ![c] = <<>>]
    /\ task' = [task EXCEPT ![c] = "poll"]
    /\ UNCHANGED <<sourceFrame, readQueue>>

Emit(c) ==
    /\ task[c] = "emit"
    /\ toSink' = toSink \cup {Head(batch[c])}
    /\ batch' = [batch EXCEPT ![c] = Tail(@)]
    /\ task' = [task EXCEPT ![c] = IF Tail(batch[c]) = <<>> THEN "poll" ELSE "mark"]
    /\ UNCHANGED <<sourceFrame, readQueue>>

SourceStep(c) ==
    \/ Poll(c) \/ Pop(c) \/ PopFails(c) \/ Stop(c)
    \/ MarkInProgress(c) \/ Emit(c)
-----------------------------------------------------------------------------
(***************************************************************************)
(* RheaReadSinkTask::Run: read the block, put what was read into the       *)
(* warehouse under the parcel's key, then mark the parcel DONE.            *)
(***************************************************************************)
sinkFrame == <<readQueue, callVars, subscribed, seen, terminated, sourceVars>>

\* mutant: the buffer is sized and never filled
ReadNothing(s, p) ==
    /\ sink[s] = "idle"
    /\ p \in toSink
    /\ toSink' = toSink \ {p}
    /\ event' = [event EXCEPT ![s] = p]
    /\ buffer' = [buffer EXCEPT ![s] = Blank]
    /\ sink' = [sink EXCEPT ![s] = "put"]
    /\ UNCHANGED <<storeVars, sinkFrame>>

ReadTarget(s, p) ==
    /\ sink[s] = "idle"
    /\ p \in toSink
    /\ toSink' = toSink \ {p}
    /\ event' = [event EXCEPT ![s] = p]
    /\ buffer' = [buffer EXCEPT ![s] = Fetched(storage[BlockOf[p]])]
    /\ sink' = [sink EXCEPT ![s] = "put"]
    /\ UNCHANGED <<storeVars, sinkFrame>>

PutData(s) ==
    /\ sink[s] = "put"
    /\ warehouse' = Put(warehouse, event[s], buffer[s])
    /\ sink' = [sink EXCEPT ![s] = "done"]
    /\ UNCHANGED <<parselState, storage, sinkFrame, toSink, event, buffer>>

MarkDone(s) ==
    /\ sink[s] = "done"
    /\ parselState' = Put(parselState, event[s], "DONE")
    /\ sink' = [sink EXCEPT ![s] = "idle"]
    /\ event' = [event EXCEPT ![s] = Nothing]
    /\ buffer' = [buffer EXCEPT ![s] = Nothing]
    /\ UNCHANGED <<warehouse, storage, sinkFrame, toSink>>

SinkStep(s) ==
    \/ \E p \in Parcel : ReadTarget(s, p)
    \/ PutData(s) \/ MarkDone(s)
-----------------------------------------------------------------------------
(***************************************************************************)
(* Somebody else writes a block: a write job, or whoever shares the files. *)
(* Observe keeps the history of what a subscriber may be given.            *)
(***************************************************************************)
Observe ==
    seen' = [p \in Parcel |->
        IF pc[p] = "new" \/ got[p] # Nothing THEN seen[p]
        ELSE seen[p] \cup {storage'[BlockOf[p]]}]

OthersWrite(b, x) ==
    /\ storage' = [storage EXCEPT ![b] = x]
    /\ Observe
    /\ UNCHANGED <<warehouse, parselState, readQueue, callVars, subscribed,
                   terminated, sourceVars, toSink, sinkVars>>

JobNext ==
    \/ \E p \in Parcel : ClientCall(p) \/ ClientStep(p)
    \/ FinalizeClient
    \/ \E c \in Collector : SourceStep(c)
    \/ \E s \in Sink : SinkStep(s)

Next ==
    \/ JobNext
    \/ \E b \in Block, x \in Payload : storage[b] # x /\ OthersWrite(b, x)

Spec == Init /\ [][Next]_vars

(***************************************************************************)
(* Ranks inside a call, source tasks and sinks keep running.               *)
(***************************************************************************)
Fairness ==
    /\ \A p \in Parcel : WF_vars(ClientStep(p))
    /\ \A c \in Collector : WF_vars(SourceStep(c))
    /\ \A s \in Sink : WF_vars(SinkStep(s))

FairSpec == Spec /\ Fairness
-----------------------------------------------------------------------------
(***************************************************************************)
(* A subscriber is given what its block held at some moment since its call *)
(* began: never an older content, never another block's, never bytes left  *)
(* over in the warehouse.                                                  *)
(***************************************************************************)
FreshRead ==
    \A p \in Parcel : got[p] # Nothing => got[p] \in {Fetched(x) : x \in seen[p]}

(***************************************************************************)
(* When Subscribe comes to its fetch, or an application that has waited to *)
(* GetSubscribedData, the data is there: the sink puts it before the DONE  *)
(* that ends the Wait.                                                     *)
(***************************************************************************)
DoneHasData ==
    \A p \in Parcel :
        \/ parselState[p] = "DONE" /\ pc[p] \in {"waiting", "pending"}
        \/ pc[p] = "erasing" /\ after[p] # "done"
        \/ pc[p] \in {"fetching", "ready"}
        => warehouse[p] # Nothing \/ got[p] # Nothing

(***************************************************************************)
(* A Subscribe leaves nothing behind in the containers, however often the  *)
(* rank reads: its payload and its record are gone when it returns.        *)
(***************************************************************************)
SubscribeCleansUp ==
    \A p \in Parcel :
        (pc[p] = "done" /\ after[p] = "fetching") =>
            warehouse[p] = Nothing /\ parselState[p] = Nothing

(***************************************************************************)
(* A first Wait of a parcel that entered the queue returns, unless the job *)
(* is terminated meanwhile.                                                *)
(***************************************************************************)
FirstWaitReturns ==
    \A p \in Parcel :
        (pc[p] = "waiting" /\ after[p] # "done" /\ p \in subscribed)
            ~> (pc[p] # "waiting" \/ terminated)

(***************************************************************************)
(* What single_write relies on: a Wait after a Subscribe returns too.      *)
(***************************************************************************)
WaitAfterSubscribeReturns ==
    \A p \in Parcel :
        (pc[p] = "waiting" /\ after[p] = "done" /\ p \in subscribed)
            ~> (pc[p] # "waiting" \/ terminated)
=============================================================================
