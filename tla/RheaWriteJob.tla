---------------------------- MODULE RheaWriteJob ----------------------------
(***************************************************************************)
(* Job 0 of librhea_job: RheaWriteQueueSourceTask, RheaKeyByTask and       *)
(* RheaWriteSinkTask.  A source task spools each popped parcel to a        *)
(* temporary file and emits it; the key-by task picks a sink by the hash   *)
(* of the parcel's id_; the sink reads the temporary file back, removes    *)
(* it, writes the target block and marks the parcel DONE.                  *)
(*                                                                         *)
(* The temporary file of a parcel is named after its id_ and position_,    *)
(* that is after its block, and not after its unique_id.                   *)
(***************************************************************************)
EXTENDS WriteClient

CONSTANTS
    Sink,       \* the sink tasks
    KeyOf       \* KeyOf[b]: the sink the hash of the id_ of block b selects

ASSUME SinkAssumption == KeyOf \in [Block -> Sink]

VARIABLES
    temp,       \* the temporary file of each block
    toKeyBy,    \* parcels emitted and not yet keyed
    toSink,     \* toSink[s]: parcels keyed to sink s and not yet taken
    sink,       \* where a sink is in Run
    event,      \* the parcel a sink is running
    buffer      \* what the sink read back

jobVars == <<temp, toKeyBy, toSink, sink, event, buffer>>
vars == <<storeVars, clientVars, sourceVars, terminated, jobVars>>

SourceState == {"poll", "drain", "load", "delete", "status", "emit", "stopped"}
SinkState == {"idle", "remove", "write", "done"}

TypeOK ==
    /\ ClientTypeOK
    /\ task \in [Collector -> SourceState]
    /\ temp \in [Block -> Held]
    /\ toKeyBy \in SUBSET Parcel
    /\ toSink \in [Sink -> SUBSET Parcel]
    /\ sink \in [Sink -> SinkState]
    /\ event \in [Sink -> Parcel \cup {Nothing}]
    /\ buffer \in [Sink -> Held]

Init ==
    /\ ClientInit
    /\ temp = [b \in Block |-> Nothing]
    /\ toKeyBy = {}
    /\ toSink = [s \in Sink |-> {}]
    /\ sink = [s \in Sink |-> "idle"]
    /\ event = [s \in Sink |-> Nothing]
    /\ buffer = [s \in Sink |-> Nothing]
-----------------------------------------------------------------------------
(***************************************************************************)
(* The for loop of the source task.  GetData and the write of the          *)
(* temporary file are one step: between them only this task touches the    *)
(* parcel's warehouse entry, and only the local variable data is set.      *)
(***************************************************************************)
Current(c) == Head(batch[c])

Advance(c, from, to) ==
    /\ task[c] = from
    /\ batch[c] # <<>>
    /\ task' = [task EXCEPT ![c] = to]

\* mutant: the payload is deleted before it is read
SpoolAfterDelete(c) ==
    LET p == Current(c) IN
    /\ Advance(c, "load", "delete")
    /\ warehouse' = Erase(warehouse, p)
    /\ temp' = [temp EXCEPT ![BlockOf[p]] = Fetched(warehouse'[p])]
    /\ UNCHANGED <<parselState, storage, clientVars, batch, terminated,
                   toKeyBy, toSink, sink, event, buffer>>

SpoolTemp(c) ==
    LET p == Current(c) IN
    /\ Advance(c, "load", "delete")
    /\ temp' = [temp EXCEPT ![BlockOf[p]] = Fetched(warehouse[p])]
    /\ UNCHANGED <<storeVars, clientVars, batch, terminated,
                   toKeyBy, toSink, sink, event, buffer>>

DeleteData(c) ==
    /\ Advance(c, "delete", "status")
    /\ warehouse' = Erase(warehouse, Current(c))
    /\ UNCHANGED <<parselState, storage, clientVars, batch, terminated, jobVars>>

MarkInProgress(c) ==
    /\ Advance(c, "status", "emit")
    /\ parselState' = Put(parselState, Current(c), "IN_PROGRESS")
    /\ UNCHANGED <<warehouse, storage, clientVars, batch, terminated, jobVars>>

\* mutant: the rest of the batch is forgotten
EmitDropsRest(c) ==
    /\ Advance(c, "emit", "poll")
    /\ toKeyBy' = toKeyBy \cup {Current(c)}
    /\ batch' = [batch EXCEPT ![c] = <<>>]
    /\ UNCHANGED <<storeVars, clientVars, terminated,
                   temp, toSink, sink, event, buffer>>

Emit(c) ==
    /\ Advance(c, "emit", IF Tail(batch[c]) = <<>> THEN "poll" ELSE "load")
    /\ toKeyBy' = toKeyBy \cup {Current(c)}
    /\ batch' = [batch EXCEPT ![c] = Tail(@)]
    /\ UNCHANGED <<storeVars, clientVars, terminated,
                   temp, toSink, sink, event, buffer>>

\* mutant: the parcel is emitted before it is marked IN_PROGRESS
EmitFirst(c) ==
    /\ Advance(c, "status", "emit")
    /\ toKeyBy' = toKeyBy \cup {Current(c)}
    /\ UNCHANGED <<storeVars, clientVars, batch, terminated,
                   temp, toSink, sink, event, buffer>>

MarkLate(c) ==
    /\ Advance(c, "emit", IF Tail(batch[c]) = <<>> THEN "poll" ELSE "load")
    /\ parselState' = Put(parselState, Current(c), "IN_PROGRESS")
    /\ batch' = [batch EXCEPT ![c] = Tail(@)]
    /\ UNCHANGED <<warehouse, storage, clientVars, terminated, jobVars>>

SourceStepEmitsFirst(c) ==
    \/ GetWriteParsel(c) /\ UNCHANGED jobVars
    \/ SpoolTemp(c) \/ DeleteData(c) \/ EmitFirst(c) \/ MarkLate(c)

SourceStep(c) ==
    \/ GetWriteParsel(c) /\ UNCHANGED jobVars
    \/ SpoolTemp(c) \/ DeleteData(c) \/ MarkInProgress(c) \/ Emit(c)

(***************************************************************************)
(* RheaKeyByTask::Run.  Events in flight overtake one another.             *)
(***************************************************************************)
KeyBy(p) ==
    LET s == KeyOf[BlockOf[p]] IN
    /\ p \in toKeyBy
    /\ toKeyBy' = toKeyBy \ {p}
    /\ toSink' = [toSink EXCEPT ![s] = @ \cup {p}]
    /\ UNCHANGED <<storeVars, clientVars, sourceVars, terminated,
                   temp, sink, event, buffer>>

(***************************************************************************)
(* RheaWriteSinkTask::Run.  A missing temporary file leaves the resized    *)
(* buffer as it was.  The client object the sink builds to mark the parcel *)
(* is not an application: it submits nothing.                              *)
(***************************************************************************)
ReadTemp(s, p) ==
    /\ sink[s] = "idle"
    /\ p \in toSink[s]
    /\ toSink' = [toSink EXCEPT ![s] = @ \ {p}]
    /\ event' = [event EXCEPT ![s] = p]
    /\ buffer' = [buffer EXCEPT ![s] = Fetched(temp[BlockOf[p]])]
    /\ sink' = [sink EXCEPT ![s] = "remove"]
    /\ UNCHANGED <<storeVars, clientVars, sourceVars, terminated, temp, toKeyBy>>

\* mutant: the parcel is DONE as soon as its temporary file is gone
RemoveMarksDone(s) ==
    /\ sink[s] = "remove"
    /\ temp' = [temp EXCEPT ![BlockOf[event[s]]] = Nothing]
    /\ parselState' = Put(parselState, event[s], "DONE")
    /\ sink' = [sink EXCEPT ![s] = "write"]
    /\ UNCHANGED <<warehouse, storage, clientVars, sourceVars, terminated,
                   toKeyBy, toSink, event, buffer>>

RemoveTemp(s) ==
    /\ sink[s] = "remove"
    /\ temp' = [temp EXCEPT ![BlockOf[event[s]]] = Nothing]
    /\ sink' = [sink EXCEPT ![s] = "write"]
    /\ UNCHANGED <<storeVars, clientVars, sourceVars, terminated,
                   toKeyBy, toSink, event, buffer>>

WriteTarget(s) ==
    /\ sink[s] = "write"
    /\ storage' = [storage EXCEPT ![BlockOf[event[s]]] = buffer[s]]
    /\ sink' = [sink EXCEPT ![s] = "done"]
    /\ UNCHANGED <<warehouse, parselState, clientVars, sourceVars, terminated,
                   temp, toKeyBy, toSink, event, buffer>>

MarkDone(s) ==
    /\ sink[s] = "done"
    /\ parselState' = Put(parselState, event[s], "DONE")
    /\ sink' = [sink EXCEPT ![s] = "idle"]
    /\ event' = [event EXCEPT ![s] = Nothing]
    /\ buffer' = [buffer EXCEPT ![s] = Nothing]
    /\ UNCHANGED <<warehouse, storage, clientVars, sourceVars, terminated,
                   temp, toKeyBy, toSink>>

SinkStep(s) ==
    \/ \E p \in Parcel : ReadTemp(s, p)
    \/ RemoveTemp(s) \/ WriteTarget(s) \/ MarkDone(s)
-----------------------------------------------------------------------------
Next ==
    \/ ClientNext /\ UNCHANGED jobVars
    \/ \E c \in Collector : SourceStep(c)
    \/ \E p \in Parcel : KeyBy(p)
    \/ \E s \in Sink : SinkStep(s)

Spec == Init /\ [][Next]_vars

(***************************************************************************)
(* Every thread keeps running: a rank inside a call, a source task's loop, *)
(* the workers that run the key-by and sink tasks.  Nothing obliges an     *)
(* application to publish, to wait or to finalize.                         *)
(***************************************************************************)
Fairness ==
    /\ \A p \in Parcel : WF_vars(ClientStep(p) /\ UNCHANGED jobVars)
    /\ \A c \in Collector : WF_vars(SourceStep(c))
    /\ \A p \in Parcel : WF_vars(KeyBy(p))
    /\ \A s \in Sink : WF_vars(SinkStep(s))

FairSpec == Spec /\ Fairness
-----------------------------------------------------------------------------
(***************************************************************************)
(* Who holds a parcel.                                                     *)
(***************************************************************************)
SinkFor(p) == KeyOf[BlockOf[p]]
InQueue(p) == p \in Range(writeQueue[HomeOf[p]])
InBatch(p, c) == p \in Range(batch[c])
AtSink(p) == p \in toSink[SinkFor(p)]
InSink(p) == event[SinkFor(p)] = p

\* p is the parcel task c is working on, and its temporary file is written
Spooled(p, c) ==
    /\ task[c] \in {"delete", "status", "emit"}
    /\ batch[c] # <<>>
    /\ p = Current(c)

Downstream(p) == p \in toKeyBy \/ AtSink(p) \/ InSink(p)
InFlight(p) == InQueue(p) \/ (\E c \in Collector : InBatch(p, c)) \/ Downstream(p)

(***************************************************************************)
(* A parcel is in one hand only, and once: no two source tasks pop it, it  *)
(* is not in a queue and with a sink at a time, and only the server of its *)
(* owner and the sink of its key ever hold it.  Two tasks draining one     *)
(* queue (GetWriteParsel) would otherwise write a block twice.             *)
(***************************************************************************)
OneHolder ==
    /\ \A s \in Server :
        /\ IsInjective(writeQueue[s])
        /\ \A p \in Range(writeQueue[s]) : HomeOf[p] = s
    /\ \A c \in Collector : IsInjective(batch[c])
    /\ \A p \in Parcel, c \in Collector : InBatch(p, c) =>
        /\ ~InQueue(p)
        /\ ~Downstream(p)
        /\ \A d \in Collector : InBatch(p, d) => d = c
    /\ \A p \in Parcel : InQueue(p) => ~Downstream(p)
    /\ \A p \in Parcel : p \in toKeyBy => ~AtSink(p) /\ ~InSink(p)
    /\ \A p \in Parcel : AtSink(p) => ~InSink(p)
    /\ \A p \in Parcel, s \in Sink :
        p \in toSink[s] \/ event[s] = p => s = SinkFor(p)

(***************************************************************************)
(* Where the payload of a parcel is while it is in each of the hands.      *)
(***************************************************************************)
QueuedData(p) == pc[p] = "pushing" \/ InQueue(p) => warehouse[p] = p

PoppedData(p, c) ==
    InBatch(p, c) =>
        IF Spooled(p, c) THEN temp[BlockOf[p]] = p ELSE warehouse[p] = p

EmittedData(p) == p \in toKeyBy \/ AtSink(p) => temp[BlockOf[p]] = p

SinkData(p) ==
    InSink(p) =>
        IF sink[SinkFor(p)] = "done" THEN storage[BlockOf[p]] = p
                                     ELSE buffer[SinkFor(p)] = p

StoredData(p) == p \in pushed /\ ~InFlight(p) => storage[BlockOf[p]] = p

(***************************************************************************)
(* The payload of an accepted parcel is where the next step of the         *)
(* pipeline will look for it: in the warehouse until the source task has   *)
(* spooled it, then in the temporary file, then in the sink's buffer, and  *)
(* in the block once the sink has let the parcel go.  So no sequence of    *)
(* deletions and removals (DeleteData, Remove) ever drops the last copy.   *)
(***************************************************************************)
DataInPlace ==
    \A p \in Parcel :
        /\ QueuedData(p)
        /\ \A c \in Collector : PoppedData(p, c)
        /\ EmittedData(p)
        /\ SinkData(p)
        /\ StoredData(p)

(***************************************************************************)
(* The record DONE, and so the return of Wait, means the block holds the   *)
(* parcel's data; and a Wait returns only for a parcel that was pushed.    *)
(***************************************************************************)
DoneIsDurable ==
    \A p \in Parcel :
        parselState[p] = "DONE" \/ pc[p] \in {"erasing", "acked"} =>
            /\ p \in pushed
            /\ ~InFlight(p)
            /\ storage[BlockOf[p]] = p

(***************************************************************************)
(* The only thing that ever takes a DONE record away before its waiter has *)
(* seen it is the record of the parcel's own Publish, arriving late.       *)
(***************************************************************************)
DoneLostOnlyToLateRecord ==
    [][\A p \in Parcel :
        parselState[p] = "DONE" /\ parselState'[p] # "DONE" =>
            pc[p] = "erasing" \/ (pc[p] = "recording" /\ pc'[p] = "published")]_vars

(***************************************************************************)
(* Every parcel that entered a queue reaches its block, unless the job is  *)
(* terminated while the parcel is still on its way.                        *)
(***************************************************************************)
PushedIsStored ==
    \A p \in Parcel :
        p \in pushed ~> (storage[BlockOf[p]] = p \/ terminated)

(***************************************************************************)
(* A Wait returns when the record of its Publish was made while the parcel *)
(* was still queued, that is before any task could mark it.                *)
(***************************************************************************)
TimelyRecordIsAcked ==
    \A p \in Parcel :
        (pc[p] = "waiting" /\ InQueue(p)) ~> (pc[p] = "acked" \/ terminated)

(***************************************************************************)
(* What multi_write relies on: a Wait after a Publish that entered the     *)
(* queue returns.                                                          *)
(***************************************************************************)
WaitReturns ==
    \A p \in Parcel :
        (pc[p] = "waiting" /\ p \in pushed) ~> (pc[p] = "acked" \/ terminated)

(***************************************************************************)
(* What test_collectors relies on: whatever a block holds was published    *)
(* for that block, also when several parcels address it at a time.         *)
(***************************************************************************)
BlocksHoldPublishedData ==
    \A b \in Block :
        storage[b] # Nothing =>
            storage[b] \in {p \in Parcel : BlockOf[p] = b}

(***************************************************************************)
(* The pushed parcels a sink has written.                                  *)
(***************************************************************************)
Written ==
    {p \in pushed : InFlight(p) => InSink(p) /\ sink[SinkFor(p)] = "done"}

(***************************************************************************)
(* The write job keeps the promise of DurableWrite when no two parcels in  *)
(* its care address one block.                                             *)
(***************************************************************************)
Durable == INSTANCE DurableWrite WITH
    accepted <- pushed,
    written <- Written,
    acked <- {p \in Parcel : pc[p] = "acked"},
    disk <- storage

ImplementsDurableWrite == Durable!Spec
=============================================================================
