--------------------------- MODULE ReadAfterWrite ---------------------------
(***************************************************************************)
(* An application that uses two clients, one of a write job (id 0) and one *)
(* of a read job (id 1), over one storage, and whose ranks read back what  *)
(* they published: Application, RheaWriteJob and RheaReadJob composed.     *)
(* The two jobs share the maps too, but under keys that never meet, so     *)
(* each has its part of them here: w for the published parcels, r for the  *)
(* subscribed ones.                                                        *)
(***************************************************************************)
EXTENDS Application

CONSTANTS
    Publication,    \* the parcels published
    Subscription,   \* the parcels subscribed
    ReadsBack,      \* ReadsBack[r]: the publication whose block r reads
    AwaitFirst,     \* TRUE: the rank waits for the publication before it reads
    Block, WriteBlockOf, WriteHomeOf, ReadHomeOf, WriteRankOf, ReadRankOf,
    WriteCollector, WriteServes, WriteSink, KeyOf,
    ReadCollector, ReadServes, ReadSink, Nothing, Blank

ASSUME ReadBackAssumption ==
    /\ ReadsBack \in [Subscription -> Publication]
    /\ AwaitFirst \in BOOLEAN

VARIABLES
    storage,
    wWarehouse, wState, writeQueue, wPc, pushed, wTerminated, wTask, wBatch,
    temp, toKeyBy, wToSink, wSink, wEvent, wBuffer,
    rWarehouse, rState, readQueue, rPc, after, subscribed, got, seen,
    rTerminated, rTask, rBatch, rToSink, rSink, rEvent, rBuffer

Server == 0 .. Services - 1
Rank == Process

W == INSTANCE RheaWriteJob WITH
    Parcel <- Publication, BlockOf <- WriteBlockOf, HomeOf <- WriteHomeOf,
    RankOf <- WriteRankOf, Payload <- Publication, Collector <- WriteCollector,
    Serves <- WriteServes, Sink <- WriteSink, warehouse <- wWarehouse,
    parselState <- wState, pc <- wPc, terminated <- wTerminated, task <- wTask,
    batch <- wBatch, toSink <- wToSink, sink <- wSink, event <- wEvent,
    buffer <- wBuffer

R == INSTANCE RheaReadJob WITH
    Parcel <- Subscription,
    BlockOf <- [r \in Subscription |-> WriteBlockOf[ReadsBack[r]]],
    HomeOf <- ReadHomeOf, RankOf <- ReadRankOf, Payload <- Publication,
    Collector <- ReadCollector, Serves <- ReadServes, Sink <- ReadSink,
    warehouse <- rWarehouse, parselState <- rState, pc <- rPc,
    terminated <- rTerminated, task <- rTask, batch <- rBatch,
    toSink <- rToSink, sink <- rSink, event <- rEvent, buffer <- rBuffer

ASSUME JobsAssumption ==
    /\ WriteBlockOf \in [Publication -> Block]
    /\ WriteHomeOf \in [Publication -> Server] /\ WriteRankOf \in [Publication -> Rank]
    /\ ReadHomeOf \in [Subscription -> Server] /\ ReadRankOf \in [Subscription -> Rank]
    /\ WriteServes \in [WriteCollector -> Server]
    /\ ReadServes \in [ReadCollector -> Server]
    /\ KeyOf \in [Block -> WriteSink]
    /\ Nothing \notin Publication \cup Subscription \cup W!TaskStatus
    /\ Blank \notin Publication \cup Subscription \cup {Nothing}

writeOnly == <<wWarehouse, wState, writeQueue, wPc, pushed, wTerminated, wTask,
               wBatch, temp, toKeyBy, wToSink, wSink, wEvent, wBuffer>>
readOnly == <<rWarehouse, rState, readQueue, rPc, after, subscribed, got,
              rTerminated, rTask, rBatch, rToSink, rSink, rEvent, rBuffer>>
vars == <<storage, writeOnly, readOnly, seen, appVars>>

Init == W!Init /\ R!ReadInit /\ AppInit
    /\ rWarehouse = [r \in Subscription |-> Nothing]
    /\ rState = [r \in Subscription |-> Nothing]

(***************************************************************************)
(* A rank calls a client while its program uses it, and pushes to the      *)
(* queue its configuration names then.  It reads a block back when its     *)
(* Publish has returned or, if it waits, when its Wait has.                *)
(***************************************************************************)
MayRead(r) ==
    wPc[ReadsBack[r]] \in IF AwaitFirst THEN {"acked"} ELSE {"published", "acked"}

WriteCallsInProgram ==
    \A w \in Publication : wPc'[w] # wPc[w] =>
        /\ Using(WriteRankOf[w], 0)
        /\ wPc[w] = "pushing" => config[WriteRankOf[w]].my = WriteHomeOf[w]

ReadCallsInProgram ==
    \A r \in Subscription : rPc'[r] # rPc[r] =>
        /\ Using(ReadRankOf[r], 1)
        /\ rPc[r] = "new" => MayRead(r) /\ config[ReadRankOf[r]].my = ReadHomeOf[r]

OutsideCalls(k) ==
    /\ \A w \in Publication : WriteRankOf[w] = k => wPc[w] \notin W!InCall
    /\ \A r \in Subscription : ReadRankOf[r] = k => rPc[r] \notin R!InCall

WriteJob == W!Next /\ R!Observe /\ UNCHANGED readOnly
ReadJob == R!JobNext /\ UNCHANGED writeOnly

(***************************************************************************)
(* A rank goes on in its program.  The job that rank 0 terminates is told  *)
(* by its sources' loop_cond_.                                             *)
(***************************************************************************)
RankStep(k) ==
    \/ TerminateJob(k) /\ Of(k) = 0 /\ WriteJob /\ wTerminated' # wTerminated
    \/ TerminateJob(k) /\ Of(k) = 1 /\ ReadJob /\ rTerminated' # rTerminated
    \/ /\ ProcessStep(k) /\ ~TerminateJob(k)
       /\ UNCHANGED <<storage, writeOnly, readOnly, seen>>

LeaveUse(k) ==
    /\ EndUse(k)
    /\ OutsideCalls(k)
    /\ UNCHANGED <<storage, writeOnly, readOnly, seen>>

Next ==
    \/ /\ WriteJob /\ wTerminated' = wTerminated
       /\ WriteCallsInProgram
       /\ UNCHANGED appVars
    \/ /\ ReadJob /\ rTerminated' = rTerminated
       /\ ReadCallsInProgram
       /\ UNCHANGED appVars
    \/ \E k \in Process : RankStep(k) \/ LeaveUse(k)

Spec == Init /\ [][Next]_vars

(***************************************************************************)
(* No rank stops in a constructor or in FinalizeClient on its own account. *)
(***************************************************************************)
FairSpec == Spec /\ \A k \in Process : WF_vars(RankStep(k))
-----------------------------------------------------------------------------
(***************************************************************************)
(* A rank that reads back a block is given what it published, when its     *)
(* Publish entered the queue.  The write and the read travel through       *)
(* different queues, tasks and containers; only the storage and the rank's *)
(* own order connect them.                                                 *)
(***************************************************************************)
ReadsOwnWrite ==
    \A r \in Subscription :
        got[r] # Nothing /\ ReadsBack[r] \in pushed => got[r] = ReadsBack[r]
=============================================================================
