------------------------- MODULE IOFWriteJobProofs -------------------------
(***************************************************************************)
(* What the direct write jobs guarantee for every number of parcels,       *)
(* blocks, ranks, servers and source tasks.  Nothing is assumed of the     *)
(* blocks: parcels may share them.                                         *)
(***************************************************************************)
EXTENDS PushOrder, QueueLemmas

USE StoreAssumption, WriteAssumption DEF StoreAssumption, WriteAssumption
-----------------------------------------------------------------------------
(***************************************************************************)
(* TypeOK, one step per kind of action.                                    *)
(***************************************************************************)
LEMMA TypeInit == Init => TypeOK
<1>. SUFFICES ASSUME Init PROVE TypeOK
  OBVIOUS
<1>. USE DEF Init, ClientInit
<1>1. StoreTypeOK
  BY DEF StoreInit, StoreTypeOK, Held, TaskStatus
<1>2. writeQueue \in [Server -> Seq(Parcel)] /\ batch \in [Collector -> Seq(Parcel)]
  <2>1. <<>> \in Seq(Parcel)
    OBVIOUS
  <2>. QED BY <2>1
<1>3. pc \in [Parcel -> ClientState] /\ pushed \in SUBSET Parcel /\ terminated \in BOOLEAN
  BY DEF ClientState, InCall
<1>4. task \in [Collector -> SourceState]
  BY DEF SourceState
<1>. QED BY <1>1, <1>2, <1>3, <1>4 DEF TypeOK, ClientTypeOK

LEMMA ClientTypes ==
    ASSUME TypeOK, NEW p \in Parcel, PublishPut(p) \/ WaitBegin(p) \/ ClientStep(p)
    PROVE  TypeOK'
<1>. USE DEF TypeOK, ClientTypeOK, StoreTypeOK, storeVars, sourceVars, Goto, ClientState,
             InCall
<1>1. CASE PublishPut(p)
  <2>1. p \in Held
    BY DEF Held
  <2>2. warehouse' \in [Parcel -> Held]
    BY <1>1, <2>1 DEF PublishPut, Put
  <2>3. pc' \in [Parcel -> ClientState]
    BY <1>1 DEF PublishPut
  <2>. QED BY <1>1, <2>2, <2>3 DEF PublishPut
<1>2. CASE PublishPush(p)
  <2>1. HomeOf[p] \in Server /\ Append(writeQueue[HomeOf[p]], p) \in Seq(Parcel)
    OBVIOUS
  <2>2. writeQueue' \in [Server -> Seq(Parcel)]
    BY <1>2, <2>1 DEF PublishPush
  <2>3. pc' \in [Parcel -> ClientState] /\ pushed' \in SUBSET Parcel
    BY <1>2 DEF PublishPush
  <2>. QED BY <1>2, <2>2, <2>3 DEF PublishPush
<1>3. CASE PublishRecord(p)
  BY <1>3 DEF PublishRecord, Put, TaskStatus
<1>4. CASE WaitBegin(p) \/ WaitPoll(p) \/ WaitErase(p)
  BY <1>4 DEF WaitBegin, WaitPoll, WaitErase, Erase
<1>. QED BY <1>1, <1>2, <1>3, <1>4 DEF ClientStep

LEMMA SourceTypes == ASSUME TypeOK, NEW c \in Collector, SourceStep(c) PROVE TypeOK'
<1>. USE DEF TypeOK, ClientTypeOK, StoreTypeOK, storeVars, clientVars, SourceState, Advance
<1>1. CASE Poll(c) \/ PopFails(c) \/ Stop(c)
  BY <1>1 DEF Poll, PopFails, Stop
<1>2. CASE Pop(c)
  <2>. DEFINE s == Serves[c]
  <2>1. s \in Server /\ writeQueue[s] \in Seq(Parcel) /\ writeQueue[s] # <<>>
    BY <1>2 DEF Pop
  <2>2. Head(writeQueue[s]) \in Parcel /\ Tail(writeQueue[s]) \in Seq(Parcel)
    BY <2>1
  <2>3. writeQueue' \in [Server -> Seq(Parcel)] /\ batch' \in [Collector -> Seq(Parcel)]
    BY <1>2, <2>2 DEF Pop
  <2>. QED BY <1>2, <2>3 DEF Pop
<1>3. CASE WriteTarget(c)
  <2>1. Current(c) \in Parcel
    BY <1>3 DEF WriteTarget, Current
  <2>2. Fetched(warehouse[Current(c)]) \in Held
    BY <2>1 DEF Fetched, Held
  <2>. QED BY <1>3, <2>2 DEF WriteTarget
<1>4. CASE DeleteData(c)
  BY <1>4 DEF DeleteData, Erase, Held
<1>5. CASE MarkDone(c)
  <2>1. batch[c] \in Seq(Parcel) /\ batch[c] # <<>>
    BY <1>5 DEF MarkDone
  <2>2. Tail(batch[c]) \in Seq(Parcel)
    BY <2>1
  <2>. QED BY <1>5, <2>2 DEF MarkDone, Put, TaskStatus
<1>. QED BY <1>1, <1>2, <1>3, <1>4, <1>5 DEF SourceStep, GetWriteParsel

LEMMA TypeNext == TypeOK /\ [Next]_vars => TypeOK'
<1>. SUFFICES ASSUME TypeOK, [Next]_vars PROVE TypeOK'
  OBVIOUS
<1>1. CASE FinalizeClient \/ UNCHANGED vars
  BY <1>1 DEF FinalizeClient, vars, TypeOK, ClientTypeOK, StoreTypeOK, storeVars, clientVars,
              sourceVars
<1>. QED BY <1>1, ClientTypes, SourceTypes DEF Next, ClientNext

(***************************************************************************)
(* Every reachable state is well typed.                                    *)
(***************************************************************************)
THEOREM TypeCorrect == Spec => []TypeOK
BY TypeInit, TypeNext, PTL DEF Spec
-----------------------------------------------------------------------------
(***************************************************************************)
(* A pushed parcel is in a queue or in one batch, never twice, until its   *)
(* task has marked it; a parcel about to be pushed is in neither.          *)
(***************************************************************************)
InBatch(p, c) == p \in Range(batch[c])

OneHolder ==
    /\ \A s \in Server :
        /\ IsInjective(writeQueue[s])
        /\ \A p \in Range(writeQueue[s]) : HomeOf[p] = s
    /\ \A c \in Collector : IsInjective(batch[c])
    /\ \A p \in Parcel, c \in Collector : InBatch(p, c) =>
        ~InQueue(p) /\ \A d \in Collector : InBatch(p, d) => d = c

HeldArePushed ==
    \A p \in Parcel : InQueue(p) \/ (\E c \in Collector : InBatch(p, c)) => p \in pushed

OwnersArePast == \A p \in pushed : pc[p] \notin {"new", "pushing", "refused"}

HandInv == TypeOK /\ OneHolder /\ HeldArePushed /\ OwnersArePast

hands == <<writeQueue, batch>>

LEMMA HandInit == Init => HandInv
<1>. SUFFICES ASSUME Init PROVE HandInv
  OBVIOUS
<1>1. /\ \A s \in Server : Range(writeQueue[s]) = {} /\ IsInjective(writeQueue[s])
      /\ \A c \in Collector : Range(batch[c]) = {} /\ IsInjective(batch[c])
      /\ pushed = {}
  BY EmptyRange DEF Init, ClientInit
<1>. QED
  BY <1>1, TypeInit DEF HandInv, OneHolder, HeldArePushed, OwnersArePast, InQueue, InBatch

LEMMA SameHands ==
    ASSUME UNCHANGED hands
    PROVE  /\ OneHolder => OneHolder'
           /\ \A p \in Parcel : /\ InQueue(p)' <=> InQueue(p)
                                /\ \A c \in Collector : InBatch(p, c)' <=> InBatch(p, c)
BY DEF hands, OneHolder, InQueue, InBatch

(***************************************************************************)
(* The three moves: into the queue, from the queue into a batch, out of    *)
(* the batch.                                                              *)
(***************************************************************************)
LEMMA PushMoves ==
    ASSUME HandInv, NEW p \in Parcel, p \notin pushed, UNCHANGED batch,
           writeQueue' = [writeQueue EXCEPT ![HomeOf[p]] = Append(@, p)]
    PROVE  /\ OneHolder'
           /\ \A q \in Parcel : /\ InQueue(q)' <=> InQueue(q) \/ q = p
                                /\ \A c \in Collector : InBatch(q, c)' <=> InBatch(q, c)
<1>. DEFINE h == HomeOf[p]
<1>1. ~InQueue(p) /\ \A c \in Collector : ~InBatch(p, c)
  BY DEF HandInv, HeldArePushed
<1>2. h \in Server /\ writeQueue \in [Server -> Seq(Parcel)]
  BY DEF HandInv, TypeOK, ClientTypeOK
<1>3. /\ Range(writeQueue'[h]) = Range(writeQueue[h]) \cup {p}
      /\ IsInjective(writeQueue'[h])
      /\ \A s \in Server \ {h} : writeQueue'[s] = writeQueue[s]
  BY <1>1, <1>2, AppendRange DEF HandInv, OneHolder, InQueue
<1>4. \A q \in Parcel : /\ InQueue(q)' <=> InQueue(q) \/ q = p
                        /\ \A c \in Collector : InBatch(q, c)' <=> InBatch(q, c)
  BY <1>2, <1>3 DEF InQueue, InBatch
<1>5. \A s \in Server :
          /\ IsInjective(writeQueue'[s])
          /\ \A q \in Range(writeQueue'[s]) : HomeOf[q] = s
  BY <1>3 DEF HandInv, OneHolder
<1>. QED BY <1>1, <1>4, <1>5 DEF HandInv, OneHolder

LEMMA PopMoves ==
    ASSUME HandInv, NEW c \in Collector, Pop(c), NEW p, p = Head(writeQueue[Serves[c]])
    PROVE  /\ OneHolder' /\ p \in Parcel
           /\ InQueue(p) /\ \A d \in Collector : ~InBatch(p, d)
           /\ \A q \in Parcel :
                /\ InQueue(q)' <=> InQueue(q) /\ q # p
                /\ \A d \in Collector : InBatch(q, d)' <=> InBatch(q, d) \/ (q = p /\ d = c)
<1>. DEFINE h == Serves[c]
<1>1. /\ h \in Server /\ writeQueue \in [Server -> Seq(Parcel)] /\ writeQueue[h] # <<>>
      /\ batch \in [Collector -> Seq(Parcel)]
  BY DEF HandInv, TypeOK, ClientTypeOK, Pop
<1>2. /\ p \in Parcel /\ p \in Range(writeQueue[h]) /\ HomeOf[p] = h
      /\ Range(Tail(writeQueue[h])) = Range(writeQueue[h]) \ {p}
      /\ IsInjective(Tail(writeQueue[h]))
  BY <1>1, TailRange DEF HandInv, OneHolder
<1>3. InQueue(p) /\ \A d \in Collector : ~InBatch(p, d)
  BY <1>1, <1>2 DEF InQueue, HandInv, OneHolder
<1>4. /\ writeQueue'[h] = Tail(writeQueue[h])
      /\ \A s \in Server \ {h} : writeQueue'[s] = writeQueue[s]
      /\ batch'[c] = Append(batch[c], p)
      /\ \A d \in Collector \ {c} : batch'[d] = batch[d]
  BY <1>1 DEF Pop
<1>5. Range(batch'[c]) = Range(batch[c]) \cup {p} /\ IsInjective(batch'[c])
  BY <1>1, <1>2, <1>3, <1>4, AppendRange DEF HandInv, OneHolder, InBatch
<1>6. ASSUME NEW q \in Parcel PROVE InQueue(q)' <=> InQueue(q) /\ q # p
  <2>1. CASE HomeOf[q] = h
    BY <1>2, <1>4, <2>1 DEF InQueue
  <2>2. CASE HomeOf[q] # h
    BY <1>2, <1>4, <2>2 DEF InQueue
  <2>. QED BY <2>1, <2>2
<1>7. \A q \in Parcel, d \in Collector : InBatch(q, d)' <=> InBatch(q, d) \/ (q = p /\ d = c)
  BY <1>4, <1>5 DEF InBatch
<1>8. /\ \A s \in Server :
          /\ IsInjective(writeQueue'[s])
          /\ \A q \in Range(writeQueue'[s]) : HomeOf[q] = s
      /\ \A d \in Collector : IsInjective(batch'[d])
  BY <1>2, <1>4, <1>5 DEF HandInv, OneHolder
<1>9. OneHolder'
  BY <1>3, <1>6, <1>7, <1>8 DEF HandInv, OneHolder
<1>. QED BY <1>2, <1>3, <1>6, <1>7, <1>9

LEMMA MarkMoves ==
    ASSUME HandInv, NEW c \in Collector, MarkDone(c), NEW p, p = Current(c)
    PROVE  /\ OneHolder' /\ p \in Parcel /\ InBatch(p, c)
           /\ \A q \in Parcel :
                /\ InQueue(q)' <=> InQueue(q)
                /\ \A d \in Collector :
                      InBatch(q, d)' <=> InBatch(q, d) /\ (q = p => d # c)
<1>1. batch \in [Collector -> Seq(Parcel)] /\ batch[c] # <<>>
  BY DEF HandInv, TypeOK, ClientTypeOK, MarkDone, Advance
<1>2. /\ p \in Parcel /\ p \in Range(batch[c])
      /\ Range(Tail(batch[c])) = Range(batch[c]) \ {p}
      /\ IsInjective(Tail(batch[c]))
  BY <1>1, TailRange DEF HandInv, OneHolder, Current
<1>3. /\ batch'[c] = Tail(batch[c])
      /\ \A d \in Collector \ {c} : batch'[d] = batch[d]
      /\ UNCHANGED writeQueue
  BY <1>1 DEF MarkDone, clientVars
<1>4. \A q \in Parcel :
          /\ InQueue(q)' <=> InQueue(q)
          /\ \A d \in Collector : InBatch(q, d)' <=> InBatch(q, d) /\ (q = p => d # c)
  BY <1>2, <1>3 DEF InQueue, InBatch
<1>5. /\ \A s \in Server :
          /\ IsInjective(writeQueue'[s])
          /\ \A q \in Range(writeQueue'[s]) : HomeOf[q] = s
      /\ \A d \in Collector : IsInjective(batch'[d])
  BY <1>2, <1>3 DEF HandInv, OneHolder
<1>6. OneHolder'
  BY <1>4, <1>5 DEF HandInv, OneHolder
<1>. QED BY <1>2, <1>4, <1>6 DEF InBatch

LEMMA HandNext == HandInv /\ [Next]_vars => HandInv'
<1>. SUFFICES ASSUME HandInv, [Next]_vars
     PROVE  OneHolder' /\ HeldArePushed' /\ OwnersArePast'
  BY TypeNext DEF HandInv
<1>1. CASE UNCHANGED <<hands, pushed, pc>>
  BY <1>1, SameHands DEF HandInv, HeldArePushed, OwnersArePast
<1>2. ASSUME NEW p \in Parcel, PublishPut(p) \/ WaitBegin(p) \/ ClientStep(p)
      PROVE  OneHolder' /\ HeldArePushed' /\ OwnersArePast'
  <2>1. OwnersArePast'
    BY <1>2
    DEF HandInv, OwnersArePast, TypeOK, ClientTypeOK, Goto, PublishPut, WaitBegin, ClientStep,
        PublishPush, PublishRecord, WaitPoll, WaitErase
  <2>2. CASE UNCHANGED <<hands, pushed>>
    BY <2>1, <2>2, SameHands DEF HandInv, HeldArePushed
  <2>3. CASE PublishPush(p) /\ pushed' = pushed \cup {p}
             /\ writeQueue' = [writeQueue EXCEPT ![HomeOf[p]] = Append(@, p)]
    <3>1. p \notin pushed /\ UNCHANGED batch
      BY <2>3 DEF PublishPush, sourceVars, HandInv, OwnersArePast
    <3>. QED BY <2>1, <2>3, <3>1, PushMoves DEF HandInv, HeldArePushed
  <2>. QED
    BY <1>2, <2>2, <2>3
    DEF PublishPut, WaitBegin, ClientStep, PublishPush, PublishRecord, WaitPoll, WaitErase,
        hands, sourceVars
<1>3. ASSUME NEW c \in Collector, SourceStep(c)
      PROVE  OneHolder' /\ HeldArePushed' /\ OwnersArePast'
  <2>1. UNCHANGED <<pushed, pc>>
    BY <1>3 DEF SourceStep, GetWriteParsel, Poll, Pop, PopFails, Stop, WriteTarget,
                DeleteData, MarkDone, clientVars
  <2>2. CASE Pop(c) \/ MarkDone(c)
    BY <2>1, <2>2, PopMoves, MarkMoves DEF HandInv, HeldArePushed, OwnersArePast
  <2>. QED
    BY <1>1, <1>3, <2>1, <2>2
    DEF SourceStep, GetWriteParsel, Poll, PopFails, Stop, WriteTarget, DeleteData, hands,
        clientVars
<1>4. CASE FinalizeClient \/ UNCHANGED vars
  BY <1>1, <1>4 DEF FinalizeClient, vars, hands, clientVars, sourceVars
<1>. QED BY <1>2, <1>3, <1>4 DEF Next, ClientNext
-----------------------------------------------------------------------------
(***************************************************************************)
(* The payload is in the warehouse from the Put of Publish until its task  *)
(* deletes it, which is after the write, and only what is written is       *)
(* marked.                                                                 *)
(***************************************************************************)
Deleted(p, c) == task[c] = "status" /\ p = Current(c)

DataInPlace ==
    \A p \in Parcel :
        \/ pc[p] = "pushing" \/ InQueue(p)
        \/ \E c \in Collector : InBatch(p, c) /\ ~Deleted(p, c)
        => warehouse[p] = p

DoneIsWritten ==
    \A p \in Parcel :
        parselState[p] = "DONE" \/ pc[p] \in {"erasing", "acked"} => p \in Written

WriteInv == HandInv /\ DataInPlace /\ DoneIsWritten

Acked == {p \in Parcel : pc[p] = "acked"}

LEMMA WriteInit == Init => WriteInv /\ Durable!Init
<1>. SUFFICES ASSUME Init PROVE WriteInv /\ Durable!Init
  OBVIOUS
<1>1. \A p \in Parcel : ~InQueue(p) /\ \A c \in Collector : ~InBatch(p, c)
  BY EmptyRange DEF Init, ClientInit, InQueue, InBatch
<1>2. DataInPlace /\ DoneIsWritten
  BY <1>1 DEF Init, ClientInit, StoreInit, DataInPlace, DoneIsWritten, TaskStatus
<1>3. pushed = {} /\ Written = {} /\ {p \in Parcel : pc[p] = "acked"} = {}
  BY DEF Init, ClientInit, Written
<1>4. Durable!Init
  BY <1>3 DEF Init, ClientInit, StoreInit, Durable!Init
<1>. QED BY <1>2, <1>4, HandInit DEF WriteInv

(***************************************************************************)
(* Written, by what a step does to the hands.                              *)
(***************************************************************************)
LEMMA SameWritten ==
    ASSUME HandInv, pushed' = pushed,
           \A p \in Parcel : /\ InQueue(p)' <=> InQueue(p)
                             /\ \A c \in Collector : Unwritten(p, c)' <=> Unwritten(p, c)
    PROVE  Written' = Written
BY DEF Written, HandInv, TypeOK, ClientTypeOK

LEMMA QuietStep ==
    ASSUME WriteInv, UNCHANGED <<hands, task, pushed, storage, warehouse, parselState>>,
           \A p \in Parcel :
               /\ pc'[p] = "pushing" => pc[p] = "pushing"
               /\ pc'[p] = "erasing" => pc[p] = "erasing" \/ parselState[p] = "DONE"
               /\ pc'[p] = "acked" <=> pc[p] = "acked"
    PROVE  DataInPlace' /\ DoneIsWritten' /\ UNCHANGED Durable!vars
<1>1. \A p \in Parcel :
          /\ InQueue(p)' <=> InQueue(p)
          /\ \A c \in Collector : /\ InBatch(p, c)' <=> InBatch(p, c)
                                  /\ Deleted(p, c)' <=> Deleted(p, c)
                                  /\ Unwritten(p, c)' <=> Unwritten(p, c)
  BY SameHands DEF hands, Deleted, Unwritten, Current
<1>2. Written' = Written
  BY <1>1, SameWritten DEF WriteInv
<1>3. DataInPlace' /\ DoneIsWritten'
  BY <1>1, <1>2 DEF WriteInv, DataInPlace, DoneIsWritten
<1>4. Acked' = Acked
  BY DEF Acked
<1>. QED BY <1>2, <1>3, <1>4 DEF Durable!vars, Acked

LEMMA PublishSteps ==
    ASSUME WriteInv, NEW p \in Parcel, PublishPut(p) \/ PublishPush(p) \/ PublishRecord(p)
    PROVE  DataInPlace' /\ DoneIsWritten' /\ [Durable!Next]_(Durable!vars)
<1>. USE DEF WriteInv, HandInv, TypeOK, ClientTypeOK, StoreTypeOK, Goto, storeVars, sourceVars
<1>1. /\ UNCHANGED <<task, batch, storage>> /\ Acked' = Acked
      /\ \A q \in Parcel \ {p} : pc'[q] = pc[q]
      /\ pc[p] \in {"new", "pushing", "recording"}
      /\ pc'[p] \in {"pushing", "recording", "refused", "published"}
  BY DEF PublishPut, PublishPush, PublishRecord, Acked
<1>2. ASSUME UNCHANGED hands, UNCHANGED pushed
      PROVE  /\ Written' = Written
             /\ \A q \in Parcel :
                    /\ InQueue(q)' <=> InQueue(q)
                    /\ \A c \in Collector : /\ InBatch(q, c)' <=> InBatch(q, c)
                                            /\ Deleted(q, c)' <=> Deleted(q, c)
  <2>1. \A q \in Parcel :
            /\ InQueue(q)' <=> InQueue(q)
            /\ \A c \in Collector : /\ InBatch(q, c)' <=> InBatch(q, c)
                                    /\ Deleted(q, c)' <=> Deleted(q, c)
                                    /\ Unwritten(q, c)' <=> Unwritten(q, c)
    BY <1>1, <1>2, SameHands DEF Deleted, Unwritten, Current
  <2>. QED BY <1>2, <2>1, SameWritten
<1>3. CASE PublishPut(p)
  <2>1. UNCHANGED hands /\ UNCHANGED <<pushed, parselState>>
    BY <1>3 DEF PublishPut, hands
  <2>2. /\ \A q \in Parcel \ {p} : warehouse'[q] = warehouse[q]
        /\ pc'[p] = "pushing" => warehouse'[p] = p
    BY <1>3 DEF PublishPut, Put
  <2>3. ~InQueue(p) /\ \A c \in Collector : ~InBatch(p, c)
    BY <1>3 DEF PublishPut, HeldArePushed, OwnersArePast
  <2>4. DataInPlace' /\ DoneIsWritten'
    BY <1>1, <1>2, <2>1, <2>2, <2>3 DEF DataInPlace, DoneIsWritten
  <2>. QED BY <1>1, <1>2, <2>1, <2>4 DEF Durable!vars, Acked
<1>4. CASE PublishRecord(p)
  <2>1. /\ UNCHANGED hands /\ UNCHANGED <<pushed, warehouse>> /\ pc'[p] = "published"
        /\ \A q \in Parcel : parselState'[q] = "DONE" => parselState[q] = "DONE"
    BY <1>4 DEF PublishRecord, Put, hands
  <2>2. DataInPlace' /\ DoneIsWritten'
    BY <1>1, <1>2, <2>1 DEF DataInPlace, DoneIsWritten
  <2>. QED BY <1>1, <1>2, <2>1, <2>2 DEF Durable!vars, Acked
<1>5. CASE PublishPush(p) /\ UNCHANGED <<writeQueue, pushed>>
  <2>1. /\ UNCHANGED hands /\ UNCHANGED <<warehouse, parselState>>
        /\ pc[p] = "pushing"
    BY <1>1, <1>5 DEF PublishPush, hands
  <2>2. DataInPlace' /\ DoneIsWritten'
    BY <1>1, <1>2, <1>5, <2>1 DEF DataInPlace, DoneIsWritten
  <2>. QED BY <1>1, <1>2, <1>5, <2>1, <2>2 DEF Durable!vars, Acked
<1>6. CASE PublishPush(p) /\ pushed' = pushed \cup {p}
           /\ writeQueue' = [writeQueue EXCEPT ![HomeOf[p]] = Append(@, p)]
  <2>1. /\ pc[p] = "pushing" /\ p \notin pushed /\ UNCHANGED <<warehouse, parselState>>
    BY <1>6 DEF PublishPush, OwnersArePast
  <2>2. \A q \in Parcel : /\ InQueue(q)' <=> InQueue(q) \/ q = p
                          /\ \A c \in Collector : InBatch(q, c)' <=> InBatch(q, c)
    BY <1>1, <1>6, <2>1, PushMoves
  <2>3. \A q \in Parcel, c \in Collector : /\ Deleted(q, c)' <=> Deleted(q, c)
                                           /\ Unwritten(q, c)' <=> Unwritten(q, c)
    BY <1>1 DEF Deleted, Unwritten, Current
  <2>4. Written' = Written
    BY <1>6, <2>1, <2>2, <2>3 DEF Written
  <2>5. DataInPlace' /\ DoneIsWritten'
    BY <1>1, <2>1, <2>2, <2>3, <2>4 DEF DataInPlace, DoneIsWritten
  <2>6. Durable!Accept(p)
    BY <1>1, <1>6, <2>1, <2>4 DEF Durable!Accept, Acked
  <2>. QED BY <2>5, <2>6 DEF Durable!Next
<1>. QED BY <1>3, <1>4, <1>5, <1>6 DEF PublishPush

LEMMA WaitSteps ==
    ASSUME WriteInv, NEW p \in Parcel, WaitBegin(p) \/ WaitPoll(p) \/ WaitErase(p)
    PROVE  DataInPlace' /\ DoneIsWritten' /\ [Durable!Next]_(Durable!vars)
<1>. USE DEF WriteInv, HandInv, TypeOK, ClientTypeOK, StoreTypeOK, Goto, storeVars, sourceVars
<1>1. CASE WaitBegin(p) \/ WaitPoll(p)
  <2>1. /\ UNCHANGED <<hands, task, pushed, storage, warehouse, parselState>>
        /\ \A q \in Parcel :
               /\ pc'[q] = "pushing" => pc[q] = "pushing"
               /\ pc'[q] = "erasing" => pc[q] = "erasing" \/ parselState[q] = "DONE"
               /\ pc'[q] = "acked" <=> pc[q] = "acked"
    BY <1>1 DEF WaitBegin, WaitPoll, hands
  <2>. QED BY <2>1, QuietStep
<1>2. CASE WaitErase(p)
  <2>1. /\ UNCHANGED <<hands, task, pushed, storage, warehouse>>
        /\ pc[p] = "erasing" /\ pc' = [pc EXCEPT ![p] = "acked"]
        /\ \A q \in Parcel : parselState'[q] = "DONE" => parselState[q] = "DONE"
    BY <1>2 DEF WaitErase, Erase, hands, TaskStatus
  <2>2. \A q \in Parcel :
            /\ InQueue(q)' <=> InQueue(q)
            /\ \A c \in Collector : /\ InBatch(q, c)' <=> InBatch(q, c)
                                    /\ Deleted(q, c)' <=> Deleted(q, c)
                                    /\ Unwritten(q, c)' <=> Unwritten(q, c)
    BY <2>1, SameHands DEF hands, Deleted, Unwritten, Current
  <2>3. Written' = Written
    BY <2>1, <2>2, SameWritten
  <2>4. DataInPlace' /\ DoneIsWritten'
    BY <2>1, <2>2, <2>3 DEF DataInPlace, DoneIsWritten
  <2>5. p \in Written /\ p \notin Acked /\ Acked' = Acked \cup {p}
    BY <2>1 DEF DoneIsWritten, Acked
  <2>6. Durable!Ack(p)
    BY <2>1, <2>3, <2>5 DEF Durable!Ack, Acked
  <2>. QED BY <2>4, <2>6 DEF Durable!Next
<1>. QED BY <1>1, <1>2

(***************************************************************************)
(* The loop of a source task: taking parcels, writing, deleting, marking.  *)
(***************************************************************************)
LEMMA TakeSteps ==
    ASSUME WriteInv, NEW c \in Collector, GetWriteParsel(c)
    PROVE  DataInPlace' /\ DoneIsWritten' /\ UNCHANGED Durable!vars
<1>. USE DEF WriteInv, HandInv, TypeOK, ClientTypeOK, storeVars, clientVars
<1>1. /\ UNCHANGED <<pushed, pc, storage, warehouse, parselState>>
      /\ {task[c], task'[c]} \cap {"delete", "status"} = {}
      /\ \A d \in Collector \ {c} : task'[d] = task[d]
  BY DEF GetWriteParsel, Poll, Pop, PopFails, Stop
<1>2. CASE UNCHANGED hands
  <2>1. \A q \in Parcel :
            /\ InQueue(q)' <=> InQueue(q)
            /\ \A d \in Collector : /\ InBatch(q, d)' <=> InBatch(q, d)
                                    /\ Deleted(q, d)' <=> Deleted(q, d)
                                    /\ Unwritten(q, d)' <=> Unwritten(q, d)
    BY <1>1, <1>2, SameHands DEF hands, Deleted, Unwritten, Current
  <2>2. Written' = Written
    BY <1>1, <2>1, SameWritten
  <2>3. DataInPlace' /\ DoneIsWritten'
    BY <1>1, <2>1, <2>2 DEF DataInPlace, DoneIsWritten
  <2>. QED BY <1>1, <2>2, <2>3 DEF Durable!vars
<1>3. CASE Pop(c)
  <2>. DEFINE p == Head(writeQueue[Serves[c]])
  <2>1. /\ p \in Parcel /\ InQueue(p)
        /\ \A q \in Parcel :
              /\ InQueue(q)' <=> InQueue(q) /\ q # p
              /\ \A d \in Collector : InBatch(q, d)' <=> InBatch(q, d) \/ (q = p /\ d = c)
    BY <1>3, PopMoves
  <2>. HIDE DEF p
  <2>2. \A d \in Collector \ {c} : batch'[d] = batch[d]
    BY <1>3 DEF Pop
  <2>3. \A q \in Parcel, d \in Collector :
            /\ Deleted(q, d)' <=> Deleted(q, d)
            /\ Unwritten(q, d)' <=> Unwritten(q, d) \/ (q = p /\ d = c)
    <3>1. TAKE q \in Parcel, d \in Collector
    <3>2. CASE d = c
      BY <1>1, <2>1, <3>2 DEF Deleted, Unwritten, InBatch
    <3>3. CASE d # c
      BY <1>1, <2>2, <3>3 DEF Deleted, Unwritten, Current
    <3>. QED BY <3>2, <3>3
  <2>4. Written' = Written
    BY <1>1, <2>1, <2>3 DEF Written
  <2>5. DataInPlace' /\ DoneIsWritten'
    BY <1>1, <2>1, <2>3, <2>4 DEF DataInPlace, DoneIsWritten
  <2>. QED BY <1>1, <2>4, <2>5 DEF Durable!vars
<1>. QED BY <1>2, <1>3 DEF GetWriteParsel, Poll, PopFails, Stop, hands


LEMMA ParcelSteps ==
    ASSUME WriteInv, NEW c \in Collector, WriteTarget(c) \/ DeleteData(c) \/ MarkDone(c)
    PROVE  DataInPlace' /\ DoneIsWritten' /\ [Durable!Next]_(Durable!vars)
<1>. USE DEF WriteInv, HandInv, TypeOK, ClientTypeOK, clientVars
<1>. DEFINE p == Current(c)
<1>1. /\ UNCHANGED <<pushed, pc, writeQueue>>
      /\ task[c] \in {"load", "delete", "status"} /\ batch[c] # <<>>
      /\ \A d \in Collector \ {c} : task'[d] = task[d] /\ batch'[d] = batch[d]
  BY DEF WriteTarget, DeleteData, MarkDone, Advance
<1>2. /\ p \in Parcel /\ InBatch(p, c) /\ ~InQueue(p) /\ p \in pushed
      /\ pc[p] # "pushing"
      /\ \A d \in Collector \ {c} : ~InBatch(p, d)
  <2>1. p \in Parcel /\ InBatch(p, c)
    BY <1>1, TailRange DEF Current, InBatch
  <2>. HIDE DEF p
  <2>. QED BY <2>1 DEF OneHolder, HeldArePushed, OwnersArePast
<1>3. /\ p = Current(c)
      /\ \A q \in Parcel, d \in Collector \ {c} : /\ Deleted(q, d)' <=> Deleted(q, d)
                                                  /\ Unwritten(q, d)' <=> Unwritten(q, d)
      /\ \A q \in Parcel : InQueue(q)' <=> InQueue(q)
  BY <1>1 DEF Deleted, Unwritten, Current, InQueue
<1>. HIDE DEF p
<1>4. CASE WriteTarget(c)
  <2>1. /\ UNCHANGED <<hands, warehouse, parselState>>
        /\ task[c] = "load" /\ task'[c] = "delete" /\ Current(c)' = p
        /\ storage' = [storage EXCEPT ![BlockOf[p]] = Fetched(warehouse[p])]
    BY <1>3, <1>4 DEF WriteTarget, Advance, Current, hands
  <2>2. \A q \in Parcel, d \in Collector :
            /\ InBatch(q, d)' <=> InBatch(q, d)
            /\ Deleted(q, d)' <=> Deleted(q, d)
            /\ Unwritten(q, d)' <=> Unwritten(q, d) /\ (q = p => d # c)
    <3>1. \A q \in Parcel, d \in Collector : InBatch(q, d)' <=> InBatch(q, d)
      BY <2>1, SameHands
    <3>2. \A q \in Parcel : /\ Deleted(q, c)' <=> Deleted(q, c)
                            /\ Unwritten(q, c)' <=> Unwritten(q, c) /\ q # p
      BY <2>1 DEF Deleted, Unwritten, hands
    <3>. QED BY <1>2, <1>3, <3>1, <3>2 DEF InBatch, Unwritten
  <2>3. p \notin Written /\ Written' = Written \cup {p}
    <3>1. Unwritten(p, c)
      BY <1>2, <2>1 DEF Unwritten, InBatch
    <3>2. \A d \in Collector \ {c} : ~Unwritten(p, d)
      BY <1>2 DEF Unwritten, InBatch
    <3>. QED BY <1>1, <1>2, <1>3, <2>2, <3>1, <3>2 DEF Written
  <2>4. DataInPlace' /\ DoneIsWritten'
    BY <1>1, <1>3, <2>1, <2>2, <2>3 DEF DataInPlace, DoneIsWritten
  <2>5. Fetched(warehouse[p]) = p
    BY <1>2, <2>1 DEF DataInPlace, Deleted, Fetched
  <2>6. Durable!Write(p)
    BY <1>1, <1>2, <2>1, <2>3, <2>5 DEF Durable!Write
  <2>. QED BY <1>2, <2>4, <2>6 DEF Durable!Next
<1>5. CASE DeleteData(c)
  <2>1. /\ UNCHANGED <<hands, storage, parselState>>
        /\ task[c] = "delete" /\ task'[c] = "status" /\ Current(c)' = p
        /\ \A q \in Parcel \ {p} : warehouse'[q] = warehouse[q]
    BY <1>3, <1>5 DEF DeleteData, Advance, Current, Erase, StoreTypeOK, hands
  <2>2. \A q \in Parcel, d \in Collector :
            /\ InBatch(q, d)' <=> InBatch(q, d)
            /\ Deleted(q, d)' <=> Deleted(q, d) \/ (q = p /\ d = c)
            /\ Unwritten(q, d)' <=> Unwritten(q, d)
    <3>1. \A q \in Parcel, d \in Collector : InBatch(q, d)' <=> InBatch(q, d)
      BY <2>1, SameHands
    <3>2. \A q \in Parcel : /\ Deleted(q, c)' <=> q = p
                            /\ ~Deleted(q, c)
                            /\ Unwritten(q, c)' <=> Unwritten(q, c)
      BY <1>3, <2>1 DEF Deleted, Unwritten, hands
    <3>. QED BY <1>3, <3>1, <3>2
  <2>3. Written' = Written
    BY <1>1, <1>3, <2>2, SameWritten
  <2>4. DataInPlace'
    <3>1. ASSUME NEW q \in Parcel, q = p
          PROVE  /\ pc'[q] # "pushing" /\ ~InQueue(q)'
                 /\ \A d \in Collector : InBatch(q, d)' => Deleted(q, d)'
      BY <1>1, <1>2, <1>3, <2>2, <3>1
    <3>2. ASSUME NEW q \in Parcel, q # p,
                 \/ pc'[q] = "pushing" \/ InQueue(q)'
                 \/ \E d \in Collector : InBatch(q, d)' /\ ~Deleted(q, d)'
          PROVE  warehouse'[q] = q
      BY <1>1, <1>3, <2>1, <2>2, <3>2 DEF DataInPlace
    <3>. QED BY <3>1, <3>2 DEF DataInPlace
  <2>5. DoneIsWritten'
    BY <1>1, <2>1, <2>3 DEF DoneIsWritten
  <2>. QED BY <1>1, <2>1, <2>3, <2>4, <2>5 DEF Durable!vars
<1>6. CASE MarkDone(c)
  <2>1. /\ UNCHANGED <<storage, warehouse>>
        /\ task[c] = "status" /\ task'[c] \in {"poll", "load"}
        /\ parselState' = [parselState EXCEPT ![p] = "DONE"]
    BY <1>3, <1>6 DEF MarkDone, Advance, Put
  <2>2. \A q \in Parcel, d \in Collector :
            InBatch(q, d)' <=> InBatch(q, d) /\ (q = p => d # c)
    BY <1>3, <1>6, MarkMoves
  <2>3. \A q \in Parcel : /\ Deleted(q, c) <=> q = p
                          /\ Unwritten(q, c)' <=> Unwritten(q, c)
    BY <1>3, <2>1, <2>2 DEF Deleted, Unwritten, InBatch
  <2>4. Written' = Written /\ p \in Written
    <3>1. \A d \in Collector : ~Unwritten(p, d)
      BY <1>2, <1>3, <2>1 DEF Unwritten, InBatch
    <3>. QED BY <1>1, <1>2, <1>3, <2>3, <3>1, SameWritten DEF Written
  <2>5. DataInPlace'
    BY <1>1, <1>2, <1>3, <2>1, <2>2, <2>3 DEF DataInPlace
  <2>6. DoneIsWritten'
    BY <1>1, <2>1, <2>4 DEF DoneIsWritten, StoreTypeOK
  <2>. QED BY <1>1, <2>1, <2>4, <2>5, <2>6 DEF Durable!vars
<1>. QED BY <1>4, <1>5, <1>6

LEMMA WriteNext == WriteInv /\ [Next]_vars => WriteInv' /\ [Durable!Next]_(Durable!vars)
<1>. SUFFICES ASSUME WriteInv, [Next]_vars
     PROVE  DataInPlace' /\ DoneIsWritten' /\ [Durable!Next]_(Durable!vars)
  BY HandNext DEF WriteInv
<1>1. CASE FinalizeClient \/ UNCHANGED vars
  BY <1>1, QuietStep
  DEF FinalizeClient, vars, hands, storeVars, clientVars, sourceVars
<1>2. ASSUME NEW p \in Parcel, PublishPut(p) \/ WaitBegin(p) \/ ClientStep(p)
      PROVE  DataInPlace' /\ DoneIsWritten' /\ [Durable!Next]_(Durable!vars)
  BY <1>2, PublishSteps, WaitSteps DEF ClientStep
<1>3. ASSUME NEW c \in Collector, SourceStep(c)
      PROVE  DataInPlace' /\ DoneIsWritten' /\ [Durable!Next]_(Durable!vars)
  BY <1>3, TakeSteps, ParcelSteps DEF SourceStep
<1>. QED BY <1>1, <1>2, <1>3 DEF Next, ClientNext

(***************************************************************************)
(* Every accepted parcel is written once and whole, and acknowledged only  *)
(* after that, also when parcels share blocks.                             *)
(***************************************************************************)
THEOREM DirectWriteIsDurable == Spec => ImplementsDurableWrite
BY WriteInit, WriteNext, PTL DEF Spec, ImplementsDurableWrite, Durable!Spec
-----------------------------------------------------------------------------
(***************************************************************************)
(* The order in which parcels were pushed, as a set of pairs.  It is       *)
(* strict and total, and a push puts its parcel last.                      *)
(***************************************************************************)
Earlier ==
    {xy \in Parcel \X Parcel :
        \E i, j \in DOMAIN order : i < j /\ order[i] = xy[1] /\ order[j] = xy[2]}

OrderIsPushed ==
    /\ order \in Seq(Parcel)
    /\ IsInjective(order)
    /\ Range(order) = pushed

LEMMA EarlierIsOrder ==
    ASSUME OrderIsPushed
    PROVE  /\ \A x, y \in Parcel : <<x, y>> \in Earlier => /\ <<y, x>> \notin Earlier
                                                           /\ x \in pushed /\ y \in pushed
           /\ \A x, y \in pushed : <<x, y>> \in Earlier \/ <<y, x>> \in Earlier \/ x = y
<1>1. DOMAIN order = 1 .. Len(order) /\ Len(order) \in Nat
  BY DEF OrderIsPushed
<1>2. ASSUME NEW x \in Parcel, NEW y \in Parcel, <<x, y>> \in Earlier
      PROVE  <<y, x>> \notin Earlier /\ x \in pushed /\ y \in pushed
  <2>1. PICK i \in DOMAIN order, j \in DOMAIN order : i < j /\ order[i] = x /\ order[j] = y
    BY <1>2 DEF Earlier
  <2>2. x \in pushed /\ y \in pushed
    BY <2>1 DEF OrderIsPushed, Range
  <2>3. ASSUME <<y, x>> \in Earlier PROVE FALSE
    <3>1. PICK k \in DOMAIN order, l \in DOMAIN order : k < l /\ order[k] = y /\ order[l] = x
      BY <2>3 DEF Earlier
    <3>2. k = j /\ l = i
      BY <2>1, <3>1 DEF OrderIsPushed, IsInjective
    <3>. QED BY <1>1, <2>1, <3>1, <3>2
  <2>. QED BY <2>2, <2>3
<1>3. ASSUME NEW x \in pushed, NEW y \in pushed, x # y
      PROVE  <<x, y>> \in Earlier \/ <<y, x>> \in Earlier
  <2>1. PICK i \in DOMAIN order, j \in DOMAIN order : order[i] = x /\ order[j] = y
    BY DEF OrderIsPushed, Range
  <2>2. x \in Parcel /\ y \in Parcel
    BY <1>1, <2>1 DEF OrderIsPushed
  <2>3. i < j \/ j < i
    BY <1>1, <1>3, <2>1
  <2>. QED BY <2>1, <2>2, <2>3 DEF Earlier
<1>. QED BY <1>2, <1>3

LEMMA PushIsLast ==
    ASSUME OrderIsPushed, NEW p \in Parcel, p \notin pushed,
           pushed' = pushed \cup {p}, order' = Append(order, p)
    PROVE  /\ OrderIsPushed'
           /\ \A x, y \in Parcel :
                <<x, y>> \in Earlier' <=> <<x, y>> \in Earlier \/ (x \in pushed /\ y = p)
<1>1. /\ DOMAIN order = 1 .. Len(order) /\ Len(order) \in Nat
      /\ DOMAIN order' = 1 .. Len(order) + 1
      /\ \A i \in DOMAIN order : order'[i] = order[i] /\ order[i] \in pushed
      /\ order'[Len(order) + 1] = p
  BY DEF OrderIsPushed, Range
<1>2. OrderIsPushed'
  BY AppendRange DEF OrderIsPushed
<1>3. ASSUME NEW x \in Parcel, NEW y \in Parcel, <<x, y>> \in Earlier'
      PROVE  <<x, y>> \in Earlier \/ (x \in pushed /\ y = p)
  <2>1. PICK i \in DOMAIN order', j \in DOMAIN order' :
            i < j /\ order'[i] = x /\ order'[j] = y
    BY <1>3 DEF Earlier
  <2>2. i \in DOMAIN order
    BY <1>1, <2>1
  <2>3. CASE j \in DOMAIN order
    BY <1>1, <2>1, <2>2, <2>3 DEF Earlier
  <2>4. CASE j = Len(order) + 1
    BY <1>1, <2>1, <2>2, <2>4
  <2>. QED BY <1>1, <2>3, <2>4
<1>4. ASSUME NEW x \in Parcel, NEW y \in Parcel, <<x, y>> \in Earlier
      PROVE  <<x, y>> \in Earlier'
  <2>1. PICK i \in DOMAIN order, j \in DOMAIN order : i < j /\ order[i] = x /\ order[j] = y
    BY <1>4 DEF Earlier
  <2>. QED BY <1>1, <2>1 DEF Earlier
<1>5. ASSUME NEW x \in Parcel, x \in pushed PROVE <<x, p>> \in Earlier'
  <2>1. PICK i \in DOMAIN order : order[i] = x
    BY <1>5 DEF OrderIsPushed, Range
  <2>2. i \in DOMAIN order' /\ Len(order) + 1 \in DOMAIN order' /\ i < Len(order) + 1
    BY <1>1
  <2>. QED BY <1>1, <2>1, <2>2 DEF Earlier
<1>. QED BY <1>2, <1>3, <1>4, <1>5

(***************************************************************************)
(* Queues and batches keep that order, and no parcel overtakes one that    *)
(* was pushed to the same queue before it: not in the queue, not in a      *)
(* batch, not on its way out of it.                                        *)
(***************************************************************************)
KeptInOrder ==
    /\ \A s \in Server : InOrder(writeQueue[s], Earlier)
    /\ \A c \in Collector : InOrder(batch[c], Earlier)
    /\ \A p \in Parcel, c \in Collector : InBatch(p, c) => HomeOf[p] = Serves[c]

NoneOvertakes ==
    \A x, y \in Parcel : <<x, y>> \in Earlier /\ HomeOf[x] = HomeOf[y] =>
        /\ InQueue(x) => InQueue(y)
        /\ \A c \in Collector : InBatch(x, c) => InQueue(y) \/ InBatch(y, c)

OrderInv == WriteInv /\ OrderIsPushed /\ KeptInOrder /\ NoneOvertakes

LEMMA OrderInit0 == OrderInit => OrderInv
<1>. SUFFICES ASSUME OrderInit PROVE OrderInv
  OBVIOUS
<1>1. WriteInv
  BY WriteInit DEF OrderInit
<1>2. order = <<>> /\ pushed = {} /\ DOMAIN order = {}
  BY DEF OrderInit, Init, ClientInit
<1>3. OrderIsPushed /\ Earlier = {}
  BY <1>2, EmptyRange DEF OrderIsPushed, Earlier
<1>4. /\ \A s \in Server : DOMAIN writeQueue[s] = {}
      /\ \A c \in Collector : DOMAIN batch[c] = {} /\ Range(batch[c]) = {}
  BY EmptyRange DEF OrderInit, Init, ClientInit
<1>5. KeptInOrder
  BY <1>4 DEF KeptInOrder, InOrder, InBatch
<1>6. NoneOvertakes
  BY <1>3 DEF NoneOvertakes
<1>. QED BY <1>1, <1>3, <1>5, <1>6 DEF OrderInv

(***************************************************************************)
(* The three moves again, now with the order: the parcel that is pushed is *)
(* the last, the one that is popped and the one that is marked are the     *)
(* first.                                                                  *)
(***************************************************************************)
LEMMA PushInOrder ==
    ASSUME OrderInv, NEW p \in Parcel, p \notin pushed, UNCHANGED batch,
           writeQueue' = [writeQueue EXCEPT ![HomeOf[p]] = Append(@, p)],
           pushed' = pushed \cup {p}, order' = Append(order, p)
    PROVE  OrderIsPushed' /\ KeptInOrder' /\ NoneOvertakes'
<1>. USE DEF OrderInv, WriteInv, HandInv
<1>1. /\ OrderIsPushed'
      /\ \A x, y \in Parcel :
            <<x, y>> \in Earlier' <=> <<x, y>> \in Earlier \/ (x \in pushed /\ y = p)
  BY PushIsLast
<1>2. \A q \in Parcel : /\ InQueue(q)' <=> InQueue(q) \/ q = p
                        /\ \A c \in Collector : InBatch(q, c)' <=> InBatch(q, c)
  BY PushMoves
<1>3. writeQueue \in [Server -> Seq(Parcel)] /\ batch \in [Collector -> Seq(Parcel)]
  BY DEF TypeOK, ClientTypeOK
<1>4. \A e \in Earlier : e \in Earlier'
  <2>1. TAKE e \in Earlier
  <2>2. e = <<e[1], e[2]>> /\ e[1] \in Parcel /\ e[2] \in Parcel
    BY DEF Earlier
  <2>. QED BY <1>1, <2>2
<1>5. ASSUME NEW s \in Server PROVE InOrder(writeQueue'[s], Earlier')
  <2>1. InOrder(writeQueue[s], Earlier')
    BY <1>4 DEF KeptInOrder, InOrder
  <2>2. CASE s = HomeOf[p]
    <3>1. \A y \in Range(writeQueue[s]) : <<y, p>> \in Earlier'
      <4>1. TAKE y \in Range(writeQueue[s])
      <4>2. y \in Parcel /\ HomeOf[y] = s
        BY <1>3 DEF Range, OneHolder
      <4>3. InQueue(y)
        BY <4>2 DEF InQueue
      <4>. QED BY <1>1, <4>2, <4>3 DEF HeldArePushed
    <3>2. writeQueue'[s] = Append(writeQueue[s], p)
      BY <1>3, <2>2
    <3>. QED BY <1>3, <2>1, <3>1, <3>2, AppendInOrder
  <2>3. CASE s # HomeOf[p]
    BY <1>3, <2>1, <2>3
  <2>. QED BY <2>2, <2>3
<1>6. KeptInOrder'
  BY <1>2, <1>4, <1>5 DEF KeptInOrder, InOrder
<1>7. NoneOvertakes'
  <2>1. SUFFICES ASSUME NEW x \in Parcel, NEW y \in Parcel,
                        <<x, y>> \in Earlier', HomeOf[x] = HomeOf[y]
                 PROVE  /\ InQueue(x)' => InQueue(y)'
                        /\ \A c \in Collector : InBatch(x, c)' => InQueue(y)' \/ InBatch(y, c)'
    BY DEF NoneOvertakes
  <2>2. CASE y = p
    BY <1>2, <2>2
  <2>3. CASE y # p
    <3>1. <<x, y>> \in Earlier /\ x # p
      BY <1>1, <2>1, <2>3, EarlierIsOrder
    <3>. QED BY <1>2, <2>1, <3>1 DEF NoneOvertakes
  <2>. QED BY <2>2, <2>3
<1>. QED BY <1>1, <1>6, <1>7

LEMMA PopInOrder ==
    ASSUME OneTaskPerQueue, OrderInv, NEW c \in Collector, Pop(c), UNCHANGED order
    PROVE  OrderIsPushed' /\ KeptInOrder' /\ NoneOvertakes'
<1>. USE DEF OrderInv, WriteInv, HandInv
<1>. DEFINE s == Serves[c]
            p == Head(writeQueue[s])
<1>1. /\ s \in Server /\ writeQueue[s] # <<>>
      /\ writeQueue \in [Server -> Seq(Parcel)] /\ batch \in [Collector -> Seq(Parcel)]
      /\ writeQueue' = [writeQueue EXCEPT ![s] = Tail(@)]
      /\ batch' = [batch EXCEPT ![c] = Append(@, p)]
      /\ UNCHANGED pushed
  BY DEF TypeOK, ClientTypeOK, Pop
<1>2. /\ p \in Parcel /\ InQueue(p) /\ \A d \in Collector : ~InBatch(p, d)
      /\ \A q \in Parcel :
            /\ InQueue(q)' <=> InQueue(q) /\ q # p
            /\ \A d \in Collector : InBatch(q, d)' <=> InBatch(q, d) \/ (q = p /\ d = c)
  BY PopMoves
<1>3. HomeOf[p] = s
  BY <1>1, TailRange DEF OneHolder
<1>4. /\ InOrder(Tail(writeQueue[s]), Earlier)
      /\ \A y \in Range(Tail(writeQueue[s])) : <<p, y>> \in Earlier
  BY <1>1, TailInOrder DEF KeptInOrder
<1>. HIDE DEF p
<1>5. OrderIsPushed' /\ Earlier' = Earlier
  BY <1>1 DEF OrderIsPushed, Earlier
<1>6. ASSUME NEW x \in Parcel, HomeOf[x] = s, InQueue(x), x # p PROVE <<p, x>> \in Earlier
  <2>1. Range(Tail(writeQueue[s])) = Range(writeQueue[s]) \ {p}
    BY <1>1, TailRange DEF OneHolder, p
  <2>. QED BY <1>4, <1>6, <2>1 DEF InQueue
<1>7. ASSUME NEW x \in Parcel, InBatch(x, c) PROVE <<x, p>> \in Earlier
  <2>1. x \in pushed /\ p \in pushed /\ x # p /\ ~InQueue(x) /\ HomeOf[x] = s
    BY <1>2, <1>7 DEF HeldArePushed, OneHolder, KeptInOrder
  <2>2. ~(<<p, x>> \in Earlier)
    BY <1>2, <1>3, <2>1 DEF NoneOvertakes
  <2>. QED BY <2>1, <2>2, EarlierIsOrder
<1>8. \A t \in Server : InOrder(writeQueue'[t], Earlier)
  BY <1>1, <1>4 DEF KeptInOrder
<1>9. \A d \in Collector : InOrder(batch'[d], Earlier)
  <2>1. \A y \in Range(batch[c]) : <<y, p>> \in Earlier
    <3>1. \A y \in Range(batch[c]) : y \in Parcel /\ InBatch(y, c)
      BY <1>1 DEF Range, InBatch
    <3>. QED BY <1>7, <3>1
  <2>2. InOrder(Append(batch[c], p), Earlier)
    BY <1>1, <1>2, <2>1, AppendInOrder DEF KeptInOrder
  <2>. QED BY <1>1, <2>2 DEF KeptInOrder
<1>10. KeptInOrder'
  BY <1>2, <1>3, <1>5, <1>8, <1>9 DEF KeptInOrder
<1>11. NoneOvertakes'
  <2>1. SUFFICES ASSUME NEW x \in Parcel, NEW y \in Parcel,
                        <<x, y>> \in Earlier, HomeOf[x] = HomeOf[y]
                 PROVE  /\ InQueue(x)' => InQueue(y)'
                        /\ \A d \in Collector : InBatch(x, d)' => InQueue(y)' \/ InBatch(y, d)'
    BY <1>5 DEF NoneOvertakes
  <2>2. <<y, x>> \notin Earlier /\ x # y
    BY <2>1, EarlierIsOrder
  <2>3. ASSUME InQueue(x)' PROVE InQueue(y)'
    <3>1. InQueue(x) /\ InQueue(y)
      BY <1>2, <2>1, <2>3 DEF NoneOvertakes
    <3>2. y # p
      BY <1>2, <1>3, <1>6, <2>1, <2>2, <3>1
    <3>. QED BY <1>2, <3>1, <3>2
  <2>4. ASSUME NEW d \in Collector, InBatch(x, d)' PROVE InQueue(y)' \/ InBatch(y, d)'
    <3>1. CASE x = p
      <4>1. InQueue(y) /\ y # p
        BY <1>2, <2>1, <2>2, <3>1 DEF NoneOvertakes
      <4>. QED BY <1>2, <4>1
    <3>2. CASE x # p /\ y # p
      BY <1>2, <2>1, <2>4, <3>2 DEF NoneOvertakes
    <3>3. CASE x # p /\ y = p
      <4>1. InBatch(x, d) /\ Serves[d] = s
        BY <1>2, <1>3, <2>1, <2>4, <3>3 DEF KeptInOrder
      <4>2. d = c
        BY <4>1 DEF OneTaskPerQueue, IsInjective
      <4>. QED BY <1>2, <3>3, <4>2
    <3>. QED BY <3>1, <3>2, <3>3
  <2>. QED BY <2>3, <2>4
<1>. QED BY <1>5, <1>10, <1>11

LEMMA MarkInOrder ==
    ASSUME OrderInv, NEW c \in Collector, MarkDone(c), UNCHANGED order
    PROVE  OrderIsPushed' /\ KeptInOrder' /\ NoneOvertakes'
<1>. USE DEF OrderInv, WriteInv, HandInv
<1>. DEFINE p == Head(batch[c])
<1>1. /\ batch[c] # <<>> /\ batch \in [Collector -> Seq(Parcel)]
      /\ batch' = [batch EXCEPT ![c] = Tail(@)]
      /\ UNCHANGED <<writeQueue, pushed>>
  BY DEF TypeOK, ClientTypeOK, MarkDone, Advance, clientVars
<1>2. /\ p \in Parcel /\ InBatch(p, c)
      /\ \A q \in Parcel :
            /\ InQueue(q)' <=> InQueue(q)
            /\ \A d \in Collector : InBatch(q, d)' <=> InBatch(q, d) /\ (q = p => d # c)
  BY MarkMoves DEF Current
<1>3. /\ InOrder(Tail(batch[c]), Earlier)
      /\ \A y \in Range(Tail(batch[c])) : <<p, y>> \in Earlier
      /\ Range(Tail(batch[c])) = Range(batch[c]) \ {p}
  BY <1>1, TailInOrder, TailRange DEF KeptInOrder, OneHolder
<1>. HIDE DEF p
<1>4. OrderIsPushed' /\ Earlier' = Earlier
  BY <1>1 DEF OrderIsPushed, Earlier
<1>5. KeptInOrder'
  BY <1>1, <1>2, <1>3, <1>4 DEF KeptInOrder
<1>6. NoneOvertakes'
  <2>1. SUFFICES ASSUME NEW x \in Parcel, NEW y \in Parcel,
                        <<x, y>> \in Earlier, HomeOf[x] = HomeOf[y]
                 PROVE  /\ InQueue(x)' => InQueue(y)'
                        /\ \A d \in Collector : InBatch(x, d)' => InQueue(y)' \/ InBatch(y, d)'
    BY <1>4 DEF NoneOvertakes
  <2>2. \A d \in Collector : InBatch(x, d)' => ~(y = p /\ d = c)
    <3>1. ASSUME InBatch(x, c)', y = p PROVE FALSE
      <4>1. x \in Range(Tail(batch[c]))
        BY <1>2, <1>3, <3>1 DEF InBatch
      <4>. QED BY <1>2, <1>3, <2>1, <3>1, <4>1, EarlierIsOrder
    <3>. QED BY <3>1
  <2>. QED BY <1>2, <2>1, <2>2 DEF NoneOvertakes
<1>. QED BY <1>4, <1>5, <1>6

(***************************************************************************)
(* The history grows with pushed, which only PublishPush changes.          *)
(***************************************************************************)
LEMMA PushIsRecorded ==
    ASSUME HandInv, [OrderNext]_<<vars, order>>, pushed' # pushed
    PROVE  \E p \in Parcel :
               /\ PublishPush(p) /\ p \notin pushed
               /\ pushed' = pushed \cup {p} /\ order' = Append(order, p)
<1>1. PICK p \in Parcel : PublishPush(p)
  BY DEF OrderNext, Next, ClientNext, ClientStep, PublishPut, WaitBegin, PublishRecord,
         WaitPoll, WaitErase, FinalizeClient, SourceStep, GetWriteParsel, Poll, Pop,
         PopFails, Stop, WriteTarget, DeleteData, MarkDone, clientVars, vars
<1>2. p \notin pushed /\ pushed' = pushed \cup {p}
  BY <1>1 DEF PublishPush, HandInv, OwnersArePast
<1>3. order' = Append(order, p)
  BY <1>2 DEF OrderNext, JustPushed, vars, clientVars
<1>. QED BY <1>1, <1>2, <1>3

LEMMA OrderNextKeeps ==
    ASSUME OneTaskPerQueue, OrderInv, [OrderNext]_<<vars, order>>
    PROVE  OrderInv'
<1>1. [Next]_vars
  BY DEF OrderNext
<1>2. WriteInv'
  BY <1>1, WriteNext DEF OrderInv
<1>3. CASE UNCHANGED <<hands, pushed, order>>
  <2>1. UNCHANGED <<writeQueue, batch, pushed, order>>
    BY <1>3 DEF hands
  <2>2. OrderIsPushed' /\ Earlier' = Earlier
    BY <2>1 DEF OrderInv, OrderIsPushed, Earlier
  <2>3. KeptInOrder' /\ NoneOvertakes'
    BY <2>1, <2>2 DEF OrderInv, KeptInOrder, NoneOvertakes, InQueue, InBatch
  <2>. QED BY <1>2, <2>2, <2>3 DEF OrderInv
<1>4. CASE pushed' = pushed /\ order' = order
  <2>1. ASSUME NEW c \in Collector, Pop(c) \/ MarkDone(c) PROVE OrderInv'
    BY <1>2, <1>4, <2>1, PopInOrder, MarkInOrder DEF OrderInv
  <2>2. ASSUME NEW p \in Parcel, PublishPush(p) PROVE UNCHANGED hands
    BY <1>4, <2>2
    DEF PublishPush, hands, sourceVars, OrderInv, WriteInv, HandInv, OwnersArePast
  <2>. QED
    BY <1>1, <1>3, <1>4, <2>1, <2>2
    DEF Next, ClientNext, ClientStep, PublishPut, WaitBegin, PublishRecord, WaitPoll,
        WaitErase, FinalizeClient, SourceStep, GetWriteParsel, Poll, PopFails, Stop,
        WriteTarget, DeleteData, hands, clientVars, sourceVars, vars
<1>5. CASE pushed' # pushed
  <2>1. PICK p \in Parcel : /\ PublishPush(p) /\ p \notin pushed
                            /\ pushed' = pushed \cup {p} /\ order' = Append(order, p)
    BY <1>5, PushIsRecorded DEF OrderInv, WriteInv
  <2>2. /\ UNCHANGED batch
        /\ writeQueue' = [writeQueue EXCEPT ![HomeOf[p]] = Append(@, p)]
    BY <1>5, <2>1 DEF PublishPush, sourceVars
  <2>. QED BY <1>2, <2>1, <2>2, PushInOrder DEF OrderInv
<1>6. pushed' = pushed => order' = order
  BY DEF OrderNext, JustPushed
<1>. QED BY <1>4, <1>5, <1>6

(***************************************************************************)
(* What was pushed to one queue is written in the order of the pushes ...  *)
(***************************************************************************)
LEMMA WrittenInOrder ==
    ASSUME OrderInv, NEW x \in Parcel, NEW y \in Written,
           <<x, y>> \in Earlier, HomeOf[x] = HomeOf[y]
    PROVE  x \in Written
<1>. USE DEF OrderInv, WriteInv, HandInv
<1>1. /\ y \in pushed /\ y \in Parcel /\ ~InQueue(y)
      /\ \A c \in Collector : ~Unwritten(y, c)
  BY DEF Written, TypeOK, ClientTypeOK
<1>2. x \in pushed /\ x # y /\ <<y, x>> \notin Earlier
  BY <1>1, EarlierIsOrder
<1>3. ~InQueue(x)
  BY <1>1 DEF NoneOvertakes
<1>4. ASSUME NEW c \in Collector, Unwritten(x, c) PROVE FALSE
  <2>1. InBatch(x, c) /\ InBatch(y, c)
    BY <1>1, <1>4 DEF NoneOvertakes, Unwritten, InBatch
  <2>2. y = Current(c)
    BY <1>1, <2>1 DEF Unwritten, InBatch
  <2>3. batch[c] \in Seq(Parcel) /\ batch[c] # <<>>
    BY <2>1, EmptyRange DEF InBatch, TypeOK, ClientTypeOK
  <2>4. x \in Range(Tail(batch[c]))
    BY <1>2, <2>1, <2>2, <2>3, TailRange DEF OneHolder, Current, InBatch
  <2>5. <<y, x>> \in Earlier
    BY <2>2, <2>3, <2>4, TailInOrder DEF KeptInOrder, Current
  <2>. QED BY <1>2, <2>5
<1>. QED BY <1>2, <1>3, <1>4 DEF Written

(***************************************************************************)
(* ... and a block never returns to what an earlier parcel published,      *)
(* because only the step Write of the abstract specification changes it.   *)
(***************************************************************************)
NoneReturns ==
    \A x \in Parcel, y \in Written :
        <<x, y>> \in Earlier /\ BlockOf[x] = BlockOf[y] => storage[BlockOf[x]] # x

LEMMA NoneReturnsNext ==
    ASSUME OneTaskPerQueue, OneQueuePerBlock, OrderInv, NoneReturns,
           [OrderNext]_<<vars, order>>
    PROVE  NoneReturns'
<1>. USE DEF OrderInv, WriteInv, HandInv
<1>1. [Next]_vars
  BY DEF OrderNext
<1>2. [Durable!Next]_(Durable!vars)
  BY <1>1, WriteNext
<1>3. OrderInv'
  BY OrderNextKeeps
<1>4. SUFFICES ASSUME NEW x \in Parcel, NEW y \in Written',
                      <<x, y>> \in Earlier', BlockOf[x] = BlockOf[y]
               PROVE  storage'[BlockOf[x]] # x
  BY DEF NoneReturns
<1>5. y \in Parcel /\ storage \in [Block -> Held] /\ BlockOf[x] \in Block
  BY <1>3 DEF Written, TypeOK, ClientTypeOK, StoreTypeOK
<1>6. ASSUME y \in Written PROVE <<x, y>> \in Earlier
  <2>1. y \in pushed
    BY <1>6 DEF Written
  <2>2. CASE pushed' = pushed
    <3>1. order' = order
      BY <2>2 DEF OrderNext, JustPushed
    <3>. QED BY <1>4, <3>1 DEF Earlier
  <2>3. CASE pushed' # pushed
    <3>1. PICK p \in Parcel : /\ p \notin pushed /\ pushed' = pushed \cup {p}
                              /\ order' = Append(order, p)
      BY <2>3, PushIsRecorded
    <3>. QED BY <1>4, <1>5, <2>1, <3>1, PushIsLast
  <2>. QED BY <2>2, <2>3
<1>7. CASE UNCHANGED <<Written, storage>>
  BY <1>4, <1>6, <1>7 DEF NoneReturns
<1>8. ASSUME NEW p \in Parcel, Durable!Write(p) PROVE storage'[BlockOf[x]] # x
  <2>1. /\ p \notin Written /\ Written' = Written \cup {p}
        /\ storage' = [storage EXCEPT ![BlockOf[p]] = p]
    BY <1>8 DEF Durable!Write
  <2>2. CASE x = p
    <3>1. order' = order
      BY <1>8 DEF Durable!Write, OrderNext, JustPushed
    <3>2. <<x, y>> \in Earlier
      BY <1>4, <3>1 DEF Earlier
    <3>3. y \in Written /\ HomeOf[x] = HomeOf[y]
      BY <1>4, <1>5, <2>1, <2>2, <3>2, EarlierIsOrder DEF OneQueuePerBlock
    <3>. QED BY <2>1, <2>2, <3>2, <3>3, WrittenInOrder
  <2>3. CASE x # p /\ BlockOf[x] = BlockOf[p]
    BY <1>5, <2>1, <2>3
  <2>4. CASE BlockOf[x] # BlockOf[p]
    <3>1. y \in Written
      BY <1>4, <2>1, <2>4
    <3>. QED BY <1>4, <1>5, <1>6, <2>1, <2>4, <3>1 DEF NoneReturns
  <2>. QED BY <2>2, <2>3, <2>4
<1>. QED BY <1>2, <1>7, <1>8 DEF Durable!Next, Durable!Accept, Durable!Ack, Durable!vars

(***************************************************************************)
(* With one source task per queue and one queue per block, parcels for one *)
(* block are written in the order of their pushes, whatever the ranks and  *)
(* tasks do meanwhile, and the block keeps the newest.                     *)
(***************************************************************************)
THEOREM WritesFollowPushes ==
    ASSUME OneTaskPerQueue, OneQueuePerBlock
    PROVE  OrderSpec => []BlocksFollowPushOrder
<1>1. OrderInit => OrderInv /\ NoneReturns
  <2>1. OrderInit => Written = {}
    BY DEF OrderInit, Init, ClientInit, Written
  <2>. QED BY <2>1, OrderInit0 DEF NoneReturns
<1>2. OrderInv /\ NoneReturns /\ [OrderNext]_<<vars, order>> => OrderInv' /\ NoneReturns'
  BY OrderNextKeeps, NoneReturnsNext
<1>3. OrderInv /\ NoneReturns => BlocksFollowPushOrder
  <2>1. SUFFICES ASSUME OrderInv, NoneReturns, NEW i \in DOMAIN order, NEW j \in DOMAIN order,
                        i < j, BlockOf[order[i]] = BlockOf[order[j]], order[j] \in Written
                 PROVE  order[i] \in Written /\ storage[BlockOf[order[i]]] # order[i]
    BY DEF BlocksFollowPushOrder
  <2>2. order[i] \in Parcel /\ order[j] \in Parcel
    BY <2>1 DEF OrderInv, OrderIsPushed
  <2>3. <<order[i], order[j]>> \in Earlier
    BY <2>1, <2>2 DEF Earlier
  <2>4. HomeOf[order[i]] = HomeOf[order[j]]
    BY <2>1, <2>2 DEF OneQueuePerBlock
  <2>. QED BY <2>1, <2>2, <2>3, <2>4, WrittenInOrder DEF NoneReturns
<1>. QED BY <1>1, <1>2, <1>3, PTL DEF OrderSpec
=============================================================================
