------------------------- MODULE RheaWriteJobProofs -------------------------
(***************************************************************************)
(* What the Rhea write job guarantees for every number of parcels, ranks,  *)
(* servers, source tasks and sinks.                                        *)
(***************************************************************************)
EXTENDS RheaWriteJob, QueueLemmas

USE StoreAssumption, WriteAssumption, SinkAssumption
DEF StoreAssumption, WriteAssumption, SinkAssumption
-----------------------------------------------------------------------------
(***************************************************************************)
(* TypeOK, one step per action.                                            *)
(***************************************************************************)
LEMMA TypeInit == Init => TypeOK
<1>. SUFFICES ASSUME Init PROVE TypeOK
  OBVIOUS
<1>. USE DEF Init, ClientInit
<1>1. StoreTypeOK
  BY DEF StoreInit, StoreTypeOK, Held, TaskStatus
<1>2. /\ writeQueue \in [Server -> Seq(Parcel)]
      /\ batch \in [Collector -> Seq(Parcel)]
  <2>1. <<>> \in Seq(Parcel)
    OBVIOUS
  <2>. QED BY <2>1
<1>3. pc \in [Parcel -> ClientState] /\ pushed \in SUBSET Parcel /\ terminated \in BOOLEAN
  BY DEF ClientState, InCall
<1>4. task \in [Collector -> SourceState] /\ sink \in [Sink -> SinkState]
  BY DEF SourceState, SinkState
<1>5. temp \in [Block -> Held] /\ buffer \in [Sink -> Held]
  BY DEF Held
<1>. QED BY <1>1, <1>2, <1>3, <1>4, <1>5 DEF TypeOK, ClientTypeOK

LEMMA TypeNext == TypeOK /\ [Next]_vars => TypeOK'
<1>. SUFFICES ASSUME TypeOK, [Next]_vars PROVE TypeOK'
  OBVIOUS
<1>. USE DEF TypeOK, ClientTypeOK, StoreTypeOK, ClientState, InCall, SourceState,
             SinkState, Held, TaskStatus, storeVars, clientVars, sourceVars, jobVars,
             Put, Erase, Goto, Fetched
<1>1. ASSUME NEW p \in Parcel, PublishPut(p), UNCHANGED jobVars PROVE TypeOK'
  <2>1. p \in Payload
    OBVIOUS
  <2>2. warehouse' \in [Parcel -> Held]
    BY <1>1, <2>1 DEF PublishPut
  <2>3. pc' \in [Parcel -> ClientState]
    BY <1>1 DEF PublishPut
  <2>. QED BY <1>1, <2>2, <2>3 DEF PublishPut
<1>2. ASSUME NEW p \in Parcel, PublishPush(p), UNCHANGED jobVars PROVE TypeOK'
  <2>1. HomeOf[p] \in Server /\ writeQueue[HomeOf[p]] \in Seq(Parcel)
    OBVIOUS
  <2>2. Append(writeQueue[HomeOf[p]], p) \in Seq(Parcel)
    BY <2>1
  <2>3. writeQueue' \in [Server -> Seq(Parcel)]
    BY <1>2, <2>1, <2>2 DEF PublishPush
  <2>4. pc' \in [Parcel -> ClientState] /\ pushed' \in SUBSET Parcel
    BY <1>2 DEF PublishPush
  <2>. QED BY <1>2, <2>3, <2>4 DEF PublishPush
<1>3. ASSUME NEW p \in Parcel, PublishRecord(p), UNCHANGED jobVars PROVE TypeOK'
  BY <1>3 DEF PublishRecord
<1>4. ASSUME NEW p \in Parcel, WaitBegin(p) \/ WaitPoll(p), UNCHANGED jobVars PROVE TypeOK'
  BY <1>4 DEF WaitBegin, WaitPoll
<1>5. ASSUME NEW p \in Parcel, WaitErase(p), UNCHANGED jobVars PROVE TypeOK'
  BY <1>5 DEF WaitErase
<1>6. ASSUME FinalizeClient, UNCHANGED jobVars PROVE TypeOK'
  BY <1>6 DEF FinalizeClient
<1>7. ASSUME NEW c \in Collector, GetWriteParsel(c), UNCHANGED jobVars PROVE TypeOK'
  <2>1. CASE Poll(c) \/ PopFails(c) \/ Stop(c)
    BY <1>7, <2>1 DEF Poll, PopFails, Stop
  <2>2. CASE Pop(c)
    <3>1. Serves[c] \in Server /\ writeQueue[Serves[c]] \in Seq(Parcel)
      OBVIOUS
    <3>2. /\ Head(writeQueue[Serves[c]]) \in Parcel
          /\ Tail(writeQueue[Serves[c]]) \in Seq(Parcel)
      BY <2>2, <3>1, TailRange DEF Pop
    <3>3. Append(batch[c], Head(writeQueue[Serves[c]])) \in Seq(Parcel)
      BY <3>2
    <3>4. batch' \in [Collector -> Seq(Parcel)] /\ writeQueue' \in [Server -> Seq(Parcel)]
      BY <2>2, <3>2, <3>3 DEF Pop
    <3>. QED BY <1>7, <2>2, <3>4 DEF Pop
  <2>. QED BY <1>7, <2>1, <2>2 DEF GetWriteParsel
<1>8. ASSUME NEW c \in Collector, SpoolTemp(c) PROVE TypeOK'
  BY <1>8 DEF SpoolTemp, Advance, Current
<1>9. ASSUME NEW c \in Collector, DeleteData(c) \/ MarkInProgress(c) PROVE TypeOK'
  BY <1>9 DEF DeleteData, MarkInProgress, Advance
<1>10. ASSUME NEW c \in Collector, Emit(c) PROVE TypeOK'
  <2>1. batch[c] \in Seq(Parcel) /\ batch[c] # <<>>
    BY <1>10 DEF Emit, Advance
  <2>2. Head(batch[c]) \in Parcel /\ Tail(batch[c]) \in Seq(Parcel)
    BY <2>1, TailRange
  <2>. QED BY <1>10, <2>2 DEF Emit, Advance, Current
<1>11. ASSUME NEW p \in Parcel, KeyBy(p) PROVE TypeOK'
  BY <1>11 DEF KeyBy
<1>12. ASSUME NEW s \in Sink, NEW p \in Parcel, ReadTemp(s, p) PROVE TypeOK'
  BY <1>12 DEF ReadTemp
<1>13. ASSUME NEW s \in Sink, RemoveTemp(s) \/ WriteTarget(s) \/ MarkDone(s) PROVE TypeOK'
  BY <1>13 DEF RemoveTemp, WriteTarget, MarkDone
<1>14. CASE UNCHANGED vars
  BY <1>14 DEF vars
<1>. QED
  BY <1>1, <1>2, <1>3, <1>4, <1>5, <1>6, <1>7, <1>8, <1>9, <1>10, <1>11, <1>12, <1>13, <1>14
  DEF Next, ClientNext, ClientStep, SourceStep, SinkStep

(***************************************************************************)
(* Every reachable state is well typed.                                    *)
(***************************************************************************)
THEOREM TypeCorrect == Spec => []TypeOK
BY TypeInit, TypeNext, PTL DEF Spec
-----------------------------------------------------------------------------
(***************************************************************************)
(* The strengthening of OneHolder: only pushed parcels are in any hand,    *)
(* the owner of a pushed parcel is past its push, and a sink holds an      *)
(* event exactly while it runs.                                            *)
(***************************************************************************)
HeldArePushed ==
    /\ \A s \in Server : Range(writeQueue[s]) \subseteq pushed
    /\ \A c \in Collector : Range(batch[c]) \subseteq pushed
    /\ toKeyBy \subseteq pushed
    /\ \A s \in Sink : toSink[s] \subseteq pushed
    /\ \A s \in Sink : event[s] # Nothing => event[s] \in pushed

OwnersArePast == \A p \in pushed : pc[p] \notin {"new", "pushing", "refused"}

SinksHoldEvents == \A s \in Sink : sink[s] = "idle" <=> event[s] = Nothing

Inv == TypeOK /\ HeldArePushed /\ OwnersArePast /\ SinksHoldEvents /\ OneHolder

hands == <<writeQueue, batch, toKeyBy, toSink, event>>

LEMMA InvInit == Init => HeldArePushed /\ OwnersArePast /\ SinksHoldEvents /\ OneHolder
<1>. SUFFICES ASSUME Init
     PROVE  HeldArePushed /\ OwnersArePast /\ SinksHoldEvents /\ OneHolder
  OBVIOUS
<1>1. /\ \A s \in Server : Range(writeQueue[s]) = {} /\ IsInjective(writeQueue[s])
      /\ \A c \in Collector : Range(batch[c]) = {} /\ IsInjective(batch[c])
      /\ pushed = {} /\ toKeyBy = {}
      /\ \A s \in Sink : toSink[s] = {} /\ event[s] = Nothing /\ sink[s] = "idle"
  BY EmptyRange DEF Init, ClientInit
<1>2. HeldArePushed /\ OwnersArePast /\ SinksHoldEvents
  BY <1>1 DEF HeldArePushed, OwnersArePast, SinksHoldEvents
<1>3. OneHolder
  BY <1>1 DEF OneHolder, InQueue, InBatch, AtSink, InSink, Downstream, SinkFor
<1>. QED BY <1>2, <1>3

LEMMA SameHands ==
    ASSUME OneHolder, UNCHANGED hands
    PROVE  OneHolder'
BY DEF hands, OneHolder, InQueue, InBatch, AtSink, InSink, Downstream, SinkFor

LEMMA HeldNext == Inv /\ [Next]_vars => HeldArePushed'
<1>. SUFFICES ASSUME Inv, [Next]_vars PROVE HeldArePushed'
  OBVIOUS
<1>. USE DEF HeldArePushed, Inv, clientVars, sourceVars, jobVars
<1>1. CASE UNCHANGED <<hands, pushed>>
  BY <1>1 DEF hands
<1>2. ASSUME NEW p \in Parcel, PublishPush(p), UNCHANGED jobVars PROVE HeldArePushed'
  <2>1. HomeOf[p] \in Server /\ writeQueue[HomeOf[p]] \in Seq(Parcel)
    BY DEF TypeOK, ClientTypeOK
  <2>2. Range(Append(writeQueue[HomeOf[p]], p)) = Range(writeQueue[HomeOf[p]]) \cup {p}
    BY <2>1, AppendRange
  <2>3. CASE pushed' = pushed \cup {p} /\ writeQueue' = [writeQueue EXCEPT ![HomeOf[p]] = Append(@, p)]
    BY <1>2, <2>1, <2>2, <2>3 DEF PublishPush, TypeOK, ClientTypeOK
  <2>4. CASE UNCHANGED <<writeQueue, pushed>>
    BY <1>2, <2>4 DEF PublishPush
  <2>. QED BY <1>2, <2>3, <2>4 DEF PublishPush
<1>3. ASSUME NEW c \in Collector, Pop(c), UNCHANGED jobVars PROVE HeldArePushed'
  <2>. DEFINE s == Serves[c]
              p == Head(writeQueue[s])
  <2>1. s \in Server /\ writeQueue[s] \in Seq(Parcel) /\ writeQueue[s] # <<>> /\ batch[c] \in Seq(Parcel)
    BY <1>3 DEF Pop, TypeOK, ClientTypeOK
  <2>2. p \in Range(writeQueue[s]) /\ p \in Parcel /\ Range(Tail(writeQueue[s])) \subseteq Range(writeQueue[s])
    BY <2>1, TailRange DEF OneHolder
  <2>3. Range(Append(batch[c], p)) = Range(batch[c]) \cup {p}
    BY <2>1, <2>2, AppendRange
  <2>. QED BY <1>3, <2>1, <2>2, <2>3 DEF Pop, TypeOK, ClientTypeOK
<1>4. ASSUME NEW c \in Collector, Emit(c) PROVE HeldArePushed'
  <2>1. batch[c] \in Seq(Parcel) /\ batch[c] # <<>>
    BY <1>4 DEF Emit, Advance, TypeOK, ClientTypeOK
  <2>2. Head(batch[c]) \in Range(batch[c]) /\ Range(Tail(batch[c])) \subseteq Range(batch[c])
    BY <2>1, TailRange DEF OneHolder
  <2>. QED BY <1>4, <2>1, <2>2 DEF Emit, Current, TypeOK, ClientTypeOK
<1>5. ASSUME NEW p \in Parcel, KeyBy(p) PROVE HeldArePushed'
  BY <1>5 DEF KeyBy, TypeOK
<1>6. ASSUME NEW s \in Sink, NEW p \in Parcel, ReadTemp(s, p) PROVE HeldArePushed'
  BY <1>6 DEF ReadTemp, TypeOK
<1>7. ASSUME NEW s \in Sink, MarkDone(s) PROVE HeldArePushed'
  BY <1>7 DEF MarkDone, TypeOK
<1>. QED
  BY <1>1, <1>2, <1>3, <1>4, <1>5, <1>6, <1>7
  DEF Next, ClientNext, ClientStep, SourceStep, SinkStep, GetWriteParsel, hands, vars,
      PublishPut, PublishRecord, WaitBegin, WaitPoll, WaitErase, FinalizeClient,
      Poll, PopFails, Stop, SpoolTemp, DeleteData, MarkInProgress, RemoveTemp, WriteTarget

LEMMA OwnersNext == Inv /\ [Next]_vars => OwnersArePast'
<1>. SUFFICES ASSUME Inv, [Next]_vars PROVE OwnersArePast'
  OBVIOUS
<1>. USE DEF OwnersArePast, Inv
<1>1. CASE UNCHANGED <<pc, pushed>>
  BY <1>1
<1>2. ASSUME NEW p \in Parcel, PublishPut(p) \/ PublishPush(p) \/ PublishRecord(p)
                               \/ WaitBegin(p) \/ WaitPoll(p) \/ WaitErase(p)
      PROVE  OwnersArePast'
  BY <1>2 DEF PublishPut, PublishPush, PublishRecord, WaitBegin, WaitPoll, WaitErase, Goto,
              TypeOK, ClientTypeOK
<1>. QED
  BY <1>1, <1>2
  DEF Next, ClientNext, ClientStep, SourceStep, SinkStep, GetWriteParsel, vars, clientVars,
      FinalizeClient, Poll, Pop, PopFails, Stop, SpoolTemp, DeleteData, MarkInProgress, Emit,
      KeyBy, ReadTemp, RemoveTemp, WriteTarget, MarkDone

LEMMA SinksNext == Inv /\ [Next]_vars => SinksHoldEvents'
<1>. SUFFICES ASSUME Inv, [Next]_vars PROVE SinksHoldEvents'
  OBVIOUS
<1>. USE DEF SinksHoldEvents, Inv
<1>1. CASE UNCHANGED <<sink, event>>
  BY <1>1
<1>2. ASSUME NEW s \in Sink, NEW p \in Parcel, ReadTemp(s, p) PROVE SinksHoldEvents'
  BY <1>2 DEF ReadTemp, TypeOK
<1>3. ASSUME NEW s \in Sink, RemoveTemp(s) \/ WriteTarget(s) \/ MarkDone(s)
      PROVE  SinksHoldEvents'
  BY <1>3 DEF RemoveTemp, WriteTarget, MarkDone, TypeOK
<1>. QED
  BY <1>1, <1>2, <1>3
  DEF Next, SourceStep, SinkStep, vars, jobVars,
      SpoolTemp, DeleteData, MarkInProgress, Emit, KeyBy

(***************************************************************************)
(* OneHolder: the six actions that pass a parcel from a hand to the next.  *)
(***************************************************************************)
LEMMA PushOneHolder ==
    ASSUME Inv, NEW p \in Parcel, PublishPush(p), UNCHANGED jobVars
    PROVE  OneHolder'
<1>. USE DEF jobVars, sourceVars
<1>1. CASE UNCHANGED <<writeQueue, pushed>>
  BY <1>1, SameHands DEF PublishPush, Inv, hands
<1>2. CASE writeQueue' = [writeQueue EXCEPT ![HomeOf[p]] = Append(@, p)]
  <2>. DEFINE h == HomeOf[p]
  <2>1. h \in Server /\ writeQueue \in [Server -> Seq(Parcel)]
    BY DEF Inv, TypeOK, ClientTypeOK
  <2>2. p \notin pushed
    BY DEF PublishPush, Inv, OwnersArePast
  <2>3. /\ ~InQueue(p) /\ ~Downstream(p) /\ p \notin Range(writeQueue[h])
        /\ \A c \in Collector : ~InBatch(p, c)
        /\ \A s \in Sink : p \notin toSink[s] /\ event[s] # p
    BY <2>1, <2>2 DEF Inv, HeldArePushed, InQueue, InBatch, Downstream, AtSink, InSink, SinkFor,
                      TypeOK
  <2>4. /\ Range(writeQueue'[h]) = Range(writeQueue[h]) \cup {p}
        /\ IsInjective(writeQueue'[h])
        /\ \A s \in Server \ {h} : writeQueue'[s] = writeQueue[s]
    BY <1>2, <2>1, <2>3, AppendRange DEF Inv, OneHolder
  <2>5. UNCHANGED <<batch, toKeyBy, toSink, event>>
    BY DEF PublishPush
  <2>6. \A q \in Parcel : InQueue(q)' <=> InQueue(q) \/ q = p
    BY <2>1, <2>4 DEF InQueue
  <2>7. /\ \A q \in Parcel : Downstream(q)' <=> Downstream(q)
        /\ \A q \in Parcel : AtSink(q)' <=> AtSink(q)
        /\ \A q \in Parcel : InSink(q)' <=> InSink(q)
        /\ \A q \in Parcel, c \in Collector : InBatch(q, c)' <=> InBatch(q, c)
    BY <2>5 DEF Downstream, AtSink, InSink, InBatch, SinkFor
  <2>8. \A s \in Server :
            /\ IsInjective(writeQueue'[s])
            /\ \A q \in Range(writeQueue'[s]) : HomeOf[q] = s
    BY <2>4 DEF Inv, OneHolder
  <2>9. \A q \in Parcel, s \in Sink : q \in toSink'[s] \/ event'[s] = q => s = SinkFor(q)
    BY <2>5 DEF Inv, OneHolder
  <2>10. \A c \in Collector : IsInjective(batch'[c])
    BY <2>5 DEF Inv, OneHolder
  <2>. QED BY <2>3, <2>5, <2>6, <2>7, <2>8, <2>9, <2>10 DEF Inv, OneHolder, SinkFor
<1>. QED BY <1>1, <1>2 DEF PublishPush

LEMMA PopOneHolder ==
    ASSUME Inv, NEW c \in Collector, Pop(c), UNCHANGED jobVars
    PROVE  OneHolder'
<1>. DEFINE h == Serves[c]
            p == Head(writeQueue[h])
<1>1. /\ h \in Server /\ writeQueue \in [Server -> Seq(Parcel)] /\ writeQueue[h] # <<>>
      /\ batch \in [Collector -> Seq(Parcel)]
  BY DEF Inv, TypeOK, ClientTypeOK, Pop
<1>2. /\ p \in Parcel /\ p \in Range(writeQueue[h]) /\ HomeOf[p] = h
      /\ Range(Tail(writeQueue[h])) = Range(writeQueue[h]) \ {p}
      /\ IsInjective(Tail(writeQueue[h]))
  BY <1>1, TailRange DEF Inv, OneHolder
<1>3. InQueue(p) /\ ~Downstream(p) /\ \A d \in Collector : ~InBatch(p, d)
  BY <1>1, <1>2 DEF InQueue, Inv, OneHolder
<1>4. /\ writeQueue'[h] = Tail(writeQueue[h])
      /\ \A s \in Server \ {h} : writeQueue'[s] = writeQueue[s]
      /\ batch'[c] = Append(batch[c], p)
      /\ \A d \in Collector \ {c} : batch'[d] = batch[d]
      /\ UNCHANGED <<toKeyBy, toSink, event>>
  BY <1>1 DEF Pop, jobVars
<1>5. Range(batch'[c]) = Range(batch[c]) \cup {p} /\ IsInjective(batch'[c])
  BY <1>1, <1>2, <1>3, <1>4, AppendRange DEF Inv, OneHolder, InBatch
<1>6. \A q \in Parcel : InQueue(q)' <=> InQueue(q) /\ q # p
  <2>1. ASSUME NEW q \in Parcel, HomeOf[q] = h
        PROVE  InQueue(q)' <=> InQueue(q) /\ q # p
    <3>1. q \in Range(writeQueue'[h]) <=> q \in Range(writeQueue[h]) /\ q # p
      BY <1>2, <1>4
    <3>. QED BY <2>1, <3>1 DEF InQueue
  <2>2. ASSUME NEW q \in Parcel, HomeOf[q] # h
        PROVE  InQueue(q)' <=> InQueue(q) /\ q # p
    <3>1. HomeOf[q] \in Server \ {h} /\ q # p
      BY <1>2, <2>2
    <3>. QED BY <1>4, <3>1 DEF InQueue
  <2>. QED BY <2>1, <2>2
<1>7. \A q \in Parcel, d \in Collector : InBatch(q, d)' <=> InBatch(q, d) \/ (q = p /\ d = c)
  BY <1>4, <1>5 DEF InBatch
<1>8. \A q \in Parcel : (Downstream(q)' <=> Downstream(q))
                        /\ (AtSink(q)' <=> AtSink(q)) /\ (InSink(q)' <=> InSink(q))
  BY <1>4 DEF Downstream, AtSink, InSink, SinkFor
<1>9. \A s \in Server :
          /\ IsInjective(writeQueue'[s])
          /\ \A q \in Range(writeQueue'[s]) : HomeOf[q] = s
  BY <1>2, <1>4 DEF Inv, OneHolder
<1>10. \A q \in Parcel, s \in Sink : q \in toSink'[s] \/ event'[s] = q => s = SinkFor(q)
  BY <1>4 DEF Inv, OneHolder
<1>11. \A d \in Collector : IsInjective(batch'[d])
  BY <1>4, <1>5 DEF Inv, OneHolder
<1>. QED BY <1>3, <1>4, <1>6, <1>7, <1>8, <1>9, <1>10, <1>11 DEF Inv, OneHolder, SinkFor

LEMMA EmitOneHolder ==
    ASSUME Inv, NEW c \in Collector, Emit(c)
    PROVE  OneHolder'
<1>. DEFINE p == Head(batch[c])
<1>1. batch \in [Collector -> Seq(Parcel)] /\ batch[c] # <<>>
  BY DEF Inv, TypeOK, ClientTypeOK, Emit, Advance
<1>2. /\ p \in Parcel /\ p \in Range(batch[c])
      /\ Range(Tail(batch[c])) = Range(batch[c]) \ {p}
      /\ IsInjective(Tail(batch[c]))
  BY <1>1, TailRange DEF Inv, OneHolder
<1>3. ~InQueue(p) /\ ~Downstream(p) /\ InBatch(p, c) /\ \A d \in Collector \ {c} : ~InBatch(p, d)
  BY <1>2 DEF InBatch, Inv, OneHolder
<1>4. /\ batch'[c] = Tail(batch[c])
      /\ \A d \in Collector \ {c} : batch'[d] = batch[d]
      /\ toKeyBy' = toKeyBy \cup {p}
      /\ UNCHANGED <<writeQueue, toSink, event>>
  BY <1>1 DEF Emit, Current, clientVars
<1>5. \A q \in Parcel, d \in Collector : InBatch(q, d)' <=> InBatch(q, d) /\ q # p
  BY <1>2, <1>3, <1>4 DEF InBatch
<1>6. \A q \in Parcel : (InQueue(q)' <=> InQueue(q)) /\ (AtSink(q)' <=> AtSink(q))
                        /\ (InSink(q)' <=> InSink(q))
                        /\ (Downstream(q)' <=> Downstream(q) \/ q = p)
  BY <1>4 DEF InQueue, AtSink, InSink, Downstream, SinkFor
<1>7. \A d \in Collector : IsInjective(batch'[d])
  BY <1>2, <1>4 DEF Inv, OneHolder
<1>8. \A s \in Server :
          /\ IsInjective(writeQueue'[s])
          /\ \A q \in Range(writeQueue'[s]) : HomeOf[q] = s
  BY <1>4 DEF Inv, OneHolder
<1>9. \A q \in Parcel, s \in Sink : q \in toSink'[s] \/ event'[s] = q => s = SinkFor(q)
  BY <1>4 DEF Inv, OneHolder
<1>10. \A q \in Parcel : q \in toKeyBy' => ~AtSink(q) /\ ~InSink(q)
  BY <1>3, <1>4 DEF Inv, OneHolder, Downstream
<1>. QED BY <1>3, <1>5, <1>6, <1>7, <1>8, <1>9, <1>10 DEF Inv, OneHolder, SinkFor

LEMMA KeyByOneHolder ==
    ASSUME Inv, NEW p \in Parcel, KeyBy(p)
    PROVE  OneHolder'
<1>1. SinkFor(p) \in Sink /\ toSink \in [Sink -> SUBSET Parcel]
  BY DEF SinkFor, Inv, TypeOK
<1>2. /\ toKeyBy' = toKeyBy \ {p} /\ p \in toKeyBy
      /\ toSink'[SinkFor(p)] = toSink[SinkFor(p)] \cup {p}
      /\ \A s \in Sink \ {SinkFor(p)} : toSink'[s] = toSink[s]
      /\ UNCHANGED <<writeQueue, batch, event>>
  BY <1>1 DEF KeyBy, SinkFor, clientVars, sourceVars
<1>3. Downstream(p) /\ ~InSink(p)
  BY <1>2 DEF Downstream, Inv, OneHolder
<1>4. \A q \in Parcel : SinkFor(q) \in Sink
  BY DEF SinkFor
<1>5. \A q \in Parcel : /\ AtSink(q)' <=> AtSink(q) \/ q = p
                        /\ InSink(q)' <=> InSink(q)
                        /\ InQueue(q)' <=> InQueue(q)
                        /\ Downstream(q)' <=> Downstream(q)
                        /\ \A c \in Collector : InBatch(q, c)' <=> InBatch(q, c)
  BY <1>2, <1>3, <1>4 DEF AtSink, InSink, InQueue, Downstream, InBatch, SinkFor
<1>6. \A q \in Parcel, s \in Sink : q \in toSink'[s] \/ event'[s] = q => s = SinkFor(q)
  BY <1>1, <1>2 DEF Inv, OneHolder
<1>7. \A q \in Parcel : q \in toKeyBy' => ~AtSink(q)' /\ ~InSink(q)'
  BY <1>2, <1>5 DEF Inv, OneHolder
<1>8. \A q \in Parcel : AtSink(q)' => ~InSink(q)'
  BY <1>3, <1>5 DEF Inv, OneHolder
<1>9. /\ \A s \in Server :
          /\ IsInjective(writeQueue'[s])
          /\ \A q \in Range(writeQueue'[s]) : HomeOf[q] = s
      /\ \A c \in Collector : IsInjective(batch'[c])
  BY <1>2 DEF Inv, OneHolder
<1>. QED BY <1>5, <1>6, <1>7, <1>8, <1>9 DEF Inv, OneHolder, SinkFor

LEMMA ReadOneHolder ==
    ASSUME Inv, NEW s \in Sink, NEW p \in Parcel, ReadTemp(s, p)
    PROVE  OneHolder'
<1>1. toSink \in [Sink -> SUBSET Parcel] /\ event \in [Sink -> Parcel \cup {Nothing}]
  BY DEF Inv, TypeOK
<1>2. /\ p \in toSink[s] /\ event[s] = Nothing
      /\ toSink'[s] = toSink[s] \ {p}
      /\ event'[s] = p
      /\ \A k \in Sink \ {s} : toSink'[k] = toSink[k] /\ event'[k] = event[k]
      /\ UNCHANGED <<writeQueue, batch, toKeyBy>>
  BY <1>1 DEF ReadTemp, clientVars, sourceVars, Inv, SinksHoldEvents
<1>3. s = SinkFor(p) /\ AtSink(p) /\ Downstream(p)
  BY <1>2 DEF Inv, OneHolder, AtSink, Downstream
<1>4. \A q \in Parcel : SinkFor(q) \in Sink
  BY DEF SinkFor
<1>5. \A q \in Parcel : /\ AtSink(q)' <=> AtSink(q) /\ q # p
                        /\ InSink(q)' <=> InSink(q) \/ q = p
                        /\ InQueue(q)' <=> InQueue(q)
                        /\ \A c \in Collector : InBatch(q, c)' <=> InBatch(q, c)
  <2>1. ASSUME NEW q \in Parcel PROVE (AtSink(q)' <=> AtSink(q) /\ q # p)
    BY <1>2, <1>3, <1>4 DEF AtSink, SinkFor
  <2>2. ASSUME NEW q \in Parcel PROVE (InSink(q)' <=> InSink(q) \/ q = p)
    BY <1>2, <1>3, <1>4 DEF InSink, SinkFor
  <2>. QED BY <1>2, <2>1, <2>2 DEF InQueue, InBatch
<1>6. \A q \in Parcel : Downstream(q)' <=> Downstream(q)
  BY <1>2, <1>3, <1>5 DEF Downstream
<1>7. \A q \in Parcel, k \in Sink : q \in toSink'[k] \/ event'[k] = q => k = SinkFor(q)
  BY <1>2, <1>3 DEF Inv, OneHolder
<1>8. \A q \in Parcel : q \in toKeyBy' => ~AtSink(q)' /\ ~InSink(q)'
  BY <1>2, <1>3, <1>5 DEF Inv, OneHolder
<1>9. \A q \in Parcel : AtSink(q)' => ~InSink(q)'
  BY <1>5 DEF Inv, OneHolder
<1>10. /\ \A k \in Server :
           /\ IsInjective(writeQueue'[k])
           /\ \A q \in Range(writeQueue'[k]) : HomeOf[q] = k
       /\ \A c \in Collector : IsInjective(batch'[c])
  BY <1>2 DEF Inv, OneHolder
<1>. QED BY <1>5, <1>6, <1>7, <1>8, <1>9, <1>10 DEF Inv, OneHolder, SinkFor

LEMMA MarkOneHolder ==
    ASSUME Inv, NEW s \in Sink, MarkDone(s)
    PROVE  OneHolder'
<1>1. event \in [Sink -> Parcel \cup {Nothing}]
  BY DEF Inv, TypeOK
<1>2. /\ event'[s] = Nothing
      /\ \A k \in Sink \ {s} : event'[k] = event[k]
      /\ UNCHANGED <<writeQueue, batch, toKeyBy, toSink>>
  BY <1>1 DEF MarkDone, clientVars, sourceVars
<1>3. \A q \in Parcel : /\ InSink(q)' => InSink(q)
                        /\ AtSink(q)' <=> AtSink(q)
                        /\ InQueue(q)' <=> InQueue(q)
                        /\ \A c \in Collector : InBatch(q, c)' <=> InBatch(q, c)
  BY <1>2 DEF AtSink, InSink, InQueue, InBatch, SinkFor
<1>4. \A q \in Parcel : Downstream(q)' => Downstream(q)
  BY <1>2, <1>3 DEF Downstream
<1>5. \A q \in Parcel, k \in Sink : q \in toSink'[k] \/ event'[k] = q => k = SinkFor(q)
  BY <1>2 DEF Inv, OneHolder
<1>6. /\ \A k \in Server :
           /\ IsInjective(writeQueue'[k])
           /\ \A q \in Range(writeQueue'[k]) : HomeOf[q] = k
       /\ \A c \in Collector : IsInjective(batch'[c])
  BY <1>2 DEF Inv, OneHolder
<1>. QED BY <1>2, <1>3, <1>4, <1>5, <1>6 DEF Inv, OneHolder, SinkFor

LEMMA InvNext == Inv /\ [Next]_vars => Inv'
<1>. SUFFICES ASSUME Inv, [Next]_vars PROVE OneHolder'
  BY TypeNext, HeldNext, OwnersNext, SinksNext DEF Inv
<1>1. CASE UNCHANGED hands
  BY <1>1, SameHands DEF Inv
<1>. QED
  BY <1>1, PushOneHolder, PopOneHolder, EmitOneHolder, KeyByOneHolder, ReadOneHolder, MarkOneHolder
  DEF Next, ClientNext, ClientStep, SourceStep, SinkStep, GetWriteParsel, hands, vars,
      clientVars, sourceVars, jobVars,
      PublishPut, PublishRecord, WaitBegin, WaitPoll, WaitErase, FinalizeClient,
      Poll, PopFails, Stop, SpoolTemp, DeleteData, MarkInProgress, RemoveTemp, WriteTarget

(***************************************************************************)
(* However many source tasks drain a queue and however many sinks run,     *)
(* no parcel is ever in two hands, or twice in one.                        *)
(***************************************************************************)
THEOREM HeldOnce == Spec => []OneHolder
<1>1. Init => Inv
  BY TypeInit, InvInit DEF Inv
<1>2. Inv => OneHolder
  BY DEF Inv
<1>. QED BY <1>1, <1>2, InvNext, PTL DEF Spec
-----------------------------------------------------------------------------
(***************************************************************************)
(* DataInPlace and DoneIsDurable, when no two parcels share a block.       *)
(***************************************************************************)
DataInv == Inv /\ DataInPlace /\ DoneIsDurable

\* a step after which the same parcels are on their way
SameFlight == \A p \in Parcel : InFlight(p)' <=> InFlight(p)

LEMMA DataInit == Init => DataInPlace /\ DoneIsDurable
<1>. SUFFICES ASSUME Init PROVE DataInPlace /\ DoneIsDurable
  OBVIOUS
<1>1. /\ \A s \in Server : Range(writeQueue[s]) = {}
      /\ \A c \in Collector : Range(batch[c]) = {}
      /\ pushed = {} /\ toKeyBy = {}
      /\ \A s \in Sink : toSink[s] = {} /\ event[s] = Nothing
      /\ \A p \in Parcel : pc[p] = "new" /\ parselState[p] = Nothing
  BY EmptyRange DEF Init, ClientInit, StoreInit
<1>2. \A p \in Parcel : SinkFor(p) \in Sink /\ HomeOf[p] \in Server /\ p # Nothing
  BY DEF SinkFor
<1>3. DataInPlace
  BY <1>1, <1>2 DEF DataInPlace, QueuedData, PoppedData, EmittedData, SinkData, StoredData,
                    InQueue, InBatch, AtSink, InSink
<1>. QED BY <1>1, <1>3 DEF DoneIsDurable, TaskStatus

LEMMA SameHolders ==
    ASSUME UNCHANGED hands
    PROVE  \A p \in Parcel :
               /\ InQueue(p)' <=> InQueue(p)
               /\ \A c \in Collector : InBatch(p, c)' <=> InBatch(p, c)
               /\ AtSink(p)' <=> AtSink(p)
               /\ InSink(p)' <=> InSink(p)
               /\ toKeyBy' = toKeyBy
               /\ InFlight(p)' <=> InFlight(p)
BY DEF hands, InQueue, InBatch, AtSink, InSink, InFlight, Downstream, SinkFor

(***************************************************************************)
(* The steps of a client.                                                  *)
(***************************************************************************)
LEMMA ClientData ==
    ASSUME DataInv, NEW r \in Parcel, UNCHANGED jobVars,
           \/ PublishPut(r) \/ PublishRecord(r) \/ WaitBegin(r) \/ WaitPoll(r) \/ WaitErase(r)
    PROVE  DataInPlace' /\ DoneIsDurable'
<1>1. /\ UNCHANGED <<hands, jobVars, storage, pushed, task, batch>>
      /\ \A p \in Parcel : warehouse'[p] = warehouse[p] \/ (p = r /\ warehouse'[p] = p)
      /\ \A p \in Parcel : pc'[p] = "pushing" => pc[p] = "pushing" \/ (p = r /\ warehouse'[p] = p)
  BY DEF PublishPut, PublishRecord, WaitBegin, WaitPoll, WaitErase, Goto, Put, hands, jobVars,
         sourceVars, storeVars, DataInv, Inv, TypeOK, ClientTypeOK, StoreTypeOK
<1>2. \A p \in Parcel :
          /\ InQueue(p)' <=> InQueue(p)
          /\ AtSink(p)' <=> AtSink(p)
          /\ InSink(p)' <=> InSink(p)
          /\ InFlight(p)' <=> InFlight(p)
          /\ \A c \in Collector : InBatch(p, c)' <=> InBatch(p, c)
  BY <1>1, SameHolders
<1>3. \A p \in Parcel, c \in Collector : Spooled(p, c)' <=> Spooled(p, c)
  BY <1>1 DEF Spooled, Current
<1>4. DataInPlace'
  BY <1>1, <1>2, <1>3
  DEF DataInv, DataInPlace, QueuedData, PoppedData, EmittedData, SinkData, StoredData, jobVars, SinkFor
<1>5. \A p \in Parcel :
          parselState'[p] = "DONE" \/ pc'[p] \in {"erasing", "acked"} =>
              parselState[p] = "DONE" \/ pc[p] \in {"erasing", "acked"}
  BY DEF PublishPut, PublishRecord, WaitBegin, WaitPoll, WaitErase, Goto, Put, Erase,
         storeVars, DataInv, Inv, TypeOK, ClientTypeOK, StoreTypeOK, TaskStatus
<1>. QED BY <1>1, <1>2, <1>4, <1>5 DEF DataInv, DoneIsDurable

LEMMA PushData ==
    ASSUME DataInv, NEW r \in Parcel, PublishPush(r), UNCHANGED jobVars
    PROVE  DataInPlace' /\ DoneIsDurable'
<1>1. pc[r] = "pushing" /\ r \notin pushed /\ parselState[r] # "DONE" /\ warehouse[r] = r
  BY DEF PublishPush, DataInv, Inv, OwnersArePast, DoneIsDurable, DataInPlace, QueuedData
<1>2. /\ UNCHANGED <<storeVars, jobVars, task, batch>>
      /\ pc'[r] \in {"recording", "refused"}
      /\ \A p \in Parcel \ {r} : pc'[p] = pc[p]
      /\ \A p \in Parcel \ {r} : p \in pushed' <=> p \in pushed
  BY DEF PublishPush, Goto, sourceVars, DataInv, Inv, TypeOK, ClientTypeOK
<1>3. \A p \in Parcel :
          /\ AtSink(p)' <=> AtSink(p)
          /\ InSink(p)' <=> InSink(p)
          /\ \A c \in Collector : InBatch(p, c)' <=> InBatch(p, c)
          /\ \A c \in Collector : Spooled(p, c)' <=> Spooled(p, c)
          /\ Downstream(p)' <=> Downstream(p)
  BY <1>2 DEF AtSink, InSink, InBatch, SinkFor, jobVars, Spooled, Current, Downstream
<1>4. \A p \in Parcel \ {r} : InQueue(p)' <=> InQueue(p)
  <2>1. HomeOf[r] \in Server /\ writeQueue \in [Server -> Seq(Parcel)]
    BY DEF DataInv, Inv, TypeOK, ClientTypeOK
  <2>2. Range(Append(writeQueue[HomeOf[r]], r)) = Range(writeQueue[HomeOf[r]]) \cup {r}
    BY <2>1, AppendRange
  <2>3. CASE writeQueue' = [writeQueue EXCEPT ![HomeOf[r]] = Append(@, r)]
    <3>1. \A s \in Server : \A p \in Parcel \ {r} :
              p \in Range(writeQueue'[s]) <=> p \in Range(writeQueue[s])
      BY <2>1, <2>2, <2>3
    <3>. QED BY <3>1 DEF InQueue
  <2>4. CASE UNCHANGED writeQueue
    BY <2>4 DEF InQueue
  <2>. QED BY <2>3, <2>4 DEF PublishPush
<1>5. /\ \A p \in Parcel \ {r} : InFlight(p)' <=> InFlight(p)
      /\ r \in pushed' => InQueue(r)'
  <2>1. HomeOf[r] \in Server /\ writeQueue \in [Server -> Seq(Parcel)]
    BY DEF DataInv, Inv, TypeOK, ClientTypeOK
  <2>2. r \in Range(Append(writeQueue[HomeOf[r]], r))
    BY <2>1, AppendRange
  <2>3. r \in pushed' => InQueue(r)'
    BY <1>1, <2>1, <2>2 DEF PublishPush, InQueue
  <2>. QED BY <1>3, <1>4, <2>3 DEF InFlight
<1>6. ASSUME NEW p \in Parcel
      PROVE  /\ QueuedData(p)' /\ EmittedData(p)' /\ SinkData(p)' /\ StoredData(p)'
             /\ \A c \in Collector : PoppedData(p, c)'
  <2>1. QueuedData(p)'
    BY <1>1, <1>2, <1>4 DEF QueuedData, DataInv, DataInPlace, storeVars
  <2>2. EmittedData(p)' /\ SinkData(p)' /\ \A c \in Collector : PoppedData(p, c)'
    BY <1>2, <1>3
    DEF EmittedData, SinkData, PoppedData, DataInv, DataInPlace, storeVars, jobVars, SinkFor
  <2>3. StoredData(p)'
    BY <1>2, <1>5 DEF StoredData, DataInv, DataInPlace, storeVars, InFlight
  <2>. QED BY <2>1, <2>2, <2>3
<1>7. DoneIsDurable'
  BY <1>1, <1>2, <1>5 DEF DoneIsDurable, DataInv, storeVars
<1>. QED BY <1>6, <1>7 DEF DataInPlace

(***************************************************************************)
(* The steps of a source task.                                             *)
(***************************************************************************)
LEMMA PollData ==
    ASSUME DataInv, UNCHANGED jobVars,
           FinalizeClient \/ \E c \in Collector : Poll(c) \/ PopFails(c) \/ Stop(c)
    PROVE  DataInPlace' /\ DoneIsDurable'
<1>1. UNCHANGED <<hands, jobVars, storeVars, clientVars, batch>>
  BY DEF FinalizeClient, Poll, PopFails, Stop, hands, jobVars, clientVars, sourceVars
<1>2. \A p \in Parcel :
          /\ InQueue(p)' <=> InQueue(p)
          /\ AtSink(p)' <=> AtSink(p)
          /\ InSink(p)' <=> InSink(p)
          /\ InFlight(p)' <=> InFlight(p)
          /\ \A c \in Collector : InBatch(p, c)' <=> InBatch(p, c)
  BY <1>1, SameHolders
<1>3. \A p \in Parcel, c \in Collector : Spooled(p, c)' <=> Spooled(p, c)
  BY <1>1 DEF FinalizeClient, Poll, PopFails, Stop, Spooled, Current, sourceVars,
              DataInv, Inv, TypeOK
<1>. QED
  BY <1>1, <1>2, <1>3
  DEF DataInv, DataInPlace, QueuedData, PoppedData, EmittedData, SinkData, StoredData, SinkFor,
      jobVars, storeVars, clientVars, DoneIsDurable

LEMMA PopData ==
    ASSUME DataInv, NEW c \in Collector, Pop(c), UNCHANGED jobVars
    PROVE  DataInPlace' /\ DoneIsDurable' /\ SameFlight
<1>. DEFINE h == Serves[c]
            r == Head(writeQueue[h])
<1>1. /\ h \in Server /\ writeQueue \in [Server -> Seq(Parcel)] /\ writeQueue[h] # <<>>
      /\ batch \in [Collector -> Seq(Parcel)]
  BY DEF DataInv, Inv, TypeOK, ClientTypeOK, Pop
<1>2. /\ r \in Parcel /\ InQueue(r)
      /\ Range(Tail(writeQueue[h])) = Range(writeQueue[h]) \ {r}
      /\ Range(Append(batch[c], r)) = Range(batch[c]) \cup {r}
  BY <1>1, TailRange, AppendRange DEF DataInv, Inv, OneHolder, InQueue
<1>3. /\ UNCHANGED <<storeVars, pc, pushed, jobVars, task>>
      /\ writeQueue'[h] = Tail(writeQueue[h])
      /\ \A s \in Server \ {h} : writeQueue'[s] = writeQueue[s]
      /\ batch'[c] = Append(batch[c], r)
      /\ \A d \in Collector \ {c} : batch'[d] = batch[d]
      /\ task[c] = "drain"
  BY <1>1 DEF Pop
<1>4. \A p \in Parcel : InQueue(p)' => InQueue(p)
  <2>1. \A s \in Server : Range(writeQueue'[s]) \subseteq Range(writeQueue[s])
    BY <1>2, <1>3
  <2>. QED BY <2>1 DEF InQueue
<1>5. \A p \in Parcel, d \in Collector : InBatch(p, d)' <=> InBatch(p, d) \/ (p = r /\ d = c)
  BY <1>2, <1>3 DEF InBatch
<1>6. \A p \in Parcel :
          /\ AtSink(p)' <=> AtSink(p)
          /\ InSink(p)' <=> InSink(p)
          /\ Downstream(p)' <=> Downstream(p)
  BY <1>3 DEF AtSink, InSink, SinkFor, jobVars, Downstream
<1>7. \A p \in Parcel, d \in Collector : Spooled(p, d)' <=> Spooled(p, d)
  BY <1>3 DEF Spooled, Current
<1>8. \A p \in Parcel : InFlight(p)' <=> InFlight(p)
  <2>1. \A p \in Parcel \ {r} : InQueue(p)' <=> InQueue(p)
    <3>1. \A s \in Server : \A p \in Parcel \ {r} :
              p \in Range(writeQueue'[s]) <=> p \in Range(writeQueue[s])
      BY <1>2, <1>3
    <3>. QED BY <3>1 DEF InQueue
  <2>2. \A p \in Parcel : p = r => InBatch(p, c)'
    BY <1>5
  <2>3. ASSUME NEW p \in Parcel, p # r PROVE InFlight(p)' <=> InFlight(p)
    BY <1>5, <1>6, <2>1, <2>3 DEF InFlight
  <2>4. ASSUME NEW p \in Parcel, p = r PROVE InFlight(p)' /\ InFlight(p)
    BY <1>2, <2>2, <2>4 DEF InFlight
  <2>. QED BY <2>3, <2>4
<1>9. warehouse[r] = r /\ ~Spooled(r, c)
  BY <1>2, <1>3 DEF DataInv, DataInPlace, QueuedData, Spooled
<1>10. ASSUME NEW p \in Parcel
       PROVE  /\ QueuedData(p)' /\ EmittedData(p)' /\ SinkData(p)' /\ StoredData(p)'
              /\ \A d \in Collector : PoppedData(p, d)'
  <2>1. QueuedData(p)'
    BY <1>3, <1>4 DEF QueuedData, DataInv, DataInPlace, storeVars
  <2>2. \A d \in Collector : PoppedData(p, d)'
    BY <1>3, <1>5, <1>7, <1>9 DEF PoppedData, DataInv, DataInPlace, storeVars, jobVars
  <2>3. EmittedData(p)' /\ SinkData(p)'
    BY <1>3, <1>6 DEF EmittedData, SinkData, SinkFor, DataInv, DataInPlace, storeVars, jobVars
  <2>4. StoredData(p)'
    BY <1>3, <1>8 DEF StoredData, DataInv, DataInPlace, storeVars
  <2>. QED BY <2>1, <2>2, <2>3, <2>4
<1>11. DoneIsDurable'
  BY <1>3, <1>8 DEF DoneIsDurable, DataInv, storeVars
<1>. QED BY <1>8, <1>10, <1>11 DEF DataInPlace, SameFlight

LEMMA LoopData ==
    ASSUME DistinctBlocks, DataInv, NEW c \in Collector,
           SpoolTemp(c) \/ DeleteData(c) \/ MarkInProgress(c)
    PROVE  DataInPlace' /\ DoneIsDurable'
<1>. DEFINE r == Current(c)
<1>1. /\ batch[c] \in Seq(Parcel) /\ batch[c] # <<>>
      /\ r \in Parcel /\ InBatch(r, c)
  BY TailRange DEF SpoolTemp, DeleteData, MarkInProgress, Advance, DataInv, Inv, TypeOK,
                   ClientTypeOK, Current, InBatch
<1>2. /\ ~InQueue(r) /\ ~Downstream(r) /\ InFlight(r) /\ r \in pushed /\ pc[r] # "pushing"
      /\ \A d \in Collector \ {c} : ~InBatch(r, d)
  BY <1>1 DEF DataInv, Inv, OneHolder, HeldArePushed, OwnersArePast, InFlight, InBatch
<1>3. UNCHANGED <<hands, storage, clientVars, batch, sink, event, buffer>>
  BY DEF SpoolTemp, DeleteData, MarkInProgress, hands, storeVars, clientVars, jobVars
<1>4. \A p \in Parcel :
          /\ InQueue(p)' <=> InQueue(p)
          /\ AtSink(p)' <=> AtSink(p)
          /\ InSink(p)' <=> InSink(p)
          /\ toKeyBy' = toKeyBy
          /\ InFlight(p)' <=> InFlight(p)
          /\ \A d \in Collector : InBatch(p, d)' <=> InBatch(p, d)
  BY <1>3, SameHolders
<1>5. \A p \in Parcel, d \in Collector :
          d # c \/ p # r => (Spooled(p, d)' <=> Spooled(p, d))
  <2>1. \A d \in Collector \ {c} : task'[d] = task[d]
    BY DEF SpoolTemp, DeleteData, MarkInProgress, Advance, DataInv, Inv, TypeOK
  <2>2. ASSUME NEW p \in Parcel, NEW d \in Collector, d # c
        PROVE  Spooled(p, d)' <=> Spooled(p, d)
    BY <1>3, <2>1, <2>2 DEF Spooled, Current
  <2>3. ASSUME NEW p \in Parcel, p # r PROVE ~Spooled(p, c)' /\ ~Spooled(p, c)
    BY <1>3, <2>3 DEF Spooled, Current
  <2>. QED BY <2>2, <2>3
<1>6. \A p \in Parcel : p = r => Spooled(p, c)'
  BY <1>1, <1>3 DEF SpoolTemp, DeleteData, MarkInProgress, Advance, Spooled, Current,
                    DataInv, Inv, TypeOK
<1>7. \A p \in Parcel \ {r} :
          /\ warehouse'[p] = warehouse[p]
          /\ temp'[BlockOf[p]] = temp[BlockOf[p]]
  BY <1>1 DEF DistinctBlocks, SpoolTemp, DeleteData, MarkInProgress, Erase, storeVars, jobVars,
              DataInv, Inv, TypeOK, ClientTypeOK, StoreTypeOK
<1>8. temp'[BlockOf[r]] = r
  <2>1. CASE SpoolTemp(c)
    <3>1. warehouse[r] = r
      BY <1>1, <2>1 DEF SpoolTemp, Advance, DataInv, DataInPlace, PoppedData, Spooled
    <3>. QED BY <1>1, <2>1, <3>1 DEF SpoolTemp, Fetched, DataInv, Inv, TypeOK
  <2>2. CASE DeleteData(c) \/ MarkInProgress(c)
    <3>1. Spooled(r, c)
      BY <1>1, <2>2 DEF DeleteData, MarkInProgress, Advance, Spooled
    <3>. QED BY <1>1, <2>2, <3>1 DEF DeleteData, MarkInProgress, jobVars, DataInv, DataInPlace,
                                     PoppedData
  <2>. QED BY <2>1, <2>2
<1>9. ASSUME NEW p \in Parcel
      PROVE  /\ QueuedData(p)' /\ EmittedData(p)' /\ SinkData(p)' /\ StoredData(p)'
             /\ \A d \in Collector : PoppedData(p, d)'
  <2>1. QueuedData(p)'
    BY <1>2, <1>3, <1>4, <1>7 DEF QueuedData, DataInv, DataInPlace, clientVars
  <2>2. ASSUME NEW d \in Collector PROVE PoppedData(p, d)'
    <3>1. PoppedData(p, d)
      BY DEF DataInv, DataInPlace
    <3>2. CASE p = r
      <4>1. temp'[BlockOf[p]] = p
        BY <1>8, <3>2
      <4>. QED BY <1>2, <1>4, <1>6, <3>2, <4>1 DEF PoppedData
    <3>3. CASE p # r
      BY <1>4, <1>5, <1>7, <3>1, <3>3 DEF PoppedData
    <3>. QED BY <3>2, <3>3
  <2>3. EmittedData(p)' /\ SinkData(p)'
    BY <1>2, <1>3, <1>4, <1>7 DEF EmittedData, SinkData, SinkFor, DataInv, DataInPlace, Downstream
  <2>4. StoredData(p)'
    BY <1>3, <1>4 DEF StoredData, DataInv, DataInPlace, clientVars
  <2>. QED BY <2>1, <2>2, <2>3, <2>4
<1>10. \A p \in Parcel : parselState'[p] = "DONE" => parselState[p] = "DONE"
  BY <1>1 DEF SpoolTemp, DeleteData, MarkInProgress, Put, storeVars,
              DataInv, Inv, TypeOK, ClientTypeOK, StoreTypeOK
<1>11. DoneIsDurable'
  BY <1>3, <1>4, <1>10 DEF DoneIsDurable, DataInv, clientVars
<1>. QED BY <1>9, <1>11 DEF DataInPlace

LEMMA EmitData ==
    ASSUME DataInv, NEW c \in Collector, Emit(c)
    PROVE  DataInPlace' /\ DoneIsDurable' /\ SameFlight
<1>. DEFINE r == Head(batch[c])
<1>1. batch \in [Collector -> Seq(Parcel)] /\ batch[c] # <<>> /\ task[c] = "emit"
  BY DEF DataInv, Inv, TypeOK, ClientTypeOK, Emit, Advance
<1>2. /\ r \in Parcel /\ InBatch(r, c)
      /\ Range(Tail(batch[c])) = Range(batch[c]) \ {r}
  BY <1>1, TailRange DEF DataInv, Inv, OneHolder, InBatch
<1>3. ~InQueue(r) /\ ~Downstream(r) /\ \A d \in Collector \ {c} : ~InBatch(r, d)
  BY <1>2 DEF DataInv, Inv, OneHolder
<1>4. /\ batch'[c] = Tail(batch[c]) /\ task'[c] \in {"poll", "load"}
      /\ \A d \in Collector \ {c} : batch'[d] = batch[d] /\ task'[d] = task[d]
      /\ toKeyBy' = toKeyBy \cup {r}
      /\ UNCHANGED <<storeVars, writeQueue, pc, pushed, temp, toSink, sink, event, buffer>>
  BY <1>1 DEF Emit, Advance, Current, clientVars, DataInv, Inv, TypeOK
<1>5. \A p \in Parcel, d \in Collector : InBatch(p, d)' <=> InBatch(p, d) /\ p # r
  BY <1>2, <1>3, <1>4 DEF InBatch
<1>6. \A p \in Parcel :
          /\ InQueue(p)' <=> InQueue(p)
          /\ AtSink(p)' <=> AtSink(p)
          /\ InSink(p)' <=> InSink(p)
          /\ InFlight(p)' <=> InFlight(p)
  BY <1>2, <1>3, <1>4, <1>5 DEF InQueue, AtSink, InSink, SinkFor, InFlight, Downstream
<1>7. /\ \A p \in Parcel, d \in Collector \ {c} : Spooled(p, d)' <=> Spooled(p, d)
      /\ \A p \in Parcel : ~Spooled(p, c)'
      /\ \A p \in Parcel \ {r} : ~Spooled(p, c)
      /\ Spooled(r, c)
  BY <1>1, <1>4 DEF Spooled, Current
<1>8. ASSUME NEW p \in Parcel
      PROVE  /\ QueuedData(p)' /\ EmittedData(p)' /\ SinkData(p)' /\ StoredData(p)'
             /\ \A d \in Collector : PoppedData(p, d)'
  <2>1. QueuedData(p)' /\ SinkData(p)' /\ StoredData(p)'
    BY <1>4, <1>6 DEF QueuedData, SinkData, StoredData, SinkFor, DataInv, DataInPlace, storeVars
  <2>2. ASSUME NEW d \in Collector PROVE PoppedData(p, d)'
    <3>1. PoppedData(p, d)
      BY DEF DataInv, DataInPlace
    <3>2. CASE d = c
      BY <1>2, <1>4, <1>5, <1>7, <3>1, <3>2 DEF PoppedData, storeVars
    <3>3. CASE d # c
      BY <1>4, <1>5, <1>7, <3>1, <3>3 DEF PoppedData, storeVars
    <3>. QED BY <3>2, <3>3
  <2>3. EmittedData(p)'
    BY <1>2, <1>4, <1>6, <1>7 DEF EmittedData, PoppedData, DataInv, DataInPlace
  <2>. QED BY <2>1, <2>2, <2>3
<1>9. DoneIsDurable'
  BY <1>4, <1>6 DEF DoneIsDurable, DataInv, storeVars
<1>. QED BY <1>6, <1>8, <1>9 DEF DataInPlace, SameFlight

(***************************************************************************)
(* The steps of the key-by task and of a sink.                             *)
(***************************************************************************)
LEMMA KeyByData ==
    ASSUME DataInv, NEW r \in Parcel, KeyBy(r)
    PROVE  DataInPlace' /\ DoneIsDurable' /\ SameFlight
<1>1. \A p \in Parcel : SinkFor(p) \in Sink
  BY DEF SinkFor
<1>2. /\ r \in toKeyBy /\ toKeyBy' = toKeyBy \ {r}
      /\ toSink'[SinkFor(r)] = toSink[SinkFor(r)] \cup {r}
      /\ \A s \in Sink \ {SinkFor(r)} : toSink'[s] = toSink[s]
      /\ UNCHANGED <<storeVars, clientVars, sourceVars, temp, sink, event, buffer>>
  BY <1>1 DEF KeyBy, SinkFor, DataInv, Inv, TypeOK
<1>3. \A p \in Parcel :
          /\ AtSink(p)' <=> AtSink(p) \/ p = r
          /\ InSink(p)' <=> InSink(p)
          /\ InQueue(p)' <=> InQueue(p)
          /\ \A c \in Collector : InBatch(p, c)' <=> InBatch(p, c)
          /\ \A c \in Collector : Spooled(p, c)' <=> Spooled(p, c)
  BY <1>1, <1>2 DEF AtSink, InSink, InQueue, InBatch, Spooled, Current, SinkFor, clientVars,
                    sourceVars
<1>4. \A p \in Parcel : InFlight(p)' <=> InFlight(p)
  BY <1>2, <1>3 DEF InFlight, Downstream
<1>. QED
  BY <1>2, <1>3, <1>4
  DEF DataInv, DataInPlace, QueuedData, PoppedData, EmittedData, SinkData, StoredData, SinkFor,
      storeVars, clientVars, DoneIsDurable, SameFlight

LEMMA ReadData ==
    ASSUME DataInv, NEW s \in Sink, NEW r \in Parcel, ReadTemp(s, r)
    PROVE  DataInPlace' /\ DoneIsDurable' /\ SameFlight
<1>1. \A p \in Parcel : SinkFor(p) \in Sink
  BY DEF SinkFor
<1>2. s = SinkFor(r) /\ AtSink(r) /\ event[s] = Nothing
  BY DEF ReadTemp, DataInv, Inv, OneHolder, AtSink, SinksHoldEvents
<1>3. /\ toSink'[s] = toSink[s] \ {r}
      /\ event'[s] = r /\ sink'[s] = "remove" /\ buffer'[s] = Fetched(temp[BlockOf[r]])
      /\ \A k \in Sink \ {s} : /\ toSink'[k] = toSink[k] /\ event'[k] = event[k]
                               /\ sink'[k] = sink[k] /\ buffer'[k] = buffer[k]
      /\ UNCHANGED <<storeVars, clientVars, sourceVars, temp, toKeyBy>>
  BY DEF ReadTemp, DataInv, Inv, TypeOK
<1>4. buffer'[s] = r
  BY <1>2, <1>3 DEF Fetched, DataInv, DataInPlace, EmittedData
<1>5. \A p \in Parcel :
          /\ AtSink(p)' <=> AtSink(p) /\ p # r
          /\ InSink(p)' <=> InSink(p) \/ p = r
          /\ InQueue(p)' <=> InQueue(p)
          /\ \A c \in Collector : InBatch(p, c)' <=> InBatch(p, c)
          /\ \A c \in Collector : Spooled(p, c)' <=> Spooled(p, c)
  <2>1. ASSUME NEW p \in Parcel PROVE (AtSink(p)' <=> AtSink(p) /\ p # r)
    BY <1>1, <1>2, <1>3 DEF AtSink, SinkFor
  <2>2. ASSUME NEW p \in Parcel PROVE (InSink(p)' <=> InSink(p) \/ p = r)
    BY <1>1, <1>2, <1>3 DEF InSink, SinkFor
  <2>3. ASSUME NEW p \in Parcel
        PROVE  /\ InQueue(p)' <=> InQueue(p)
               /\ \A c \in Collector : InBatch(p, c)' <=> InBatch(p, c)
               /\ \A c \in Collector : Spooled(p, c)' <=> Spooled(p, c)
    BY <1>3 DEF InQueue, InBatch, Spooled, Current, clientVars, sourceVars
  <2>. QED BY <2>1, <2>2, <2>3
<1>6. \A p \in Parcel : InFlight(p)' <=> InFlight(p)
  BY <1>2, <1>3, <1>5 DEF InFlight, Downstream
<1>7. ASSUME NEW p \in Parcel PROVE SinkData(p)'
  <2>1. CASE p = r
    BY <1>2, <1>3, <1>4, <2>1 DEF SinkData, SinkFor
  <2>2. CASE p # r
    <3>1. InSink(p)' => SinkFor(p) # s
      BY <1>2, <1>5, <2>2 DEF InSink
    <3>. QED BY <1>1, <1>3, <1>5, <2>2, <3>1 DEF SinkData, SinkFor, DataInv, DataInPlace,
                                                 storeVars
  <2>. QED BY <2>1, <2>2
<1>. QED
  BY <1>3, <1>5, <1>6, <1>7
  DEF DataInv, DataInPlace, QueuedData, PoppedData, EmittedData, StoredData,
      storeVars, clientVars, DoneIsDurable, SameFlight

LEMMA RunData ==
    ASSUME DistinctBlocks, DataInv, NEW s \in Sink, RemoveTemp(s) \/ WriteTarget(s)
    PROVE  DataInPlace' /\ DoneIsDurable'
<1>. DEFINE r == event[s]
<1>1. r \in Parcel /\ s = SinkFor(r) /\ InSink(r) /\ sink[s] # "done"
  <2>1. r # Nothing /\ sink[s] # "done"
    BY DEF RemoveTemp, WriteTarget, DataInv, Inv, SinksHoldEvents
  <2>2. r \in Parcel
    BY <2>1 DEF DataInv, Inv, TypeOK
  <2>3. s = SinkFor(r)
    BY <2>2 DEF DataInv, Inv, OneHolder
  <2>. QED BY <2>1, <2>2, <2>3 DEF InSink
<1>2. /\ ~InQueue(r) /\ r \notin toKeyBy /\ ~AtSink(r) /\ InFlight(r)
      /\ \A c \in Collector : ~InBatch(r, c)
  BY <1>1 DEF DataInv, Inv, OneHolder, Downstream, InFlight
<1>3. UNCHANGED <<hands, warehouse, parselState, clientVars, sourceVars, buffer>>
  BY DEF RemoveTemp, WriteTarget, hands, storeVars, clientVars, sourceVars
<1>4. \A p \in Parcel :
          /\ InQueue(p)' <=> InQueue(p)
          /\ AtSink(p)' <=> AtSink(p)
          /\ InSink(p)' <=> InSink(p)
          /\ toKeyBy' = toKeyBy
          /\ InFlight(p)' <=> InFlight(p)
          /\ \A c \in Collector : InBatch(p, c)' <=> InBatch(p, c)
          /\ \A c \in Collector : Spooled(p, c)' <=> Spooled(p, c)
  BY <1>3, SameHolders DEF Spooled, Current, sourceVars
<1>5. \A p \in Parcel : p # r =>
          /\ temp'[BlockOf[p]] = temp[BlockOf[p]]
          /\ storage'[BlockOf[p]] = storage[BlockOf[p]]
  BY <1>1 DEF DistinctBlocks, RemoveTemp, WriteTarget, storeVars, DataInv, Inv, TypeOK,
              ClientTypeOK, StoreTypeOK
<1>6. /\ \A k \in Sink \ {s} : sink'[k] = sink[k]
      /\ sink'[s] = "done" => storage'[BlockOf[r]] = buffer[s]
  BY <1>1 DEF RemoveTemp, WriteTarget, storeVars, DataInv, Inv, TypeOK, ClientTypeOK, StoreTypeOK
<1>7. buffer[s] = r
  BY <1>1 DEF DataInv, DataInPlace, SinkData
<1>8. ASSUME NEW p \in Parcel PROVE SinkData(p)'
  <2>1. SinkFor(p) \in Sink
    BY DEF SinkFor
  <2>2. CASE p = r
    BY <1>1, <1>3, <1>6, <1>7, <2>2 DEF SinkData, SinkFor
  <2>3. CASE p # r
    <3>1. InSink(p) => SinkFor(p) # s
      BY <2>3 DEF InSink
    <3>. QED BY <1>3, <1>4, <1>5, <1>6, <2>1, <2>3, <3>1 DEF SinkData, SinkFor, DataInv, DataInPlace
  <2>. QED BY <2>2, <2>3
<1>9. ASSUME NEW p \in Parcel
      PROVE  /\ QueuedData(p)' /\ EmittedData(p)' /\ StoredData(p)'
             /\ \A c \in Collector : PoppedData(p, c)'
  <2>1. QueuedData(p)' /\ EmittedData(p)'
    BY <1>2, <1>3, <1>4, <1>5 DEF QueuedData, EmittedData, DataInv, DataInPlace, clientVars
  <2>2. StoredData(p)'
    BY <1>2, <1>3, <1>4, <1>5 DEF StoredData, DataInv, DataInPlace, clientVars
  <2>3. \A c \in Collector : PoppedData(p, c)'
    BY <1>2, <1>3, <1>4, <1>5 DEF PoppedData, DataInv, DataInPlace
  <2>. QED BY <2>1, <2>2, <2>3
<1>10. DoneIsDurable'
  BY <1>2, <1>3, <1>4, <1>5 DEF DoneIsDurable, DataInv, clientVars
<1>. QED BY <1>8, <1>9, <1>10 DEF DataInPlace

LEMMA MarkData ==
    ASSUME DataInv, NEW s \in Sink, MarkDone(s)
    PROVE  DataInPlace' /\ DoneIsDurable'
<1>. DEFINE r == event[s]
<1>1. r \in Parcel /\ s = SinkFor(r) /\ InSink(r) /\ r \in pushed
  <2>1. r # Nothing
    BY DEF MarkDone, DataInv, Inv, SinksHoldEvents
  <2>2. r \in Parcel /\ r \in pushed
    BY <2>1 DEF DataInv, Inv, TypeOK, HeldArePushed
  <2>3. s = SinkFor(r)
    BY <2>2 DEF DataInv, Inv, OneHolder
  <2>. QED BY <2>2, <2>3 DEF InSink
<1>2. /\ ~InQueue(r) /\ r \notin toKeyBy /\ ~AtSink(r)
      /\ \A c \in Collector : ~InBatch(r, c)
      /\ storage[BlockOf[r]] = r
  BY <1>1 DEF DataInv, Inv, OneHolder, Downstream, DataInPlace, SinkData, MarkDone
<1>3. /\ event'[s] = Nothing
      /\ \A k \in Sink \ {s} : /\ event'[k] = event[k] /\ sink'[k] = sink[k]
                               /\ buffer'[k] = buffer[k]
      /\ \A p \in Parcel : p # r => parselState'[p] = parselState[p]
      /\ UNCHANGED <<warehouse, storage, clientVars, sourceVars, temp, toKeyBy, toSink>>
  BY DEF MarkDone, Put, DataInv, Inv, TypeOK, ClientTypeOK, StoreTypeOK
<1>4. \A p \in Parcel :
          /\ InQueue(p)' <=> InQueue(p)
          /\ AtSink(p)' <=> AtSink(p)
          /\ \A c \in Collector : InBatch(p, c)' <=> InBatch(p, c)
          /\ \A c \in Collector : Spooled(p, c)' <=> Spooled(p, c)
  BY <1>3 DEF InQueue, AtSink, InBatch, Spooled, Current, SinkFor, clientVars, sourceVars
<1>5. \A p \in Parcel : InSink(p)' <=> InSink(p) /\ p # r
  <2>1. ASSUME NEW p \in Parcel, SinkFor(p) = s PROVE ~InSink(p)' /\ (InSink(p) => p = r)
    BY <1>3, <2>1 DEF InSink, SinkFor
  <2>2. ASSUME NEW p \in Parcel, SinkFor(p) # s PROVE InSink(p)' <=> InSink(p) /\ p # r
    BY <1>1, <1>3, <2>2 DEF InSink, SinkFor
  <2>. QED BY <2>1, <2>2
<1>6. \A p \in Parcel : InFlight(p)' <=> InFlight(p) /\ p # r
  BY <1>2, <1>3, <1>4, <1>5 DEF InFlight, Downstream
<1>7. ASSUME NEW p \in Parcel PROVE SinkData(p)'
  <2>1. InSink(p)' => InSink(p) /\ SinkFor(p) \in Sink \ {s}
    BY <1>5 DEF InSink, SinkFor
  <2>. QED BY <1>3, <2>1 DEF SinkData, SinkFor, DataInv, DataInPlace
<1>8. ASSUME NEW p \in Parcel
      PROVE  /\ QueuedData(p)' /\ EmittedData(p)' /\ StoredData(p)'
             /\ \A c \in Collector : PoppedData(p, c)'
  <2>1. QueuedData(p)' /\ EmittedData(p)' /\ \A c \in Collector : PoppedData(p, c)'
    BY <1>3, <1>4 DEF QueuedData, EmittedData, PoppedData, DataInv, DataInPlace, clientVars
  <2>2. StoredData(p)'
    BY <1>2, <1>3, <1>6 DEF StoredData, DataInv, DataInPlace, clientVars
  <2>. QED BY <2>1, <2>2
<1>9. DoneIsDurable'
  BY <1>1, <1>2, <1>3, <1>6 DEF DoneIsDurable, DataInv, clientVars
<1>. QED BY <1>7, <1>8, <1>9 DEF DataInPlace

LEMMA DataNext ==
    ASSUME DistinctBlocks, DataInv, [Next]_vars
    PROVE  DataInv'
<1>1. Inv'
  BY InvNext DEF DataInv
<1>2. CASE UNCHANGED vars
  <2>1. UNCHANGED <<hands, storeVars, clientVars, sourceVars, jobVars>>
    BY <1>2 DEF vars, hands, clientVars, sourceVars, jobVars
  <2>2. \A p \in Parcel, c \in Collector : Spooled(p, c)' <=> Spooled(p, c)
    BY <2>1 DEF Spooled, Current, sourceVars
  <2>3. DataInPlace'
    BY <2>1, <2>2, SameHolders
    DEF DataInv, DataInPlace, QueuedData, PoppedData, EmittedData, SinkData, StoredData, SinkFor,
        storeVars, clientVars, jobVars
  <2>4. DoneIsDurable'
    BY <2>1, SameHolders DEF DataInv, DoneIsDurable, storeVars, clientVars
  <2>. QED BY <1>1, <2>3, <2>4 DEF DataInv
<1>3. CASE ClientNext /\ UNCHANGED jobVars
  BY <1>1, <1>3, ClientData, PushData, PollData DEF ClientNext, ClientStep, DataInv
<1>4. ASSUME NEW c \in Collector, SourceStep(c) PROVE DataInPlace' /\ DoneIsDurable'
  BY <1>4, PollData, PopData, LoopData, EmitData DEF SourceStep, GetWriteParsel
<1>5. ASSUME NEW s \in Sink, SinkStep(s) PROVE DataInPlace' /\ DoneIsDurable'
  BY <1>5, ReadData, RunData, MarkData DEF SinkStep
<1>. QED BY <1>1, <1>2, <1>3, <1>4, <1>5, KeyByData DEF Next, DataInv

(***************************************************************************)
(* As long as no two parcels share a block, no deletion and no removal in  *)
(* the pipeline drops the last copy of a published payload.                *)
(***************************************************************************)
THEOREM LastCopyIsKept == ASSUME DistinctBlocks PROVE Spec => []DataInPlace
<1>1. Init => DataInv
  BY TypeInit, InvInit, DataInit DEF DataInv, Inv
<1>2. DataInv /\ [Next]_vars => DataInv'
  BY DataNext
<1>3. DataInv => DataInPlace
  BY DEF DataInv
<1>. QED BY <1>1, <1>2, <1>3, PTL DEF Spec

(***************************************************************************)
(* Under the same condition a Wait that returns, or a DONE record seen by  *)
(* anyone, means that the parcel's data is in its block.                   *)
(***************************************************************************)
THEOREM AckedIsDurable == ASSUME DistinctBlocks PROVE Spec => []DoneIsDurable
<1>1. Init => DataInv
  BY TypeInit, InvInit, DataInit DEF DataInv, Inv
<1>2. DataInv /\ [Next]_vars => DataInv'
  BY DataNext
<1>3. DataInv => DoneIsDurable
  BY DEF DataInv
<1>. QED BY <1>1, <1>2, <1>3, PTL DEF Spec
(***************************************************************************)
(* And a DONE record is taken away only by its waiter or by the late       *)
(* QUEUED record of the parcel's own Publish: MarkInProgress, the other    *)
(* step that overwrites records, meets only parcels that are not DONE.     *)
(***************************************************************************)
THEOREM DoneIsStable == ASSUME DistinctBlocks PROVE Spec => DoneLostOnlyToLateRecord
<1>. DEFINE Step == \A p \in Parcel :
                        parselState[p] = "DONE" /\ parselState'[p] # "DONE" =>
                            pc[p] = "erasing" \/ (pc[p] = "recording" /\ pc'[p] = "published")
<1>1. Init => DataInv
  BY TypeInit, InvInit, DataInit DEF DataInv, Inv
<1>2. DataInv /\ [Next]_vars => DataInv'
  BY DataNext
<1>3. DataInv /\ [Next]_vars => [Step]_vars
  <2>. SUFFICES ASSUME DataInv, [Next]_vars, NEW p \in Parcel,
                       parselState[p] = "DONE", parselState'[p] # "DONE"
                PROVE  pc[p] = "erasing" \/ (pc[p] = "recording" /\ pc'[p] = "published")
    OBVIOUS
  <2>1. parselState \in [Parcel -> TaskStatus \cup {Nothing}] /\ pc \in [Parcel -> ClientState]
    BY DEF DataInv, Inv, TypeOK, ClientTypeOK, StoreTypeOK
  <2>2. ASSUME NEW c \in Collector, MarkInProgress(c) PROVE FALSE
    <3>1. batch[c] \in Seq(Parcel) /\ batch[c] # <<>>
      BY <2>2 DEF MarkInProgress, Advance, DataInv, Inv, TypeOK, ClientTypeOK
    <3>2. Current(c) \in Parcel /\ InBatch(Current(c), c)
      BY <3>1, TailRange DEF Current, InBatch
    <3>3. InFlight(Current(c))
      BY <3>2 DEF InFlight
    <3>4. p # Current(c)
      BY <3>3 DEF DataInv, DoneIsDurable
    <3>. QED BY <2>1, <2>2, <3>2, <3>4 DEF MarkInProgress, Put
  <2>3. ASSUME NEW s \in Sink, MarkDone(s) PROVE FALSE
    BY <2>1, <2>3 DEF MarkDone, Put
  <2>4. ASSUME NEW q \in Parcel, PublishRecord(q) \/ WaitErase(q)
        PROVE  pc[p] = "erasing" \/ (pc[p] = "recording" /\ pc'[p] = "published")
    BY <2>1, <2>4 DEF PublishRecord, WaitErase, Put, Erase, Goto
  <2>. QED
    BY <2>2, <2>3, <2>4
    DEF Next, ClientNext, ClientStep, SourceStep, SinkStep, GetWriteParsel, vars, storeVars,
        PublishPut, PublishPush, WaitBegin, WaitPoll, FinalizeClient,
        Poll, Pop, PopFails, Stop, SpoolTemp, DeleteData, Emit, KeyBy, ReadTemp,
        RemoveTemp, WriteTarget
<1>. QED BY <1>1, <1>2, <1>3, PTL DEF Spec, DoneLostOnlyToLateRecord
-----------------------------------------------------------------------------
(***************************************************************************)
(* The refinement.  A push accepts, the write of a sink writes, the erase  *)
(* at the end of Wait acknowledges, and every other step stutters.         *)
(***************************************************************************)
Acked == {p \in Parcel : pc[p] = "acked"}

LEMMA RefinesInit == Init => Durable!Init
<1>. SUFFICES ASSUME Init PROVE Durable!Init
  OBVIOUS
<1>1. pushed = {} /\ Written = {}
  BY DEF Init, ClientInit, Written
<1>2. {p \in Parcel : pc[p] = "acked"} = {}
  BY DEF Init, ClientInit
<1>. QED BY <1>1, <1>2 DEF Init, ClientInit, StoreInit, Durable!Init

LEMMA PushRefines ==
    ASSUME DataInv, NEW r \in Parcel, PublishPush(r), UNCHANGED jobVars
    PROVE  Durable!Accept(r) \/ UNCHANGED Durable!vars
<1>1. r \notin pushed /\ storage' = storage /\ Acked' = Acked
  BY DEF PublishPush, DataInv, Inv, OwnersArePast, Goto, Acked, storeVars, TypeOK, ClientTypeOK
<1>2. CASE UNCHANGED <<writeQueue, pushed>>
  <2>1. \A p \in Parcel : (InFlight(p)' <=> InFlight(p)) /\ (InSink(p)' <=> InSink(p))
    BY <1>2, SameHolders DEF PublishPush, hands, jobVars, sourceVars
  <2>2. Written' = Written
    BY <1>2, <2>1 DEF Written, jobVars, SinkFor, DataInv, Inv, TypeOK, ClientTypeOK
  <2>. QED BY <1>1, <1>2, <2>2 DEF Durable!vars, Acked
<1>3. CASE pushed' = pushed \cup {r} /\ writeQueue' = [writeQueue EXCEPT ![HomeOf[r]] = Append(@, r)]
  <2>1. HomeOf[r] \in Server /\ writeQueue \in [Server -> Seq(Parcel)]
    BY DEF DataInv, Inv, TypeOK, ClientTypeOK
  <2>2. Range(Append(writeQueue[HomeOf[r]], r)) = Range(writeQueue[HomeOf[r]]) \cup {r}
    BY <2>1, AppendRange
  <2>3. \A p \in Parcel : InQueue(p)' <=> InQueue(p) \/ p = r
    <3>1. \A s \in Server, p \in Parcel :
              p \in Range(writeQueue'[s]) <=> p \in Range(writeQueue[s]) \/ (p = r /\ s = HomeOf[r])
      BY <1>3, <2>1, <2>2
    <3>. QED BY <3>1 DEF InQueue
  <2>4. \A p \in Parcel :
            /\ InSink(p)' <=> InSink(p)
            /\ Downstream(p)' <=> Downstream(p)
            /\ \A c \in Collector : InBatch(p, c)' <=> InBatch(p, c)
    BY DEF PublishPush, InSink, Downstream, AtSink, InBatch, SinkFor, jobVars, sourceVars
  <2>5. \A p \in Parcel : InFlight(p)' <=> InFlight(p) \/ p = r
    BY <2>3, <2>4 DEF InFlight
  <2>6. ~InSink(r)
    BY <1>1 DEF InSink, SinkFor, DataInv, Inv, HeldArePushed
  <2>7. Written' = Written
    BY <1>1, <1>3, <2>4, <2>5, <2>6 DEF Written, jobVars, SinkFor, DataInv, Inv, TypeOK, ClientTypeOK
  <2>. QED BY <1>1, <1>3, <2>7 DEF Durable!Accept, Acked
<1>. QED BY <1>2, <1>3 DEF PublishPush

LEMMA WriteRefines ==
    ASSUME DataInv, NEW s \in Sink, WriteTarget(s)
    PROVE  \E p \in Parcel : Durable!Write(p)
<1>1. PICK r : r = event[s]
  OBVIOUS
<1>2. r \in Parcel /\ r \in pushed /\ s = SinkFor(r) /\ InSink(r) /\ InFlight(r)
      /\ sink[s] = "write" /\ buffer[s] = r
  <2>1. r # Nothing /\ sink[s] = "write"
    BY <1>1 DEF WriteTarget, DataInv, Inv, SinksHoldEvents
  <2>2. r \in Parcel /\ r \in pushed
    BY <1>1, <2>1 DEF DataInv, Inv, TypeOK, HeldArePushed
  <2>3. s = SinkFor(r)
    BY <1>1, <2>2 DEF DataInv, Inv, OneHolder
  <2>4. InSink(r) /\ InFlight(r)
    BY <1>1, <2>3 DEF InSink, InFlight, Downstream
  <2>5. buffer[s] = r
    BY <2>1, <2>2, <2>3, <2>4 DEF DataInv, DataInPlace, SinkData
  <2>. QED BY <2>1, <2>2, <2>3, <2>4, <2>5
<1>3. /\ storage' = [storage EXCEPT ![BlockOf[r]] = r]
      /\ sink'[s] = "done" /\ \A k \in Sink \ {s} : sink'[k] = sink[k]
      /\ UNCHANGED <<hands, pc, pushed>>
  BY <1>1, <1>2 DEF WriteTarget, hands, clientVars, sourceVars, DataInv, Inv, TypeOK
<1>4. \A p \in Parcel : (InFlight(p)' <=> InFlight(p)) /\ (InSink(p)' <=> InSink(p))
  BY <1>3, SameHolders
<1>5. \A p \in Parcel : InSink(p) /\ SinkFor(p) = s => p = r
  BY <1>1 DEF InSink
<1>6. pushed \subseteq Parcel /\ \A p \in Parcel : SinkFor(p) \in Sink
  BY DEF SinkFor, DataInv, Inv, TypeOK, ClientTypeOK
<1>7. ASSUME NEW p \in pushed
      PROVE  InSink(p)' /\ sink'[SinkFor(p)] = "done"
                 <=> (InSink(p) /\ sink[SinkFor(p)] = "done") \/ p = r
  <2>1. CASE SinkFor(p) = s
    BY <1>2, <1>3, <1>4, <1>5, <1>6, <2>1
  <2>2. CASE SinkFor(p) # s
    BY <1>2, <1>3, <1>4, <1>6, <2>2
  <2>. QED BY <2>1, <2>2
<1>8. Written' = Written \cup {r} /\ r \notin Written
  BY <1>2, <1>3, <1>4, <1>6, <1>7 DEF Written, SinkFor
<1>9. Acked' = Acked
  BY <1>3 DEF Acked
<1>. QED BY <1>2, <1>3, <1>8, <1>9 DEF Durable!Write, Acked

LEMMA AckRefines ==
    ASSUME DataInv, NEW r \in Parcel, WaitErase(r), UNCHANGED jobVars
    PROVE  Durable!Ack(r)
<1>1. r \in Written /\ r \notin Acked
  BY DEF WaitErase, DataInv, DoneIsDurable, Written, Acked
<1>2. UNCHANGED <<hands, jobVars, storage, pushed>>
  BY DEF WaitErase, hands, jobVars, sourceVars
<1>3. Written' = Written
  BY <1>2, SameHolders DEF Written, SinkFor, jobVars, DataInv, Inv, TypeOK, ClientTypeOK
<1>4. Acked' = Acked \cup {r}
  BY DEF WaitErase, Goto, Acked, DataInv, Inv, TypeOK, ClientTypeOK
<1>. QED BY <1>1, <1>2, <1>3, <1>4 DEF Durable!Ack, Acked

(***************************************************************************)
(* The steps that change no abstract variable.                             *)
(***************************************************************************)
LEMMA SameWritten ==
    ASSUME DataInv, pushed' = pushed, SameFlight,
           \A p \in Parcel : InSink(p)' /\ sink'[SinkFor(p)] = "done"
                                 <=> InSink(p) /\ sink[SinkFor(p)] = "done"
    PROVE  Written' = Written
BY DEF Written, SinkFor, SameFlight, DataInv, Inv, TypeOK, ClientTypeOK

LEMMA QuietStutters ==
    ASSUME DataInv, UNCHANGED <<hands, sink, pushed, storage>>, Acked' = Acked
    PROVE  UNCHANGED Durable!vars
<1>1. Written' = Written
  BY SameWritten, SameHolders DEF SameFlight, SinkFor
<1>. QED BY <1>1 DEF Durable!vars, Acked

LEMMA ClientStutters ==
    ASSUME DataInv, UNCHANGED jobVars,
           \/ \E p \in Parcel : PublishPut(p) \/ PublishRecord(p) \/ WaitBegin(p) \/ WaitPoll(p)
           \/ FinalizeClient
           \/ \E c \in Collector : Poll(c) \/ PopFails(c) \/ Stop(c)
    PROVE  UNCHANGED Durable!vars
<1>1. UNCHANGED <<hands, sink, pushed, storage>>
  BY DEF PublishPut, PublishRecord, WaitBegin, WaitPoll, FinalizeClient, Poll, PopFails, Stop,
         hands, storeVars, clientVars, sourceVars, jobVars
<1>2. Acked' = Acked
  BY DEF PublishPut, PublishRecord, WaitBegin, WaitPoll, FinalizeClient, Poll, PopFails, Stop,
         Goto, Acked, MayCall, clientVars, DataInv, Inv, TypeOK, ClientTypeOK
<1>. QED BY <1>1, <1>2, QuietStutters

LEMMA SourceStutters ==
    ASSUME DataInv, NEW c \in Collector, SourceStep(c)
    PROVE  UNCHANGED Durable!vars
<1>1. CASE (Poll(c) \/ PopFails(c) \/ Stop(c)) /\ UNCHANGED jobVars
  BY <1>1, ClientStutters
<1>2. CASE SpoolTemp(c) \/ DeleteData(c) \/ MarkInProgress(c)
  BY <1>2, QuietStutters
  DEF SpoolTemp, DeleteData, MarkInProgress, hands, storeVars, clientVars, jobVars, Acked
<1>3. CASE (Pop(c) /\ UNCHANGED jobVars) \/ Emit(c)
  <2>1. SameFlight
    BY <1>3, PopData, EmitData
  <2>2. UNCHANGED <<event, sink, pushed, storage, pc>>
    BY <1>3 DEF Pop, Emit, storeVars, clientVars, jobVars
  <2>3. Written' = Written
    BY <2>1, <2>2, SameWritten DEF InSink, SinkFor
  <2>. QED BY <2>2, <2>3 DEF Durable!vars
<1>. QED BY <1>1, <1>2, <1>3 DEF SourceStep, GetWriteParsel

LEMMA SinkStutters ==
    ASSUME DataInv,
           \/ \E p \in Parcel : KeyBy(p)
           \/ \E s \in Sink : (\E p \in Parcel : ReadTemp(s, p)) \/ RemoveTemp(s) \/ MarkDone(s)
    PROVE  UNCHANGED Durable!vars
<1>0. \A p \in Parcel : SinkFor(p) \in Sink
  BY DEF SinkFor
<1>1. UNCHANGED <<pushed, storage, pc>>
  BY DEF KeyBy, ReadTemp, RemoveTemp, MarkDone, storeVars, clientVars
<1>2. ASSUME NEW r \in Parcel, KeyBy(r) PROVE Written' = Written
  <2>1. SameFlight /\ UNCHANGED <<sink, event>>
    BY <1>2, KeyByData DEF KeyBy
  <2>. QED BY <1>1, <2>1, SameWritten DEF InSink, SinkFor
<1>3. ASSUME NEW s \in Sink, NEW r \in Parcel, ReadTemp(s, r) PROVE Written' = Written
  <2>1. SameFlight
    BY <1>3, ReadData
  <2>2. /\ sink[s] = "idle" /\ sink'[s] = "remove"
        /\ \A k \in Sink \ {s} : sink'[k] = sink[k] /\ event'[k] = event[k]
    BY <1>3 DEF ReadTemp, DataInv, Inv, TypeOK
  <2>3. ASSUME NEW p \in Parcel
        PROVE  InSink(p)' /\ sink'[SinkFor(p)] = "done"
                   <=> InSink(p) /\ sink[SinkFor(p)] = "done"
    BY <1>0, <2>2 DEF InSink, SinkFor
  <2>. QED BY <1>1, <2>1, <2>3, SameWritten
<1>4. ASSUME NEW s \in Sink, RemoveTemp(s) PROVE Written' = Written
  <2>1. SameFlight /\ UNCHANGED event
    BY <1>4, SameHolders DEF RemoveTemp, hands, clientVars, sourceVars, SameFlight
  <2>2. /\ sink[s] = "remove" /\ sink'[s] = "write"
        /\ \A k \in Sink \ {s} : sink'[k] = sink[k]
    BY <1>4 DEF RemoveTemp, DataInv, Inv, TypeOK
  <2>3. ASSUME NEW p \in Parcel
        PROVE  InSink(p)' /\ sink'[SinkFor(p)] = "done"
                   <=> InSink(p) /\ sink[SinkFor(p)] = "done"
    BY <1>0, <2>1, <2>2 DEF InSink, SinkFor
  <2>. QED BY <1>1, <2>1, <2>3, SameWritten
<1>5. ASSUME NEW s \in Sink, MarkDone(s) PROVE Written' = Written
  <2>1. PICK r : r = event[s]
    OBVIOUS
  <2>2. r \in Parcel /\ s = SinkFor(r) /\ InSink(r)
    <3>1. r # Nothing
      BY <1>5, <2>1 DEF MarkDone, DataInv, Inv, SinksHoldEvents
    <3>2. r \in Parcel
      BY <2>1, <3>1 DEF DataInv, Inv, TypeOK
    <3>. QED BY <2>1, <3>2 DEF DataInv, Inv, OneHolder, InSink
  <2>3. ~InQueue(r) /\ r \notin toKeyBy /\ ~AtSink(r) /\ \A c \in Collector : ~InBatch(r, c)
    BY <2>2 DEF DataInv, Inv, OneHolder, Downstream
  <2>4. /\ sink[s] = "done" /\ event'[s] = Nothing
        /\ \A k \in Sink \ {s} : sink'[k] = sink[k] /\ event'[k] = event[k]
        /\ UNCHANGED <<writeQueue, batch, toKeyBy, toSink>>
    BY <1>5 DEF MarkDone, clientVars, sourceVars, DataInv, Inv, TypeOK
  <2>5. \A p \in Parcel : /\ InQueue(p)' <=> InQueue(p)
                          /\ AtSink(p)' <=> AtSink(p)
                          /\ \A c \in Collector : InBatch(p, c)' <=> InBatch(p, c)
    BY <2>4 DEF InQueue, AtSink, InBatch, SinkFor
  <2>6. ASSUME NEW p \in Parcel, p # r
        PROVE  /\ InFlight(p)' <=> InFlight(p)
               /\ InSink(p)' /\ sink'[SinkFor(p)] = "done"
                      <=> InSink(p) /\ sink[SinkFor(p)] = "done"
    <3>1. SinkFor(p) = s => ~InSink(p) /\ ~InSink(p)'
      BY <2>1, <2>4, <2>6 DEF InSink, SinkFor
    <3>2. SinkFor(p) # s => /\ InSink(p)' <=> InSink(p)
                            /\ sink'[SinkFor(p)] = sink[SinkFor(p)]
      BY <1>0, <2>4 DEF InSink, SinkFor
    <3>3. InSink(p)' <=> InSink(p)
      BY <3>1, <3>2
    <3>. QED BY <2>4, <2>5, <3>1, <3>2, <3>3 DEF InFlight, Downstream
  <2>7. ~InFlight(r)'
    BY <2>2, <2>3, <2>4, <2>5 DEF InFlight, Downstream, InSink, SinkFor
  <2>. QED BY <1>1, <2>2, <2>4, <2>6, <2>7 DEF Written, SinkFor, DataInv, Inv, TypeOK, ClientTypeOK
<1>6. Written' = Written
  BY <1>2, <1>3, <1>4, <1>5
<1>. QED BY <1>1, <1>6 DEF Durable!vars

LEMMA StepRefines ==
    ASSUME DataInv, [Next]_vars
    PROVE  [Durable!Next]_(Durable!vars)
<1>1. CASE UNCHANGED vars
  BY <1>1, QuietStutters DEF vars, hands, storeVars, clientVars, sourceVars, jobVars, Acked
<1>2. CASE ClientNext /\ UNCHANGED jobVars
  BY <1>2, PushRefines, AckRefines, ClientStutters DEF ClientNext, ClientStep, Durable!Next
<1>3. ASSUME NEW s \in Sink, WriteTarget(s) PROVE Durable!Next
  BY <1>3, WriteRefines DEF Durable!Next
<1>. QED BY <1>1, <1>2, <1>3, SourceStutters, SinkStutters DEF Next, SinkStep

(***************************************************************************)
(* With every parcel on a block of its own, the pipeline of queue, source  *)
(* tasks, temporary files, key-by task and sinks does what the abstract    *)
(* DurableWrite promises and nothing else.                                 *)
(***************************************************************************)
THEOREM PipelineIsDurable == ASSUME DistinctBlocks PROVE Spec => ImplementsDurableWrite
<1>1. Init => DataInv /\ Durable!Init
  BY TypeInit, InvInit, DataInit, RefinesInit DEF DataInv, Inv
<1>2. DataInv /\ [Next]_vars => DataInv'
  BY DataNext
<1>3. DataInv /\ [Next]_vars => [Durable!Next]_(Durable!vars)
  BY StepRefines
<1>. QED BY <1>1, <1>2, <1>3, PTL DEF Spec, ImplementsDurableWrite, Durable!Spec
=============================================================================
