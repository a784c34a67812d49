-------------------------- MODULE RheaReadJobProofs --------------------------
(***************************************************************************)
(* What the read job guarantees for every number of parcels, blocks,       *)
(* servers, ranks, source tasks and sinks.                                 *)
(***************************************************************************)
EXTENDS RheaReadJob, QueueLemmas

USE StoreAssumption, ReadAssumption DEF StoreAssumption, ReadAssumption
-----------------------------------------------------------------------------
(***************************************************************************)
(* TypeOK.  A source task works only on a batch that has a parcel, and a   *)
(* sink that is not idle has an event and something in its buffer.         *)
(***************************************************************************)
TasksHoldBatches ==
    \A c \in Collector : task[c] \in {"mark", "emit"} => batch[c] # <<>>

SinksHoldEvents ==
    \A s \in Sink :
        /\ sink[s] = "idle" <=> event[s] = Nothing
        /\ sink[s] # "idle" => buffer[s] # Nothing

TypeInv == TypeOK /\ TasksHoldBatches /\ SinksHoldEvents

LEMMA FetchedIsHeld ==
    ASSUME NEW x \in Held PROVE Fetched(x) \in Held /\ Fetched(x) # Nothing
BY DEF Fetched, Held

LEMMA TypeInit == Init => TypeInv
<1>. SUFFICES ASSUME Init PROVE TypeInv
  OBVIOUS
<1>. USE DEF Init, ReadInit
<1>1. StoreTypeOK
  BY DEF StoreInit, StoreTypeOK, Held
<1>2. readQueue \in [Server -> Seq(Parcel)] /\ batch \in [Collector -> Seq(Parcel)]
  <2>1. <<>> \in Seq(Parcel)
    OBVIOUS
  <2>. QED BY <2>1
<1>3. /\ pc \in [Parcel -> CallState]
      /\ after \in [Parcel -> {"fetching", "ready", "done"}]
      /\ got \in [Parcel -> Held] /\ seen \in [Parcel -> SUBSET Held]
  BY DEF CallState, InCall, Held
<1>4. /\ task \in [Collector -> SourceState] /\ sink \in [Sink -> SinkState]
      /\ event \in [Sink -> Parcel \cup {Nothing}] /\ buffer \in [Sink -> Held]
  BY DEF SourceState, SinkState, Held
<1>5. TasksHoldBatches /\ SinksHoldEvents
  BY DEF TasksHoldBatches, SinksHoldEvents
<1>. QED BY <1>1, <1>2, <1>3, <1>4, <1>5 DEF TypeInv, TypeOK

LEMMA CallTypes ==
    ASSUME TypeInv, NEW p \in Parcel, ClientCall(p) \/ ClientStep(p) PROVE TypeInv'
<1>. USE DEF TypeInv, TypeOK, StoreTypeOK, storeVars, sourceVars, sinkVars, CallState, InCall
<1>1. /\ TasksHoldBatches' /\ SinksHoldEvents'
      /\ UNCHANGED <<storage, terminated, task, batch, toSink, sink, event, buffer>>
  BY DEF ClientCall, ClientStep, Subscribe, AsyncSubscribe, PushRead, WaitBegin, WaitPoll,
         WaitErase, Fetch, GetSubscribedData, CopyOut, Drop, TasksHoldBatches,
         SinksHoldEvents
<1>2. ASSUME PushRead(p), Subscribe(p) \/ AsyncSubscribe(p) PROVE TypeInv'
  <2>1. UNCHANGED <<warehouse, parselState, got>>
    BY <1>2 DEF PushRead
  <2>2. readQueue' \in [Server -> Seq(Parcel)]
    <3>1. HomeOf[p] \in Server /\ Append(readQueue[HomeOf[p]], p) \in Seq(Parcel)
      OBVIOUS
    <3>. QED BY <1>2, <3>1 DEF PushRead
  <2>3. subscribed' \in SUBSET Parcel
    BY <1>2 DEF PushRead
  <2>4. seen' \in [Parcel -> SUBSET Held]
    BY <1>2 DEF PushRead
  <2>5. pc' \in [Parcel -> CallState] /\ after' \in [Parcel -> {"fetching", "ready", "done"}]
    BY <1>2 DEF Subscribe, AsyncSubscribe, Goto
  <2>. QED BY <1>1, <2>1, <2>2, <2>3, <2>4, <2>5
<1>3. CASE WaitBegin(p) \/ WaitPoll(p) \/ WaitErase(p)
  BY <1>1, <1>3 DEF WaitBegin, WaitPoll, WaitErase, Erase, Goto
<1>4. CASE Fetch(p) \/ GetSubscribedData(p) \/ Drop(p)
  BY <1>1, <1>4 DEF Fetch, GetSubscribedData, CopyOut, Drop, Erase, Goto, Held
<1>. QED BY <1>2, <1>3, <1>4 DEF ClientCall, ClientStep, Subscribe, AsyncSubscribe

LEMMA SourceTypes == ASSUME TypeInv, NEW c \in Collector, SourceStep(c) PROVE TypeInv'
<1>. USE DEF TypeInv, TypeOK, StoreTypeOK, storeVars, callVars, sourceVars, sinkVars,
             sourceFrame, SourceState
<1>1. SinksHoldEvents'
  BY DEF SourceStep, Poll, Pop, PopFails, Stop, MarkInProgress, Emit, SinksHoldEvents
<1>2. CASE Poll(c) \/ PopFails(c) \/ Stop(c)
  BY <1>1, <1>2 DEF Poll, PopFails, Stop, TasksHoldBatches
<1>3. CASE Pop(c)
  <2>. DEFINE h == Serves[c]
  <2>1. h \in Server /\ readQueue[h] \in Seq(Parcel) /\ readQueue[h] # <<>>
    BY <1>3 DEF Pop
  <2>2. Head(readQueue[h]) \in Parcel /\ Tail(readQueue[h]) \in Seq(Parcel)
    BY <2>1
  <2>3. readQueue' \in [Server -> Seq(Parcel)] /\ batch' \in [Collector -> Seq(Parcel)]
    BY <1>3, <2>2 DEF Pop
  <2>4. TasksHoldBatches'
    BY <1>3 DEF Pop, TasksHoldBatches
  <2>. QED BY <1>1, <1>3, <2>3, <2>4 DEF Pop
<1>4. CASE MarkInProgress(c)
  BY <1>1, <1>4, StoreAssumption DEF MarkInProgress, TasksHoldBatches, Put, TaskStatus
<1>5. CASE Emit(c)
  <2>1. batch[c] \in Seq(Parcel) /\ batch[c] # <<>>
    BY <1>5 DEF Emit, TasksHoldBatches
  <2>2. Head(batch[c]) \in Parcel /\ Tail(batch[c]) \in Seq(Parcel)
    BY <2>1
  <2>3. toSink' \in SUBSET Parcel /\ batch' \in [Collector -> Seq(Parcel)]
    BY <1>5, <2>2 DEF Emit
  <2>4. TasksHoldBatches'
    BY <1>5 DEF Emit, TasksHoldBatches
  <2>. QED BY <1>1, <1>5, <2>3, <2>4 DEF Emit
<1>. QED BY <1>2, <1>3, <1>4, <1>5 DEF SourceStep

LEMMA SinkTypes == ASSUME TypeInv, NEW s \in Sink, SinkStep(s) PROVE TypeInv'
<1>. USE DEF TypeInv, TypeOK, StoreTypeOK, callVars, sourceVars, sinkFrame, SinkState
<1>1. TasksHoldBatches'
  BY DEF SinkStep, ReadTarget, PutData, MarkDone, TasksHoldBatches
<1>2. ASSUME NEW p \in Parcel, ReadTarget(s, p) PROVE TypeInv'
  <2>1. storage[BlockOf[p]] \in Held
    OBVIOUS
  <2>2. Fetched(storage[BlockOf[p]]) \in Held /\ Fetched(storage[BlockOf[p]]) # Nothing
    BY <2>1, FetchedIsHeld
  <2>3. p # Nothing
    OBVIOUS
  <2>4. SinksHoldEvents'
    BY <1>2, <2>2, <2>3 DEF ReadTarget, SinksHoldEvents
  <2>. QED BY <1>1, <1>2, <2>2, <2>4 DEF ReadTarget, storeVars
<1>3. CASE PutData(s)
  <2>1. SinksHoldEvents'
    BY <1>3 DEF PutData, SinksHoldEvents
  <2>. QED BY <1>1, <1>3, <2>1 DEF PutData, Put
<1>4. CASE MarkDone(s)
  <2>1. SinksHoldEvents'
    BY <1>4 DEF MarkDone, SinksHoldEvents
  <2>2. Nothing \in Held /\ "DONE" \in TaskStatus
    BY DEF Held, TaskStatus
  <2>. QED BY <1>1, <1>4, <2>1, <2>2 DEF MarkDone, Put
<1>. QED BY <1>2, <1>3, <1>4 DEF SinkStep

LEMMA TypeNext == TypeInv /\ [Next]_vars => TypeInv'
<1>. SUFFICES ASSUME TypeInv, [Next]_vars PROVE TypeInv'
  OBVIOUS
<1>1. CASE FinalizeClient
  BY <1>1 DEF FinalizeClient, TypeInv, TypeOK, StoreTypeOK, TasksHoldBatches,
              SinksHoldEvents, storeVars, callVars, sourceVars, sinkVars
<1>2. ASSUME NEW b \in Block, NEW x \in Payload, OthersWrite(b, x) PROVE TypeInv'
  <2>1. storage' \in [Block -> Held]
    BY <1>2 DEF OthersWrite, TypeInv, TypeOK, StoreTypeOK, Held
  <2>2. seen' \in [Parcel -> SUBSET Held]
    BY <1>2, <2>1 DEF OthersWrite, Observe, TypeInv, TypeOK
  <2>. QED
    BY <1>2, <2>1, <2>2
    DEF OthersWrite, TypeInv, TypeOK, StoreTypeOK, TasksHoldBatches, SinksHoldEvents,
        callVars, sourceVars, sinkVars
<1>3. CASE UNCHANGED vars
  BY <1>3 DEF vars, readVars, TypeInv, TypeOK, StoreTypeOK, TasksHoldBatches,
              SinksHoldEvents, storeVars, callVars, sourceVars, sinkVars
<1>. QED BY <1>1, <1>2, <1>3, CallTypes, SourceTypes, SinkTypes DEF Next, JobNext

(***************************************************************************)
(* Every reachable state is well typed.                                    *)
(***************************************************************************)
THEOREM TypeCorrect == Spec => []TypeOK
<1>1. TypeInv => TypeOK
  BY DEF TypeInv
<1>. QED BY <1>1, TypeInit, TypeNext, PTL DEF Spec
-----------------------------------------------------------------------------
(***************************************************************************)
(* The hands a parcel passes on its way: it is in one of them at most, and *)
(* only after its push.                                                    *)
(***************************************************************************)
InQueue(p) == p \in Range(readQueue[HomeOf[p]])
InBatch(p, c) == p \in Range(batch[c])
InSink(p) == \E s \in Sink : event[s] = p

Unread(p) == InQueue(p) \/ (\E c \in Collector : InBatch(p, c)) \/ p \in toSink
InHand(p) == Unread(p) \/ InSink(p)

OneHand ==
    /\ \A s \in Server :
        /\ IsInjective(readQueue[s])
        /\ \A p \in Range(readQueue[s]) : HomeOf[p] = s
    /\ \A c \in Collector : IsInjective(batch[c])
    /\ \A p \in Parcel, c \in Collector : InBatch(p, c) =>
        /\ ~InQueue(p) /\ p \notin toSink /\ ~InSink(p)
        /\ \A d \in Collector : InBatch(p, d) => d = c
    /\ \A p \in Parcel : InQueue(p) => p \notin toSink /\ ~InSink(p)
    /\ \A p \in Parcel : p \in toSink => ~InSink(p)
    /\ \A p \in Parcel, s, k \in Sink : event[s] = p /\ event[k] = p => s = k

HandsAreSubscribed == \A p \in Parcel : InHand(p) => p \in subscribed

SubscribedAreCalled == \A p \in subscribed : pc[p] # "new"

HandInv == TypeInv /\ OneHand /\ HandsAreSubscribed /\ SubscribedAreCalled

hands == <<readQueue, batch, toSink, event>>

LEMMA HandInit == Init => HandInv
<1>. SUFFICES ASSUME Init PROVE HandInv
  OBVIOUS
<1>1. /\ \A s \in Server : Range(readQueue[s]) = {} /\ IsInjective(readQueue[s])
      /\ \A c \in Collector : Range(batch[c]) = {} /\ IsInjective(batch[c])
      /\ subscribed = {} /\ toSink = {} /\ \A s \in Sink : event[s] = Nothing
  BY EmptyRange DEF Init, ReadInit
<1>2. \A p \in Parcel : ~InHand(p)
  BY <1>1 DEF InHand, Unread, InQueue, InBatch, InSink
<1>3. OneHand
  BY <1>1, <1>2 DEF OneHand, InHand, Unread
<1>. QED BY <1>1, <1>2, <1>3, TypeInit DEF HandInv, HandsAreSubscribed, SubscribedAreCalled

LEMMA SameHands ==
    ASSUME UNCHANGED hands
    PROVE  /\ OneHand => OneHand'
           /\ \A p \in Parcel : /\ InQueue(p)' <=> InQueue(p)
                                /\ Unread(p)' <=> Unread(p)
                                /\ InSink(p)' <=> InSink(p)
                                /\ InHand(p)' <=> InHand(p)
BY DEF hands, OneHand, InQueue, InBatch, InSink, Unread, InHand

(***************************************************************************)
(* The five moves.  Each says who holds what afterwards, which is all that *)
(* is used of it later.                                                    *)
(***************************************************************************)
LEMMA PushMoves ==
    ASSUME HandInv, NEW p \in Parcel, PushRead(p)
    PROVE  /\ OneHand'
           /\ \A q \in Parcel \ {p} : (Unread(q)' <=> Unread(q)) /\ (InSink(q)' <=> InSink(q))
           /\ ~InHand(p) /\ ~InSink(p)'
           /\ Unread(p)' => p \in subscribed'
<1>. DEFINE h == HomeOf[p]
<1>1. p \notin subscribed /\ ~InHand(p)
  BY DEF PushRead, HandInv, SubscribedAreCalled, HandsAreSubscribed
<1>2. h \in Server /\ readQueue \in [Server -> Seq(Parcel)]
  BY DEF HandInv, TypeInv, TypeOK
<1>3. UNCHANGED <<batch, toSink, event>>
  BY DEF PushRead, sourceVars, sinkVars
<1>4. CASE UNCHANGED readQueue
  BY <1>1, <1>3, <1>4, SameHands DEF hands, HandInv, InHand
<1>5. CASE readQueue' = [readQueue EXCEPT ![h] = Append(@, p)] /\ p \in subscribed'
  <2>1. /\ Range(readQueue'[h]) = Range(readQueue[h]) \cup {p}
        /\ IsInjective(readQueue'[h])
        /\ \A s \in Server \ {h} : readQueue'[s] = readQueue[s]
    BY <1>1, <1>2, <1>5, AppendRange DEF HandInv, OneHand, InHand, Unread, InQueue
  <2>2. \A q \in Parcel : InQueue(q)' <=> InQueue(q) \/ q = p
    BY <1>2, <2>1 DEF InQueue
  <2>3. /\ \A q \in Parcel : InSink(q)' <=> InSink(q)
        /\ \A q \in Parcel, c \in Collector : InBatch(q, c)' <=> InBatch(q, c)
    BY <1>3 DEF InSink, InBatch
  <2>4. \A s \in Server :
            /\ IsInjective(readQueue'[s])
            /\ \A q \in Range(readQueue'[s]) : HomeOf[q] = s
    BY <2>1 DEF HandInv, OneHand
  <2>5. OneHand'
    BY <1>1, <1>3, <2>2, <2>3, <2>4 DEF HandInv, OneHand, InHand, Unread
  <2>. QED BY <1>1, <1>3, <1>5, <2>2, <2>3, <2>5 DEF Unread, InHand
<1>. QED BY <1>4, <1>5 DEF PushRead

LEMMA PopMoves ==
    ASSUME HandInv, NEW c \in Collector, Pop(c)
    PROVE  /\ OneHand'
           /\ \A q \in Parcel : (Unread(q)' <=> Unread(q)) /\ (InSink(q)' <=> InSink(q))
<1>. DEFINE h == Serves[c]
            p == Head(readQueue[h])
<1>1. /\ h \in Server /\ readQueue \in [Server -> Seq(Parcel)] /\ readQueue[h] # <<>>
      /\ batch \in [Collector -> Seq(Parcel)]
  BY DEF HandInv, TypeInv, TypeOK, Pop
<1>2. /\ p \in Parcel /\ p \in Range(readQueue[h]) /\ HomeOf[p] = h
      /\ Range(Tail(readQueue[h])) = Range(readQueue[h]) \ {p}
      /\ IsInjective(Tail(readQueue[h]))
  BY <1>1, TailRange DEF HandInv, OneHand
<1>3. InQueue(p) /\ p \notin toSink /\ ~InSink(p) /\ \A d \in Collector : ~InBatch(p, d)
  BY <1>1, <1>2 DEF InQueue, HandInv, OneHand
<1>4. /\ readQueue'[h] = Tail(readQueue[h])
      /\ \A s \in Server \ {h} : readQueue'[s] = readQueue[s]
      /\ batch'[c] = Append(batch[c], p)
      /\ \A d \in Collector \ {c} : batch'[d] = batch[d]
      /\ UNCHANGED <<toSink, event>>
  BY <1>1 DEF Pop, sourceFrame, sinkVars
<1>5. Range(batch'[c]) = Range(batch[c]) \cup {p} /\ IsInjective(batch'[c])
  BY <1>1, <1>2, <1>3, <1>4, AppendRange DEF HandInv, OneHand, InBatch
<1>6. \A q \in Parcel : InQueue(q)' <=> InQueue(q) /\ q # p
  <2>1. ASSUME NEW q \in Parcel, HomeOf[q] = h
        PROVE  InQueue(q)' <=> InQueue(q) /\ q # p
    <3>1. q \in Range(readQueue'[h]) <=> q \in Range(readQueue[h]) /\ q # p
      BY <1>2, <1>4
    <3>. QED BY <2>1, <3>1 DEF InQueue
  <2>2. ASSUME NEW q \in Parcel, HomeOf[q] # h
        PROVE  InQueue(q)' <=> InQueue(q) /\ q # p
    <3>1. HomeOf[q] \in Server \ {h} /\ q # p
      BY <1>2, <2>2
    <3>. QED BY <1>4, <3>1 DEF InQueue
  <2>. QED BY <2>1, <2>2
<1>7. \A q \in Parcel, d \in Collector : InBatch(q, d)' <=> InBatch(q, d) \/ (q = p /\ d = c)
  BY <1>4, <1>5 DEF InBatch
<1>8. \A q \in Parcel : InSink(q)' <=> InSink(q)
  BY <1>4 DEF InSink
<1>9. /\ \A s \in Server :
          /\ IsInjective(readQueue'[s])
          /\ \A q \in Range(readQueue'[s]) : HomeOf[q] = s
      /\ \A d \in Collector : IsInjective(batch'[d])
  BY <1>2, <1>4, <1>5 DEF HandInv, OneHand
<1>10. OneHand'
  BY <1>3, <1>4, <1>6, <1>7, <1>8, <1>9 DEF HandInv, OneHand
<1>. QED BY <1>2, <1>3, <1>4, <1>6, <1>7, <1>8, <1>10 DEF Unread

LEMMA EmitMoves ==
    ASSUME HandInv, NEW c \in Collector, Emit(c)
    PROVE  /\ OneHand'
           /\ \A q \in Parcel : (Unread(q)' <=> Unread(q)) /\ (InSink(q)' <=> InSink(q))
<1>. DEFINE p == Head(batch[c])
<1>1. batch \in [Collector -> Seq(Parcel)] /\ batch[c] # <<>>
  BY DEF HandInv, TypeInv, TypeOK, TasksHoldBatches, Emit
<1>2. /\ p \in Parcel /\ p \in Range(batch[c])
      /\ Range(Tail(batch[c])) = Range(batch[c]) \ {p}
      /\ IsInjective(Tail(batch[c]))
  BY <1>1, TailRange DEF HandInv, OneHand
<1>3. /\ ~InQueue(p) /\ p \notin toSink /\ ~InSink(p)
      /\ InBatch(p, c) /\ \A d \in Collector \ {c} : ~InBatch(p, d)
  BY <1>2 DEF InBatch, HandInv, OneHand
<1>4. /\ batch'[c] = Tail(batch[c])
      /\ \A d \in Collector \ {c} : batch'[d] = batch[d]
      /\ toSink' = toSink \cup {p}
      /\ UNCHANGED <<readQueue, event>>
  BY <1>1 DEF Emit, sourceFrame, sinkVars
<1>5. \A q \in Parcel, d \in Collector : InBatch(q, d)' <=> InBatch(q, d) /\ q # p
  BY <1>2, <1>3, <1>4 DEF InBatch
<1>6. \A q \in Parcel : (InQueue(q)' <=> InQueue(q)) /\ (InSink(q)' <=> InSink(q))
  BY <1>4 DEF InQueue, InSink
<1>7. /\ \A s \in Server :
          /\ IsInjective(readQueue'[s])
          /\ \A q \in Range(readQueue'[s]) : HomeOf[q] = s
      /\ \A d \in Collector : IsInjective(batch'[d])
  BY <1>2, <1>4 DEF HandInv, OneHand
<1>8. OneHand'
  BY <1>3, <1>4, <1>5, <1>6, <1>7 DEF HandInv, OneHand
<1>. QED BY <1>2, <1>3, <1>4, <1>5, <1>6, <1>8 DEF Unread

LEMMA ReadMoves ==
    ASSUME HandInv, NEW s \in Sink, NEW p \in Parcel, ReadTarget(s, p)
    PROVE  /\ OneHand'
           /\ Unread(p) /\ ~InSink(p)
           /\ event'[s] = p /\ \A k \in Sink \ {s} : event'[k] = event[k]
           /\ \A q \in Parcel : /\ Unread(q)' <=> Unread(q) /\ q # p
                                /\ InSink(q)' <=> InSink(q) \/ q = p
<1>1. /\ p \in toSink /\ event[s] = Nothing
      /\ toSink' = toSink \ {p}
      /\ event'[s] = p
      /\ \A k \in Sink \ {s} : event'[k] = event[k]
      /\ UNCHANGED <<readQueue, batch>>
  BY DEF ReadTarget, sinkFrame, sourceVars, HandInv, TypeInv, TypeOK, SinksHoldEvents
<1>2. ~InQueue(p) /\ ~InSink(p) /\ \A c \in Collector : ~InBatch(p, c)
  BY <1>1 DEF HandInv, OneHand
<1>3. \A q \in Parcel : /\ InQueue(q)' <=> InQueue(q)
                        /\ \A c \in Collector : InBatch(q, c)' <=> InBatch(q, c)
  BY <1>1 DEF InQueue, InBatch
<1>4. \A q \in Parcel : InSink(q)' <=> InSink(q) \/ q = p
  BY <1>1 DEF InSink
<1>5. \A q \in Parcel, k, l \in Sink : event'[k] = q /\ event'[l] = q => k = l
  BY <1>1, <1>2 DEF HandInv, OneHand, InSink
<1>6. /\ \A k \in Server :
          /\ IsInjective(readQueue'[k])
          /\ \A q \in Range(readQueue'[k]) : HomeOf[q] = k
      /\ \A c \in Collector : IsInjective(batch'[c])
  BY <1>1 DEF HandInv, OneHand
<1>7. OneHand'
  BY <1>1, <1>2, <1>3, <1>4, <1>5, <1>6 DEF HandInv, OneHand
<1>. QED BY <1>1, <1>2, <1>3, <1>4, <1>7 DEF Unread

LEMMA MarkMoves ==
    ASSUME HandInv, NEW s \in Sink, NEW p, p = event[s], MarkDone(s)
    PROVE  /\ OneHand'
           /\ p \in Parcel /\ ~InHand(p)'
           /\ \A k \in Sink : event'[k] = IF k = s THEN Nothing ELSE event[k]
           /\ \A q \in Parcel : /\ Unread(q)' <=> Unread(q)
                                /\ InSink(q)' <=> InSink(q) /\ q # p
<1>1. /\ p \in Parcel
      /\ \A k \in Sink : event'[k] = IF k = s THEN Nothing ELSE event[k]
      /\ UNCHANGED <<readQueue, batch, toSink>>
  BY DEF MarkDone, sinkFrame, sourceVars, HandInv, TypeInv, TypeOK, SinksHoldEvents
<1>2. InSink(p) /\ ~Unread(p) /\ \A k \in Sink \ {s} : event[k] # p
  BY <1>1 DEF HandInv, OneHand, InSink, Unread
<1>3. \A q \in Parcel : /\ InQueue(q)' <=> InQueue(q)
                        /\ \A c \in Collector : InBatch(q, c)' <=> InBatch(q, c)
  BY <1>1 DEF InQueue, InBatch
<1>4. \A q \in Parcel : InSink(q)' <=> InSink(q) /\ q # p
  BY <1>1, <1>2 DEF InSink
<1>5. \A q \in Parcel, k, l \in Sink : event'[k] = q /\ event'[l] = q => k = l
  BY <1>1 DEF HandInv, OneHand
<1>6. /\ \A k \in Server :
          /\ IsInjective(readQueue'[k])
          /\ \A q \in Range(readQueue'[k]) : HomeOf[q] = k
      /\ \A c \in Collector : IsInjective(batch'[c])
  BY <1>1 DEF HandInv, OneHand
<1>7. OneHand'
  BY <1>1, <1>3, <1>4, <1>5, <1>6 DEF HandInv, OneHand
<1>. QED BY <1>1, <1>2, <1>3, <1>4, <1>7 DEF Unread, InHand

LEMMA HandNext == HandInv /\ [Next]_vars => HandInv'
<1>. SUFFICES ASSUME HandInv, [Next]_vars
     PROVE  OneHand' /\ HandsAreSubscribed' /\ SubscribedAreCalled'
  BY TypeNext DEF HandInv
<1>. USE DEF HandsAreSubscribed
<1>1. CASE UNCHANGED <<hands, subscribed, pc>>
  BY <1>1, SameHands DEF HandInv, SubscribedAreCalled, hands
<1>2. ASSUME NEW p \in Parcel, ClientCall(p) \/ ClientStep(p)
      PROVE  OneHand' /\ HandsAreSubscribed' /\ SubscribedAreCalled'
  <2>1. SubscribedAreCalled' /\ subscribed \subseteq subscribed'
    <3>1. pc'[p] # "new" /\ \A q \in Parcel \ {p} : pc'[q] = pc[q]
      BY <1>2 DEF HandInv, TypeInv, TypeOK, CallState, InCall, ClientCall, ClientStep,
                  Subscribe, AsyncSubscribe, WaitBegin, WaitPoll, WaitErase, Fetch,
                  GetSubscribedData, CopyOut, Drop, Goto
    <3>2. subscribed \subseteq subscribed' /\ subscribed' \subseteq subscribed \cup {p}
      BY <1>2 DEF ClientCall, ClientStep, Subscribe, AsyncSubscribe, PushRead, WaitBegin,
                  WaitPoll, WaitErase, Fetch, GetSubscribedData, CopyOut, Drop
    <3>3. subscribed \subseteq Parcel
      BY DEF HandInv, TypeInv, TypeOK
    <3>. QED BY <3>1, <3>2, <3>3 DEF HandInv, SubscribedAreCalled
  <2>2. CASE PushRead(p)
    BY <2>1, <2>2, PushMoves DEF HandInv, InHand
  <2>3. CASE UNCHANGED hands
    BY <2>1, <2>3, SameHands DEF HandInv
  <2>. QED
    BY <1>2, <2>1, <2>2, <2>3
    DEF ClientCall, ClientStep, Subscribe, AsyncSubscribe, WaitBegin, WaitPoll, WaitErase,
        Fetch, GetSubscribedData, CopyOut, Drop, hands, sourceVars, sinkVars
<1>3. ASSUME NEW c \in Collector, SourceStep(c)
      PROVE  OneHand' /\ HandsAreSubscribed' /\ SubscribedAreCalled'
  <2>1. UNCHANGED <<subscribed, pc>>
    BY <1>3 DEF SourceStep, Poll, Pop, PopFails, Stop, MarkInProgress, Emit, sourceFrame,
                callVars
  <2>2. CASE Pop(c) \/ Emit(c)
    BY <2>1, <2>2, PopMoves, EmitMoves DEF HandInv, SubscribedAreCalled, InHand
  <2>. QED
    BY <1>1, <1>3, <2>1, <2>2
    DEF SourceStep, Poll, PopFails, Stop, MarkInProgress, hands, sourceFrame, sinkVars
<1>4. ASSUME NEW s \in Sink, SinkStep(s)
      PROVE  OneHand' /\ HandsAreSubscribed' /\ SubscribedAreCalled'
  <2>1. UNCHANGED <<subscribed, pc>>
    BY <1>4 DEF SinkStep, ReadTarget, PutData, MarkDone, sinkFrame, callVars
  <2>2. ASSUME NEW p \in Parcel, ReadTarget(s, p)
        PROVE  OneHand' /\ HandsAreSubscribed' /\ SubscribedAreCalled'
    BY <2>1, <2>2, ReadMoves DEF HandInv, SubscribedAreCalled, InHand
  <2>3. CASE MarkDone(s)
    BY <2>1, <2>3, MarkMoves DEF HandInv, SubscribedAreCalled, InHand
  <2>4. CASE PutData(s)
    BY <1>1, <2>1, <2>4 DEF PutData, hands, sinkFrame, sourceVars
  <2>. QED BY <1>4, <2>2, <2>3, <2>4 DEF SinkStep
<1>5. CASE FinalizeClient
  BY <1>1, <1>5 DEF FinalizeClient, hands, callVars, sourceVars, sinkVars
<1>6. ASSUME NEW b \in Block, NEW x \in Payload, OthersWrite(b, x)
      PROVE  OneHand' /\ HandsAreSubscribed' /\ SubscribedAreCalled'
  BY <1>1, <1>6 DEF OthersWrite, hands, callVars, sourceVars, sinkVars
<1>7. CASE UNCHANGED vars
  BY <1>1, <1>7 DEF vars, readVars, hands, callVars, sourceVars, sinkVars
<1>. QED BY <1>2, <1>3, <1>4, <1>5, <1>6, <1>7 DEF Next, JobNext
-----------------------------------------------------------------------------
(***************************************************************************)
(* The data of a parcel, by the stage it is in.  Before its call there is  *)
(* none; while nobody has read its block neither the warehouse nor the     *)
(* caller has any; once it is marked DONE one of the two has it, and the   *)
(* parcel is in no hand that could mark or put it again.                   *)
(***************************************************************************)
AfterFits(p) ==
    /\ pc[p] \in {"new", "pending"} => after[p] = "done"
    /\ pc[p] = "ready" => after[p] = "ready"
    /\ pc[p] = "fetching" => after[p] = "fetching"

NewIsEmpty(p) ==
    pc[p] = "new" => warehouse[p] = Nothing /\ got[p] = Nothing /\ parselState[p] = Nothing

UnreadIsEmpty(p) == Unread(p) => warehouse[p] = Nothing /\ got[p] = Nothing

Subscribed(p) == pc[p] = "fetching" \/ (after[p] = "fetching" /\ pc[p] \in {"dropping", "done"})

SettledIsFree(p) ==
    parselState[p] = "DONE" \/ pc[p] = "erasing" \/ Subscribed(p) => ~InHand(p)

SubscribedIsErased(p) ==
    /\ Subscribed(p) => parselState[p] = Nothing
    /\ pc[p] = "done" /\ after[p] = "fetching" => warehouse[p] = Nothing

HasData(p) == warehouse[p] # Nothing \/ got[p] # Nothing

MarkedHasData(p) ==
    /\ \/ parselState[p] = "DONE"
       \/ pc[p] \in {"erasing", "fetching", "ready"}
       \/ \E s \in Sink : sink[s] = "done" /\ event[s] = p
       => HasData(p)
    /\ pc[p] = "dropping" => got[p] # Nothing

Offered(p) == {Fetched(x) : x \in seen[p]}

DataIsSeen(p) ==
    /\ got[p] # Nothing => got[p] \in Offered(p)
    /\ warehouse[p] # Nothing => warehouse[p] \in Offered(p)
    /\ \A s \in Sink : sink[s] = "put" /\ event[s] = p => buffer[s] \in Offered(p)
    /\ pc[p] # "new" /\ got[p] = Nothing => storage[BlockOf[p]] \in seen[p]

DataFits(p) ==
    /\ AfterFits(p) /\ NewIsEmpty(p) /\ UnreadIsEmpty(p)
    /\ SettledIsFree(p) /\ SubscribedIsErased(p)
    /\ MarkedHasData(p) /\ DataIsSeen(p)

ReadInv == HandInv /\ \A p \in Parcel : DataFits(p)

LEMMA DataInit == Init => ReadInv
<1>. SUFFICES ASSUME Init PROVE ReadInv
  OBVIOUS
<1>1. \A p \in Parcel : ~InHand(p)
  <2>1. /\ \A s \in Server : Range(readQueue[s]) = {}
        /\ \A c \in Collector : Range(batch[c]) = {}
        /\ toSink = {} /\ \A s \in Sink : event[s] = Nothing
    BY EmptyRange DEF Init, ReadInit
  <2>. QED BY <2>1 DEF InHand, Unread, InQueue, InBatch, InSink
<1>2. ASSUME NEW p \in Parcel PROVE DataFits(p)
  BY <1>1, <1>2
  DEF Init, ReadInit, StoreInit, DataFits, AfterFits, NewIsEmpty, UnreadIsEmpty,
      Subscribed, SettledIsFree, SubscribedIsErased, MarkedHasData, DataIsSeen, InHand,
      TaskStatus
<1>. QED BY <1>2, HandInit DEF ReadInv

(***************************************************************************)
(* A step that leaves a parcel's entries and hands alone keeps its data in *)
(* order.                                                                  *)
(***************************************************************************)
LEMMA OtherParcel ==
    ASSUME NEW q \in Parcel, DataFits(q),
           pc'[q] = pc[q], after'[q] = after[q], got'[q] = got[q], seen'[q] = seen[q],
           warehouse'[q] = warehouse[q], parselState'[q] = parselState[q],
           storage' = storage,
           Unread(q)' <=> Unread(q), InSink(q)' <=> InSink(q),
           \A s \in Sink : event'[s] = q =>
               event[s] = q /\ sink'[s] = sink[s] /\ buffer'[s] = buffer[s]
    PROVE  DataFits(q)'
<1>1. InHand(q)' <=> InHand(q)
  BY DEF InHand
<1>2. AfterFits(q)' /\ NewIsEmpty(q)' /\ UnreadIsEmpty(q)'
  BY DEF DataFits, AfterFits, NewIsEmpty, UnreadIsEmpty
<1>3. SettledIsFree(q)' /\ SubscribedIsErased(q)'
  BY <1>1 DEF DataFits, SettledIsFree, SubscribedIsErased, Subscribed
<1>4. MarkedHasData(q)'
  BY DEF DataFits, MarkedHasData, HasData
<1>5. DataIsSeen(q)'
  BY DEF DataFits, DataIsSeen, Offered
<1>. QED BY <1>2, <1>3, <1>4, <1>5 DEF DataFits

(***************************************************************************)
(* A push.  The parcel was empty and in no hand, so whatever is known of   *)
(* its data is known of nothing, and what the block holds now is seen.     *)
(***************************************************************************)
LEMMA PushData ==
    ASSUME ReadInv, NEW p \in Parcel, Subscribe(p) \/ AsyncSubscribe(p), NEW q \in Parcel
    PROVE  DataFits(q)'
<1>. USE DEF ReadInv, HandInv, TypeInv, TypeOK, StoreTypeOK, storeVars, sinkVars
<1>1. /\ PushRead(p) /\ DataFits(p) /\ DataFits(q)
      /\ \A k \in Parcel \ {p} : pc'[k] = pc[k] /\ after'[k] = after[k] /\ seen'[k] = seen[k]
      /\ UNCHANGED <<warehouse, parselState, storage, got, sink, event, buffer>>
  BY DEF Subscribe, AsyncSubscribe, PushRead, Goto
<1>2. CASE q # p
  BY <1>1, <1>2, PushMoves, OtherParcel
<1>3. CASE q = p
  <2>1. /\ pc[p] = "new" /\ ~InHand(p) /\ ~InSink(p)'
        /\ after[p] = "done" /\ seen'[p] = {storage[BlockOf[p]]}
        /\ warehouse[p] = Nothing /\ got[p] = Nothing /\ parselState[p] = Nothing
    BY <1>1, PushMoves DEF PushRead, DataFits, AfterFits, NewIsEmpty
  <2>2. \/ pc'[p] = "waiting" /\ after'[p] = "fetching"
        \/ pc'[p] = "pending" /\ after'[p] = "done"
    BY <2>1 DEF Subscribe, AsyncSubscribe, Goto
  <2>3. AfterFits(p)' /\ NewIsEmpty(p)' /\ UnreadIsEmpty(p)'
    BY <1>1, <2>1, <2>2 DEF AfterFits, NewIsEmpty, UnreadIsEmpty
  <2>4. SettledIsFree(p)' /\ SubscribedIsErased(p)' /\ MarkedHasData(p)'
    BY <1>1, <2>1, <2>2
    DEF SettledIsFree, SubscribedIsErased, Subscribed, MarkedHasData, InSink, TaskStatus
  <2>5. DataIsSeen(p)'
    BY <1>1, <2>1 DEF DataIsSeen, InSink
  <2>. QED BY <1>3, <2>3, <2>4, <2>5 DEF DataFits
<1>. QED BY <1>2, <1>3

(***************************************************************************)
(* The other steps of a call.  No hand moves.                              *)
(***************************************************************************)
LEMMA CallData ==
    ASSUME ReadInv, NEW p \in Parcel,
           WaitBegin(p) \/ GetSubscribedData(p) \/ ClientStep(p), NEW q \in Parcel
    PROVE  DataFits(q)'
<1>. USE DEF ReadInv, HandInv, TypeInv, TypeOK, StoreTypeOK, storeVars, sinkVars, sourceVars,
             Goto
<1>1. /\ UNCHANGED hands
      /\ UNCHANGED <<storage, seen, sink, event, buffer>>
      /\ DataFits(p) /\ DataFits(q)
  BY DEF WaitBegin, GetSubscribedData, ClientStep, WaitPoll, WaitErase, Fetch, CopyOut, Drop,
         hands
<1>2. /\ Unread(q)' <=> Unread(q)
      /\ InSink(q)' <=> InSink(q)
      /\ InHand(q)' <=> InHand(q)
  BY <1>1, SameHands
<1>3. CASE q # p
  <2>1. /\ pc'[q] = pc[q] /\ after'[q] = after[q] /\ got'[q] = got[q]
        /\ warehouse'[q] = warehouse[q] /\ parselState'[q] = parselState[q]
    BY <1>3 DEF WaitBegin, GetSubscribedData, ClientStep, WaitPoll, WaitErase, Fetch,
                CopyOut, Drop, Erase
  <2>. QED BY <1>1, <1>2, <2>1, OtherParcel
<1>4. CASE WaitBegin(p) /\ q = p
  <2>1. /\ pc'[p] = "waiting" /\ pc[p] \in {"pending", "done"}
        /\ UNCHANGED <<warehouse, parselState, got>>
    BY <1>4 DEF WaitBegin
  <2>. QED
    BY <1>1, <1>2, <1>4, <2>1
    DEF DataFits, AfterFits, NewIsEmpty, UnreadIsEmpty, Subscribed, SettledIsFree,
        SubscribedIsErased, MarkedHasData, HasData, DataIsSeen, Offered
<1>5. CASE WaitPoll(p) /\ q = p
  <2>1. /\ pc[p] = "waiting" /\ pc'[p] = "erasing" /\ parselState[p] = "DONE"
        /\ UNCHANGED <<warehouse, parselState, got, after>>
    BY <1>5 DEF WaitPoll
  <2>. QED
    BY <1>1, <1>2, <1>5, <2>1
    DEF DataFits, AfterFits, NewIsEmpty, UnreadIsEmpty, Subscribed, SettledIsFree,
        SubscribedIsErased, MarkedHasData, HasData, DataIsSeen, Offered
<1>6. CASE WaitErase(p) /\ q = p
  <2>1. /\ pc[p] = "erasing" /\ pc'[p] = after[p] /\ parselState'[p] = Nothing
        /\ after[p] \in {"fetching", "ready", "done"}
        /\ UNCHANGED <<warehouse, got, after>>
    BY <1>6 DEF WaitErase, Erase
  <2>2. "DONE" # Nothing
    BY DEF TaskStatus
  <2>. QED
    BY <1>1, <1>2, <1>6, <2>1, <2>2
    DEF DataFits, AfterFits, NewIsEmpty, UnreadIsEmpty, Subscribed, SettledIsFree,
        SubscribedIsErased, MarkedHasData, HasData, DataIsSeen, Offered
<1>7. CASE (Fetch(p) \/ GetSubscribedData(p)) /\ q = p
  <2>1. /\ \/ pc[p] = "fetching"
           \/ pc[p] \in {"pending", "ready"} /\ warehouse[p] # Nothing
        /\ pc'[p] = "dropping"
        /\ got'[p] = IF warehouse[p] = Nothing THEN got[p] ELSE warehouse[p]
        /\ UNCHANGED <<warehouse, parselState, after>>
    BY <1>7 DEF Fetch, GetSubscribedData, CopyOut
  <2>2. HasData(p) /\ got'[p] # Nothing /\ ~Unread(p)
    BY <1>1, <2>1
    DEF DataFits, MarkedHasData, HasData, UnreadIsEmpty, SettledIsFree, Subscribed, InHand
  <2>3. got'[p] \in Offered(p)'
    BY <1>1, <2>1, <2>2 DEF DataFits, DataIsSeen, Offered
  <2>. QED
    BY <1>1, <1>2, <1>7, <2>1, <2>2, <2>3
    DEF DataFits, AfterFits, NewIsEmpty, UnreadIsEmpty, Subscribed, SettledIsFree,
        SubscribedIsErased, MarkedHasData, HasData, DataIsSeen, Offered
<1>8. CASE Drop(p) /\ q = p
  <2>1. /\ pc[p] = "dropping" /\ pc'[p] = "done" /\ warehouse'[p] = Nothing
        /\ UNCHANGED <<parselState, got, after>>
    BY <1>8 DEF Drop, Erase
  <2>. QED
    BY <1>1, <1>2, <1>8, <2>1
    DEF DataFits, AfterFits, NewIsEmpty, UnreadIsEmpty, Subscribed, SettledIsFree,
        SubscribedIsErased, MarkedHasData, HasData, DataIsSeen, Offered
<1>. QED BY <1>3, <1>4, <1>5, <1>6, <1>7, <1>8 DEF ClientStep

(***************************************************************************)
(* The source tasks only touch the record of a parcel in a batch, which is *)
(* therefore neither settled nor new.                                      *)
(***************************************************************************)
LEMMA SourceData ==
    ASSUME ReadInv, NEW c \in Collector, SourceStep(c), NEW q \in Parcel
    PROVE  DataFits(q)'
<1>. USE DEF ReadInv, HandInv, TypeInv, TypeOK, StoreTypeOK, storeVars, callVars, sinkVars
<1>1. /\ UNCHANGED <<callVars, seen, warehouse, storage, sinkVars>>
      /\ DataFits(q)
  BY DEF SourceStep, Poll, Pop, PopFails, Stop, MarkInProgress, Emit, sourceFrame
<1>2. /\ Unread(q)' <=> Unread(q)
      /\ InSink(q)' <=> InSink(q)
  <2>1. CASE Pop(c) \/ Emit(c)
    BY <2>1, PopMoves, EmitMoves
  <2>2. CASE UNCHANGED hands
    BY <2>2, SameHands
  <2>. QED
    BY <2>1, <2>2 DEF SourceStep, Poll, PopFails, Stop, MarkInProgress, hands, sourceFrame
<1>3. CASE parselState'[q] = parselState[q]
  BY <1>1, <1>2, <1>3, OtherParcel
<1>4. CASE MarkInProgress(c) /\ q = Head(batch[c])
  <2>1. batch[c] # <<>> /\ batch[c] \in Seq(Parcel)
    BY <1>4 DEF MarkInProgress, TasksHoldBatches
  <2>2. Unread(q)
    BY <1>4, <2>1, TailRange DEF Unread, InBatch
  <2>3. pc[q] # "new" /\ ~Subscribed(q) /\ pc[q] # "erasing"
    BY <1>1, <2>2
    DEF HandsAreSubscribed, SubscribedAreCalled, DataFits, SettledIsFree, InHand
  <2>4. parselState'[q] = "IN_PROGRESS" /\ parselState[q] # "DONE"
    BY <1>1, <1>4, <2>2 DEF MarkInProgress, Put, DataFits, SettledIsFree, InHand
  <2>5. AfterFits(q)' /\ NewIsEmpty(q)' /\ UnreadIsEmpty(q)'
    BY <1>1, <1>2, <2>3 DEF DataFits, AfterFits, NewIsEmpty, UnreadIsEmpty
  <2>6. SettledIsFree(q)' /\ SubscribedIsErased(q)'
    BY <1>1, <2>3, <2>4 DEF DataFits, SettledIsFree, SubscribedIsErased, Subscribed
  <2>7. MarkedHasData(q)' /\ DataIsSeen(q)'
    BY <1>1, <2>3, <2>4 DEF DataFits, MarkedHasData, HasData, DataIsSeen, Offered
  <2>. QED BY <2>5, <2>6, <2>7 DEF DataFits
<1>5. parselState'[q] = parselState[q] \/ (MarkInProgress(c) /\ q = Head(batch[c]))
  BY DEF SourceStep, Poll, Pop, PopFails, Stop, MarkInProgress, Emit, sourceFrame, Put
<1>. QED BY <1>3, <1>4, <1>5

(***************************************************************************)
(* A sink takes a parcel and reads its block: the parcel leaves the unread *)
(* ones and what is read has been seen since the call.                     *)
(***************************************************************************)
LEMMA ReadData ==
    ASSUME ReadInv, NEW s \in Sink, NEW p \in Parcel, ReadTarget(s, p), NEW q \in Parcel
    PROVE  DataFits(q)'
<1>. USE DEF ReadInv, HandInv, TypeInv, TypeOK, StoreTypeOK, storeVars, callVars
<1>1. /\ UNCHANGED <<callVars, seen, storeVars>>
      /\ DataFits(q) /\ sink[s] = "idle"
      /\ sink'[s] = "put" /\ buffer'[s] = Fetched(storage[BlockOf[p]])
      /\ \A k \in Sink \ {s} : sink'[k] = sink[k] /\ buffer'[k] = buffer[k]
  BY DEF ReadTarget, sinkFrame
<1>2. /\ Unread(p) /\ ~InSink(p)
      /\ event'[s] = p /\ \A k \in Sink \ {s} : event'[k] = event[k]
      /\ Unread(q)' <=> Unread(q) /\ q # p
      /\ InSink(q)' <=> InSink(q) \/ q = p
  BY ReadMoves
<1>3. CASE q # p
  BY <1>1, <1>2, <1>3, OtherParcel
<1>4. CASE q = p
  <2>1. /\ InHand(p) /\ pc[p] # "new" /\ got[p] = Nothing /\ warehouse[p] = Nothing
        /\ \A k \in Sink \ {s} : event'[k] # p
    BY <1>1, <1>2, <1>4
    DEF InHand, InSink, HandsAreSubscribed, SubscribedAreCalled, DataFits, UnreadIsEmpty
  <2>2. buffer'[s] \in Offered(p)'
    BY <1>1, <1>4, <2>1 DEF DataFits, DataIsSeen, Offered
  <2>3. DataIsSeen(p)' /\ UnreadIsEmpty(p)'
    BY <1>1, <1>2, <1>4, <2>1, <2>2 DEF DataFits, DataIsSeen, UnreadIsEmpty
  <2>4. MarkedHasData(p)'
    BY <1>1, <1>2, <1>4, <2>1 DEF DataFits, MarkedHasData, HasData
  <2>5. SettledIsFree(p)' /\ SubscribedIsErased(p)'
    BY <1>1, <1>4, <2>1 DEF DataFits, SettledIsFree, SubscribedIsErased, Subscribed
  <2>. QED
    BY <1>1, <1>4, <2>1, <2>3, <2>4, <2>5 DEF DataFits, AfterFits, NewIsEmpty
<1>. QED BY <1>3, <1>4

(***************************************************************************)
(* It puts what it read: the parcel is in its hand, so it is not settled   *)
(* and nobody reads its block any more.                                    *)
(***************************************************************************)
LEMMA PutsData ==
    ASSUME ReadInv, NEW s \in Sink, PutData(s), NEW q \in Parcel
    PROVE  DataFits(q)'
<1>. USE DEF ReadInv, HandInv, TypeInv, TypeOK, StoreTypeOK, callVars, sourceVars
<1>1. /\ UNCHANGED <<callVars, seen, parselState, storage, event, buffer>>
      /\ UNCHANGED hands
      /\ DataFits(q) /\ sink[s] = "put" /\ sink'[s] = "done"
      /\ \A k \in Sink \ {s} : sink'[k] = sink[k]
  BY DEF PutData, sinkFrame, hands
<1>2. /\ event[s] \in Parcel /\ buffer[s] # Nothing
      /\ warehouse'[event[s]] = buffer[s]
      /\ \A k \in Parcel : k # event[s] => warehouse'[k] = warehouse[k]
  BY <1>1 DEF PutData, Put, SinksHoldEvents
<1>3. /\ Unread(q)' <=> Unread(q)
      /\ InSink(q)' <=> InSink(q)
  BY <1>1, SameHands
<1>4. CASE q # event[s]
  BY <1>1, <1>2, <1>3, <1>4, OtherParcel
<1>5. CASE q = event[s]
  <2>1. /\ InSink(q) /\ ~Unread(q)
    BY <1>1, <1>5 DEF InSink, Unread, OneHand
  <2>2. /\ pc[q] # "new" /\ ~Subscribed(q) /\ pc[q] # "erasing" /\ parselState[q] # "DONE"
    BY <1>1, <2>1
    DEF HandsAreSubscribed, SubscribedAreCalled, InHand, DataFits, SettledIsFree
  <2>3. buffer[s] \in Offered(q)'
    BY <1>1, <1>5 DEF DataFits, DataIsSeen, Offered
  <2>4. DataIsSeen(q)' /\ MarkedHasData(q)'
    BY <1>1, <1>2, <1>5, <2>3 DEF DataFits, DataIsSeen, Offered, MarkedHasData, HasData
  <2>5. SettledIsFree(q)' /\ SubscribedIsErased(q)' /\ UnreadIsEmpty(q)'
    BY <1>1, <1>3, <2>1, <2>2
    DEF DataFits, SettledIsFree, SubscribedIsErased, Subscribed, UnreadIsEmpty
  <2>. QED BY <1>1, <2>2, <2>4, <2>5 DEF DataFits, AfterFits, NewIsEmpty
<1>. QED BY <1>4, <1>5

(***************************************************************************)
(* It marks the parcel, which leaves the last hand.                        *)
(***************************************************************************)
LEMMA MarksData ==
    ASSUME ReadInv, NEW s \in Sink, MarkDone(s), NEW q \in Parcel
    PROVE  DataFits(q)'
<1>. USE DEF ReadInv, HandInv, TypeInv, TypeOK, StoreTypeOK, callVars, sourceVars
<1>1. /\ UNCHANGED <<callVars, seen, warehouse, storage, toSink, readQueue, batch>>
      /\ DataFits(q) /\ sink[s] = "done" /\ event[s] \in Parcel
      /\ \A k \in Sink \ {s} : /\ sink'[k] = sink[k]
                               /\ buffer'[k] = buffer[k]
      /\ parselState'[event[s]] = "DONE"
      /\ \A k \in Parcel : k # event[s] => parselState'[k] = parselState[k]
  BY DEF MarkDone, sinkFrame, Put, SinksHoldEvents
<1>2. ASSUME NEW p, p = event[s]
      PROVE  /\ ~InHand(p)'
             /\ \A k \in Sink : event'[k] = IF k = s THEN Nothing ELSE event[k]
             /\ Unread(q)' <=> Unread(q)
             /\ InSink(q)' <=> InSink(q) /\ q # p
  BY <1>2, MarkMoves
<1>3. CASE q # event[s]
  <2>1. q # Nothing
    OBVIOUS
  <2>. QED BY <1>1, <1>2, <1>3, <2>1, OtherParcel
<1>4. CASE q = event[s]
  <2>1. /\ InHand(q) /\ ~InHand(q)'
        /\ \A k \in Sink : event'[k] # q
    BY <1>2, <1>4 DEF InHand, InSink
  <2>2. /\ pc[q] # "new" /\ ~Subscribed(q) /\ pc[q] # "erasing"
    BY <1>1, <2>1
    DEF HandsAreSubscribed, SubscribedAreCalled, DataFits, SettledIsFree
  <2>3. HasData(q)
    BY <1>1, <1>4 DEF DataFits, MarkedHasData
  <2>4. DataIsSeen(q)' /\ MarkedHasData(q)'
    BY <1>1, <2>1, <2>3 DEF DataFits, DataIsSeen, Offered, MarkedHasData, HasData
  <2>5. SettledIsFree(q)' /\ SubscribedIsErased(q)' /\ UnreadIsEmpty(q)'
    BY <1>1, <2>1, <2>2
    DEF DataFits, SettledIsFree, SubscribedIsErased, Subscribed, UnreadIsEmpty, InHand
  <2>. QED BY <1>1, <2>2, <2>4, <2>5 DEF DataFits, AfterFits, NewIsEmpty
<1>. QED BY <1>3, <1>4

(***************************************************************************)
(* The blocks change: what is new in one is seen by every call under way.  *)
(***************************************************************************)
LEMMA OthersData ==
    ASSUME ReadInv, NEW b \in Block, NEW x \in Payload, OthersWrite(b, x), NEW q \in Parcel
    PROVE  DataFits(q)'
<1>. USE DEF ReadInv, HandInv, TypeInv, TypeOK, StoreTypeOK, callVars, sourceVars, sinkVars
<1>1. /\ UNCHANGED <<callVars, warehouse, parselState, sinkVars>>
      /\ UNCHANGED hands /\ DataFits(q)
  BY DEF OthersWrite, hands
<1>2. /\ Unread(q)' <=> Unread(q)
      /\ InHand(q)' <=> InHand(q)
  BY <1>1, SameHands
<1>3. /\ seen[q] \subseteq seen'[q]
      /\ pc[q] # "new" /\ got[q] = Nothing => storage'[BlockOf[q]] \in seen'[q]
  BY DEF OthersWrite, Observe
<1>4. DataIsSeen(q)'
  BY <1>1, <1>3 DEF DataFits, DataIsSeen, Offered
<1>5. AfterFits(q)' /\ NewIsEmpty(q)' /\ UnreadIsEmpty(q)'
  BY <1>1, <1>2 DEF DataFits, AfterFits, NewIsEmpty, UnreadIsEmpty
<1>6. SettledIsFree(q)' /\ SubscribedIsErased(q)' /\ MarkedHasData(q)'
  BY <1>1, <1>2
  DEF DataFits, SettledIsFree, SubscribedIsErased, Subscribed, MarkedHasData, HasData
<1>. QED BY <1>4, <1>5, <1>6 DEF DataFits

LEMMA DataNext == ReadInv /\ [Next]_vars => ReadInv'
<1>. SUFFICES ASSUME ReadInv, [Next]_vars, NEW q \in Parcel PROVE DataFits(q)'
  BY HandNext DEF ReadInv
<1>1. CASE UNCHANGED <<storeVars, callVars, seen, sinkVars>> /\ UNCHANGED hands
  BY <1>1, SameHands, OtherParcel DEF ReadInv, storeVars, callVars, sinkVars
<1>2. ASSUME NEW p \in Parcel, ClientCall(p) \/ ClientStep(p) PROVE DataFits(q)'
  BY <1>2, PushData, CallData DEF ClientCall
<1>3. ASSUME NEW c \in Collector, SourceStep(c) PROVE DataFits(q)'
  BY <1>3, SourceData
<1>4. ASSUME NEW s \in Sink, SinkStep(s) PROVE DataFits(q)'
  BY <1>4, ReadData, PutsData, MarksData DEF SinkStep
<1>5. ASSUME NEW b \in Block, NEW x \in Payload, OthersWrite(b, x) PROVE DataFits(q)'
  BY <1>5, OthersData
<1>6. CASE FinalizeClient \/ UNCHANGED vars
  BY <1>1, <1>6
  DEF FinalizeClient, vars, readVars, hands, storeVars, callVars, sourceVars, sinkVars
<1>. QED BY <1>2, <1>3, <1>4, <1>5, <1>6 DEF Next, JobNext

LEMMA DataInvariant == Spec => []ReadInv
BY DataInit, DataNext, PTL DEF Spec

(***************************************************************************)
(* FreshRead: a caller is only ever given what its block held at some      *)
(* moment since its call, whoever writes the block meanwhile and however   *)
(* the sinks overlap.                                                      *)
(***************************************************************************)
THEOREM ReadsAreFresh == Spec => []FreshRead
<1>1. ReadInv => FreshRead
  BY DEF ReadInv, DataFits, DataIsSeen, Offered, FreshRead
<1>. QED BY <1>1, DataInvariant, PTL

(***************************************************************************)
(* DoneHasData: a Wait that has returned finds the data, in the warehouse  *)
(* or already with the caller.                                             *)
(***************************************************************************)
THEOREM WaitsEndWithData == Spec => []DoneHasData
<1>1. ReadInv => DoneHasData
  BY DEF ReadInv, DataFits, MarkedHasData, HasData, DoneHasData
<1>. QED BY <1>1, DataInvariant, PTL

(***************************************************************************)
(* SubscribeCleansUp: when Subscribe returns, its parcel has left no entry *)
(* in the warehouse and no record, and no task can add one any more.       *)
(***************************************************************************)
THEOREM NothingIsLeftBehind == Spec => []SubscribeCleansUp
<1>1. ReadInv => SubscribeCleansUp
  BY DEF ReadInv, DataFits, SubscribedIsErased, Subscribed, SubscribeCleansUp
<1>. QED BY <1>1, DataInvariant, PTL
=============================================================================
