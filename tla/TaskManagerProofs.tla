------------------------- MODULE TaskManagerProofs -------------------------
(***************************************************************************)
(* What the legacy task manager guarantees for every number of tasks,      *)
(* events, DestroyTask calls and pool threads.                             *)
(***************************************************************************)
EXTENDS TaskManager, QueueLemmas

USE TaskAssumption DEF TaskAssumption, poolVars

LEMMA ExecutorNames ==
    /\ \A t \in Task, c \in Call : <<t, c>> \in Executor /\ TaskIdOf(<<t, c>>) = t
    /\ \A x \in Executor : TaskIdOf(x) \in Task
    /\ \A x \in Executor : \E c \in Call : x = <<TaskIdOf(x), c>>
    /\ Event \subseteq Call /\ Spawned \subseteq Call
    /\ \A c \in Call : c \in Event \/ (c \in Spawned /\ c \in Task /\ c \notin Event)
BY DEF Executor, Call, TaskIdOf

(***************************************************************************)
(* The executors PutTask spawns poll the queue of their task; so do those  *)
(* of a task that is its own origin.                                       *)
(***************************************************************************)
LEMMA OriginNames ==
    /\ \A x \in Executor : Origin(x) \in {TaskIdOf(x), OriginOf[TaskIdOf(x)]}
    /\ \A t \in Task, c \in Call : OriginOf[t] = t => Origin(<<t, c>>) = t
BY DEF Executor, TaskIdOf, Origin
-----------------------------------------------------------------------------
(***************************************************************************)
(* TypeOK.  A worker that is not idle runs an executor, and past its       *)
(* GetTask it has an event; a DestroyTask that has begun has its task; a   *)
(* destination is one the application gave, or none.                       *)
(***************************************************************************)
WorkersHoldEvents ==
    \A w \in Worker :
        /\ worker[w] # "idle" => executor[w] \in Executor
        /\ worker[w] \in {"exec", "send", "sending"} => event[w] \in Event

DestroyersHaveTasks ==
    \A d \in Destroy : destroyed[d] # "none" => destroying[d] \in Task

DestinationsAreGiven ==
    \A t \in Task : executorDestination[t] \in NextLocations[t] \cup {Nothing, Elsewhere}

TypeInv ==
    /\ TypeOK
    /\ WorkersHoldEvents
    /\ DestroyersHaveTasks
    /\ DestinationsAreGiven

LEMMA TypeInit == Init => TypeInv
<1>. SUFFICES ASSUME Init PROVE TypeInv
  OBVIOUS
<1>. USE DEF Init
<1>1. TypeOK
  <2>1. pool \in Seq(Executor)
    OBVIOUS
  <2>2. /\ queueMap \in [Task -> Seq(Event) \cup {Nothing}]
        /\ executorStop \in [Task -> Executor \cup {Nothing}]
        /\ executorDestination \in [Task -> Task \cup {Nothing, Elsewhere}]
        /\ executor \in [Worker -> Executor \cup {Nothing}]
    OBVIOUS
  <2>3. /\ call \in [Call -> CallState] /\ taskId \in [Call -> Task]
        /\ signalled \in SUBSET Executor
    BY ExecutorNames DEF CallState
  <2>4. /\ destroying \in [Destroy -> Task \cup {Nothing}]
        /\ destroyed \in [Destroy -> {"none", "stop", "queue", "done"}]
        /\ worker \in [Worker -> {"idle", "get", "pop", "exec", "send", "sending"}]
        /\ missed \in [Worker -> BOOLEAN]
        /\ event \in [Worker -> Event \cup {Nothing}]
        /\ terminated \in BOOLEAN
    OBVIOUS
  <2>. QED BY <2>1, <2>2, <2>3, <2>4 DEF TypeOK
<1>2. WorkersHoldEvents /\ DestroyersHaveTasks /\ DestinationsAreGiven
  BY DEF WorkersHoldEvents, DestroyersHaveTasks, DestinationsAreGiven
<1>. QED BY <1>1, <1>2 DEF TypeInv

LEMMA CallTypes ==
    ASSUME TypeInv,
           \/ \E e \in Event : PutStep(e)
           \/ \E t \in Spawned : SpawnTask(t)
           \/ \E c \in Call : HandlerStep(c)
    PROVE  TypeInv'
<1>. USE DEF TypeInv, TypeOK, mapVars, destroyVars, workerVars, Goto, CallState
<1>1. /\ UNCHANGED <<destroyVars, workerVars, taskId>>
      /\ WorkersHoldEvents' /\ DestroyersHaveTasks'
  BY DEF PutStep, FindQueue, EmplaceQueue, Push, SpawnTask, HandlerStep, PostExecutor,
         InsertStop, WorkersHoldEvents, DestroyersHaveTasks
<1>2. ASSUME NEW e \in Event, FindQueue(e) PROVE TypeInv'
  BY <1>1, <1>2 DEF FindQueue, DestinationsAreGiven
<1>3. ASSUME NEW e \in Event, EmplaceQueue(e) PROVE TypeInv'
  <2>1. <<>> \in Seq(Event)
    OBVIOUS
  <2>2. queueMap' \in [Task -> Seq(Event) \cup {Nothing}]
    BY <1>3, <2>1 DEF EmplaceQueue
  <2>. QED BY <1>1, <1>3, <2>2 DEF EmplaceQueue, DestinationsAreGiven
<1>4. ASSUME NEW e \in Event, Push(e) PROVE TypeInv'
  <2>. DEFINE t == taskId[e]
  <2>1. t \in Task /\ (queueMap[t] # Nothing => Append(queueMap[t], e) \in Seq(Event))
    BY ExecutorNames
  <2>2. queueMap' \in [Task -> Seq(Event) \cup {Nothing}]
    BY <1>4, <2>1 DEF Push
  <2>. QED BY <1>1, <1>4, <2>2 DEF Push, DestinationsAreGiven
<1>5. ASSUME NEW t \in Spawned, SpawnTask(t) PROVE TypeInv'
  <2>1. PICK to \in NextLocations[t] \cup {Nothing} :
            executorDestination' = [executorDestination EXCEPT ![t] =
                IF @ = Nothing THEN to ELSE @]
    BY <1>5 DEF SpawnTask
  <2>2. t \in Task /\ to \in Task \cup {Nothing, Elsewhere}
    OBVIOUS
  <2>3. /\ executorDestination' \in [Task -> Task \cup {Nothing, Elsewhere}]
        /\ DestinationsAreGiven'
    BY <2>1, <2>2 DEF DestinationsAreGiven
  <2>. QED BY <1>1, <1>5, <2>3 DEF SpawnTask
<1>6. ASSUME NEW c \in Call, PostExecutor(c) PROVE TypeInv'
  <2>1. pool' \in Seq(Executor)
    BY <1>6, ExecutorNames DEF PostExecutor
  <2>. QED BY <1>1, <1>6, <2>1 DEF PostExecutor, DestinationsAreGiven
<1>7. ASSUME NEW c \in Call, InsertStop(c) PROVE TypeInv'
  <2>1. taskId[c] \in Task /\ <<taskId[c], c>> \in Executor
    BY ExecutorNames
  <2>2. CASE UNCHANGED signalled
    <3>1. executorStop' = [executorStop EXCEPT ![taskId[c]] = <<taskId[c], c>>]
          \/ UNCHANGED executorStop
      BY <1>7 DEF InsertStop
    <3>2. executorStop' \in [Task -> Executor \cup {Nothing}]
      BY <2>1, <3>1
    <3>. QED BY <1>1, <1>7, <2>2, <3>2 DEF InsertStop, DestinationsAreGiven
  <2>3. CASE signalled' = signalled \cup {<<taskId[c], c>>} /\ UNCHANGED executorStop
    <3>1. signalled' \in SUBSET Executor
      BY <2>1, <2>3
    <3>. QED BY <1>1, <1>7, <2>3, <3>1 DEF InsertStop, DestinationsAreGiven
  <2>. QED BY <1>7, <2>2, <2>3 DEF InsertStop
<1>. QED BY <1>2, <1>3, <1>4, <1>5, <1>6, <1>7 DEF PutStep, HandlerStep

LEMMA DestroyTypes ==
    ASSUME TypeInv,
           \/ \E t \in Task : UpdateDestination(t)
           \/ \E d \in Destroy : DestroySteps(d) \/ DestroyDestination(d)
    PROVE  TypeInv'
<1>. USE DEF TypeInv, TypeOK, mapVars, callVars, destroyVars, workerVars, WorkersHoldEvents,
             DestroyersHaveTasks, DestinationsAreGiven
<1>1. ASSUME NEW t \in Task, UpdateDestination(t) PROVE TypeInv'
  BY <1>1 DEF UpdateDestination
<1>2. ASSUME NEW d \in Destroy, NEW t \in Task, DestroyTask(d, t) PROVE TypeInv'
  BY <1>2 DEF DestroyTask, SignalStop
<1>3. ASSUME NEW d \in Destroy, DestroyQueue(d) PROVE TypeInv'
  BY <1>3 DEF DestroyQueue, EraseQueue
<1>4. ASSUME NEW d \in Destroy, DestroyDestination(d) PROVE TypeInv'
  BY <1>4 DEF DestroyDestination
<1>. QED BY <1>1, <1>2, <1>3, <1>4 DEF DestroySteps

LEMMA WorkerTypes ==
    ASSUME TypeInv, NEW w \in Worker, WorkerStep(w) \/ FailElsewhere(w) \/ Leave(w)
    PROVE  TypeInv'
<1>. USE DEF TypeInv, TypeOK, mapVars, callVars, destroyVars, WorkersHoldEvents, At
<1>1. DestroyersHaveTasks'
  BY DEF WorkerStep, Start, FindEvents, GetTask, GetNothing, Exec, Send, Sent, Throw,
         FailElsewhere, Terminate, Leave, DestroyersHaveTasks
<1>2. CASE Start(w)
  <2>1. Head(pool) \in Executor /\ Tail(pool) \in Seq(Executor)
    BY <1>2 DEF Start
  <2>. QED BY <1>1, <1>2, <2>1 DEF Start, DestinationsAreGiven
<1>3. CASE GetTask(w)
  <2>. DEFINE t == Origin(executor[w])
  <2>1. t \in Task /\ queueMap[t] \in Seq(Event) /\ queueMap[t] # <<>>
    BY <1>3 DEF GetTask, Polled
  <2>2. Head(queueMap[t]) \in Event /\ Tail(queueMap[t]) \in Seq(Event)
    BY <2>1
  <2>3. queueMap' \in [Task -> Seq(Event) \cup {Nothing}]
    BY <1>3, <2>2 DEF GetTask
  <2>. QED BY <1>1, <1>3, <2>2, <2>3 DEF GetTask, DestinationsAreGiven
<1>4. CASE FindEvents(w) \/ GetNothing(w)
  BY <1>1, <1>4 DEF FindEvents, GetNothing, DestinationsAreGiven
<1>5. CASE Exec(w)
  BY <1>1, <1>5 DEF Exec, DestinationsAreGiven
<1>6. CASE Send(w)
  <2>. DEFINE t == TaskIdOf(executor[w])
  <2>1. event[w] \in Event /\ event[w] \in Call /\ t \in Task
    BY <1>6, ExecutorNames DEF Send
  <2>2. /\ Destination(t) \in NextLocations[t] \cup {Elsewhere}
        /\ NextLocations[t] \subseteq Task \cup {Elsewhere}
    BY <2>1 DEF Destination, DestinationsAreGiven
  <2>3. taskId' \in [Call -> Task]
    <3>1. PICK to \in NextLocations[t] \cup {Destination(t)} :
              \/ to # Elsewhere /\ taskId' = [taskId EXCEPT ![event[w]] = to]
              \/ to = Elsewhere /\ UNCHANGED taskId
      BY <1>6 DEF Send
    <3>2. to \in Task \cup {Elsewhere}
      BY <2>2
    <3>. QED BY <2>1, <3>1, <3>2
  <2>4. call' \in [Call -> CallState]
    BY <1>6, <2>1 DEF Send, CallState
  <2>5. executorDestination' \in [Task -> Task \cup {Nothing, Elsewhere}]
    BY <1>6, <2>1, <2>2 DEF Send
  <2>6. DestinationsAreGiven'
    BY <1>6, <2>1, <2>2 DEF Send, DestinationsAreGiven
  <2>. QED BY <1>1, <1>6, <2>1, <2>3, <2>4, <2>5, <2>6 DEF Send
<1>7. CASE Sent(w)
  BY <1>1, <1>7 DEF Sent, DestinationsAreGiven
<1>8. CASE Leave(w)
  BY <1>1, <1>8 DEF Leave, DestinationsAreGiven
<1>9. CASE Throw(w) \/ FailElsewhere(w)
  BY <1>1, <1>9 DEF Throw, FailElsewhere, Terminate, workerVars, DestinationsAreGiven
<1>. QED BY <1>2, <1>3, <1>4, <1>5, <1>6, <1>7, <1>8, <1>9 DEF WorkerStep

LEMMA TypeNext == TypeInv /\ [Next]_vars => TypeInv'
<1>. SUFFICES ASSUME TypeInv, [Next]_vars PROVE TypeInv'
  OBVIOUS
<1>1. CASE UNCHANGED vars
  BY <1>1 DEF vars, mapVars, callVars, destroyVars, workerVars, TypeInv, TypeOK,
              WorkersHoldEvents, DestroyersHaveTasks, DestinationsAreGiven
<1>. QED BY <1>1, CallTypes, DestroyTypes, WorkerTypes DEF Next

(***************************************************************************)
(* Every reachable state is well typed.                                    *)
(***************************************************************************)
THEOREM TypeCorrect == Spec => []TypeOK
<1>1. TypeInv => TypeOK
  BY DEF TypeInv
<1>. QED BY <1>1, TypeInit, TypeNext, PTL DEF Spec
-----------------------------------------------------------------------------
(***************************************************************************)
(* An event is in one place at a time: in the queue of its task, or with a *)
(* worker that took it there.  Only an event that is in neither is in the  *)
(* hands of a PutTask.                                                     *)
(***************************************************************************)
Carries(w, e) == worker[w] \in {"exec", "send"} /\ event[w] = e

OnePlace ==
    /\ \A t \in Task : queueMap[t] # Nothing => IsInjective(queueMap[t])
    /\ \A e \in Event, t \in Task : Queued(e, t) =>
        /\ call[e] = "done" /\ taskId[e] = t
        /\ \A w \in Worker : ~Carries(w, e)
    /\ \A e \in Event, w \in Worker : Carries(w, e) =>
        /\ call[e] = "done" /\ taskId[e] = Origin(executor[w])
        /\ \A v \in Worker : Carries(v, e) => v = w

IdleRunNothing == \A w \in Worker : worker[w] = "idle" => executor[w] = Nothing

PlaceInv == TypeInv /\ OnePlace /\ IdleRunNothing

LEMMA PlaceInit == Init => PlaceInv
<1>. SUFFICES ASSUME Init PROVE PlaceInv
  OBVIOUS
<1>1. OnePlace /\ IdleRunNothing
  BY DEF Init, OnePlace, IdleRunNothing, Queued, Carries
<1>. QED BY <1>1, TypeInit DEF PlaceInv

(***************************************************************************)
(* A step of a call that leaves the queues and the workers alone, made for *)
(* a call that has not ended.                                              *)
(***************************************************************************)
LEMMA CallPlaces ==
    ASSUME OnePlace, NEW c \in Call, call[c] # "done",
           \A e \in Event : e # c => call'[e] = call[e],
           UNCHANGED <<queueMap, taskId, worker, event, executor>>
    PROVE  OnePlace'
BY DEF OnePlace, Queued, Carries

LEMMA EmplacePlaces ==
    ASSUME PlaceInv, NEW e \in Event, EmplaceQueue(e) PROVE OnePlace'
<1>. USE DEF PlaceInv, TypeInv, TypeOK, Goto, workerVars
<1>1. /\ e \in Call /\ call[e] = "emplace"
      /\ \A x \in Event : x # e => call'[x] = call[x]
      /\ UNCHANGED <<taskId, worker, event, executor>>
  BY ExecutorNames DEF EmplaceQueue
<1>2. ASSUME NEW t \in Task
      PROVE  queueMap'[t] = queueMap[t] \/ queueMap'[t] = <<>>
  BY DEF EmplaceQueue
<1>3. \A t \in Task : queueMap'[t] # Nothing => IsInjective(queueMap'[t])
  <2>. HIDE DEF TypeInv, TypeOK
  <2>1. \A t \in Task : queueMap[t] # Nothing => IsInjective(queueMap[t])
    BY DEF OnePlace
  <2>. QED BY <1>2, <2>1, EmptyRange
<1>4. \A x, t : t \in Task => (Queued(x, t)' => Queued(x, t))
  BY <1>2, EmptyRange DEF Queued
<1>5. \A x \in Event, w \in Worker : Carries(w, x)' <=> Carries(w, x)
  BY <1>1 DEF Carries
<1>. QED BY <1>1, <1>3, <1>4, <1>5 DEF OnePlace

LEMMA PushPlaces ==
    ASSUME PlaceInv, NEW e \in Event, Push(e) PROVE OnePlace'
<1>. DEFINE u == taskId[e]
<1>. USE DEF PlaceInv, TypeInv, TypeOK, Goto, workerVars
<1>1. /\ e \in Call /\ u \in Task /\ call[e] = "push"
      /\ \A x \in Event : x # e => call'[x] = call[x]
      /\ UNCHANGED <<taskId, worker, event, executor>>
      /\ \A t \in Task \ {u} : queueMap'[t] = queueMap[t]
  BY ExecutorNames DEF Push
<1>2. /\ \A t \in Task : ~Queued(e, t)
      /\ \A w \in Worker : ~Carries(w, e)
  BY <1>1 DEF OnePlace
<1>3. CASE queueMap[u] = Nothing
  <2>1. UNCHANGED queueMap
    BY <1>1, <1>3 DEF Push
  <2>. QED BY <1>1, <2>1, CallPlaces
<1>4. CASE queueMap[u] # Nothing
  <2>1. /\ queueMap[u] \in Seq(Event) /\ queueMap'[u] = Append(queueMap[u], e)
        /\ call'[e] = "done"
    BY <1>1, <1>4 DEF Push
  <2>2. e \notin Range(queueMap[u]) /\ IsInjective(queueMap[u])
    BY <1>1, <1>2, <1>4 DEF Queued, OnePlace
  <2>3. Range(queueMap'[u]) = Range(queueMap[u]) \cup {e} /\ IsInjective(queueMap'[u])
    BY <2>1, <2>2, AppendRange
  <2>4. \A t \in Task : queueMap'[t] # Nothing => IsInjective(queueMap'[t])
    BY <1>1, <2>3 DEF OnePlace
  <2>5. \A x, t : t \in Task => (Queued(x, t)' => Queued(x, t) \/ (x = e /\ t = u))
    BY <1>1, <1>4, <2>3 DEF Queued
  <2>6. \A x \in Event, w \in Worker : Carries(w, x)' <=> Carries(w, x)
    BY <1>1 DEF Carries
  <2>. QED BY <1>1, <1>2, <2>1, <2>4, <2>5, <2>6 DEF OnePlace
<1>. QED BY <1>3, <1>4

LEMMA GetPlaces ==
    ASSUME PlaceInv, NEW w \in Worker, GetTask(w) PROVE OnePlace'
<1>. DEFINE t == Origin(executor[w])
            e == Head(queueMap[t])
<1>. USE DEF PlaceInv, TypeInv, TypeOK, callVars, At, Polled
<1>1. /\ t \in Task /\ queueMap[t] \in Seq(Event) /\ queueMap[t] # <<>>
      /\ queueMap[t] # Nothing /\ IsInjective(queueMap[t])
  BY ExecutorNames DEF GetTask, WorkersHoldEvents, OnePlace
<1>2. /\ e \in Event /\ e \in Range(queueMap[t])
      /\ Range(Tail(queueMap[t])) = Range(queueMap[t]) \ {e}
      /\ IsInjective(Tail(queueMap[t]))
  BY <1>1, TailRange
<1>3. /\ queueMap'[t] = Tail(queueMap[t])
      /\ \A u \in Task \ {t} : queueMap'[u] = queueMap[u]
      /\ worker[w] = "pop" /\ worker'[w] = "exec" /\ event'[w] = e
      /\ \A v \in Worker \ {w} : worker'[v] = worker[v] /\ event'[v] = event[v]
      /\ UNCHANGED <<call, taskId, executor>>
  BY <1>1 DEF GetTask
<1>4. call[e] = "done" /\ taskId[e] = t /\ \A v \in Worker : ~Carries(v, e)
  BY <1>1, <1>2 DEF OnePlace, Queued
<1>5. \A u \in Task : queueMap'[u] # Nothing => IsInjective(queueMap'[u])
  BY <1>2, <1>3 DEF OnePlace
<1>6. \A x \in Event, u \in Task : Queued(x, u)' => Queued(x, u) /\ x # e
  <2>. SUFFICES ASSUME NEW x \in Event, NEW u \in Task, Queued(x, u)'
       PROVE  Queued(x, u) /\ x # e
    OBVIOUS
  <2>1. CASE u = t
    BY <1>1, <1>2, <1>3, <2>1 DEF Queued
  <2>2. CASE u # t
    <3>1. Queued(x, u)
      BY <1>3, <2>2 DEF Queued
    <3>. QED BY <1>4, <2>2, <3>1 DEF OnePlace
  <2>. QED BY <2>1, <2>2
<1>7. \A x \in Event, v \in Worker : Carries(v, x)' <=> Carries(v, x) \/ (v = w /\ x = e)
  BY <1>3 DEF Carries
<1>. QED BY <1>3, <1>4, <1>5, <1>6, <1>7 DEF OnePlace

(***************************************************************************)
(* The steps of the other kinds either leave every place alone or take     *)
(* events out of one.                                                      *)
(***************************************************************************)
LEMMA PlacesShrink ==
    ASSUME OnePlace,
           \A t \in Task : queueMap'[t] \in {queueMap[t], Nothing},
           \A w \in Worker : worker'[w] \in {"exec", "send"} =>
               /\ worker[w] \in {"exec", "send"}
               /\ event'[w] = event[w] /\ executor'[w] = executor[w],
           \A e \in Event :
               \/ call'[e] = call[e] /\ taskId'[e] = taskId[e]
               \/ /\ \A t \in Task : ~Queued(e, t)
                  /\ \A w \in Worker : ~Carries(w, e)'
    PROVE  OnePlace'
<1>1. \A e \in Event, t \in Task : Queued(e, t)' => Queued(e, t)
  BY DEF Queued
<1>2. \A e \in Event, w \in Worker : Carries(w, e)' => Carries(w, e)
  BY DEF Carries
<1>3. \A e \in Event, w \in Worker : Carries(w, e)' => executor'[w] = executor[w]
  BY DEF Carries
<1>4. \A t \in Task : queueMap'[t] # Nothing => IsInjective(queueMap'[t])
  BY DEF OnePlace
<1>. QED BY <1>1, <1>2, <1>3, <1>4 DEF OnePlace

LEMMA SendPlaces ==
    ASSUME PlaceInv, NEW w \in Worker, Send(w)
    PROVE  /\ OnePlace'
           /\ event[w] \in Event /\ call[event[w]] = "done"
           /\ taskId[event[w]] = Origin(executor[w])
<1>. DEFINE e == event[w]
<1>. USE DEF PlaceInv, TypeInv, TypeOK, At
<1>1. /\ e \in Event /\ e \in Call /\ Carries(w, e)
      /\ worker'[w] = "sending"
      /\ \A v \in Worker \ {w} : worker'[v] = worker[v]
      /\ UNCHANGED <<queueMap, event, executor>>
      /\ \A x \in Event \ {e} : call'[x] = call[x] /\ taskId'[x] = taskId[x]
  BY ExecutorNames DEF Send, WorkersHoldEvents, Carries
<1>2. /\ call[e] = "done" /\ taskId[e] = Origin(executor[w])
      /\ \A t \in Task : ~Queued(e, t)
      /\ \A v \in Worker \ {w} : ~Carries(v, e)
  BY <1>1 DEF OnePlace
<1>3. \A v \in Worker : ~Carries(v, e)'
  <2>. SUFFICES ASSUME NEW v \in Worker, NEW x, x = e PROVE ~Carries(v, x)'
    BY <1>1 DEF Carries
  <2>. QED BY <1>1, <1>2 DEF Carries
<1>4. ASSUME NEW x \in Event
      PROVE  \/ call'[x] = call[x] /\ taskId'[x] = taskId[x]
             \/ /\ \A t \in Task : ~Queued(x, t)
                /\ \A v \in Worker : ~Carries(v, x)'
  BY <1>1, <1>2, <1>3 DEF Carries
<1>5. \A v \in Worker : worker'[v] \in {"exec", "send"} =>
          /\ worker[v] \in {"exec", "send"}
          /\ event'[v] = event[v] /\ executor'[v] = executor[v]
  BY <1>1
<1>6. \A t \in Task : queueMap'[t] \in {queueMap[t], Nothing}
  BY <1>1
<1>7. OnePlace'
  BY <1>4, <1>5, <1>6, PlacesShrink
<1>. QED BY <1>1, <1>2, <1>7

LEMMA PlaceNext == PlaceInv /\ [Next]_vars => PlaceInv'
<1>. SUFFICES ASSUME PlaceInv, [Next]_vars PROVE OnePlace' /\ IdleRunNothing'
  BY TypeNext DEF PlaceInv
<1>. USE DEF PlaceInv, TypeInv, TypeOK, At
<1>1. IdleRunNothing'
  BY DEF Next, vars, PutStep, FindQueue, EmplaceQueue, Push, SpawnTask, UpdateDestination,
         HandlerStep, PostExecutor, InsertStop, DestroySteps, DestroyTask, DestroyQueue,
         DestroyDestination, WorkerStep, Start, FindEvents, GetTask, GetNothing, Exec, Send, Sent,
         Throw, FailElsewhere, Terminate, Leave, workerVars, IdleRunNothing
<1>2. ASSUME NEW e \in Event, PutStep(e) PROVE OnePlace'
  <2>1. CASE FindQueue(e)
    BY <2>1, CallPlaces, ExecutorNames DEF FindQueue, Goto, mapVars, workerVars
  <2>. QED BY <1>2, <2>1, EmplacePlaces, PushPlaces DEF PutStep
<1>3. ASSUME NEW t \in Spawned, SpawnTask(t) PROVE OnePlace'
  BY <1>3, CallPlaces, ExecutorNames DEF SpawnTask, Goto, workerVars
<1>4. ASSUME NEW c \in Call, HandlerStep(c) PROVE OnePlace'
  BY <1>4, CallPlaces, ExecutorNames
  DEF HandlerStep, PostExecutor, InsertStop, Goto, mapVars, workerVars
<1>5. CASE \/ \E t \in Task : UpdateDestination(t)
           \/ \E d \in Destroy : DestroySteps(d) \/ DestroyDestination(d)
           \/ UNCHANGED vars
  <2>1. /\ \A t \in Task : queueMap'[t] \in {queueMap[t], Nothing}
        /\ UNCHANGED <<callVars, workerVars>>
    BY <1>5
    DEF UpdateDestination, DestroySteps, DestroyTask, DestroyQueue, EraseQueue,
        DestroyDestination, vars, mapVars, callVars, workerVars
  <2>2. \A w \in Worker : worker'[w] \in {"exec", "send"} =>
              /\ worker[w] \in {"exec", "send"}
              /\ event'[w] = event[w] /\ executor'[w] = executor[w]
    BY <2>1 DEF workerVars
  <2>3. \A e \in Event : call'[e] = call[e] /\ taskId'[e] = taskId[e]
    BY <2>1 DEF callVars
  <2>. QED BY <1>1, <2>1, <2>2, <2>3, PlacesShrink
<1>6. ASSUME NEW w \in Worker,
             \/ Start(w) \/ FindEvents(w) \/ GetNothing(w) \/ Exec(w) \/ Sent(w)
             \/ Throw(w) \/ FailElsewhere(w) \/ Leave(w)
      PROVE  OnePlace'
  <2>1. /\ UNCHANGED <<queueMap, call, taskId>>
        /\ \A v \in Worker : worker'[v] \in {"exec", "send"} =>
              /\ worker[v] \in {"exec", "send"}
              /\ event'[v] = event[v] /\ executor'[v] = executor[v]
    BY <1>6
    DEF Start, FindEvents, GetNothing, Exec, Sent, Throw, FailElsewhere, Terminate, Leave,
        mapVars, callVars, workerVars
  <2>. QED BY <2>1, PlacesShrink
<1>7. ASSUME NEW w \in Worker, GetTask(w) \/ Send(w) PROVE OnePlace'
  BY <1>7, GetPlaces, SendPlaces
<1>. QED BY <1>1, <1>2, <1>3, <1>4, <1>5, <1>6, <1>7 DEF Next, WorkerStep
-----------------------------------------------------------------------------
(***************************************************************************)
(* The executors.  Before is an order in which every origin comes before   *)
(* the locations of the tasks that poll it, so that the name of the        *)
(* executor a PutTask is about to post has never been used.                *)
(***************************************************************************)
Orders(before) ==
    /\ \A t, o \in Task : o \in {t, OriginOf[t]} =>
          \A u \in NextLocations[t] \cap Task : <<o, u>> \in before
    /\ \A t \in Task : <<t, t>> \notin before
    /\ \A s, t, u \in Task : <<s, t>> \in before /\ <<t, u>> \in before => <<s, u>> \in before

Before == CHOOSE before \in SUBSET (Task \X Task) : Orders(before)

LEMMA BeforeOrders == Orders(Before)
<1>1. \E before \in SUBSET (Task \X Task) : Orders(before)
  BY NoCycle DEF NoCycle, Orders
<1>. QED BY <1>1 DEF Before

Running(x) == x \in Range(pool) \/ \E w \in Worker : executor[w] = x
Unused(x) == x \notin signalled /\ \A t \in Task : executorStop[t] # x

(***************************************************************************)
(* The promise a task keeps is that of an executor of its own that runs or *)
(* will run; an executor has no promise anywhere before its InsertStop.    *)
(***************************************************************************)
StopsAreAlive ==
    \A t \in Task : executorStop[t] # Nothing =>
        TaskIdOf(executorStop[t]) = t /\ Alive(executorStop[t])

NewNamesAreUnused ==
    \A c \in Call :
        /\ call[c] \in {"new", "emplace", "post", "insert"} => Unused(<<taskId[c], c>>)
        /\ call[c] = "insert" => Running(<<taskId[c], c>>)

LaterNamesAreUnused ==
    \A e \in Event, t \in Task : <<taskId[e], t>> \in Before => Unused(<<t, e>>)

(***************************************************************************)
(* What ExecutorsCanBeStopped and QueueIsServed say of a process that      *)
(* runs.  The exception that ends it changes nothing else, so that this    *)
(* holds of what it leaves, too.                                           *)
(***************************************************************************)
StopsAreFiled ==
    \A t \in Task, c \in Call :
        Alive(<<t, c>>) =>
            executorStop[t] = <<t, c>> \/ (taskId[c] = t /\ call[c] = "insert")

QueuesAreServed ==
    \A t \in Task : queueMap[t] # Nothing =>
        \/ \E c \in Call : Alive(<<t, c>>)
        \/ \E e \in Event : taskId[e] = t /\ call[e] = "post"
        \/ \E d \in Destroy : destroying[d] = t /\ destroyed[d] = "stop"

ExecInv ==
    /\ PlaceInv
    /\ StopsAreAlive /\ NewNamesAreUnused /\ LaterNamesAreUnused
    /\ StopsAreFiled /\ QueuesAreServed

executors == <<executorStop, pool, signalled, executor>>

LEMMA SameExecutors ==
    ASSUME UNCHANGED executors
    PROVE  /\ \A x : /\ Running(x)' <=> Running(x)
                     /\ Unused(x)' <=> Unused(x)
                     /\ Alive(x)' <=> Alive(x)
           /\ StopsAreAlive' <=> StopsAreAlive
BY DEF executors, Running, Unused, Alive, StopsAreAlive

LEMMA ExecInit == Init => ExecInv
<1>. SUFFICES ASSUME Init PROVE ExecInv
  OBVIOUS
<1>1. Range(pool) = {} /\ signalled = {} /\ \A t \in Task : executorStop[t] = Nothing
  BY EmptyRange DEF Init
<1>2. \A x \in Executor : ~Running(x) /\ Unused(x) /\ ~Alive(x)
  BY <1>1 DEF Init, Running, Unused, Alive
<1>3. StopsAreAlive /\ NewNamesAreUnused /\ LaterNamesAreUnused
  <2>1. \A c \in Call : call[c] = "new" /\ taskId[c] \in Task
    BY TypeInit DEF Init, TypeInv, TypeOK
  <2>. QED
    BY <1>1, <1>2, <2>1, ExecutorNames
    DEF StopsAreAlive, NewNamesAreUnused, LaterNamesAreUnused
<1>4. StopsAreFiled /\ QueuesAreServed
  BY <1>2, ExecutorNames DEF Init, StopsAreFiled, QueuesAreServed
<1>. QED BY <1>3, <1>4, PlaceInit DEF ExecInv

(***************************************************************************)
(* The steps of a call before it posts and after it has filed its promise. *)
(***************************************************************************)
LEMMA LookupExecutors ==
    ASSUME ExecInv, NEW c \in Call, call[c] \in {"new", "emplace", "push"},
           UNCHANGED executors, UNCHANGED <<taskId, destroying, destroyed>>,
           \A k \in Call \ {c} : call'[k] = call[k],
           /\ call[c] # "push" => call'[c] \in {"emplace", "post", "push"}
           /\ call[c] = "push" => call'[c] \in {"done", "refused"},
           \A t \in Task : queueMap[t] = Nothing /\ queueMap'[t] # Nothing =>
               c \in Event /\ taskId[c] = t /\ call'[c] = "post"
    PROVE  /\ StopsAreAlive' /\ NewNamesAreUnused' /\ LaterNamesAreUnused'
           /\ StopsAreFiled' /\ QueuesAreServed'
<1>1. StopsAreAlive' /\ LaterNamesAreUnused'
  BY SameExecutors DEF ExecInv, LaterNamesAreUnused
<1>2. NewNamesAreUnused'
  BY SameExecutors DEF ExecInv, NewNamesAreUnused
<1>3. StopsAreFiled'
  <2>1. \A k \in Call : call[k] = "insert" => call'[k] = "insert"
    OBVIOUS
  <2>. QED BY <2>1, SameExecutors DEF ExecInv, StopsAreFiled, executors
<1>4. QueuesAreServed'
  <2>1. \A e \in Event : call[e] = "post" => call'[e] = "post"
    BY ExecutorNames
  <2>. QED BY <2>1, SameExecutors DEF ExecInv, QueuesAreServed
<1>. QED BY <1>1, <1>2, <1>3, <1>4

(***************************************************************************)
(* PostExecutor: the new executor is not signalled, and it serves the      *)
(* queue from now on.                                                      *)
(***************************************************************************)
LEMMA PostExecutors ==
    ASSUME ExecInv, NEW c \in Call, PostExecutor(c)
    PROVE  /\ StopsAreAlive' /\ NewNamesAreUnused' /\ LaterNamesAreUnused'
           /\ StopsAreFiled' /\ QueuesAreServed'
<1>. DEFINE x == <<taskId[c], c>>
<1>. USE DEF PlaceInv, TypeInv, TypeOK, mapVars, destroyVars, workerVars, Goto
<1>1. /\ x \in Executor /\ call[c] = "post" /\ call'[c] = "insert"
      /\ \A k \in Call \ {c} : call'[k] = call[k]
      /\ pool' = Append(pool, x) /\ pool \in Seq(Executor)
      /\ UNCHANGED <<taskId, queueMap, executorStop, signalled, executor, destroying,
                     destroyed>>
  BY ExecutorNames DEF ExecInv, PostExecutor
<1>2. Range(pool') = Range(pool) \cup {x}
  <2>. HIDE DEF x
  <2>. QED BY <1>1, AppendRange
<1>3. Unused(x)
  BY <1>1 DEF ExecInv, NewNamesAreUnused
<1>4. /\ \A y : Running(y)' <=> Running(y) \/ y = x
      /\ \A y : Unused(y)' <=> Unused(y)
      /\ \A y : Alive(y)' <=> Alive(y) \/ y = x
  BY <1>1, <1>2, <1>3 DEF Running, Unused, Alive
<1>5. StopsAreAlive' /\ NewNamesAreUnused' /\ LaterNamesAreUnused'
  BY <1>1, <1>4 DEF ExecInv, StopsAreAlive, NewNamesAreUnused, LaterNamesAreUnused
<1>6. StopsAreFiled'
  BY <1>1, <1>4 DEF ExecInv, StopsAreFiled
<1>7. QueuesAreServed'
  <2>. SUFFICES ASSUME NEW t \in Task, queueMap[t] # Nothing
       PROVE  \/ \E k \in Call : Alive(<<t, k>>)'
              \/ \E e \in Event : taskId[e] = t /\ call'[e] = "post"
              \/ \E d \in Destroy : destroying[d] = t /\ destroyed[d] = "stop"
    BY <1>1 DEF QueuesAreServed
  <2>1. CASE \E k \in Call : Alive(<<t, k>>)
    BY <1>4, <2>1
  <2>2. ASSUME NEW e \in Event, taskId[e] = t, call[e] = "post"
        PROVE  Alive(<<t, e>>)' \/ (taskId[e] = t /\ call'[e] = "post")
    BY <1>1, <1>4, <2>2, ExecutorNames
  <2>. QED BY <2>1, <2>2, ExecutorNames DEF ExecInv, QueuesAreServed
<1>. QED BY <1>5, <1>6, <1>7

(***************************************************************************)
(* InsertStop: the promise finds its place, or the executor is signalled   *)
(* and another one, whose promise has the place, serves the queue.         *)
(***************************************************************************)
LEMMA InsertExecutors ==
    ASSUME ExecInv, NEW c \in Call, InsertStop(c)
    PROVE  /\ StopsAreAlive' /\ NewNamesAreUnused' /\ LaterNamesAreUnused'
           /\ StopsAreFiled' /\ QueuesAreServed'
<1>. DEFINE t == taskId[c]
            x == <<t, c>>
<1>1. /\ t \in Task /\ x \in Executor /\ x # Nothing
      /\ call[c] = "insert" /\ call'[c] \in {"push", "done"}
      /\ \A k \in Call \ {c} : call'[k] = call[k]
      /\ executorStop \in [Task -> Executor \cup {Nothing}]
      /\ UNCHANGED <<taskId, queueMap, pool, executor, destroying, destroyed>>
  BY ExecutorNames
  DEF ExecInv, PlaceInv, TypeInv, TypeOK, InsertStop, Goto, destroyVars, workerVars
<1>2. Unused(x) /\ Running(x)
  BY <1>1 DEF ExecInv, NewNamesAreUnused
<1>3. \A e \in Event : <<taskId[e], t>> \in Before => <<t, e>> # x
  BY <1>1, BeforeOrders DEF Orders
<1>4. \A k \in Call \ {c} : <<taskId[k], k>> # x
  OBVIOUS
<1>5. \A e \in Event : call[e] = "post" => call'[e] = "post"
  BY <1>1, ExecutorNames
<1>6. CASE executorStop' = [executorStop EXCEPT ![t] = x] /\ executorStop[t] = Nothing
           /\ UNCHANGED signalled
  <2>1. /\ executorStop'[t] = x
        /\ \A s \in Task \ {t} : executorStop'[s] = executorStop[s]
    BY <1>1, <1>6
  <2>2. /\ \A y : Running(y)' <=> Running(y)
        /\ \A y : Unused(y) /\ y # x => Unused(y)'
        /\ \A y : Alive(y)' <=> Alive(y)
    BY <1>1, <1>6, <2>1 DEF Running, Unused, Alive
  <2>3. Alive(x)
    BY <1>2 DEF Alive, Running, Unused
  <2>4. StopsAreAlive'
    BY <1>1, <2>1, <2>2, <2>3, ExecutorNames DEF ExecInv, StopsAreAlive
  <2>5. NewNamesAreUnused' /\ LaterNamesAreUnused'
    BY <1>1, <1>3, <1>4, <2>2 DEF ExecInv, NewNamesAreUnused, LaterNamesAreUnused
  <2>6. StopsAreFiled'
    <3>. SUFFICES ASSUME NEW s \in Task, NEW k \in Call, Alive(<<s, k>>)
         PROVE  executorStop'[s] = <<s, k>> \/ (taskId[k] = s /\ call'[k] = "insert")
      BY <1>1, <2>2 DEF StopsAreFiled
    <3>1. <<s, k>> \in Executor /\ <<s, k>> # Nothing
      BY ExecutorNames
    <3>2. CASE executorStop[s] = <<s, k>>
      BY <1>6, <2>1, <3>1, <3>2
    <3>3. CASE taskId[k] = s /\ call[k] = "insert"
      BY <1>1, <2>1, <3>3
    <3>. QED BY <3>2, <3>3 DEF ExecInv, StopsAreFiled
  <2>7. QueuesAreServed'
    BY <1>1, <1>5, <2>2 DEF ExecInv, QueuesAreServed
  <2>. QED BY <2>4, <2>5, <2>6, <2>7
<1>7. CASE signalled' = signalled \cup {x} /\ executorStop[t] # Nothing
           /\ UNCHANGED executorStop
  <2>1. /\ \A y : Running(y)' <=> Running(y)
        /\ \A y : Unused(y) /\ y # x => Unused(y)'
        /\ \A y : Alive(y)' <=> Alive(y) /\ y # x
    BY <1>1, <1>7 DEF Running, Unused, Alive
  <2>2. \A s \in Task : executorStop[s] # x
    BY <1>2 DEF Unused
  <2>3. StopsAreAlive'
    BY <1>7, <2>1, <2>2 DEF ExecInv, StopsAreAlive
  <2>4. NewNamesAreUnused' /\ LaterNamesAreUnused'
    BY <1>1, <1>3, <1>4, <2>1 DEF ExecInv, NewNamesAreUnused, LaterNamesAreUnused
  <2>5. StopsAreFiled'
    BY <1>1, <1>7, <2>1 DEF ExecInv, StopsAreFiled
  <2>6. \E k \in Call : Alive(<<t, k>>)'
    <3>1. PICK k \in Call : executorStop[t] = <<t, k>>
      BY <1>1, <1>7, ExecutorNames DEF ExecInv, StopsAreAlive
    <3>. QED BY <1>1, <1>7, <2>1, <2>2, <3>1 DEF ExecInv, StopsAreAlive
  <2>7. QueuesAreServed'
    <3>1. ASSUME NEW s \in Task, s # t, NEW k \in Call, Alive(<<s, k>>)
          PROVE  Alive(<<s, k>>)'
      BY <2>1, <3>1
    <3>. QED BY <1>1, <1>5, <2>6, <3>1 DEF ExecInv, QueuesAreServed
  <2>. QED BY <2>3, <2>4, <2>5, <2>7
<1>. QED BY <1>6, <1>7 DEF InsertStop

(***************************************************************************)
(* DestroyTask signals the executor and drops its promise; the queue has   *)
(* nobody until DestroyQueue erases it.                                    *)
(***************************************************************************)
LEMMA SignalExecutors ==
    ASSUME ExecInv, NEW d \in Destroy, NEW t \in Task, DestroyTask(d, t)
    PROVE  /\ StopsAreAlive' /\ NewNamesAreUnused' /\ LaterNamesAreUnused'
           /\ StopsAreFiled' /\ QueuesAreServed'
<1>. DEFINE x == executorStop[t]
<1>1. /\ x # Nothing /\ TaskIdOf(x) = t /\ signalled' = signalled \cup {x}
      /\ executorStop'[t] = Nothing
      /\ \A s \in Task \ {t} : executorStop'[s] = executorStop[s]
      /\ destroyed[d] = "none" /\ destroyed'[d] = "stop" /\ destroying'[d] = t
      /\ \A k \in Destroy \ {d} : destroyed'[k] = destroyed[k] /\ destroying'[k] = destroying[k]
      /\ UNCHANGED <<taskId, call, queueMap, pool, executor>>
  BY DEF ExecInv, PlaceInv, TypeInv, TypeOK, DestroyTask, SignalStop, callVars, workerVars,
         StopsAreAlive
<1>2. /\ \A y : Running(y)' <=> Running(y)
      /\ \A y \in Executor : Unused(y) => Unused(y)'
      /\ \A y : Alive(y)' <=> Alive(y) /\ y # x
  <2>1. \A y \in Executor : y # Nothing
    OBVIOUS
  <2>. QED BY <1>1, <2>1 DEF Running, Unused, Alive
<1>3. \A s \in Task : s # t /\ executorStop[s] # Nothing => executorStop[s] # x
  BY <1>1 DEF ExecInv, StopsAreAlive
<1>4. StopsAreAlive'
  BY <1>1, <1>2, <1>3 DEF ExecInv, StopsAreAlive
<1>5. NewNamesAreUnused' /\ LaterNamesAreUnused'
  <2>1. \A c \in Call : taskId[c] \in Task
    BY DEF ExecInv, PlaceInv, TypeInv, TypeOK
  <2>. QED
    BY <1>1, <1>2, <2>1, ExecutorNames DEF ExecInv, NewNamesAreUnused, LaterNamesAreUnused
<1>6. StopsAreFiled'
  BY <1>1, <1>2 DEF ExecInv, StopsAreFiled
<1>7. QueuesAreServed'
  <2>1. ASSUME NEW s \in Task, s # t, NEW k \in Call, Alive(<<s, k>>)
        PROVE  Alive(<<s, k>>)'
    BY <1>1, <1>2, <2>1, ExecutorNames
  <2>2. ASSUME NEW k \in Destroy, destroyed[k] = "stop"
        PROVE  destroyed'[k] = "stop" /\ destroying'[k] = destroying[k]
    BY <1>1, <2>2
  <2>. QED BY <1>1, <2>1, <2>2 DEF ExecInv, QueuesAreServed
<1>. QED BY <1>4, <1>5, <1>6, <1>7

(***************************************************************************)
(* The rest of DestroyTask: the queue goes, then the destination.          *)
(***************************************************************************)
LEMMA DestroyExecutors ==
    ASSUME ExecInv, NEW d \in Destroy, DestroyQueue(d) \/ DestroyDestination(d)
    PROVE  /\ StopsAreAlive' /\ NewNamesAreUnused' /\ LaterNamesAreUnused'
           /\ StopsAreFiled' /\ QueuesAreServed'
<1>1. /\ UNCHANGED executors /\ UNCHANGED <<call, taskId, destroying>>
      /\ \A k \in Destroy \ {d} : destroyed'[k] = destroyed[k]
      /\ \A t \in Task : queueMap'[t] # Nothing => queueMap[t] # Nothing
      /\ \/ queueMap'[destroying[d]] = Nothing
         \/ destroyed[d] = "queue"
  BY DEF ExecInv, PlaceInv, TypeInv, TypeOK, DestroyersHaveTasks, DestroyQueue, EraseQueue,
         DestroyDestination, executors, callVars, workerVars
<1>2. /\ StopsAreAlive' /\ NewNamesAreUnused' /\ LaterNamesAreUnused'
      /\ StopsAreFiled'
  BY <1>1, SameExecutors
  DEF ExecInv, NewNamesAreUnused, LaterNamesAreUnused, StopsAreFiled, executors
<1>3. QueuesAreServed'
  BY <1>1, SameExecutors DEF ExecInv, QueuesAreServed
<1>. QED BY <1>2, <1>3

(***************************************************************************)
(* Steps that change neither calls nor executors and make no queue.        *)
(***************************************************************************)
LEMMA QuietSteps ==
    ASSUME ExecInv, UNCHANGED <<executorStop, signalled, call, taskId, destroying, destroyed>>,
           \A x \in Executor : Alive(x)' <=> Alive(x),
           \A x \in Executor : x \notin signalled /\ Running(x) => Running(x)',
           \A t \in Task : queueMap'[t] # Nothing => queueMap[t] # Nothing
    PROVE  /\ StopsAreAlive' /\ NewNamesAreUnused' /\ LaterNamesAreUnused'
           /\ StopsAreFiled' /\ QueuesAreServed'
<1>1. \A x : Unused(x)' <=> Unused(x)
  BY DEF Unused
<1>2. /\ \A c \in Call : taskId[c] \in Task
      /\ \A t \in Task : executorStop[t] \in Executor \cup {Nothing}
  BY DEF ExecInv, PlaceInv, TypeInv, TypeOK
<1>3. StopsAreAlive'
  BY <1>2 DEF ExecInv, StopsAreAlive
<1>4. NewNamesAreUnused' /\ LaterNamesAreUnused'
  <2>1. \A c \in Call : call[c] = "insert" => <<taskId[c], c>> \notin signalled
    BY DEF ExecInv, NewNamesAreUnused, Unused
  <2>. QED
    BY <1>1, <1>2, <2>1, ExecutorNames DEF ExecInv, NewNamesAreUnused, LaterNamesAreUnused
<1>5. StopsAreFiled' /\ QueuesAreServed'
  BY ExecutorNames DEF ExecInv, StopsAreFiled, QueuesAreServed
<1>. QED BY <1>3, <1>4, <1>5

LEMMA StartExecutors ==
    ASSUME ExecInv, NEW w \in Worker, Start(w)
    PROVE  \A x \in Executor : Running(x)' <=> Running(x)
<1>1. /\ pool \in Seq(Executor) /\ pool # <<>> /\ pool' = Tail(pool)
      /\ executor[w] = Nothing /\ executor'[w] = Head(pool)
      /\ \A v \in Worker \ {w} : executor'[v] = executor[v]
  BY DEF ExecInv, PlaceInv, TypeInv, TypeOK, IdleRunNothing, Start, At
<1>2. Range(pool) = {Head(pool)} \cup Range(pool')
  BY <1>1, HeadRange
<1>3. \A x \in Executor : x # Nothing
  OBVIOUS
<1>. QED BY <1>1, <1>2, <1>3 DEF Running

(***************************************************************************)
(* Send: the name of the executor that a PutTask for the destination may   *)
(* post has not been used, since the destination comes later.              *)
(***************************************************************************)
LEMMA SendExecutors ==
    ASSUME ExecInv, NEW w \in Worker, Send(w)
    PROVE  /\ StopsAreAlive' /\ NewNamesAreUnused' /\ LaterNamesAreUnused'
           /\ StopsAreFiled' /\ QueuesAreServed'
<1>. DEFINE e == event[w]
            t == TaskIdOf(executor[w])
            o == Origin(executor[w])
<1>1. /\ e \in Event /\ e \in Call /\ call[e] = "done" /\ taskId[e] = o
      /\ o \in Task /\ t \in Task /\ o \in {t, OriginOf[t]}
  <2>1. e \in Event /\ e \in Call /\ call[e] = "done" /\ taskId[e] = o
    BY SendPlaces, ExecutorNames DEF ExecInv
  <2>2. executor[w] \in Executor /\ taskId[e] \in Task
    BY <2>1 DEF ExecInv, PlaceInv, TypeInv, TypeOK, WorkersHoldEvents, Send, At
  <2>. QED BY <2>1, <2>2, ExecutorNames, OriginNames
<1>2. PICK to \in NextLocations[t] \cup {Elsewhere} :
        /\ UNCHANGED executors /\ UNCHANGED <<queueMap, destroying, destroyed>>
        /\ \A c \in Call \ {e} : call'[c] = call[c] /\ taskId'[c] = taskId[c]
        /\ \/ to \in Task /\ taskId'[e] = to /\ call'[e] = "new"
           \/ taskId'[e] = o /\ call'[e] = "astray"
  <2>1. Destination(t) \in NextLocations[t] \cup {Elsewhere}
    BY <1>1 DEF ExecInv, PlaceInv, TypeInv, DestinationsAreGiven, Destination
  <2>2. PICK to \in NextLocations[t] \cup {Destination(t)} :
          \/ /\ to # Elsewhere
             /\ taskId' = [taskId EXCEPT ![e] = to]
             /\ call' = [call EXCEPT ![e] = "new"]
          \/ /\ to = Elsewhere
             /\ call' = [call EXCEPT ![e] = "astray"]
             /\ UNCHANGED taskId
    BY DEF Send
  <2>3. to \in NextLocations[t] \cup {Elsewhere} /\ to \in Task \cup {Elsewhere}
    BY <1>1, <2>1, <2>2
  <2>4. UNCHANGED executors /\ UNCHANGED <<queueMap, destroying, destroyed>>
    BY DEF Send, executors, destroyVars
  <2>5. call \in [Call -> CallState] /\ taskId \in [Call -> Task]
    BY DEF ExecInv, PlaceInv, TypeInv, TypeOK
  <2>. QED BY <1>1, <2>2, <2>3, <2>4, <2>5
<1>3. StopsAreAlive'
  BY <1>2, SameExecutors DEF ExecInv
<1>4. to \in Task => <<o, to>> \in Before
  BY <1>1, <1>2, BeforeOrders DEF Orders
<1>5. to \in Task => Unused(<<to, e>>)
  BY <1>1, <1>4 DEF ExecInv, LaterNamesAreUnused
<1>6. NewNamesAreUnused'
  BY <1>1, <1>2, <1>5, SameExecutors DEF ExecInv, NewNamesAreUnused
<1>7. LaterNamesAreUnused'
  <2>. SUFFICES ASSUME NEW x \in Event, NEW u \in Task, <<taskId'[x], u>> \in Before
       PROVE  Unused(<<u, x>>)
    BY <1>2, SameExecutors DEF LaterNamesAreUnused
  <2>1. CASE taskId'[x] = taskId[x]
    BY <2>1 DEF ExecInv, LaterNamesAreUnused
  <2>2. CASE x = e /\ to \in Task /\ taskId'[e] = to
    <3>1. <<o, u>> \in Before
      BY <1>1, <1>4, <2>2, BeforeOrders DEF Orders
    <3>. QED BY <1>1, <2>2, <3>1 DEF ExecInv, LaterNamesAreUnused
  <2>. QED BY <1>1, <1>2, <2>1, <2>2, ExecutorNames
<1>8. StopsAreFiled'
  <2>1. \A c \in Call : call[c] = "insert" => call'[c] = "insert" /\ taskId'[c] = taskId[c]
    BY <1>1, <1>2
  <2>. QED BY <1>2, <2>1, SameExecutors DEF ExecInv, StopsAreFiled, executors
<1>9. QueuesAreServed'
  <2>1. \A x \in Event : call[x] = "post" => call'[x] = "post" /\ taskId'[x] = taskId[x]
    BY <1>1, <1>2, ExecutorNames
  <2>. QED BY <1>2, <2>1, SameExecutors DEF ExecInv, QueuesAreServed
<1>. QED BY <1>3, <1>6, <1>7, <1>8, <1>9

LEMMA ExecNext == ExecInv /\ [Next]_vars => ExecInv'
<1>. SUFFICES ASSUME ExecInv, [Next]_vars
     PROVE  /\ StopsAreAlive' /\ NewNamesAreUnused' /\ LaterNamesAreUnused'
            /\ StopsAreFiled' /\ QueuesAreServed'
  BY PlaceNext DEF ExecInv
<1>. DEFINE Goal == /\ StopsAreAlive' /\ NewNamesAreUnused' /\ LaterNamesAreUnused'
                    /\ StopsAreFiled' /\ QueuesAreServed'
<1>1. ASSUME NEW e \in Event, PutStep(e) PROVE Goal
  <2>1. /\ e \in Call /\ call[e] \in {"new", "emplace", "push"}
        /\ UNCHANGED executors /\ UNCHANGED <<taskId, destroying, destroyed>>
        /\ \A k \in Call \ {e} : call'[k] = call[k]
        /\ call[e] # "push" => call'[e] \in {"emplace", "post", "push"}
        /\ call[e] = "push" => call'[e] \in {"done", "refused"}
    BY <1>1, ExecutorNames
    DEF ExecInv, PlaceInv, TypeInv, TypeOK, PutStep, FindQueue, EmplaceQueue, Push, Goto,
        executors, mapVars, destroyVars, workerVars
  <2>2. \A t \in Task : queueMap[t] = Nothing /\ queueMap'[t] # Nothing =>
            taskId[e] = t /\ call'[e] = "post"
    BY <1>1, <2>1
    DEF ExecInv, PlaceInv, TypeInv, TypeOK, PutStep, FindQueue, EmplaceQueue, Push, Goto,
        mapVars
  <2>. QED BY <2>1, <2>2, LookupExecutors
<1>2. ASSUME NEW t \in Spawned, SpawnTask(t) PROVE Goal
  <2>1. /\ t \in Call /\ call[t] = "new" /\ call'[t] = "post"
        /\ UNCHANGED executors /\ UNCHANGED <<taskId, destroying, destroyed, queueMap>>
        /\ \A k \in Call \ {t} : call'[k] = call[k]
    BY <1>2, ExecutorNames
    DEF ExecInv, PlaceInv, TypeInv, TypeOK, SpawnTask, Goto, executors, destroyVars, workerVars
  <2>. QED BY <2>1, LookupExecutors
<1>3. ASSUME NEW c \in Call, HandlerStep(c) PROVE Goal
  BY <1>3, PostExecutors, InsertExecutors DEF HandlerStep
<1>4. ASSUME NEW d \in Destroy, DestroySteps(d) \/ DestroyDestination(d) PROVE Goal
  BY <1>4, SignalExecutors, DestroyExecutors DEF DestroySteps
<1>5. CASE (\E t \in Task : UpdateDestination(t)) \/ UNCHANGED vars
  <2>1. /\ UNCHANGED executors
        /\ UNCHANGED <<executorStop, signalled, call, taskId, destroying, destroyed, queueMap>>
    BY <1>5
    DEF UpdateDestination, vars, executors, mapVars, callVars, destroyVars, workerVars
  <2>. QED BY <2>1, SameExecutors, QuietSteps
<1>6. ASSUME NEW w \in Worker, WorkerStep(w) \/ FailElsewhere(w) \/ Leave(w) PROVE Goal
  <2>1. CASE Send(w)
    BY <2>1, SendExecutors
  <2>2. CASE GetTask(w)
    <3>1. /\ UNCHANGED executors
          /\ UNCHANGED <<executorStop, signalled, call, taskId, destroying, destroyed>>
          /\ \A t \in Task : queueMap'[t] # Nothing => queueMap[t] # Nothing
      BY <2>2
      DEF GetTask, Polled, ExecInv, PlaceInv, TypeInv, TypeOK, executors, callVars, destroyVars
    <3>. QED BY <3>1, SameExecutors, QuietSteps
  <2>3. CASE \/ FindEvents(w) \/ GetNothing(w) \/ Exec(w) \/ Sent(w)
             \/ Throw(w) \/ FailElsewhere(w)
    <3>1. /\ UNCHANGED executors
          /\ UNCHANGED <<executorStop, signalled, call, taskId, destroying, destroyed,
                         queueMap>>
      BY <2>3
      DEF FindEvents, GetNothing, Exec, Sent, Throw, FailElsewhere, Terminate, executors,
          mapVars, callVars, destroyVars, workerVars
    <3>. QED BY <3>1, SameExecutors, QuietSteps
  <2>4. CASE Start(w)
    <3>1. UNCHANGED <<executorStop, signalled, call, taskId, destroying, destroyed, queueMap>>
      BY <2>4 DEF Start, mapVars, callVars, destroyVars
    <3>2. \A x \in Executor : Alive(x)' <=> Alive(x)
      BY <2>4, <3>1, StartExecutors DEF Alive, Running
    <3>. QED BY <2>4, <3>1, <3>2, StartExecutors, QuietSteps
  <2>5. CASE Leave(w)
    <3>1. /\ UNCHANGED <<executorStop, signalled, call, taskId, destroying, destroyed,
                         queueMap, pool>>
          /\ executor[w] \in signalled /\ executor'[w] = Nothing
          /\ \A v \in Worker \ {w} : executor'[v] = executor[v]
      BY <2>5
      DEF Leave, ExecInv, PlaceInv, TypeInv, TypeOK, mapVars, callVars, destroyVars
    <3>2. \A x \in Executor : x \notin signalled => (Running(x)' <=> Running(x))
      <4>1. \A x \in Executor : x # Nothing
        OBVIOUS
      <4>. QED BY <3>1, <4>1 DEF Running
    <3>3. \A x \in Executor : Alive(x)' <=> Alive(x)
      BY <3>1, <3>2 DEF Alive, Running
    <3>. QED BY <3>1, <3>2, <3>3, QuietSteps
  <2>. QED BY <1>6, <2>1, <2>2, <2>3, <2>4, <2>5 DEF WorkerStep
<1>. QED BY <1>1, <1>2, <1>3, <1>4, <1>5, <1>6 DEF Next

LEMMA ExecInvariant == Spec => []ExecInv
BY ExecInit, ExecNext, PTL DEF Spec

(***************************************************************************)
(* ExecutorsCanBeStopped: however PutTask, SpawnTask and DestroyTask race, *)
(* an executor that goes on running is the one DestroyTask would signal.   *)
(***************************************************************************)
THEOREM NoExecutorEscapes == Spec => []ExecutorsCanBeStopped
<1>1. ExecInv => ExecutorsCanBeStopped
  BY DEF ExecInv, StopsAreFiled, ExecutorsCanBeStopped
<1>. QED BY <1>1, ExecInvariant, PTL

(***************************************************************************)
(* QueueIsServed: a queue that a PutTask can find has an executor that     *)
(* stays, or is about to get one, or is about to be erased.                *)
(***************************************************************************)
THEOREM NoQueueIsOrphaned == Spec => []QueueIsServed
<1>1. ASSUME ExecInv, NEW t \in Task, OriginOf[t] = t, NEW c \in Call, Alive(<<t, c>>)
      PROVE  \E x \in Executor : Origin(x) = t /\ Alive(x)
  <2>1. <<t, c>> \in Executor /\ Origin(<<t, c>>) = t
    BY <1>1, ExecutorNames, OriginNames
  <2>. QED BY <1>1, <2>1
<1>2. ExecInv => QueueIsServed
  BY <1>1 DEF ExecInv, QueuesAreServed, QueueIsServed
<1>. QED BY <1>2, ExecInvariant, PTL
-----------------------------------------------------------------------------
(***************************************************************************)
(* What at() meets.  A queue that a PutTask has found or made, or that a   *)
(* worker is about to pop from, is there or has been erased by a           *)
(* DestroyTask, and the call that at() refused is for such a queue.        *)
(***************************************************************************)
Erased(t) == \E d \in Destroy : destroying[d] = t /\ destroyed[d] \in {"queue", "done"}
Kept(t) == queueMap[t] # Nothing \/ Erased(t)

PutsAreKept ==
    \A e \in Event :
        /\ call[e] \in {"post", "insert", "push"} => Kept(taskId[e])
        /\ call[e] = "refused" => Erased(taskId[e])

PollsAreKept ==
    \A w \in Worker : worker[w] = "pop" =>
        Origin(executor[w]) \in Task /\ Kept(Origin(executor[w]))

LossInv == TypeInv /\ PutsAreKept /\ PollsAreKept /\ OnlyDestroyThrows

LEMMA LossInit == Init => LossInv
<1>. SUFFICES ASSUME Init PROVE LossInv
  OBVIOUS
<1>1. \A e \in Event : call[e] = "new"
  BY ExecutorNames DEF Init
<1>2. terminated = FALSE /\ \A w \in Worker : worker[w] = "idle"
  BY DEF Init
<1>. QED BY <1>1, <1>2, TypeInit DEF LossInv, PutsAreKept, PollsAreKept, OnlyDestroyThrows

(***************************************************************************)
(* Only DestroyQueue makes a queue vanish, and its DestroyTask never       *)
(* begins again.                                                           *)
(***************************************************************************)
LEMMA KeptStays ==
    ASSUME TypeInv, [Next]_vars, NEW t \in Task
    PROVE  (Erased(t) => Erased(t)') /\ (Kept(t) => Kept(t)')
<1>. USE DEF TypeInv, TypeOK, DestroyersHaveTasks
<1>1. ASSUME NEW d \in Destroy, DestroySteps(d) \/ DestroyDestination(d)
      PROVE  (Erased(t) => Erased(t)') /\ (Kept(t) => Kept(t)')
  <2>1. CASE \E u \in Task : DestroyTask(d, u)
    <3>1. UNCHANGED queueMap /\ destroyed[d] = "none"
      BY <2>1 DEF DestroyTask
    <3>2. \A k \in Destroy \ {d} :
              destroyed'[k] = destroyed[k] /\ destroying'[k] = destroying[k]
      BY <2>1 DEF DestroyTask
    <3>. QED BY <3>1, <3>2 DEF Erased, Kept
  <2>2. CASE DestroyQueue(d) \/ DestroyDestination(d)
    <3>1. /\ UNCHANGED destroying
          /\ destroyed'[d] \in {"queue", "done"}
          /\ \A k \in Destroy \ {d} : destroyed'[k] = destroyed[k]
          /\ t # destroying[d] => queueMap'[t] = queueMap[t]
      BY <2>2 DEF DestroyQueue, DestroyDestination, EraseQueue
    <3>. QED BY <3>1 DEF Erased, Kept
  <2>. QED BY <1>1, <2>1, <2>2 DEF DestroySteps
<1>2. ASSUME UNCHANGED destroyVars, queueMap[t] # Nothing => queueMap'[t] # Nothing
      PROVE  (Erased(t) => Erased(t)') /\ (Kept(t) => Kept(t)')
  BY <1>2 DEF Erased, Kept, destroyVars
<1>3. ASSUME NEW e \in Event, PutStep(e)
      PROVE  UNCHANGED destroyVars /\ (queueMap[t] # Nothing => queueMap'[t] # Nothing)
  <2>1. CASE FindQueue(e)
    BY <2>1 DEF FindQueue, mapVars
  <2>2. CASE EmplaceQueue(e)
    <3>1. queueMap'[t] \in {queueMap[t], <<>>}
      BY <2>2 DEF EmplaceQueue
    <3>2. <<>> \in Seq(Event)
      OBVIOUS
    <3>. QED BY <2>2, <3>1, <3>2 DEF EmplaceQueue
  <2>3. CASE Push(e)
    <3>1. queueMap[t] # Nothing => queueMap'[t] \in {queueMap[t], Append(queueMap[t], e)}
      BY <2>3 DEF Push
    <3>2. queueMap[t] # Nothing => Append(queueMap[t], e) \in Seq(Event)
      OBVIOUS
    <3>. QED BY <2>3, <3>1, <3>2 DEF Push
  <2>. QED BY <1>3, <2>1, <2>2, <2>3 DEF PutStep
<1>4. ASSUME NEW w \in Worker, GetTask(w)
      PROVE  UNCHANGED destroyVars /\ (queueMap[t] # Nothing => queueMap'[t] # Nothing)
  <2>. DEFINE o == Origin(executor[w])
  <2>1. /\ o \in Task /\ queueMap[o] \in Seq(Event) /\ queueMap[o] # <<>>
        /\ queueMap'[t] \in {queueMap[t], Tail(queueMap[o])}
    BY <1>4 DEF GetTask, Polled
  <2>2. Tail(queueMap[o]) \in Seq(Event)
    BY <2>1
  <2>. QED BY <1>4, <2>1, <2>2 DEF GetTask
<1>5. CASE \/ \E u \in Spawned : SpawnTask(u)
           \/ \E u \in Task : UpdateDestination(u)
           \/ \E c \in Call : HandlerStep(c)
           \/ UNCHANGED vars
  BY <1>2, <1>5
  DEF SpawnTask, UpdateDestination, HandlerStep, PostExecutor, InsertStop, mapVars, vars
<1>6. ASSUME NEW w \in Worker,
             \/ Start(w) \/ FindEvents(w) \/ GetNothing(w) \/ Exec(w) \/ Send(w)
             \/ Sent(w) \/ Throw(w) \/ FailElsewhere(w) \/ Leave(w)
      PROVE  UNCHANGED <<destroyVars, queueMap>>
  BY <1>6
  DEF Start, FindEvents, GetNothing, Exec, Send, Sent, Throw, FailElsewhere, Terminate,
      Leave, mapVars
<1>. QED BY <1>1, <1>2, <1>3, <1>4, <1>5, <1>6 DEF Next, WorkerStep

(***************************************************************************)
(* A PutTask comes to its push with the queue it has found or made.        *)
(***************************************************************************)
LEMMA PutsKept ==
    ASSUME LossInv, [Next]_vars PROVE PutsAreKept'
<1>. SUFFICES ASSUME NEW e \in Event, NEW u \in Task, u = taskId'[e]
     PROVE  /\ call'[e] \in {"post", "insert", "push"} => Kept(u)'
            /\ call'[e] = "refused" => Erased(u)'
  <2>1. \A x \in Event : taskId'[x] \in Task
    BY TypeNext, ExecutorNames DEF LossInv, TypeInv, TypeOK
  <2>. QED BY <2>1 DEF PutsAreKept, Kept, Erased
<1>1. /\ e \in Call /\ taskId[e] \in Task
      /\ call \in [Call -> CallState] /\ taskId \in [Call -> Task]
      /\ queueMap \in [Task -> Seq(Event) \cup {Nothing}]
      /\ call[e] \in {"post", "insert", "push"} => Kept(taskId[e])
      /\ call[e] = "refused" => Erased(taskId[e])
  BY ExecutorNames DEF LossInv, PutsAreKept, TypeInv, TypeOK
<1>2. (Erased(u) => Erased(u)') /\ (Kept(u) => Kept(u)')
  BY KeptStays DEF LossInv
<1>3. CASE call'[e] = call[e] /\ taskId'[e] = taskId[e]
  BY <1>1, <1>2, <1>3
<1>4. CASE PutStep(e)
  <2>1. CASE FindQueue(e)
    BY <1>1, <1>2, <2>1 DEF FindQueue, Goto, Kept
  <2>2. CASE EmplaceQueue(e)
    <3>1. u = taskId[e] /\ queueMap'[u] \in {queueMap[u], <<>>} /\ call'[e] = "post"
          /\ queueMap'[u] = IF queueMap[u] = Nothing THEN <<>> ELSE queueMap[u]
      BY <1>1, <2>2 DEF EmplaceQueue, Goto
    <3>2. <<>> \in Seq(Event)
      OBVIOUS
    <3>. QED BY <3>1, <3>2 DEF Kept
  <2>3. CASE Push(e)
    BY <1>1, <1>2, <2>3 DEF Push, Goto, Kept
  <2>. QED BY <1>4, <2>1, <2>2, <2>3 DEF PutStep
<1>5. CASE HandlerStep(e)
  BY <1>1, <1>2, <1>5 DEF HandlerStep, PostExecutor, InsertStop, Goto
<1>6. ASSUME NEW c \in Call, c # e, PutStep(c) \/ SpawnTask(c) \/ HandlerStep(c)
      PROVE  call'[e] = call[e] /\ taskId'[e] = taskId[e]
  BY <1>1, <1>6
  DEF PutStep, FindQueue, EmplaceQueue, Push, SpawnTask, HandlerStep, PostExecutor,
      InsertStop, Goto
<1>7. ASSUME NEW w \in Worker, Send(w)
      PROVE  \/ call'[e] = call[e] /\ taskId'[e] = taskId[e]
             \/ call'[e] \in {"new", "astray"}
  BY <1>1, <1>7 DEF Send
<1>8. CASE \/ \E t \in Task : UpdateDestination(t)
           \/ \E d \in Destroy : DestroySteps(d) \/ DestroyDestination(d)
           \/ UNCHANGED vars
  BY <1>3, <1>8
  DEF UpdateDestination, DestroySteps, DestroyTask, DestroyQueue, DestroyDestination, vars,
      callVars
<1>9. ASSUME NEW w \in Worker,
             \/ Start(w) \/ FindEvents(w) \/ GetTask(w) \/ GetNothing(w) \/ Exec(w)
             \/ Sent(w) \/ Throw(w) \/ FailElsewhere(w) \/ Leave(w)
      PROVE  call'[e] = call[e] /\ taskId'[e] = taskId[e]
  BY <1>9
  DEF Start, FindEvents, GetTask, GetNothing, Exec, Sent, Throw, FailElsewhere, Terminate,
      Leave, callVars
<1>10. \A t \in Spawned : t \in Call /\ t # e
  BY ExecutorNames
<1>11. \A x \in Event : x \in Call
  BY ExecutorNames
<1>. QED
  BY <1>3, <1>4, <1>5, <1>6, <1>7, <1>8, <1>9, <1>10, <1>11 DEF Next, WorkerStep

(***************************************************************************)
(* An executor comes to its pop with the queue FindEvents has found.       *)
(***************************************************************************)
LEMMA PollsKept ==
    ASSUME LossInv, [Next]_vars PROVE PollsAreKept'
<1>. USE DEF TypeInv, TypeOK
<1>. SUFFICES ASSUME NEW w \in Worker, worker'[w] = "pop", NEW t, t = Origin(executor'[w])
     PROVE  t \in Task /\ Kept(t)'
  BY DEF PollsAreKept, Kept, Erased, Origin
<1>1. executor'[w] = executor[w] /\ (worker[w] = "pop" \/ FindEvents(w))
  <2>1. CASE UNCHANGED workerVars
    BY <2>1 DEF workerVars
  <2>2. ASSUME NEW v \in Worker, WorkerStep(v) \/ FailElsewhere(v) \/ Leave(v)
        PROVE  executor'[w] = executor[w] /\ (worker[w] = "pop" \/ FindEvents(w))
    <3>1. CASE v = w
      BY <2>2, <3>1
      DEF LossInv, WorkerStep, Start, FindEvents, GetTask, GetNothing, Exec, Send, Sent, Throw,
          FailElsewhere, Terminate, Leave, workerVars
    <3>2. CASE v # w
      BY <2>2, <3>2
      DEF LossInv, WorkerStep, Start, FindEvents, GetTask, GetNothing, Exec, Send, Sent, Throw,
          FailElsewhere, Terminate, Leave, workerVars
    <3>. QED BY <3>1, <3>2
  <2>. QED
    BY <2>1, <2>2
    DEF Next, vars, PutStep, FindQueue, EmplaceQueue, Push, SpawnTask, UpdateDestination,
        HandlerStep, PostExecutor, InsertStop, DestroySteps, DestroyTask, DestroyQueue,
        DestroyDestination
<1>2. t \in Task /\ Kept(t)
  BY <1>1 DEF LossInv, PollsAreKept, FindEvents, Polled, Kept
<1>. QED BY <1>2, KeptStays DEF LossInv

LEMMA LossNext == LossInv /\ [Next]_vars => LossInv'
<1>. SUFFICES ASSUME LossInv, [Next]_vars PROVE OnlyDestroyThrows'
  BY TypeNext, PutsKept, PollsKept DEF LossInv
<1>1. CASE UNCHANGED vars
  BY <1>1
  DEF LossInv, OnlyDestroyThrows, vars, mapVars, callVars, destroyVars, workerVars,
      CallsElsewhere, Lost, Polled
<1>2. ASSUME NEW w \in Worker, Throw(w) PROVE OnlyDestroyThrows'
  <2>1. PICK t \in Task : Lost(w, t)
    BY <1>2 DEF Throw
  <2>2. Erased(t)
    <3>1. CASE worker[w] = "pop" /\ Polled(w) = Nothing /\ Origin(executor[w]) = t
      BY <3>1 DEF LossInv, PollsAreKept, Polled, Kept
    <3>2. CASE worker[w] = "sending" /\ call[event[w]] = "refused" /\ taskId[event[w]] = t
      BY <3>2 DEF LossInv, PutsAreKept, TypeInv, WorkersHoldEvents
    <3>. QED BY <2>1, <3>1, <3>2 DEF Lost
  <2>3. PICK d \in Destroy : destroying[d] = t /\ destroyed[d] \in {"queue", "done"}
    BY <2>2 DEF Erased
  <2>4. Lost(w, destroying[d])' /\ destroyed'[d] \in {"queue", "done"}
    BY <1>2, <2>1, <2>3
    DEF Throw, Terminate, Lost, Polled, mapVars, callVars, destroyVars, workerVars
  <2>. QED BY <2>4 DEF OnlyDestroyThrows
<1>3. ASSUME NEW w \in Worker, FailElsewhere(w) PROVE OnlyDestroyThrows'
  <2>1. CallsElsewhere(w)'
    BY <1>3
    DEF FailElsewhere, Terminate, CallsElsewhere, callVars, workerVars
  <2>. QED BY <2>1 DEF OnlyDestroyThrows
<1>4. CASE Next /\ \A w \in Worker : ~Throw(w) /\ ~FailElsewhere(w)
  <2>1. terminated = FALSE /\ terminated' = FALSE
    BY <1>4
    DEF LossInv, TypeInv, TypeOK, Next, PutStep, FindQueue, EmplaceQueue, Push, SpawnTask,
        UpdateDestination, HandlerStep, PostExecutor, InsertStop, DestroySteps, DestroyTask,
        DestroyQueue, DestroyDestination, Goto, WorkerStep, Start, FindEvents, GetTask,
        GetNothing, Exec, Send, Sent, Leave, At
  <2>. QED BY <2>1 DEF OnlyDestroyThrows
<1>. QED BY <1>1, <1>2, <1>3, <1>4

(***************************************************************************)
(* OnlyDestroyThrows: whatever races with whatever, the process is ended   *)
(* by an exception only if a DestroyTask has erased the queue in use, or   *)
(* in a call to another manager.                                           *)
(***************************************************************************)
THEOREM NothingElseThrows == Spec => []OnlyDestroyThrows
<1>1. LossInv => OnlyDestroyThrows
  BY DEF LossInv
<1>. QED BY <1>1, LossInit, LossNext, PTL DEF Spec
=============================================================================
