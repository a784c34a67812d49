---------------------------- MODULE TaskManager ----------------------------
(***************************************************************************)
(* The task manager of the legacy tree: Server::TaskManager, whose RPC     *)
(* handlers PutTask, GetTask, SpawnTask, DestroyTask, updateDestination    *)
(* and GetDestination share three maps without a lock, and the             *)
(* TaskExecutors it posts to a thread pool, which poll those queues.       *)
(*                                                                         *)
(* A PutTask for a task that has no queue makes the queue and spawns an    *)
(* executor for it.  Any number of handlers run at a time; each operation  *)
(* on one of the maps is one step, so that a map that was asked may answer *)
(* otherwise by the time it is used.  The at() of PutTask and of GetTask   *)
(* then throws.  The RPC layer (external) hands the exception of a handler *)
(* to its caller.  An executor that calls has no handler for it: the       *)
(* exception leaves TaskExecutor::run, the function of a pool thread, and  *)
(* std::terminate ends the process with all its executors and maps.        *)
(***************************************************************************)
EXTENDS Naturals, Sequences, Functions

CONSTANTS
    Task,       \* the task ids
    Event,      \* the events put to them
    FirstTask,  \* FirstTask[e]: the task event e is put to from outside
    NextLocations,  \* NextLocations[t]: where t's results may be sent; {}: t holds them all
    Destroy,    \* the DestroyTask calls
    Worker,     \* the threads of the pool
    Spawned,    \* the tasks SpawnTask is called for from outside
    OriginOf,   \* OriginOf[t]: the origin a SpawnTask of t from outside names
    Nothing,    \* no queue, no destination, no executor, no event
    Elsewhere   \* a location that names none of this manager's tasks

(***************************************************************************)
(* A call is a PutTask of an event or a SpawnTask of a task from outside.  *)
(* An executor is known by its task and the call that spawned it: no event *)
(* comes twice to a task, since where an executor sends what it takes from *)
(* its origin makes no cycle.                                              *)
(***************************************************************************)
Call == Event \cup Spawned
Executor == Task \X Call
TaskIdOf(x) == x[1]

\* PutTask names the task itself as the origin of its executor.
Origin(x) == IF x[2] \in Event THEN x[1] ELSE OriginOf[x[1]]

ASSUME TaskAssumption ==
    /\ FirstTask \in [Event -> Task]
    /\ NextLocations \in [Task -> SUBSET (Task \cup {Elsewhere})]
    /\ Spawned \subseteq Task
    /\ OriginOf \in [Task -> Task \cup {Elsewhere}]
    /\ Nothing \notin Task \cup Event \cup Executor /\ Nothing \notin Seq(Event)
    /\ Elsewhere \notin Task \cup {Nothing}
    /\ Task \cap Event = {}

ASSUME NoCycle ==
    \E before \in SUBSET (Task \X Task) :
        /\ \A t, o \in Task : o \in {t, OriginOf[t]} =>
              \A u \in NextLocations[t] \cap Task : <<o, u>> \in before
        /\ \A t \in Task : <<t, t>> \notin before
        /\ \A s, t, u \in Task :
              <<s, t>> \in before /\ <<t, u>> \in before => <<s, u>> \in before

VARIABLES
    queueMap,               \* the queue of each task
    executorStop,           \* the executor whose promise the map holds
    executorDestination,    \* where the results of each task go
    call,                   \* where each call is
    taskId,                 \* the task each call is for
    destroying,             \* the task each DestroyTask is for, once it has begun
    destroyed,              \* what it has dropped last
    pool,                   \* executors posted and not yet started
    signalled,              \* executors whose future is ready
    executor,               \* the executor each worker runs
    worker,                 \* where it is in exec
    missed,                 \* its last GetTask returned nothing
    event,                  \* the event it has
    terminated              \* the process has ended by an uncaught exception

mapVars == <<queueMap, executorStop, executorDestination>>
callVars == <<call, taskId>>
destroyVars == <<destroying, destroyed>>
poolVars == <<pool, terminated>>
workerVars == <<executor, worker, missed, event>>
vars == <<mapVars, callVars, destroyVars, poolVars, signalled, workerVars>>

CallState == {"new", "emplace", "post", "insert", "push", "done", "refused", "astray"}

TypeOK ==
    /\ queueMap \in [Task -> Seq(Event) \cup {Nothing}]
    /\ executorStop \in [Task -> Executor \cup {Nothing}]
    /\ executorDestination \in [Task -> Task \cup {Nothing, Elsewhere}]
    /\ call \in [Call -> CallState]
    /\ taskId \in [Call -> Task]
    /\ destroying \in [Destroy -> Task \cup {Nothing}]
    /\ destroyed \in [Destroy -> {"none", "stop", "queue", "done"}]
    /\ pool \in Seq(Executor)
    /\ signalled \in SUBSET Executor
    /\ executor \in [Worker -> Executor \cup {Nothing}]
    /\ worker \in [Worker -> {"idle", "get", "pop", "exec", "send", "sending"}]
    /\ missed \in [Worker -> BOOLEAN]
    /\ event \in [Worker -> Event \cup {Nothing}]
    /\ terminated \in BOOLEAN

Init ==
    /\ queueMap = [t \in Task |-> Nothing]
    /\ executorStop = [t \in Task |-> Nothing]
    /\ executorDestination = [t \in Task |-> Nothing]
    /\ call = [c \in Call |-> "new"]
    /\ taskId = [c \in Call |-> IF c \in Event THEN FirstTask[c] ELSE c]
    /\ destroying = [d \in Destroy |-> Nothing]
    /\ destroyed = [d \in Destroy |-> "none"]
    /\ pool = <<>>
    /\ signalled = {}
    /\ executor = [w \in Worker |-> Nothing]
    /\ worker = [w \in Worker |-> "idle"]
    /\ missed = [w \in Worker |-> FALSE]
    /\ event = [w \in Worker |-> Nothing]
    /\ terminated = FALSE

Goto(c, from, to) ==
    /\ ~terminated
    /\ call[c] = from
    /\ call' = [call EXCEPT ![c] = to]
    /\ UNCHANGED taskId
-----------------------------------------------------------------------------
(***************************************************************************)
(* PutTask: look the queue up, make it and spawn an executor when it is    *)
(* missing, push.  The queue may be gone again by the time of the push,    *)
(* which then throws.                                                      *)
(***************************************************************************)
FindQueue(e) ==
    /\ Goto(e, "new", IF queueMap[taskId[e]] = Nothing THEN "emplace" ELSE "push")
    /\ UNCHANGED <<mapVars, destroyVars, poolVars, signalled, workerVars>>

EmplaceQueue(e) ==
    /\ Goto(e, "emplace", "post")
    /\ queueMap' = [queueMap EXCEPT ![taskId[e]] = IF @ = Nothing THEN <<>> ELSE @]
    /\ UNCHANGED <<executorStop, executorDestination, destroyVars, poolVars,
                   signalled, workerVars>>

Push(e) ==
    LET t == taskId[e] IN
    /\ Goto(e, "push", IF queueMap[t] = Nothing THEN "refused" ELSE "done")
    /\ queueMap' = [queueMap EXCEPT ![t] = IF @ = Nothing THEN @ ELSE Append(@, e)]
    /\ UNCHANGED <<executorStop, executorDestination, destroyVars, poolVars,
                   signalled, workerVars>>

(***************************************************************************)
(* SpawnTask: called from outside it may file a destination first; PutTask *)
(* calls it with "none".  It posts the executor, then files its promise    *)
(* under the task id.  The maps keep an entry they have; the promise that  *)
(* finds no place is destroyed with the handler, and a destroyed promise   *)
(* makes its executor's future ready.                                      *)
(***************************************************************************)
SpawnTask(t) ==
    /\ Goto(t, "new", "post")
    /\ \E to \in NextLocations[t] \cup {Nothing} :
          executorDestination' = [executorDestination EXCEPT ![t] =
              IF @ = Nothing THEN to ELSE @]
    /\ UNCHANGED <<queueMap, executorStop, destroyVars, poolVars, signalled, workerVars>>

PostExecutor(c) ==
    /\ Goto(c, "post", "insert")
    /\ pool' = Append(pool, <<taskId[c], c>>)
    /\ UNCHANGED <<mapVars, destroyVars, signalled, workerVars, terminated>>

\* mutant: a promise that finds no place is kept all the same
InsertKeepsPromise(c) ==
    LET t == taskId[c] IN
    /\ Goto(c, "insert", IF c \in Event THEN "push" ELSE "done")
    /\ executorStop' = [executorStop EXCEPT ![t] = IF @ = Nothing THEN <<t, c>> ELSE @]
    /\ UNCHANGED <<queueMap, executorDestination, destroyVars, poolVars, signalled,
                   workerVars>>

InsertStop(c) ==
    LET t == taskId[c] IN
    /\ Goto(c, "insert", IF c \in Event THEN "push" ELSE "done")
    /\ \/ /\ executorStop[t] = Nothing
          /\ executorStop' = [executorStop EXCEPT ![t] = <<t, c>>]
          /\ UNCHANGED signalled
       \/ /\ executorStop[t] # Nothing
          /\ signalled' = signalled \cup {<<t, c>>}
          /\ UNCHANGED executorStop
    /\ UNCHANGED <<queueMap, executorDestination, destroyVars, poolVars, workerVars>>

HandlerStep(c) == PostExecutor(c) \/ InsertStop(c)
PutStep(e) == FindQueue(e) \/ EmplaceQueue(e) \/ Push(e)
-----------------------------------------------------------------------------
(***************************************************************************)
(* DestroyTask: signal the executor and drop its promise, then the queue   *)
(* with whatever it holds, then the destination.  A task without a promise *)
(* makes the first step throw.  Fetching the promise and erasing its entry *)
(* are one step: to an insert, or to another DestroyTask, the entry of a   *)
(* promise that has been moved out looks as it did before.                 *)
(***************************************************************************)
SignalStop(t) ==
    /\ executorStop[t] # Nothing
    /\ signalled' = signalled \cup {executorStop[t]}
    /\ executorStop' = [executorStop EXCEPT ![t] = Nothing]

EraseQueue(t) == queueMap' = [queueMap EXCEPT ![t] = Nothing]

DestroyTask(d, t) ==
    /\ ~terminated
    /\ destroyed[d] = "none"
    /\ SignalStop(t)
    /\ destroying' = [destroying EXCEPT ![d] = t]
    /\ destroyed' = [destroyed EXCEPT ![d] = "stop"]
    /\ UNCHANGED <<queueMap, executorDestination, callVars, poolVars, workerVars>>

DestroyQueue(d) ==
    /\ ~terminated
    /\ destroyed[d] = "stop"
    /\ EraseQueue(destroying[d])
    /\ destroyed' = [destroyed EXCEPT ![d] = "queue"]
    /\ UNCHANGED <<executorStop, executorDestination, callVars, destroying, poolVars,
                   signalled, workerVars>>

DestroyDestination(d) ==
    /\ ~terminated
    /\ destroyed[d] = "queue"
    /\ executorDestination' = [executorDestination EXCEPT ![destroying[d]] = Nothing]
    /\ destroyed' = [destroyed EXCEPT ![d] = "done"]
    /\ UNCHANGED <<queueMap, executorStop, callVars, destroying, poolVars, signalled, workerVars>>

\* mutant: the queue is erased before the executor is signalled
DestroyQueueFirst(d) ==
    /\ ~terminated
    /\ \/ /\ destroyed[d] = "none"
          /\ \E t \in Task :
                /\ executorStop[t] # Nothing
                /\ EraseQueue(t)
                /\ destroying' = [destroying EXCEPT ![d] = t]
          /\ destroyed' = [destroyed EXCEPT ![d] = "stop"]
          /\ UNCHANGED <<executorStop, signalled>>
       \/ /\ destroyed[d] = "stop"
          /\ SignalStop(destroying[d])
          /\ destroyed' = [destroyed EXCEPT ![d] = "queue"]
          /\ UNCHANGED <<queueMap, destroying>>
    /\ UNCHANGED <<executorDestination, callVars, poolVars, workerVars>>

DestroySteps(d) == (\E t \in Task : DestroyTask(d, t)) \/ DestroyQueue(d)

UpdateDestination(t) ==
    /\ ~terminated
    /\ \E to \in NextLocations[t] :
          executorDestination' = [executorDestination EXCEPT ![t] = to]
    /\ UNCHANGED <<queueMap, executorStop, callVars, destroyVars, poolVars, signalled,
                   workerVars>>
-----------------------------------------------------------------------------
(***************************************************************************)
(* TaskExecutor::run on a thread of the pool.  The loop goes on while the  *)
(* time since the last event is short or the future is not ready, so it    *)
(* ends only when the executor is signalled and has missed for a while.    *)
(* GetTask finds the queue of the executor's origin, then pops from it; at *)
(* an origin elsewhere there is none of this manager's events.             *)
(***************************************************************************)
At(w, place) == ~terminated /\ worker[w] = place

Polled(w) ==
    LET t == Origin(executor[w]) IN IF t \in Task THEN queueMap[t] ELSE Nothing

Start(w) ==
    /\ At(w, "idle")
    /\ pool # <<>>
    /\ executor' = [executor EXCEPT ![w] = Head(pool)]
    /\ pool' = Tail(pool)
    /\ worker' = [worker EXCEPT ![w] = "get"]
    /\ missed' = [missed EXCEPT ![w] = FALSE]
    /\ UNCHANGED <<mapVars, callVars, destroyVars, signalled, event, terminated>>

\* mutant: the queue is popped from without asking whether it is there
FindEventsUnchecked(w) ==
    /\ At(w, "get")
    /\ Origin(executor[w]) \in Task
    /\ worker' = [worker EXCEPT ![w] = "pop"]
    /\ UNCHANGED <<mapVars, callVars, destroyVars, poolVars, signalled, executor,
                   missed, event>>

FindEvents(w) ==
    /\ At(w, "get")
    /\ Polled(w) # Nothing
    /\ worker' = [worker EXCEPT ![w] = "pop"]
    /\ UNCHANGED <<mapVars, callVars, destroyVars, poolVars, signalled, executor,
                   missed, event>>

GetTask(w) ==
    LET t == Origin(executor[w]) IN
    /\ At(w, "pop")
    /\ Polled(w) \notin {Nothing, <<>>}
    /\ event' = [event EXCEPT ![w] = Head(queueMap[t])]
    /\ queueMap' = [queueMap EXCEPT ![t] = Tail(@)]
    /\ worker' = [worker EXCEPT ![w] = "exec"]
    /\ missed' = [missed EXCEPT ![w] = FALSE]
    /\ UNCHANGED <<executorStop, executorDestination, callVars, destroyVars, poolVars,
                   signalled, executor>>

GetNothing(w) ==
    /\ \/ At(w, "get") /\ Polled(w) = Nothing /\ ~missed[w]
       \/ At(w, "pop") /\ Polled(w) = <<>>
    /\ worker' = [worker EXCEPT ![w] = "get"]
    /\ missed' = [missed EXCEPT ![w] = TRUE]
    /\ UNCHANGED <<mapVars, callVars, destroyVars, poolVars, signalled, executor, event>>

Exec(w) ==
    /\ At(w, "exec")
    /\ \E sends \in {FALSE, NextLocations[TaskIdOf(executor[w])] # {}} :
          /\ worker' = [worker EXCEPT ![w] = IF sends THEN "send" ELSE "get"]
          /\ event' = [event EXCEPT ![w] = IF sends THEN @ ELSE Nothing]
    /\ UNCHANGED <<mapVars, callVars, destroyVars, poolVars, signalled, executor, missed>>

(***************************************************************************)
(* exec of the task gives a result whose action decides: HOLD ends here.   *)
(* send: look the destination up and put the event there, or, KEYBY, where *)
(* the result says.  The lookup of a destination that is not known inserts *)
(* one that names no task.                                                 *)
(***************************************************************************)
Destination(t) ==
    IF executorDestination[t] = Nothing THEN Elsewhere ELSE executorDestination[t]

\* mutant: the lookup returns what it found, and nobody asks whether it did
SendUnchecked(w) ==
    LET e == event[w] IN
    /\ At(w, "send")
    /\ worker' = [worker EXCEPT ![w] = "sending"]
    /\ taskId' = [taskId EXCEPT ![e] = executorDestination[TaskIdOf(executor[w])]]
    /\ call' = [call EXCEPT ![e] = "new"]
    /\ UNCHANGED <<mapVars, destroyVars, poolVars, signalled, executor, missed, event>>

Send(w) ==
    LET e == event[w]
        t == TaskIdOf(executor[w])
    IN
    /\ At(w, "send")
    /\ worker' = [worker EXCEPT ![w] = "sending"]
    /\ executorDestination' = [executorDestination EXCEPT ![t] = Destination(t)]
    /\ \E to \in NextLocations[t] \cup {Destination(t)} :
          \/ /\ to # Elsewhere
             /\ taskId' = [taskId EXCEPT ![e] = to]
             /\ call' = [call EXCEPT ![e] = "new"]
          \/ /\ to = Elsewhere
             /\ call' = [call EXCEPT ![e] = "astray"]
             /\ UNCHANGED taskId
    /\ UNCHANGED <<queueMap, executorStop, destroyVars, poolVars, signalled, executor,
                   missed, event>>

Sent(w) ==
    /\ At(w, "sending")
    /\ call[event[w]] \in {"done", "astray"}
    /\ worker' = [worker EXCEPT ![w] = "get"]
    /\ event' = [event EXCEPT ![w] = Nothing]
    /\ UNCHANGED <<mapVars, callVars, destroyVars, poolVars, signalled, executor, missed>>

(***************************************************************************)
(* A queue that was found is gone when it is used, in the worker's GetTask *)
(* or in the PutTask it waits for; or a call to another manager fails.     *)
(***************************************************************************)
Lost(w, t) ==
    \/ worker[w] = "pop" /\ Polled(w) = Nothing /\ Origin(executor[w]) = t
    \/ worker[w] = "sending" /\ call[event[w]] = "refused" /\ taskId[event[w]] = t

CallsElsewhere(w) ==
    \/ worker[w] = "get" /\ Origin(executor[w]) = Elsewhere
    \/ worker[w] = "sending" /\ call[event[w]] = "astray"

Terminate ==
    /\ ~terminated
    /\ terminated' = TRUE
    /\ UNCHANGED <<mapVars, callVars, destroyVars, pool, signalled, workerVars>>

Throw(w) == (\E t \in Task : Lost(w, t)) /\ Terminate
FailElsewhere(w) == CallsElsewhere(w) /\ Terminate

\* mutant: the loop ends when either condition fails
LeaveWhenQuiet(w) ==
    /\ At(w, "get")
    /\ missed[w]
    /\ worker' = [worker EXCEPT ![w] = "idle"]
    /\ executor' = [executor EXCEPT ![w] = Nothing]
    /\ UNCHANGED <<mapVars, callVars, destroyVars, poolVars, signalled, missed, event>>

Leave(w) ==
    /\ At(w, "get")
    /\ missed[w]
    /\ executor[w] \in signalled
    /\ worker' = [worker EXCEPT ![w] = "idle"]
    /\ executor' = [executor EXCEPT ![w] = Nothing]
    /\ UNCHANGED <<mapVars, callVars, destroyVars, poolVars, signalled, missed, event>>

WorkerStep(w) ==
    \/ Start(w) \/ FindEvents(w) \/ GetTask(w) \/ GetNothing(w)
    \/ Exec(w) \/ Send(w) \/ Sent(w) \/ Throw(w)

Next ==
    \/ \E e \in Event : PutStep(e)
    \/ \E t \in Spawned : SpawnTask(t)
    \/ \E t \in Task : UpdateDestination(t)
    \/ \E c \in Call : HandlerStep(c)
    \/ \E d \in Destroy : DestroySteps(d) \/ DestroyDestination(d)
    \/ \E w \in Worker : WorkerStep(w) \/ FailElsewhere(w) \/ Leave(w)

Spec == Init /\ [][Next]_vars

(***************************************************************************)
(* RPC threads and pool threads keep running, so that a call goes on once  *)
(* it is made.  Nobody has to put an event or to destroy a task, and no    *)
(* call to another manager has to fail.  An executor that polls a queue    *)
(* which stays empty asks for it again and again, and time passes: one     *)
(* that has been signalled and finds nothing turn after turn leaves in the *)
(* end.                                                                    *)
(***************************************************************************)
Made(c) == call[c] # "new" \/ \E w \in Worker : worker[w] = "sending" /\ event[w] = c

MadeStep(c) == Made(c) /\ (HandlerStep(c) \/ (c \in Event /\ PutStep(c)))

Fairness ==
    /\ \A c \in Call : WF_vars(MadeStep(c))
    /\ \A d \in Destroy : WF_vars(DestroyQueue(d) \/ DestroyDestination(d))
    /\ \A w \in Worker : WF_vars(WorkerStep(w)) /\ SF_vars(Leave(w))

FairSpec == Spec /\ Fairness
-----------------------------------------------------------------------------
Alive(x) ==
    /\ x \notin signalled
    /\ x \in Range(pool) \/ \E w \in Worker : executor[w] = x

Queued(e, t) == queueMap[t] # Nothing /\ e \in Range(queueMap[t])

(***************************************************************************)
(* As long as the process runs, a queue is never left without an executor  *)
(* that will stay with it, or a later PutTask would find the queue and     *)
(* spawn none: whenever a queue exists, such an executor polls it, is      *)
(* about to be posted, or a DestroyTask is about to erase the queue.  This *)
(* is not so of a task that SpawnTask was told another origin for.         *)
(***************************************************************************)
QueueIsServed ==
    ~terminated =>
        \A t \in Task : OriginOf[t] = t /\ queueMap[t] # Nothing =>
            \/ \E x \in Executor : Origin(x) = t /\ Alive(x)
            \/ \E e \in Event : taskId[e] = t /\ call[e] = "post"
            \/ \E d \in Destroy : destroying[d] = t /\ destroyed[d] = "stop"

(***************************************************************************)
(* No executor gets out of the reach of DestroyTask: one whose promise has *)
(* been handed over is the one executorStop names, or is already told to   *)
(* stop.  So a task has one lasting executor at most, and the pool threads *)
(* a racing PutTask took come back.                                        *)
(***************************************************************************)
ExecutorsCanBeStopped ==
    ~terminated =>
        \A t \in Task, c \in Call : Alive(<<t, c>>) =>
            executorStop[t] = <<t, c>> \/ (taskId[c] = t /\ call[c] = "insert")

(***************************************************************************)
(* Only a DestroyTask of the queue in use, or a call to another manager,   *)
(* ends the process: however the other handlers race, a queue that PutTask *)
(* or GetTask has found or made is there when they come to at().           *)
(***************************************************************************)
OnlyDestroyThrows ==
    terminated => \E w \in Worker :
        \/ CallsElsewhere(w)
        \/ \E d \in Destroy : destroyed[d] \in {"queue", "done"} /\ Lost(w, destroying[d])

(***************************************************************************)
(* With as many pool threads as tasks, no event stays in a queue for ever: *)
(* an executor takes it, a DestroyTask drops it with its queue, or the     *)
(* process ends.                                                           *)
(***************************************************************************)
NoEventIsStuck ==
    \A e \in Event :
        (\E t \in Task : OriginOf[t] = t /\ Queued(e, t)) ~>
            (terminated \/ \A t \in Task : ~Queued(e, t))
=============================================================================
