----------------------------- MODULE QueueDaemon -----------------------------
(***************************************************************************)
(* The legacy queue service: the processes of an MPI program that host a   *)
(* basket queue until a signal ends them, and the clients that put tasks   *)
(* to it and get them from it.  The handler of SIGTERM runs in whatever    *)
(* thread the signal reaches: it meets the other processes at a barrier,   *)
(* tells the worker thread to stop, joins it, and exits.  It does not run  *)
(* twice in one thread, because the signal is blocked there, but a second  *)
(* SIGTERM can reach the other thread.  The handler of SIGABRT, SIGSEGV    *)
(* and SIGBUS raises SIGTERM in its own thread; that of SIGHUP only logs.  *)
(***************************************************************************)
EXTENDS Wire

CONSTANTS
    Nodes,      \* the size of the program
    Item,       \* Item[k]: the TaskEvents, or vectors of Events, that are put
    Client,     \* the clients of the queue
    NodeOf,     \* NodeOf[c]: the node client c runs on
    MaxSignals  \* bound: SIGTERMs sent to one process

Node == 0 .. Nodes - 1
Thread == {"main", "worker"}

ASSUME DaemonAssumption ==
    /\ Nodes \in Nat \ {0}
    /\ NodeOf \in [Client -> Nat]
    /\ MaxSignals \in Nat

ASSUME ItemAssumption ==
    /\ Item["TaskEvent"] \subseteq TaskEventRecord
    /\ Item["Event"] \subseteq Seq(EventRecord)

VARIABLES
    main,       \* main[n]: where main is; "exited", "killed" and "aborted" are ends
    worker,     \* worker[n]: the thread of RunInternal
    handler,    \* handler[n][t]: where thread t is in the handler of SIGTERM
    promise,    \* promise[n]: exit_server_signal has its value
    barriers,   \* barriers[n]: how many barriers the process has entered
    ticket,     \* ticket[n][t]: which of them thread t is at
    signals,    \* signals[n]: how many SIGTERMs were sent to the process
    kind,       \* mainTask's queue of TaskEvents, or mainEvent's of vectors of Events
    queues,     \* queues[n]: SERVER_REQUEST_QUEUE on node n
    put,        \* history: what was pushed
    taken       \* history: what clients were given

processVars == <<main, worker, handler, promise, barriers, ticket, signals>>
queueVars == <<kind, queues, put, taken>>
daemonVars == <<processVars, queueVars>>

DaemonInit ==
    /\ main = [n \in Node |-> "start"]
    /\ worker = [n \in Node |-> "none"]
    /\ handler = [n \in Node |-> [t \in Thread |-> "none"]]
    /\ promise = [n \in Node |-> FALSE]
    /\ barriers = [n \in Node |-> 0]
    /\ ticket = [n \in Node |-> [t \in Thread |-> 0]]
    /\ signals = [n \in Node |-> 0]
    /\ kind \in {"TaskEvent", "Event"}
    /\ queues = [n \in Node |-> <<>>]
    /\ put = {}
    /\ taken = {}

Gone(n) == main[n] \in {"exited", "killed", "aborted"}

EnterBarrier(n, t) ==
    /\ barriers' = [barriers EXCEPT ![n] = @ + 1]
    /\ ticket' = [ticket EXCEPT ![n][t] = barriers[n] + 1]

Met(n, t) == \A m \in Node : barriers[m] >= ticket[n][t]
-----------------------------------------------------------------------------
(***************************************************************************)
(* main, until it sleeps for ever.  Server::Run starts the worker, which   *)
(* polls the future until it is ready; signals are caught from then on.    *)
(***************************************************************************)
Start(n) ==
    /\ main[n] = "start"
    /\ main' = [main EXCEPT ![n] = "starting"]
    /\ EnterBarrier(n, "main")
    /\ UNCHANGED <<worker, handler, promise, signals, queueVars>>

Run(n) ==
    /\ main[n] = "starting"
    /\ Met(n, "main")
    /\ main' = [main EXCEPT ![n] = "uncaught"]
    /\ worker' = [worker EXCEPT ![n] = "running"]
    /\ UNCHANGED <<handler, promise, barriers, ticket, signals, queueVars>>

CatchAllSignals(n) ==
    /\ main[n] = "uncaught"
    /\ main' = [main EXCEPT ![n] = "asleep"]
    /\ UNCHANGED <<worker, handler, promise, barriers, ticket, signals, queueVars>>

RunInternal(n) ==
    /\ ~Gone(n)
    /\ worker[n] = "running"
    /\ handler[n]["worker"] = "none"
    /\ promise[n]
    /\ worker' = [worker EXCEPT ![n] = "returned"]
    /\ UNCHANGED <<main, handler, promise, barriers, ticket, signals, queueVars>>

(***************************************************************************)
(* A SIGTERM reaches thread t; before the handlers are installed it kills  *)
(* the process.                                                            *)
(***************************************************************************)
Alive(n, t) == t = "worker" => worker[n] = "running"

Terminate(n, t) ==
    /\ ~Gone(n)
    /\ Alive(n, t)
    /\ handler[n][t] = "none"
    /\ signals[n] < MaxSignals
    /\ signals' = [signals EXCEPT ![n] = @ + 1]
    /\ IF main[n] = "asleep"
       THEN handler' = [handler EXCEPT ![n][t] = "caught"] /\ UNCHANGED main
       ELSE main' = [main EXCEPT ![n] = "killed"] /\ UNCHANGED handler
    /\ UNCHANGED <<worker, promise, barriers, ticket, queueVars>>
-----------------------------------------------------------------------------
(***************************************************************************)
(* finalize, in thread t: MPI_Barrier, Server::Stop, that is set_value and *)
(* join, and MPI_Finalize; then exit(0).  A second set_value and a join of *)
(* the own thread throw, and nothing catches what they throw.              *)
(***************************************************************************)
Handles(n, t, from, to) ==
    /\ ~Gone(n)
    /\ handler[n][t] = from
    /\ handler' = [handler EXCEPT ![n][t] = to]

\* mutant: finalize does not meet the other processes
StopAtOnce(n, t) ==
    /\ Handles(n, t, "caught", "meeting")
    /\ UNCHANGED <<main, worker, promise, barriers, ticket, signals, queueVars>>

MeetOthers(n, t) ==
    /\ Handles(n, t, "caught", "meeting")
    /\ EnterBarrier(n, t)
    /\ UNCHANGED <<main, worker, promise, signals, queueVars>>

Abort(n, t) ==
    /\ \/ handler[n][t] = "meeting" /\ Met(n, t) /\ promise[n]
       \/ handler[n][t] = "joining" /\ t = "worker"
    /\ ~Gone(n)
    /\ main' = [main EXCEPT ![n] = "aborted"]
    /\ UNCHANGED <<worker, handler, promise, barriers, ticket, signals, queueVars>>

\* mutant: the worker is joined before it is told to stop
SignalLast(n, t) ==
    /\ Met(n, t)
    /\ worker[n] = "returned"
    /\ Handles(n, t, "meeting", "joining")
    /\ promise' = [promise EXCEPT ![n] = TRUE]
    /\ UNCHANGED <<main, worker, barriers, ticket, signals, queueVars>>

SignalWorker(n, t) ==
    /\ Met(n, t)
    /\ ~promise[n]
    /\ Handles(n, t, "meeting", "joining")
    /\ promise' = [promise EXCEPT ![n] = TRUE]
    /\ UNCHANGED <<main, worker, barriers, ticket, signals, queueVars>>

JoinWorker(n, t) ==
    /\ t = "main"
    /\ worker[n] = "returned"
    /\ Handles(n, t, "joining", "leaving")
    /\ worker' = [worker EXCEPT ![n] = "joined"]
    /\ UNCHANGED <<main, promise, barriers, ticket, signals, queueVars>>

Exit(n, t) ==
    /\ Handles(n, t, "leaving", "none")
    /\ main' = [main EXCEPT ![n] = "exited"]
    /\ UNCHANGED <<worker, promise, barriers, ticket, signals, queueVars>>

Finalize(n, t) ==
    \/ MeetOthers(n, t) \/ SignalWorker(n, t) \/ JoinWorker(n, t)
    \/ Exit(n, t) \/ Abort(n, t)

ThreadStep(n) ==
    \/ Start(n) \/ Run(n) \/ CatchAllSignals(n) \/ RunInternal(n)
    \/ \E t \in Thread : Finalize(n, t)
-----------------------------------------------------------------------------
(***************************************************************************)
(* The queue.  A client on the node of the queue copies; another one packs *)
(* what it pushes and converts what it pops.  A pop has taken the element  *)
(* by then, also when the conversion is refused.  A TaskEvent is put to    *)
(* the server that is its origin; vectors of Events are pushed by other    *)
(* programs.                                                               *)
(***************************************************************************)
Hosts(n) == worker[n] # "none" /\ ~Gone(n)

Received(c, n, x) ==
    IF NodeOf[c] = n THEN x
    ELSE IF kind = "Event" THEN ConvertEvents(PackEvents(x))
    ELSE ConvertTaskEvent(PackTaskEvent(x))

PutTask(c, n, x) ==
    /\ Hosts(n)
    /\ kind = "TaskEvent" => n = x.task_origin
    /\ x \notin put
    /\ Received(c, n, x) # TypeError
    /\ put' = put \cup {x}
    /\ queues' = [queues EXCEPT ![n] = Append(@, Received(c, n, x))]
    /\ UNCHANGED <<processVars, kind, taken>>

GetTask(c, n) ==
    /\ Hosts(n)
    /\ queues[n] # <<>>
    /\ queues' = [queues EXCEPT ![n] = Tail(@)]
    /\ taken' = taken \cup ({Received(c, n, Head(queues[n]))} \ {TypeError})
    /\ UNCHANGED <<processVars, kind, put>>

DaemonNext ==
    \/ \E n \in Node : ThreadStep(n) \/ \E t \in Thread : Terminate(n, t)
    \/ \E c \in Client, n \in Node :
        GetTask(c, n) \/ \E x \in Item[kind] : PutTask(c, n, x)

DaemonSpec ==
    DaemonInit /\ [][DaemonNext]_daemonVars
        /\ \A n \in Node : WF_daemonVars(ThreadStep(n))
-----------------------------------------------------------------------------
(***************************************************************************)
(* A process that exits has joined its worker, so no thread is left in the *)
(* containers, and every process of the service has been told to end: none *)
(* is left to answer for one that is gone.                                 *)
(***************************************************************************)
ExitIsOrderly ==
    \A n \in Node : main[n] = "exited" =>
        /\ worker[n] = "joined"
        /\ \A m \in Node : signals[m] > 0

(***************************************************************************)
(* The service can be ended: when every process gets its SIGTERM, none of  *)
(* them too early and none in the worker thread, all of them exit.         *)
(***************************************************************************)
TermEndsService ==
    /\ \A n \in Node : <>(signals[n] > 0)
    /\ [](\A n \in Node : main[n] # "killed" /\ handler[n]["worker"] = "none")
    => <>(\A n \in Node : main[n] = "exited")

(***************************************************************************)
(* What a client is given was put, field by field, but for the keyby of    *)
(* its Events: a refused conversion loses the element, and never garbles   *)
(* it, nor cuts or reorders a vector.                                      *)
(***************************************************************************)
SameEvents(v, w) ==
    /\ Len(v) = Len(w)
    /\ \A i \in DOMAIN w : [v[i] EXCEPT !.keyby = w[i].keyby] = w[i]

TakenWasPut ==
    \A y \in taken : \E x \in put :
        IF kind = "Event" THEN SameEvents(y, x) ELSE y = x
=============================================================================
