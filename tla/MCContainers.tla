---------------------------- MODULE MCContainers ----------------------------
(***************************************************************************)
(* What the containers hold, on either side of the wire: ParcelRelay for   *)
(* the parcels of a write job and QueueDaemon for the tasks of the legacy  *)
(* queue service.  The two share no state, so a behaviour is of the one or *)
(* of the other, and the state space is their sum.                         *)
(***************************************************************************)
EXTENDS ParcelRelay, QueueDaemon

CONSTANTS f1, f2, s1, s2, x1

VARIABLE system     \* the one this behaviour is of

vars == <<system, relayVars, daemonVars>>

Filled(file, position, unique) ==
    [id_ |-> file, position_ |-> position, data_size_ |-> 4, storage_index_ |-> 1,
     unique_id |-> unique, type_ |-> 1, buffer_ |-> x1]

\* two blocks of one file, and one of another
MCRequest == {Filled(f1, 0, 1), Filled(f1, 4, 2), Filled(f2, 4, 3)}

MCFresh == [id_ |-> s1, position_ |-> 0, data_size_ |-> 0, storage_index_ |-> 0,
            unique_id |-> 9, type_ |-> 0, buffer_ |-> s1]

Link(c, i, type) == [class |-> c, job_id_ |-> 0, id_ |-> i, type_ |-> type]

MCChain == <<Link("RheaWriteQueueSourceTask", 0, 1), Link("RheaKeyByTask", 1, 2),
             Link("RheaWriteSinkTask", 2, 3)>>

Job(node, origin, source) ==
    [task_node |-> node, task_origin |-> origin, task_destination |-> 1,
     source |-> source]

Written(i, offset, data) ==
    [event_id |-> i, file |-> f1, offset |-> offset, data |-> data, keyby |-> 7]

MCItem == [k \in {"TaskEvent", "Event"} |->
    IF k = "TaskEvent" THEN {Job(1, 0, s1), Job(0, 1, s2)}
    ELSE {<<Written(1, 0, s1), Written(2, 4, s2)>>, <<Written(2, 4, s2)>>}]

MCNodeOf == [c \in Client |-> 0]

Init == RelayInit /\ DaemonInit /\ system \in {"relay", "daemon"}

Next ==
    \/ system = "relay" /\ RelayNext /\ UNCHANGED <<system, daemonVars>>
    \/ system = "daemon" /\ DaemonNext /\ UNCHANGED <<system, relayVars>>

Spec ==
    /\ Init /\ [][Next]_vars
    /\ WF_vars(system = "relay" /\ TaskStep /\ UNCHANGED <<system, daemonVars>>)
    /\ \A n \in Node :
        WF_vars(system = "daemon" /\ ThreadStep(n) /\ UNCHANGED <<system, relayVars>>)
=============================================================================
