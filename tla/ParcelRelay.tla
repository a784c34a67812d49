----------------------------- MODULE ParcelRelay -----------------------------
(***************************************************************************)
(* The copies of a parcel.  A parcel that a rank publishes is copied into  *)
(* WRITE_QUEUE, into the source task, and along the links of the job to    *)
(* the sink, each time by the msgpack adaptors or, within a node, by the   *)
(* copy constructor; and every task calls PARSEL_STATE with its own copy   *)
(* as the key.  RheaWriteJob takes all copies of a parcel to be the        *)
(* parcel; here they are what the adaptors make of them.                   *)
(***************************************************************************)
EXTENDS Wire

CONSTANTS
    Request,        \* the parcels published, as the application filled them in
    Fresh,          \* a Parcel just constructed
    Chain,          \* the tasks of the job, as CreateDAG links them
    Queued, InProgress, Done    \* TaskStatus

\* Event's constructor gives every parcel a unique_id of its own
ASSUME RequestAssumption ==
    /\ Request \subseteq ParcelRecord
    /\ Fresh \in ParcelRecord
    /\ \A p, q \in Request : p.unique_id = q.unique_id => p = q
    /\ {Queued, InProgress, Done} \subseteq Nat
    /\ Done \notin {Queued, InProgress}
    /\ Chain \in Seq([class : STRING, job_id_ : Nat, id_ : Nat, type_ : Nat])

VARIABLES
    call,       \* call[p]: where the rank that owns p is with it
    queue,      \* WRITE_QUEUE
    dag,        \* dag[i]: the i-th task of the job, as the worker has it
    arrived,    \* arrived[i]: the copies waiting for the i-th task
    records,    \* PARSEL_STATE
    written     \* the blocks the sink has written

relayVars == <<call, queue, dag, arrived, records, written>>

(***************************************************************************)
(* A transfer of a parcel, and of a record, to wherever it goes.           *)
(***************************************************************************)
Carried(p) == {p, ConvertParcel(PackParcel(p), Fresh)}
CarriedState(s) == {s, ConvertState(PackState(s))}

(***************************************************************************)
(* The job as it is handed to a worker: the packed task i holds the tasks  *)
(* behind it, and the worker converts what it finds i links down.          *)
(***************************************************************************)
Step == 1 .. Len(Chain)

Packed[i \in Step] ==
    PackTask(Chain[i], IF i = Len(Chain) THEN <<>> ELSE <<Packed[i + 1]>>)

Found[i \in Step] == IF i = 1 THEN Packed[1] ELSE LinksOf(Found[i - 1])[1]

CarriedChain ==
    {Chain,
     [i \in Step |-> ConvertTask(Found[i], IF i = 1 THEN Chain[1].class ELSE "Task")]}

(***************************************************************************)
(* A worker runs the class that the library of the job has under the ids   *)
(* of the task, whatever the class of the object is.                       *)
(***************************************************************************)
Runs(i, class) ==
    \E k \in Step :
        /\ Chain[k].class = class
        /\ <<Chain[k].job_id_, Chain[k].id_>> = <<dag[i].job_id_, dag[i].id_>>

Recorded(p, status) ==
    LET key == KeyOfParcel(p)
        state == [status_ |-> status, timestamp_ |-> 0]
    IN  \E s \in CarriedState(state) :
            records' = [k \in DOMAIN records \cup {key} |->
                            IF k = key THEN s ELSE records[k]]

RelayInit ==
    /\ call = [p \in Request |-> "new"]
    /\ queue = <<>>
    /\ dag \in CarriedChain
    /\ arrived = [i \in Step |-> {}]
    /\ records = <<>>
    /\ written = {}
-----------------------------------------------------------------------------
(***************************************************************************)
(* Publish, in the two calls that take the parcel, and Wait.               *)
(***************************************************************************)
Push(p) ==
    /\ call[p] = "new"
    /\ \E x \in Carried(p) : queue' = Append(queue, x)
    /\ call' = [call EXCEPT ![p] = "pushed"]
    /\ UNCHANGED <<dag, arrived, records, written>>

Record(p) ==
    /\ call[p] = "pushed"
    /\ \E x \in Carried(p) : Recorded(x, Queued)
    /\ call' = [call EXCEPT ![p] = "waiting"]
    /\ UNCHANGED <<queue, dag, arrived, written>>

Wait(p) ==
    /\ call[p] = "waiting"
    /\ \E x \in Carried(p) :
        LET key == KeyOfParcel(x) IN
        /\ key \in DOMAIN records
        /\ \E s \in CarriedState(records[key]) : s.status_ = Done
        /\ records' = [k \in DOMAIN records \ {key} |-> records[k]]
    /\ call' = [call EXCEPT ![p] = "acked"]
    /\ UNCHANGED <<queue, dag, arrived, written>>

(***************************************************************************)
(* The tasks: each works on the copy that reached it and sends a copy of   *)
(* that on.                                                                *)
(***************************************************************************)
Emitted(i, p) ==
    \E x \in Carried(p) :
        arrived' = [arrived EXCEPT ![i] = @ \ {p}, ![i + 1] = @ \cup {x}]

Pop ==
    /\ queue # <<>>
    /\ \E x \in Carried(Head(queue)) : arrived' = [arrived EXCEPT ![1] = @ \cup {x}]
    /\ queue' = Tail(queue)
    /\ UNCHANGED <<call, dag, records, written>>

SourceRun(i, p) ==
    /\ Runs(i, "RheaWriteQueueSourceTask")
    /\ p \in arrived[i]
    /\ \E x \in Carried(p) : Recorded(x, InProgress)
    /\ Emitted(i, p)
    /\ UNCHANGED <<call, queue, dag, written>>

KeyByRun(i, p) ==
    /\ Runs(i, "RheaKeyByTask")
    /\ p \in arrived[i]
    /\ Emitted(i, p)
    /\ UNCHANGED <<call, queue, dag, records, written>>

Target(p) == <<p.storage_index_, p.id_, p.position_, p.data_size_>>

SinkRun(i, p) ==
    /\ Runs(i, "RheaWriteSinkTask")
    /\ p \in arrived[i]
    /\ arrived' = [arrived EXCEPT ![i] = @ \ {p}]
    /\ written' = written \cup {Target(p)}
    /\ \E x \in Carried(p) : Recorded(x, Done)
    /\ UNCHANGED <<call, queue, dag>>

TaskStep ==
    \/ Pop
    \/ \E i \in Step : \E p \in arrived[i] :
        SourceRun(i, p) \/ KeyByRun(i, p) \/ SinkRun(i, p)

RelayNext ==
    \/ \E p \in Request : Push(p) \/ Record(p) \/ Wait(p)
    \/ TaskStep

RelaySpec == RelayInit /\ [][RelayNext]_relayVars /\ WF_relayVars(TaskStep)
-----------------------------------------------------------------------------
(***************************************************************************)
(* A Wait that returns was for the block that was written: the record it   *)
(* saw is not that of another parcel, though the rank, the source and the  *)
(* sink named it by three different copies.                                *)
(***************************************************************************)
AckedIsWritten == \A p \in Request : call[p] = "acked" => Target(p) \in written

(***************************************************************************)
(* What is pushed comes to its sink with all the sink needs: the job still *)
(* leads there when it has been carried to a worker.                       *)
(***************************************************************************)
PushedReachesSink ==
    \A p \in Request : call[p] # "new" ~> Target(p) \in written
=============================================================================
