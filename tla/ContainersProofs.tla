--------------------------- MODULE ContainersProofs ---------------------------
(***************************************************************************)
(* What holds on either side of the wire.  ParcelRelay: however often a    *)
(* parcel is converted on its way, it stays the key of its own record, for *)
(* every set of published parcels and every chain of tasks.  QueueDaemon:  *)
(* what the queue service guarantees for every number of processes,        *)
(* clients, signals and items.                                             *)
(***************************************************************************)
EXTENDS ParcelRelay, QueueDaemon, TLAPS

(***************************************************************************)
(* The copies of the published parcels: all that a task or a map can meet. *)
(***************************************************************************)
SameParcel(x, p) ==
    /\ KeyOfParcel(x) = KeyOfParcel(p)
    /\ Target(x) = Target(p)

Copies == {x \in ParcelRecord : \E p \in Request : SameParcel(x, p)}

CopiesTravel ==
    /\ queue \in Seq(Copies)
    /\ arrived \in [Step -> SUBSET Copies]

RecordsAreStates == records \in [DOMAIN records -> StateRecord]

DoneIsWritten ==
    \A k \in DOMAIN records : records[k].status_ = Done =>
        \A p \in Request : KeyOfParcel(p) = k => Target(p) \in written

Inv ==
    /\ call \in [Request -> {"new", "pushed", "waiting", "acked"}]
    /\ CopiesTravel
    /\ RecordsAreStates
    /\ DoneIsWritten
    /\ AckedIsWritten
-----------------------------------------------------------------------------
(***************************************************************************)
(* A transfer keeps what names a parcel and what its sink writes by, and a *)
(* record arrives as it was sent.                                          *)
(***************************************************************************)
LEMMA TextArrives == ASSUME NEW s PROVE AsText(Text(s)) = s
BY DEF AsText, Text, Object

LEMMA UnsignedArrives == ASSUME NEW n PROVE AsUnsigned(Unsigned(n)) = n
BY DEF AsUnsigned, Unsigned, Object

LEMMA ParcelTravels ==
    ASSUME NEW p \in ParcelRecord, NEW x \in Carried(p)
    PROVE  x \in ParcelRecord /\ SameParcel(x, p)
<1>1. CASE x = p
  BY <1>1 DEF SameParcel
<1>2. CASE x = ConvertParcel(PackParcel(p), Fresh)
  <2>. DEFINE o == PackParcel(p).via
              y == [id_ |-> p.id_, position_ |-> p.position_,
                    data_size_ |-> p.data_size_, storage_index_ |-> p.storage_index_,
                    unique_id |-> p.unique_id, type_ |-> Fresh.type_,
                    buffer_ |-> Fresh.buffer_]
  <2>1. o = <<Text(p.id_), Unsigned(p.position_), Unsigned(p.data_size_),
              Unsigned(p.storage_index_), Unsigned(p.unique_id)>>
    BY DEF PackParcel, Array, Object
  <2>2. /\ AsText(o[1]) = p.id_
        /\ AsUnsigned(o[2]) = p.position_
        /\ AsUnsigned(o[3]) = p.data_size_
        /\ AsUnsigned(o[4]) = p.storage_index_
        /\ AsUnsigned(o[5]) = p.unique_id
    BY <2>1, TextArrives, UnsignedArrives
  <2>3. /\ p.id_ \in Name /\ p.position_ \in Nat /\ p.data_size_ \in Nat
        /\ p.storage_index_ \in Nat /\ p.unique_id \in Nat
    BY DEF ParcelRecord
  <2>4. TypeError \notin
            {p.id_, p.position_, p.data_size_, p.storage_index_, p.unique_id}
    BY <2>3, WireAssumption DEF WireAssumption
  <2>5. x = y
    BY <1>2, <2>2, <2>4 DEF ConvertParcel, Unless
  <2>6. y \in ParcelRecord
    BY <2>3, RequestAssumption DEF RequestAssumption, ParcelRecord
  <2>7. /\ y.id_ = p.id_ /\ y.position_ = p.position_ /\ y.data_size_ = p.data_size_
        /\ y.storage_index_ = p.storage_index_ /\ y.unique_id = p.unique_id
    BY RequestAssumption DEF RequestAssumption, ParcelRecord
  <2>. QED BY <2>5, <2>6, <2>7 DEF SameParcel, KeyOfParcel, Target
<1>. QED BY <1>1, <1>2 DEF Carried

LEMMA CopyTravels ==
    ASSUME NEW p \in Copies, NEW x \in Carried(p)
    PROVE  x \in Copies /\ SameParcel(x, p)
BY ParcelTravels DEF Copies, SameParcel

LEMMA RequestTravels ==
    ASSUME NEW p \in Request, NEW x \in Carried(p)
    PROVE  x \in Copies /\ SameParcel(x, p)
<1>1. p \in ParcelRecord
  BY RequestAssumption DEF RequestAssumption
<1>. QED BY <1>1, ParcelTravels DEF Copies, SameParcel

LEMMA StateTravels ==
    ASSUME NEW s \in StateRecord, NEW x \in CarriedState(s)
    PROVE  x = s
<1>1. CASE x = ConvertState(PackState(s))
  <2>. DEFINE o == PackState(s).via
  <2>1. o = <<Unsigned(s.status_), Unsigned(s.timestamp_)>>
    BY DEF PackState, Array, Object
  <2>2. AsUnsigned(o[1]) = s.status_ /\ AsUnsigned(o[2]) = s.timestamp_
    BY <2>1, UnsignedArrives
  <2>3. TypeError \notin {s.status_, s.timestamp_}
    BY WireAssumption DEF WireAssumption, StateRecord
  <2>4. x = [status_ |-> s.status_, timestamp_ |-> s.timestamp_]
    BY <1>1, <2>2, <2>3 DEF ConvertState, Unless
  <2>. QED BY <2>4 DEF StateRecord
<1>. QED BY <1>1 DEF CarriedState

(***************************************************************************)
(* Two published parcels with one key are one.                             *)
(***************************************************************************)
LEMMA KeyNamesParcel ==
    ASSUME NEW p \in Request, NEW q \in Request, KeyOfParcel(p) = KeyOfParcel(q)
    PROVE  p = q
BY RequestAssumption DEF RequestAssumption, KeyOfParcel
-----------------------------------------------------------------------------
(***************************************************************************)
(* The records.  Only the sink puts DONE, with the copy it has written for *)
(* as the key, so the block of every parcel of that key is written.        *)
(***************************************************************************)
LEMMA RecordKeepsDone ==
    ASSUME NEW x \in Copies, NEW status \in Nat, Recorded(x, status),
           RecordsAreStates, DoneIsWritten, written \subseteq written',
           status = Done => Target(x) \in written'
    PROVE  RecordsAreStates' /\ DoneIsWritten'
<1>. DEFINE key == KeyOfParcel(x)
            state == [status_ |-> status, timestamp_ |-> 0]
<1>1. state \in StateRecord
  BY DEF StateRecord
<1>2. records' = [k \in DOMAIN records \cup {key} |->
                      IF k = key THEN state ELSE records[k]]
  BY <1>1, StateTravels DEF Recorded
<1>3. RecordsAreStates'
  BY <1>1, <1>2 DEF RecordsAreStates
<1>4. SUFFICES ASSUME NEW k \in DOMAIN records', records'[k].status_ = Done,
                      NEW p \in Request, KeyOfParcel(p) = k
               PROVE  Target(p) \in written'
  BY <1>3 DEF DoneIsWritten
<1>5. CASE k = key
  <2>1. PICK q \in Request : SameParcel(x, q)
    BY DEF Copies
  <2>2. p = q
    BY <1>4, <1>5, <2>1, KeyNamesParcel DEF SameParcel
  <2>3. status = Done
    BY <1>2, <1>4, <1>5
  <2>. QED BY <2>1, <2>2, <2>3 DEF SameParcel
<1>6. CASE k # key
  BY <1>2, <1>4, <1>6 DEF DoneIsWritten
<1>. QED BY <1>5, <1>6

(***************************************************************************)
(* A task hands on a copy of a copy.                                       *)
(***************************************************************************)
LEMMA EmittedCopies ==
    ASSUME NEW i \in Step, NEW p \in Copies, Emitted(i, p),
           arrived \in [Step -> SUBSET Copies]
    PROVE  arrived' \in [Step -> SUBSET Copies]
<1>1. PICK x \in Carried(p) :
          arrived' = [arrived EXCEPT ![i] = @ \ {p}, ![i + 1] = @ \cup {x}]
  BY DEF Emitted
<1>2. x \in Copies
  BY CopyTravels
<1>. QED BY <1>1, <1>2

LEMMA RelayInvInit == RelayInit => Inv
<1>. SUFFICES ASSUME RelayInit PROVE Inv
  OBVIOUS
<1>1. call \in [Request -> {"new", "pushed", "waiting", "acked"}] /\ AckedIsWritten
  BY DEF RelayInit, AckedIsWritten
<1>2. CopiesTravel
  BY DEF RelayInit, CopiesTravel
<1>3. RecordsAreStates /\ DoneIsWritten
  BY DEF RelayInit, RecordsAreStates, DoneIsWritten
<1>. QED BY <1>1, <1>2, <1>3 DEF Inv

LEMMA PublishKeepsInv ==
    ASSUME Inv, NEW p \in Request, Push(p) \/ Record(p) PROVE Inv'
<1>1. CASE Push(p)
  <2>1. PICK x \in Carried(p) : queue' = Append(queue, x)
    BY <1>1 DEF Push
  <2>2. CopiesTravel'
    BY <1>1, <2>1, RequestTravels DEF Push, Inv, CopiesTravel
  <2>3. RecordsAreStates' /\ DoneIsWritten'
    BY <1>1 DEF Push, Inv, RecordsAreStates, DoneIsWritten
  <2>4. AckedIsWritten'
    BY <1>1 DEF Push, Inv, AckedIsWritten
  <2>. QED BY <1>1, <2>2, <2>3, <2>4 DEF Push, Inv
<1>2. CASE Record(p)
  <2>1. PICK x \in Carried(p) : Recorded(x, Queued)
    BY <1>2 DEF Record
  <2>2. RecordsAreStates' /\ DoneIsWritten'
    BY <1>2, <2>1, RequestTravels, RecordKeepsDone, RequestAssumption
    DEF Record, Inv, RequestAssumption
  <2>3. CopiesTravel'
    BY <1>2 DEF Record, Inv, CopiesTravel
  <2>4. AckedIsWritten'
    BY <1>2 DEF Record, Inv, AckedIsWritten
  <2>. QED BY <1>2, <2>2, <2>3, <2>4 DEF Record, Inv
<1>. QED BY <1>1, <1>2

(***************************************************************************)
(* The step that acknowledges.  The record it saw is under the key of its  *)
(* own copy, which is the key of the parcel.                               *)
(***************************************************************************)
LEMMA WaitKeepsInv ==
    ASSUME Inv, NEW p \in Request, Wait(p) PROVE Inv'
<1>1. PICK x \in Carried(p) :
          /\ KeyOfParcel(x) \in DOMAIN records
          /\ \E s \in CarriedState(records[KeyOfParcel(x)]) : s.status_ = Done
          /\ records' = [k \in DOMAIN records \ {KeyOfParcel(x)} |-> records[k]]
  BY DEF Wait
<1>2. records[KeyOfParcel(x)].status_ = Done
  BY <1>1, StateTravels DEF Inv, RecordsAreStates
<1>3. KeyOfParcel(x) = KeyOfParcel(p)
  BY RequestTravels DEF SameParcel
<1>4. Target(p) \in written
  BY <1>1, <1>2, <1>3 DEF Inv, DoneIsWritten
<1>5. AckedIsWritten'
  BY <1>4 DEF Wait, Inv, AckedIsWritten
<1>6. RecordsAreStates' /\ DoneIsWritten'
  BY <1>1 DEF Wait, Inv, RecordsAreStates, DoneIsWritten
<1>7. CopiesTravel'
  BY DEF Wait, Inv, CopiesTravel
<1>. QED BY <1>5, <1>6, <1>7 DEF Wait, Inv

LEMMA PopKeepsInv == ASSUME Inv, Pop PROVE Inv'
<1>1. PICK x \in Carried(Head(queue)) :
          arrived' = [arrived EXCEPT ![1] = @ \cup {x}]
  BY DEF Pop
<1>2. Head(queue) \in Copies /\ Tail(queue) \in Seq(Copies)
  BY DEF Pop, Inv, CopiesTravel
<1>3. x \in Copies
  BY <1>2, CopyTravels
<1>4. CopiesTravel'
  BY <1>1, <1>2, <1>3 DEF Pop, Inv, CopiesTravel
<1>5. RecordsAreStates' /\ DoneIsWritten' /\ AckedIsWritten'
  BY DEF Pop, Inv, RecordsAreStates, DoneIsWritten, AckedIsWritten
<1>. QED BY <1>4, <1>5 DEF Pop, Inv

(***************************************************************************)
(* The tasks, whichever classes run.                                       *)
(***************************************************************************)
LEMMA RunKeepsInv ==
    ASSUME Inv, NEW i \in Step, NEW p \in arrived[i],
           SourceRun(i, p) \/ KeyByRun(i, p) \/ SinkRun(i, p)
    PROVE  Inv'
<1>1. p \in Copies
  BY DEF Inv, CopiesTravel
<1>2. CASE SourceRun(i, p)
  <2>1. PICK x \in Carried(p) : Recorded(x, InProgress)
    BY <1>2 DEF SourceRun
  <2>2. RecordsAreStates' /\ DoneIsWritten'
    BY <1>1, <1>2, <2>1, CopyTravels, RecordKeepsDone, RequestAssumption
    DEF SourceRun, Inv, RequestAssumption
  <2>3. CopiesTravel'
    BY <1>1, <1>2, EmittedCopies DEF SourceRun, Inv, CopiesTravel
  <2>. QED BY <1>2, <2>2, <2>3 DEF SourceRun, Inv, AckedIsWritten
<1>3. CASE KeyByRun(i, p)
  <2>1. CopiesTravel'
    BY <1>1, <1>3, EmittedCopies DEF KeyByRun, Inv, CopiesTravel
  <2>2. RecordsAreStates' /\ DoneIsWritten' /\ AckedIsWritten'
    BY <1>3 DEF KeyByRun, Inv, RecordsAreStates, DoneIsWritten, AckedIsWritten
  <2>. QED BY <1>3, <2>1, <2>2 DEF KeyByRun, Inv
<1>4. CASE SinkRun(i, p)
  <2>1. PICK x \in Carried(p) : Recorded(x, Done)
    BY <1>4 DEF SinkRun
  <2>2. x \in Copies /\ Target(x) = Target(p)
    BY <1>1, CopyTravels DEF SameParcel
  <2>3. written' = written \cup {Target(p)}
    BY <1>4 DEF SinkRun
  <2>4. RecordsAreStates' /\ DoneIsWritten'
    BY <2>1, <2>2, <2>3, RecordKeepsDone, RequestAssumption DEF Inv, RequestAssumption
  <2>5. CopiesTravel'
    BY <1>4 DEF SinkRun, Inv, CopiesTravel
  <2>6. AckedIsWritten'
    BY <1>4, <2>3 DEF SinkRun, Inv, AckedIsWritten
  <2>. QED BY <1>4, <2>4, <2>5, <2>6 DEF SinkRun, Inv
<1>. QED BY <1>2, <1>3, <1>4

LEMMA RelayInvNext == Inv /\ [RelayNext]_relayVars => Inv'
<1>. SUFFICES ASSUME Inv, [RelayNext]_relayVars PROVE Inv'
  OBVIOUS
<1>1. CASE RelayNext
  BY <1>1, PublishKeepsInv, WaitKeepsInv, PopKeepsInv, RunKeepsInv
  DEF RelayNext, TaskStep
<1>2. CASE UNCHANGED relayVars
  BY <1>2 DEF relayVars, Inv, CopiesTravel, RecordsAreStates, DoneIsWritten, AckedIsWritten
<1>. QED BY <1>1, <1>2

(***************************************************************************)
(* For any number of parcels and tasks, a Wait returns only when the block *)
(* of its own parcel has been written.                                     *)
(***************************************************************************)
THEOREM AckFollowsWrite == RelaySpec => []AckedIsWritten
<1>1. Inv => AckedIsWritten
  BY DEF Inv
<1>. QED BY <1>1, RelayInvInit, RelayInvNext, PTL DEF RelaySpec
-----------------------------------------------------------------------------
USE DaemonAssumption, WireAssumption DEF DaemonAssumption, WireAssumption
-----------------------------------------------------------------------------
(***************************************************************************)
(* The end of the processes.                                               *)
(***************************************************************************)
Ends == {"exited", "killed", "aborted"}

ProcessesTyped ==
    /\ main \in [Node -> {"start", "starting", "uncaught", "asleep"} \cup Ends]
    /\ worker \in [Node -> {"none", "running", "returned", "joined"}]
    /\ handler \in [Node -> [Thread -> {"none", "caught", "meeting", "joining", "leaving"}]]
    /\ promise \in [Node -> BOOLEAN]
    /\ barriers \in [Node -> Nat]
    /\ ticket \in [Node -> [Thread -> Nat]]
    /\ signals \in [Node -> Nat]

Caught(n, t) == IF handler[n][t] = "caught" THEN 1 ELSE 0

(***************************************************************************)
(* A process has entered one barrier of its own, and one for each SIGTERM  *)
(* that is no longer only caught.                                          *)
(***************************************************************************)
BarriersAreSignals ==
    \A n \in Node :
        barriers[n] + Caught(n, "main") + Caught(n, "worker") <=
            (IF main[n] = "start" THEN 0 ELSE 1) + signals[n]

(***************************************************************************)
(* So the barrier of the handler is the second one at least, and all are   *)
(* at it only when all have been told to end.                              *)
(***************************************************************************)
HandlersAreLater ==
    \A n \in Node :
        /\ main[n] \notin {"start", "killed"} => barriers[n] >= 1
        /\ \A t \in Thread :
            /\ handler[n][t] # "none" => main[n] \in {"asleep", "exited", "aborted"}
            /\ handler[n][t] = "meeting" => ticket[n][t] >= 2
            /\ handler[n][t] \in {"joining", "leaving"} => \A m \in Node : signals[m] > 0
            /\ handler[n][t] = "leaving" => worker[n] = "joined"

ProcessInv == ProcessesTyped /\ BarriersAreSignals /\ HandlersAreLater /\ ExitIsOrderly

LEMMA ProcessInit == DaemonInit => ProcessInv
BY DEF DaemonInit, ProcessInv, ProcessesTyped, BarriersAreSignals, Caught,
       HandlersAreLater, ExitIsOrderly, Thread, Ends

(***************************************************************************)
(* The start, and the worker's return.                                     *)
(***************************************************************************)
LEMMA StartKeeps == ASSUME ProcessInv, NEW n \in Node, Start(n) PROVE ProcessInv'
<1>1. /\ main[n] = "start"
      /\ main' = [main EXCEPT ![n] = "starting"]
      /\ barriers' = [barriers EXCEPT ![n] = @ + 1]
      /\ ticket' = [ticket EXCEPT ![n]["main"] = barriers[n] + 1]
      /\ UNCHANGED <<worker, handler, promise, signals>>
  BY DEF Start, EnterBarrier
<1>2. \A t \in Thread : handler[n][t] = "none"
  BY <1>1 DEF ProcessInv, ProcessesTyped, HandlersAreLater
<1>3. ProcessesTyped'
  BY <1>1 DEF ProcessInv, ProcessesTyped, Thread
<1>4. BarriersAreSignals'
  BY <1>1 DEF ProcessInv, ProcessesTyped, BarriersAreSignals, Caught
<1>5. HandlersAreLater'
  BY <1>1, <1>2 DEF ProcessInv, ProcessesTyped, HandlersAreLater, Thread
<1>6. ExitIsOrderly'
  BY <1>1 DEF ProcessInv, ProcessesTyped, ExitIsOrderly
<1>. QED BY <1>3, <1>4, <1>5, <1>6 DEF ProcessInv

LEMMA RunKeeps == ASSUME ProcessInv, NEW n \in Node, Run(n) PROVE ProcessInv'
<1>1. /\ main[n] = "starting"
      /\ main' = [main EXCEPT ![n] = "uncaught"]
      /\ worker' = [worker EXCEPT ![n] = "running"]
      /\ UNCHANGED <<handler, promise, barriers, ticket, signals>>
  BY DEF Run
<1>2. \A t \in Thread : handler[n][t] = "none"
  BY <1>1 DEF ProcessInv, ProcessesTyped, HandlersAreLater
<1>3. ProcessesTyped' /\ BarriersAreSignals'
  BY <1>1 DEF ProcessInv, ProcessesTyped, BarriersAreSignals, Caught
<1>4. HandlersAreLater'
  BY <1>1, <1>2 DEF ProcessInv, ProcessesTyped, HandlersAreLater
<1>5. ExitIsOrderly'
  BY <1>1 DEF ProcessInv, ProcessesTyped, ExitIsOrderly
<1>. QED BY <1>3, <1>4, <1>5 DEF ProcessInv

LEMMA QuietKeeps ==
    ASSUME ProcessInv, NEW n \in Node, CatchAllSignals(n) \/ RunInternal(n)
    PROVE  ProcessInv'
<1>1. CASE CatchAllSignals(n)
  BY <1>1 DEF CatchAllSignals, ProcessInv, ProcessesTyped, BarriersAreSignals, Caught,
              HandlersAreLater, ExitIsOrderly, Ends
<1>2. CASE RunInternal(n)
  BY <1>2 DEF RunInternal, Gone, ProcessInv, ProcessesTyped, BarriersAreSignals, Caught,
              HandlersAreLater, ExitIsOrderly
<1>. QED BY <1>1, <1>2

(***************************************************************************)
(* A signal: one more is caught, or the process is gone.                   *)
(***************************************************************************)
LEMMA TerminateKeeps ==
    ASSUME ProcessInv, NEW n \in Node, NEW t \in Thread, Terminate(n, t)
    PROVE  ProcessInv'
<1>1. /\ handler[n][t] = "none" /\ main[n] \notin Ends
      /\ signals' = [signals EXCEPT ![n] = @ + 1]
      /\ UNCHANGED <<worker, promise, barriers, ticket>>
  BY DEF Terminate, Gone, Ends
<1>2. \A m \in Node : signals[m] > 0 => signals'[m] > 0
  BY <1>1 DEF ProcessInv, ProcessesTyped
<1>3. CASE main[n] = "asleep"
  <2>1. handler' = [handler EXCEPT ![n][t] = "caught"] /\ UNCHANGED main
    BY <1>3 DEF Terminate
  <2>2. ProcessesTyped'
    BY <1>1, <2>1 DEF ProcessInv, ProcessesTyped, Thread
  <2>3. BarriersAreSignals'
    BY <1>1, <2>1 DEF ProcessInv, ProcessesTyped, BarriersAreSignals, Caught, Thread
  <2>4. HandlersAreLater'
    BY <1>1, <1>2, <1>3, <2>1 DEF ProcessInv, ProcessesTyped, HandlersAreLater, Thread
  <2>5. ExitIsOrderly'
    BY <1>1, <1>2, <2>1 DEF ProcessInv, ProcessesTyped, ExitIsOrderly
  <2>. QED BY <2>2, <2>3, <2>4, <2>5 DEF ProcessInv
<1>4. CASE main[n] # "asleep"
  <2>1. main' = [main EXCEPT ![n] = "killed"] /\ UNCHANGED handler
    BY <1>4 DEF Terminate
  <2>2. \A u \in Thread : handler[n][u] = "none"
    BY <1>1, <1>4 DEF ProcessInv, ProcessesTyped, HandlersAreLater, Ends
  <2>3. ProcessesTyped'
    BY <1>1, <2>1 DEF ProcessInv, ProcessesTyped, Ends
  <2>4. BarriersAreSignals'
    BY <1>1, <2>1 DEF ProcessInv, ProcessesTyped, BarriersAreSignals, Caught
  <2>5. HandlersAreLater'
    BY <1>1, <1>2, <2>1, <2>2 DEF ProcessInv, ProcessesTyped, HandlersAreLater
  <2>6. ExitIsOrderly'
    BY <1>1, <1>2, <2>1 DEF ProcessInv, ProcessesTyped, ExitIsOrderly
  <2>. QED BY <2>3, <2>4, <2>5, <2>6 DEF ProcessInv
<1>. QED BY <1>3, <1>4

(***************************************************************************)
(* The handler.  MeetOthers turns a caught signal into a barrier, and      *)
(* SignalWorker is where the meeting shows that all were signalled.        *)
(***************************************************************************)
LEMMA MeetKeeps ==
    ASSUME ProcessInv, NEW n \in Node, NEW t \in Thread, MeetOthers(n, t)
    PROVE  ProcessInv'
<1>1. /\ handler[n][t] = "caught"
      /\ handler' = [handler EXCEPT ![n][t] = "meeting"]
      /\ barriers' = [barriers EXCEPT ![n] = @ + 1]
      /\ ticket' = [ticket EXCEPT ![n][t] = barriers[n] + 1]
      /\ UNCHANGED <<main, worker, promise, signals>>
  BY DEF MeetOthers, Handles, EnterBarrier
<1>2. barriers[n] >= 1
  BY <1>1 DEF ProcessInv, HandlersAreLater
<1>3. ProcessesTyped'
  BY <1>1 DEF ProcessInv, ProcessesTyped, Thread
<1>4. BarriersAreSignals'
  BY <1>1 DEF ProcessInv, ProcessesTyped, BarriersAreSignals, Caught, Thread
<1>5. HandlersAreLater'
  <2>1. ASSUME NEW m \in Node, main'[m] \notin {"start", "killed"} PROVE barriers'[m] >= 1
    BY <1>1, <2>1 DEF ProcessInv, ProcessesTyped, HandlersAreLater
  <2>2. ASSUME NEW m \in Node, NEW u \in Thread
        PROVE  /\ handler'[m][u] # "none" => main'[m] \in {"asleep", "exited", "aborted"}
               /\ handler'[m][u] \in {"joining", "leaving"} =>
                      \A k \in Node : signals'[k] > 0
               /\ handler'[m][u] = "leaving" => worker'[m] = "joined"
    BY <1>1 DEF ProcessInv, ProcessesTyped, HandlersAreLater, Thread
  <2>3. ASSUME NEW m \in Node, NEW u \in Thread, handler'[m][u] = "meeting"
        PROVE  ticket'[m][u] >= 2
    <3>1. CASE m = n /\ u = t
      BY <1>1, <1>2, <3>1 DEF ProcessInv, ProcessesTyped
    <3>2. CASE ~(m = n /\ u = t)
      BY <1>1, <2>3, <3>2 DEF ProcessInv, ProcessesTyped, HandlersAreLater
    <3>. QED BY <3>1, <3>2
  <2>. QED BY <2>1, <2>2, <2>3 DEF HandlersAreLater
<1>6. ExitIsOrderly'
  BY <1>1 DEF ProcessInv, ExitIsOrderly
<1>. QED BY <1>3, <1>4, <1>5, <1>6 DEF ProcessInv

LEMMA SignalKeeps ==
    ASSUME ProcessInv, NEW n \in Node, NEW t \in Thread, SignalWorker(n, t)
    PROVE  ProcessInv'
<1>1. /\ handler[n][t] = "meeting"
      /\ handler' = [handler EXCEPT ![n][t] = "joining"]
      /\ promise' = [promise EXCEPT ![n] = TRUE]
      /\ UNCHANGED <<main, worker, barriers, ticket, signals>>
  BY DEF SignalWorker, Handles
<1>2. \A m \in Node : signals[m] > 0
  <2>1. SUFFICES ASSUME NEW m \in Node PROVE signals[m] > 0
    OBVIOUS
  <2>2. barriers[m] >= ticket[n][t]
    BY DEF SignalWorker, Met
  <2>3. ticket[n][t] >= 2
    BY <1>1 DEF ProcessInv, HandlersAreLater
  <2>4. barriers[m] >= 2
    BY <2>2, <2>3 DEF ProcessInv, ProcessesTyped
  <2>5. barriers[m] <= 1 + signals[m]
    BY DEF ProcessInv, ProcessesTyped, BarriersAreSignals, Caught
  <2>. QED BY <2>4, <2>5 DEF ProcessInv, ProcessesTyped
<1>3. ProcessesTyped'
  BY <1>1 DEF ProcessInv, ProcessesTyped, Thread
<1>4. BarriersAreSignals'
  BY <1>1 DEF ProcessInv, ProcessesTyped, BarriersAreSignals, Caught, Thread
<1>5. HandlersAreLater'
  BY <1>1, <1>2 DEF ProcessInv, ProcessesTyped, HandlersAreLater, Thread
<1>6. ExitIsOrderly'
  BY <1>1 DEF ProcessInv, ExitIsOrderly
<1>. QED BY <1>3, <1>4, <1>5, <1>6 DEF ProcessInv

LEMMA LeaveKeeps ==
    ASSUME ProcessInv, NEW n \in Node, NEW t \in Thread,
           JoinWorker(n, t) \/ Exit(n, t) \/ Abort(n, t)
    PROVE  ProcessInv'
<1>1. CASE JoinWorker(n, t)
  <2>1. /\ handler[n][t] = "joining"
        /\ handler' = [handler EXCEPT ![n][t] = "leaving"]
        /\ worker' = [worker EXCEPT ![n] = "joined"]
        /\ UNCHANGED <<main, promise, barriers, ticket, signals>>
    BY <1>1 DEF JoinWorker, Handles
  <2>2. ProcessesTyped'
    BY <2>1 DEF ProcessInv, ProcessesTyped, Thread
  <2>3. BarriersAreSignals'
    BY <2>1 DEF ProcessInv, ProcessesTyped, BarriersAreSignals, Caught, Thread
  <2>4. HandlersAreLater'
    BY <2>1 DEF ProcessInv, ProcessesTyped, HandlersAreLater, Thread
  <2>5. ExitIsOrderly'
    BY <2>1 DEF ProcessInv, ProcessesTyped, ExitIsOrderly
  <2>. QED BY <2>2, <2>3, <2>4, <2>5 DEF ProcessInv
<1>2. CASE Exit(n, t)
  <2>1. /\ handler[n][t] = "leaving"
        /\ handler' = [handler EXCEPT ![n][t] = "none"]
        /\ main' = [main EXCEPT ![n] = "exited"]
        /\ UNCHANGED <<worker, promise, barriers, ticket, signals>>
    BY <1>2 DEF Exit, Handles
  <2>2. worker[n] = "joined" /\ \A m \in Node : signals[m] > 0
    BY <2>1 DEF ProcessInv, HandlersAreLater
  <2>3. ProcessesTyped'
    BY <2>1 DEF ProcessInv, ProcessesTyped, Thread, Ends
  <2>4. BarriersAreSignals'
    BY <2>1 DEF ProcessInv, ProcessesTyped, BarriersAreSignals, Caught, Thread, HandlersAreLater
  <2>5. HandlersAreLater'
    BY <2>1 DEF ProcessInv, ProcessesTyped, HandlersAreLater, Thread
  <2>6. ExitIsOrderly'
    BY <2>1, <2>2 DEF ProcessInv, ProcessesTyped, ExitIsOrderly
  <2>. QED BY <2>3, <2>4, <2>5, <2>6 DEF ProcessInv
<1>3. CASE Abort(n, t)
  <2>1. /\ handler[n][t] # "none"
        /\ main' = [main EXCEPT ![n] = "aborted"]
        /\ UNCHANGED <<worker, handler, promise, barriers, ticket, signals>>
    BY <1>3 DEF Abort
  <2>2. main[n] # "start"
    BY <2>1 DEF ProcessInv, HandlersAreLater
  <2>3. ProcessesTyped'
    BY <2>1 DEF ProcessInv, ProcessesTyped, Ends
  <2>4. BarriersAreSignals'
    BY <2>1, <2>2 DEF ProcessInv, ProcessesTyped, BarriersAreSignals, Caught
  <2>5. HandlersAreLater'
    BY <2>1 DEF ProcessInv, ProcessesTyped, HandlersAreLater
  <2>6. ExitIsOrderly'
    BY <2>1 DEF ProcessInv, ProcessesTyped, ExitIsOrderly
  <2>. QED BY <2>3, <2>4, <2>5, <2>6 DEF ProcessInv
<1>. QED BY <1>1, <1>2, <1>3

LEMMA ProcessNext == ProcessInv /\ [DaemonNext]_daemonVars => ProcessInv'
<1>. SUFFICES ASSUME ProcessInv, [DaemonNext]_daemonVars PROVE ProcessInv'
  OBVIOUS
<1>1. CASE UNCHANGED processVars
  BY <1>1 DEF processVars, ProcessInv, ProcessesTyped, BarriersAreSignals, Caught,
              HandlersAreLater, ExitIsOrderly
<1>2. ASSUME NEW n \in Node, ThreadStep(n) PROVE ProcessInv'
  BY <1>2, StartKeeps, RunKeeps, QuietKeeps, MeetKeeps, SignalKeeps, LeaveKeeps
  DEF ThreadStep, Finalize
<1>. QED BY <1>1, <1>2, TerminateKeeps DEF DaemonNext, PutTask, GetTask, daemonVars

(***************************************************************************)
(* However many processes there are, one exits only when all have been     *)
(* told to, and only with its worker joined.                               *)
(***************************************************************************)
THEOREM NobodyExitsAlone == DaemonSpec => []ExitIsOrderly
<1>1. ProcessInv => ExitIsOrderly
  BY DEF ProcessInv
<1>. QED BY <1>1, ProcessInit, ProcessNext, PTL DEF DaemonSpec
-----------------------------------------------------------------------------
(***************************************************************************)
(* The queue.  What is in it, like what comes out, is what was put, but    *)
(* for the keyby of an Event.                                              *)
(***************************************************************************)
Records == IF kind = "Event" THEN Seq(EventRecord) ELSE TaskEventRecord

IsAsPut(y, x) == IF kind = "Event" THEN SameEvents(y, x) ELSE y = x

Elements == {y \in Records : \E x \in put : IsAsPut(y, x)}

QueueInv ==
    /\ kind \in {"TaskEvent", "Event"}
    /\ put \subseteq Records
    /\ queues \in [Node -> Seq(Elements)]
    /\ taken \subseteq Elements

(***************************************************************************)
(* A TaskEvent is never converted: a number stands where a string is read. *)
(***************************************************************************)
LEMMA TaskEventIsRefused ==
    ASSUME NEW x PROVE ConvertTaskEvent(PackTaskEvent(x)) = TypeError
<1>. DEFINE o == PackTaskEvent(x).via
<1>1. o[1] = Unsigned(x.task_node)
  BY DEF PackTaskEvent, Array, Object
<1>2. AsText(o[1]) = TypeError
  BY <1>1 DEF AsText, Unsigned, Object
<1>. QED BY <1>2 DEF ConvertTaskEvent, Unless

(***************************************************************************)
(* An Event arrives with the keyby of nobody.                              *)
(***************************************************************************)
LEMMA EventArrives ==
    ASSUME NEW x \in EventRecord
    PROVE  ConvertEvent(PackEvent(x)) =
               [event_id |-> x.event_id, file |-> x.file, offset |-> x.offset,
                data |-> x.data, keyby |-> Indeterminate]
<1>. DEFINE o == PackEvent(x).via
<1>1. o = <<Unsigned(x.event_id), Text(x.file), Unsigned(x.offset), Text(x.data)>>
  BY DEF PackEvent, Array, Object
<1>2. /\ AsUnsigned(o[1]) = x.event_id /\ AsText(o[2]) = x.file
      /\ AsUnsigned(o[3]) = x.offset /\ AsText(o[4]) = x.data
  BY <1>1 DEF AsUnsigned, AsText, Unsigned, Text, Object
<1>3. TypeError \notin {x.event_id, x.file, x.offset, x.data}
  BY DEF EventRecord
<1>. QED BY <1>2, <1>3 DEF ConvertEvent, Unless

LEMMA EventIsAsPut ==
    ASSUME NEW y \in EventRecord, NEW x \in EventRecord,
           [y EXCEPT !.keyby = x.keyby] = x
    PROVE  /\ ConvertEvent(PackEvent(y)) \in EventRecord
           /\ [ConvertEvent(PackEvent(y)) EXCEPT !.keyby = x.keyby] = x
<1>. DEFINE z == [event_id |-> y.event_id, file |-> y.file, offset |-> y.offset,
                  data |-> y.data, keyby |-> Indeterminate]
<1>1. ConvertEvent(PackEvent(y)) = z
  BY EventArrives
<1>2. z \in EventRecord
  BY DEF EventRecord
<1>3. [z EXCEPT !.keyby = x.keyby] = [y EXCEPT !.keyby = x.keyby]
  BY DEF EventRecord
<1>. QED BY <1>1, <1>2, <1>3

(***************************************************************************)
(* A vector that is not refused arrives in its order, with its length.     *)
(***************************************************************************)
LEMMA EventsArrive ==
    ASSUME NEW y \in Seq(EventRecord), NEW x \in Seq(EventRecord), SameEvents(y, x),
           ConvertEvents(PackEvents(y)) # TypeError
    PROVE  /\ ConvertEvents(PackEvents(y)) \in Seq(EventRecord)
           /\ SameEvents(ConvertEvents(PackEvents(y)), x)
<1>. DEFINE z == [i \in DOMAIN y |-> ConvertEvent(PackEvent(y[i]))]
<1>1. PackEvents(y).via = [i \in DOMAIN y |-> PackEvent(y[i])]
  BY DEF PackEvents, Array, Object
<1>2. ConvertEvents(PackEvents(y)) = z
  BY <1>1 DEF ConvertEvents, Unless
<1>3. ASSUME NEW i \in 1 .. Len(y)
      PROVE  z[i] \in EventRecord /\ [z[i] EXCEPT !.keyby = x[i].keyby] = x[i]
  <2>1. y[i] \in EventRecord /\ i \in DOMAIN y
    OBVIOUS
  <2>2. i \in DOMAIN x /\ x[i] \in EventRecord
    BY DEF SameEvents
  <2>3. [y[i] EXCEPT !.keyby = x[i].keyby] = x[i]
    BY <2>2 DEF SameEvents
  <2>4. z[i] = ConvertEvent(PackEvent(y[i]))
    BY <2>1
  <2>. QED BY <2>1, <2>2, <2>3, <2>4, EventIsAsPut
<1>. HIDE DEF z
<1>4. DOMAIN z = 1 .. Len(y) /\ DOMAIN x = 1 .. Len(y) /\ Len(x) = Len(y)
  BY DEF z, SameEvents
<1>5. z \in Seq(EventRecord) /\ Len(z) = Len(y)
  <2>1. z = [i \in 1 .. Len(y) |-> z[i]]
    BY <1>4 DEF z
  <2>2. z \in [1 .. Len(y) -> EventRecord]
    BY <1>3, <2>1
  <2>3. Len(y) \in Nat
    OBVIOUS
  <2>. QED BY <2>2, <2>3
<1>6. SameEvents(z, x)
  BY <1>3, <1>4, <1>5 DEF SameEvents
<1>. QED BY <1>2, <1>5, <1>6

LEMMA ReceivedIsAsPut ==
    ASSUME kind \in {"TaskEvent", "Event"}, NEW c, NEW n, NEW x \in Records,
           NEW y \in Records, IsAsPut(y, x), Received(c, n, y) # TypeError
    PROVE  Received(c, n, y) \in Records /\ IsAsPut(Received(c, n, y), x)
<1>1. CASE NodeOf[c] = n
  BY <1>1 DEF Received
<1>2. CASE NodeOf[c] # n /\ kind = "Event"
  BY <1>2, EventsArrive DEF Received, Records, IsAsPut
<1>3. CASE NodeOf[c] # n /\ kind # "Event"
  BY <1>3, TaskEventIsRefused DEF Received
<1>. QED BY <1>1, <1>2, <1>3

LEMMA ItemIsAsPut ==
    ASSUME kind \in {"TaskEvent", "Event"}, NEW x \in Item[kind]
    PROVE  x \in Records /\ IsAsPut(x, x)
<1>1. CASE kind = "Event"
  <2>1. x \in Seq(EventRecord)
    BY <1>1, ItemAssumption DEF ItemAssumption
  <2>2. \A i \in DOMAIN x : x[i] \in EventRecord
    BY <2>1
  <2>3. \A e \in EventRecord : [e EXCEPT !.keyby = e.keyby] = e
    BY DEF EventRecord
  <2>. QED BY <1>1, <2>1, <2>2, <2>3 DEF Records, IsAsPut, SameEvents
<1>2. CASE kind = "TaskEvent"
  BY <1>2, ItemAssumption DEF ItemAssumption, Records, IsAsPut
<1>. QED BY <1>1, <1>2

LEMMA QueueInit == DaemonInit => QueueInv
BY DEF DaemonInit, QueueInv

LEMMA PutKeeps ==
    ASSUME QueueInv, NEW c \in Client, NEW n \in Node, NEW x \in Item[kind],
           PutTask(c, n, x)
    PROVE  QueueInv'
<1>. DEFINE y == Received(c, n, x)
<1>1. /\ y # TypeError
      /\ put' = put \cup {x}
      /\ queues' = [queues EXCEPT ![n] = Append(@, y)]
      /\ UNCHANGED <<kind, taken>>
  BY DEF PutTask
<1>2. y \in Records /\ IsAsPut(y, x) /\ x \in Records
  BY <1>1, ItemIsAsPut, ReceivedIsAsPut DEF QueueInv
<1>3. Elements \subseteq Elements' /\ y \in Elements'
  BY <1>1, <1>2 DEF Elements, Records, IsAsPut
<1>4. \A m \in Node : queues[m] \in Seq(Elements')
  BY <1>3 DEF QueueInv
<1>5. queues' \in [Node -> Seq(Elements')]
  BY <1>1, <1>3, <1>4 DEF QueueInv
<1>6. put' \subseteq Records' /\ taken' \subseteq Elements'
  BY <1>1, <1>2, <1>3 DEF QueueInv, Records
<1>. QED BY <1>1, <1>5, <1>6 DEF QueueInv

LEMMA GetKeeps ==
    ASSUME QueueInv, NEW c \in Client, NEW n \in Node, GetTask(c, n)
    PROVE  QueueInv'
<1>. DEFINE y == Head(queues[n])
<1>1. /\ queues[n] # <<>>
      /\ queues' = [queues EXCEPT ![n] = Tail(@)]
      /\ taken' = taken \cup ({Received(c, n, y)} \ {TypeError})
      /\ UNCHANGED <<kind, put>>
  BY DEF GetTask
<1>2. y \in Elements /\ Tail(queues[n]) \in Seq(Elements)
  BY <1>1 DEF QueueInv
<1>3. Received(c, n, y) # TypeError => Received(c, n, y) \in Elements
  BY <1>2, ReceivedIsAsPut DEF QueueInv, Elements
<1>4. Elements' = Elements /\ Records' = Records
  BY <1>1 DEF Elements, Records, IsAsPut
<1>. QED BY <1>1, <1>2, <1>3, <1>4 DEF QueueInv

LEMMA QueueNext == QueueInv /\ [DaemonNext]_daemonVars => QueueInv'
<1>. SUFFICES ASSUME QueueInv, [DaemonNext]_daemonVars PROVE QueueInv'
  OBVIOUS
<1>1. CASE UNCHANGED queueVars
  BY <1>1 DEF queueVars, QueueInv, Elements, Records, IsAsPut
<1>2. ASSUME NEW n \in Node,
             ThreadStep(n) \/ \E t \in Thread : Terminate(n, t)
      PROVE  UNCHANGED queueVars
  BY <1>2 DEF ThreadStep, Start, Run, CatchAllSignals, RunInternal, Finalize, MeetOthers,
              SignalWorker, JoinWorker, Exit, Abort, Terminate
<1>. QED BY <1>1, <1>2, PutKeeps, GetKeeps DEF DaemonNext, daemonVars

(***************************************************************************)
(* However many hands an element of the queue goes through, what comes out *)
(* was put.                                                                *)
(***************************************************************************)
THEOREM NothingIsGarbled == DaemonSpec => []TakenWasPut
<1>1. QueueInv => TakenWasPut
  BY DEF QueueInv, Elements, IsAsPut, TakenWasPut
<1>. QED BY <1>1, QueueInit, QueueNext, PTL DEF DaemonSpec
=============================================================================
