-------------------------------- MODULE Wire --------------------------------
(***************************************************************************)
(* What the msgpack adaptors of Rhea write to the wire and read from it.   *)
(* A call of a basket container on another server packs its arguments      *)
(* there and its result back; a call on the server of the own node copies. *)
(* An adaptor packs an object as the array of its fields and converts the  *)
(* array field by field into an object the library has constructed.  The   *)
(* widths of the fields are those the adaptors convert to, so no field is  *)
(* cut; what can go wrong is which field is where, and of which type.      *)
(***************************************************************************)
EXTENDS Naturals, Sequences

CONSTANTS
    Name,           \* the strings
    TypeError,      \* the exception clmdep_msgpack::type_error
    Indeterminate   \* a member no constructor initializes

ASSUME WireAssumption == TypeError \notin Name \cup Nat

ParcelRecord ==
    [id_ : Name, position_ : Nat, data_size_ : Nat, storage_index_ : Nat,
     unique_id : Nat, type_ : Nat, buffer_ : Name]

StateRecord == [status_ : Nat, timestamp_ : Nat]

EventRecord ==
    [event_id : Nat, file : Name, offset : Nat, data : Name,
     keyby : Nat \cup {Indeterminate}]

TaskEventRecord ==
    [task_node : Nat, task_origin : Nat, task_destination : Nat, source : Name]

Object(t, v) == [type |-> t, via |-> v]
Unsigned(n) == Object("POSITIVE_INTEGER", n)
Text(s) == Object("STR", s)
Array(seq) == Object("ARRAY", seq)

(***************************************************************************)
(* The adaptor of bip::string, of which CharStruct is a form: text and     *)
(* binary data convert to a string, and nothing else does.                 *)
(***************************************************************************)
AsText(o) == IF o.type \in {"STR", "BIN"} THEN o.via ELSE TypeError
AsUnsigned(o) == IF o.type = "POSITIVE_INTEGER" THEN o.via ELSE TypeError

\* a refused field refuses the object
Unless(fields, result) == IF TypeError \in fields THEN TypeError ELSE result
-----------------------------------------------------------------------------
(***************************************************************************)
(* Parcel.  type_ and buffer_ stay behind: the receiver's are those of a   *)
(* Parcel just constructed, called fresh here.                             *)
(***************************************************************************)
PackParcel(p) ==
    Array(<<Text(p.id_), Unsigned(p.position_), Unsigned(p.data_size_),
            Unsigned(p.storage_index_), Unsigned(p.unique_id)>>)

ConvertParcel(o, fresh) ==
    LET id == AsText(o.via[1])
        at == AsUnsigned(o.via[2])
        size == AsUnsigned(o.via[3])
        storage == AsUnsigned(o.via[4])
        unique == AsUnsigned(o.via[5])
    IN  Unless({id, at, size, storage, unique},
               [id_ |-> id, position_ |-> at, data_size_ |-> size,
                storage_index_ |-> storage, unique_id |-> unique,
                type_ |-> fresh.type_, buffer_ |-> fresh.buffer_])

(***************************************************************************)
(* What operator== compares and hash<Parcel> is computed from: the key of  *)
(* a parcel in DATA_WAREHOUSE and PARSEL_STATE.                            *)
(***************************************************************************)

\* mutant: the file alone
KeyOfFile(p) == <<p.id_>>

KeyOfParcel(p) == <<p.id_, p.unique_id>>

(***************************************************************************)
(* ParcelState.                                                            *)
(***************************************************************************)
PackState(s) == Array(<<Unsigned(s.status_), Unsigned(s.timestamp_)>>)

ConvertState(o) ==
    LET status == AsUnsigned(o.via[1])
        timestamp == AsUnsigned(o.via[2])
    IN  Unless({status, timestamp}, [status_ |-> status, timestamp_ |-> timestamp])
-----------------------------------------------------------------------------
(***************************************************************************)
(* A task of a job and the tasks linked behind it, written as a sequence:  *)
(* every task of the jobs of librhea_job has at most one link.  The four   *)
(* adaptors of task classes are alike, and a link is always converted by   *)
(* that of Task<Parcel>.  Only job_id_, id_ and type_ travel.              *)
(***************************************************************************)
PackTask(t, links) ==
    Array(<<Unsigned(t.job_id_), Unsigned(t.id_), Unsigned(t.type_), Array(links)>>)

\* mutant: job_id_ and id_ change places
ConvertTaskSwapped(o, class) ==
    [class |-> class, job_id_ |-> AsUnsigned(o.via[2]), id_ |-> AsUnsigned(o.via[1]),
     type_ |-> AsUnsigned(o.via[3])]

ConvertTask(o, class) ==
    [class |-> class, job_id_ |-> AsUnsigned(o.via[1]), id_ |-> AsUnsigned(o.via[2]),
     type_ |-> AsUnsigned(o.via[3])]

LinksOf(o) == o.via[4].via
-----------------------------------------------------------------------------
(***************************************************************************)
(* The legacy Event and TaskEvent.  keyby of an Event does not travel, and *)
(* nothing initializes the receiver's.  A TaskEvent is packed in one order *)
(* and converted in another.                                               *)
(***************************************************************************)
PackEvent(e) ==
    Array(<<Unsigned(e.event_id), Text(e.file), Unsigned(e.offset), Text(e.data)>>)

ConvertEvent(o) ==
    LET id == AsUnsigned(o.via[1])
        file == AsText(o.via[2])
        offset == AsUnsigned(o.via[3])
        data == AsText(o.via[4])
    IN  Unless({id, file, offset, data},
               [event_id |-> id, file |-> file, offset |-> offset, data |-> data,
                keyby |-> Indeterminate])

(***************************************************************************)
(* An element of the queue of Events is a vector of them: msgpack's array, *)
(* element by element, refused when one of them is.                        *)
(***************************************************************************)
PackEvents(events) == Array([i \in DOMAIN events |-> PackEvent(events[i])])

ConvertEvents(o) ==
    LET events == [i \in DOMAIN o.via |-> ConvertEvent(o.via[i])]
    IN  Unless({events[i] : i \in DOMAIN o.via}, events)

PackTaskEvent(t) ==
    Array(<<Unsigned(t.task_node), Unsigned(t.task_destination),
            Unsigned(t.task_origin), Text(t.source)>>)

\* mutant: source is read where it is written, and nothing else is
ConvertTaskEventHalfway(o) ==
    LET source == AsText(o.via[4])
        node == AsUnsigned(o.via[2])
        destination == AsUnsigned(o.via[3])
        origin == AsUnsigned(o.via[1])
    IN  Unless({source, node, destination, origin},
               [task_node |-> node, task_origin |-> origin,
                task_destination |-> destination, source |-> source])

ConvertTaskEvent(o) ==
    LET source == AsText(o.via[1])
        node == AsUnsigned(o.via[2])
        destination == AsUnsigned(o.via[3])
        origin == AsUnsigned(o.via[4])
    IN  Unless({source, node, destination, origin},
               [task_node |-> node, task_origin |-> origin,
                task_destination |-> destination, source |-> source])
=============================================================================
