--------------------------- MODULE MCTaskManager ---------------------------
(***************************************************************************)
(* An instance of TaskManager for TLC: an event is put to t1, which may    *)
(* send it on to t2 or to another manager; both tasks are also spawned     *)
(* from outside, each with its own queue as the origin.                    *)
(***************************************************************************)
EXTENDS TaskManager

CONSTANTS t1, t2, e1, d1, w1, w2

MCFirstTask == [e \in Event |-> t1]
MCNextLocations == [t \in Task |-> IF t = t1 THEN {t2, Elsewhere} ELSE {}]
MCOriginOf == [t \in Task |-> t]
=============================================================================
