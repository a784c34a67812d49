---------------------------- MODULE DurableWrite ----------------------------
(***************************************************************************)
(* What a write job promises to the applications that publish through it:  *)
(* a parcel that was accepted is written once, whole, to the block it      *)
(* addresses, and a rank learns that its parcel is done only after that.   *)
(* Nothing else ever reaches the storage.  The abstract specification says *)
(* nothing of queues, tasks or temporary files.                            *)
(***************************************************************************)
EXTENDS Naturals

CONSTANTS Parcel, Block, BlockOf, Nothing

VARIABLES
    accepted,   \* parcels the job has taken responsibility for
    written,    \* parcels that have reached the storage
    acked,      \* parcels whose owner was told they are done
    disk        \* what each block holds

vars == <<accepted, written, acked, disk>>

Init ==
    /\ accepted = {}
    /\ written = {}
    /\ acked = {}
    /\ disk = [b \in Block |-> Nothing]

Accept(p) ==
    /\ p \notin accepted
    /\ accepted' = accepted \cup {p}
    /\ UNCHANGED <<written, acked, disk>>

Write(p) ==
    /\ p \in accepted \ written
    /\ disk' = [disk EXCEPT ![BlockOf[p]] = p]
    /\ written' = written \cup {p}
    /\ UNCHANGED <<accepted, acked>>

Ack(p) ==
    /\ p \in written \ acked
    /\ acked' = acked \cup {p}
    /\ UNCHANGED <<accepted, written, disk>>

Next == \E p \in Parcel : Accept(p) \/ Write(p) \/ Ack(p)

Spec == Init /\ [][Next]_vars
=============================================================================
