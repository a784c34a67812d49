---------------------------- MODULE ParcelStore ----------------------------
(***************************************************************************)
(* The state every part of Rhea shares: the basket containers that the     *)
(* RheaClient service hosts and every rhea::Client opens by name, and the  *)
(* blocks of the target storage.  A parcel is a request for one block (the *)
(* pair of its id_ and position_); parcels are told apart by unique_id, so *)
(* a parcel is its own key in both maps.                                   *)
(***************************************************************************)
EXTENDS Naturals, Sequences, Functions

CONSTANTS
    Parcel,     \* the parcels an application publishes or subscribes
    Block,      \* the (id_, position_) pairs the parcels address
    BlockOf,    \* BlockOf[p]: the block parcel p addresses
    Server,     \* the RheaClient services, each with one part of each queue
    HomeOf,     \* HomeOf[p]: MY_SERVER of the rank that owns p
    Rank,       \* the application ranks
    RankOf,     \* RankOf[p]: the rank that owns p; it makes one call at a time
    Payload,    \* the payloads published parcels carry
    Nothing,    \* an absent map entry, an absent file, an empty hand
    Blank       \* bytes nobody published: a buffer resized and never filled

(***************************************************************************)
(* TaskStatus: the values the code stores in PARSEL_STATE.                 *)
(***************************************************************************)
TaskStatus == {"QUEUED", "IN_PROGRESS", "DONE"}

ASSUME StoreAssumption ==
    /\ BlockOf \in [Parcel -> Block]
    /\ HomeOf \in [Parcel -> Server]
    /\ RankOf \in [Parcel -> Rank]
    /\ Nothing \notin Parcel \cup Payload \cup TaskStatus
    /\ Blank \notin Parcel \cup Payload
    /\ Blank # Nothing

(***************************************************************************)
(* What a buffer, a file or a map entry may hold.                          *)
(***************************************************************************)
Held == Payload \cup {Blank, Nothing}

VARIABLES
    warehouse,      \* DATA_WAREHOUSE: parcel to payload
    parselState,    \* PARSEL_STATE: parcel to status
    storage         \* the blocks of the target files

storeVars == <<warehouse, parselState, storage>>

StoreTypeOK ==
    /\ warehouse \in [Parcel -> Held]
    /\ parselState \in [Parcel -> TaskStatus \cup {Nothing}]
    /\ storage \in [Block -> Held]

StoreInit ==
    /\ warehouse = [p \in Parcel |-> Nothing]
    /\ parselState = [p \in Parcel |-> Nothing]
    /\ storage = [b \in Block |-> Nothing]

(***************************************************************************)
(* basket::unordered_map::Put and Erase; Erase of an absent key leaves the *)
(* map alone.                                                              *)
(***************************************************************************)
Put(map, key, value) == [map EXCEPT ![key] = value]
Erase(map, key) == [map EXCEPT ![key] = Nothing]

(***************************************************************************)
(* What a reader finds in a buffer it sized for a block and filled from a  *)
(* map entry or a file: the content, or Blank when there is none (the code *)
(* never looks at the found flag or at the number of bytes read).          *)
(***************************************************************************)
Fetched(held) == IF held = Nothing THEN Blank ELSE held

DistinctBlocks == \A p, q \in Parcel : BlockOf[p] = BlockOf[q] => p = q
=============================================================================
