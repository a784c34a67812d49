--------------------------- MODULE MCIOFWriteJob ---------------------------
(***************************************************************************)
(* An instance of IOFWriteJob for TLC: two ranks on one node publish p1    *)
(* and p2 for one block, a rank on another node publishes p3, and each     *)
(* node's server has one source task.                                      *)
(***************************************************************************)
EXTENDS PushOrder

CONSTANTS p1, p2, p3, b1, b2, r1, r2, r3, s1, s2, c1, c2

MCBlockOf == [p \in Parcel |-> IF p = p3 THEN b2 ELSE b1]
MCRankOf == [p \in Parcel |-> CASE p = p1 -> r1 [] p = p2 -> r2 [] OTHER -> r3]
MCHomeOf == [p \in Parcel |-> IF p = p3 THEN s2 ELSE s1]
MCServes == [c \in Collector |-> IF c = c1 THEN s1 ELSE s2]

ASSUME OrderedDeployment == OneTaskPerQueue /\ OneQueuePerBlock
=============================================================================
