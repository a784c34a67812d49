--------------------------- MODULE MCRheaReadJob ---------------------------
(***************************************************************************)
(* Instances of RheaReadJob for TLC.                                       *)
(***************************************************************************)
EXTENDS RheaReadJob

CONSTANTS p1, p2, b1, r1, r2, s1, c1, c2, k1, k2, v1, v2

\* both parcels read one block, for two ranks
MCBlockOf == [p \in Parcel |-> b1]
MCRankOf == [p \in Parcel |-> IF p = p1 THEN r1 ELSE r2]
MCHomeOf == [p \in Parcel |-> s1]
MCServes == [c \in Collector |-> s1]
=============================================================================
