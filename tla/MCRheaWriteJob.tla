--------------------------- MODULE MCRheaWriteJob ---------------------------
(***************************************************************************)
(* Instances of RheaWriteJob for TLC.                                      *)
(***************************************************************************)
EXTENDS RheaWriteJob

CONSTANTS p1, p2, p3, b1, b2, b3, r1, r2, s1, s2, c1, c2, k1, k2

\* every parcel has a block of its own, or all address one block
OwnBlock == [p \in Parcel |-> CASE p = p1 -> b1 [] p = p2 -> b2 [] OTHER -> b3]
OneBlock == [p \in Parcel |-> b1]

\* p1 belongs to one rank, the other parcels to another; or all to one rank
TwoRanks == [p \in Parcel |-> IF p = p1 THEN r1 ELSE r2]
OneRank == [p \in Parcel |-> r1]

\* all parcels go to one server, or p1 to a server of its own
OneHome == [p \in Parcel |-> s1]
TwoHomes == [p \in Parcel |-> IF p = p1 THEN s1 ELSE s2]

\* every source task serves one server, or c1 serves a server of its own
SharedQueue == [c \in Collector |-> s1]
OwnQueue == [c \in Collector |-> IF c = c1 THEN s1 ELSE s2]

\* one sink runs everything, or b1 and b3 share one and b2 has its own
OneSink == [b \in Block |-> k1]
TwoSinks == [b \in Block |-> IF b = b2 THEN k2 ELSE k1]
=============================================================================
