-------------------------- MODULE MCReadAfterWrite --------------------------
(***************************************************************************)
(* Instances of ReadAfterWrite for TLC: each rank publishes one block and  *)
(* reads it back, through a client of its own for each direction, as       *)
(* single_write does.  Rank 0 also opens a client of the regulator between *)
(* the two, so that it makes its calls under that configuration.           *)
(***************************************************************************)
EXTENDS ReadAfterWrite

CONSTANTS w1, w2, q1, q2, b1, b2, c1, c2, k1

Do(o, j) == [op |-> o, job |-> j]

MCProgramOf == [k \in Process |->
    <<Do("Client", 0)>>
    \o (IF k = 0 THEN <<Do("RegulatorClient", 0)>> ELSE <<>>)
    \o <<Do("Use", 0), Do("Client", 1), Do("Use", 1),
         Do("Finalize", 1), Do("Finalize", 0)>>]

MCReadsBack == [q \in Subscription |-> IF q = q1 THEN w1 ELSE w2]
MCWriteBlockOf == [w \in Publication |-> IF w = w1 THEN b1 ELSE b2]
MCWriteRankOf == [w \in Publication |-> IF w = w1 THEN 0 ELSE 1]
MCReadRankOf == [q \in Subscription |-> IF q = q1 THEN 0 ELSE 1]
MCWriteHomeOf == [w \in Publication |-> IF w = w1 THEN 0 ELSE 1]
MCReadHomeOf == [q \in Subscription |-> IF q = q1 THEN 0 ELSE 1]
MCServes == [c \in WriteCollector |-> IF c = c1 THEN 0 ELSE 1]
MCKeyOf == [b \in Block |-> k1]

ASSUME WellFormedInstance ==
    WellFormedProgram /\ Regulators <= Services /\ W!DistinctBlocks
=============================================================================
