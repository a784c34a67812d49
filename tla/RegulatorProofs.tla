--------------------------- MODULE RegulatorProofs ---------------------------
(***************************************************************************)
(* What the regulator guarantees for every number of jobs and RPC threads, *)
(* every configuration and every set of rates.                             *)
(***************************************************************************)
EXTENDS Regulator, TLAPS

USE RegulatorAssumption, RegulatorConfiguration
DEF RegulatorAssumption, RegulatorConfiguration

Reported == Rate \cup {0}

(***************************************************************************)
(* The part of TypeOK the proofs need, and more of it: the daemon only     *)
(* lists jobs that have an in rate, and no entry is ever removed, so the   *)
(* rates it decides on were reported.                                      *)
(***************************************************************************)
RatesAreTyped ==
    /\ inRate \in [Job -> Rates]
    /\ outRate \in [Job -> Rates]
    /\ resetting \in [Handler -> Job \cup {Nobody}]
    /\ late \in [Job -> Nat]
    /\ daemon \in {"sleep", "next", "out", "decide"}
    /\ toVisit \subseteq {j \in Job : inRate[j] # Absent}
    /\ daemon \in {"out", "decide"} => job \in Job /\ inSeen \in Reported
    /\ daemon = "decide" => outSeen \in Reported

(***************************************************************************)
(* A late request is counted while the in rate is still that of the reset, *)
(* and a daemon that looks at the job again has seen that rate.            *)
(***************************************************************************)
LateMeansReset ==
    \A j \in Job : late[j] > 0 =>
        /\ inRate[j] = 0
        /\ daemon \in {"out", "decide"} /\ job = j => inSeen = 0

(***************************************************************************)
(* The two rates of a decision were current at one moment: while the       *)
(* daemon reads the out rate, the in rate it read is still the map's.      *)
(***************************************************************************)
RatesReadTogether == daemon = "out" => inSeen = inRate[job]

RateInv == RatesAreTyped /\ RatesReadTogether /\ LateMeansReset /\ AtMostOneLateRequest
-----------------------------------------------------------------------------
LEMMA RateInvInit == Init => RateInv
BY DEF Init, RateInv, RatesAreTyped, RatesReadTogether, LateMeansReset,
       AtMostOneLateRequest, Rates, Absent

(***************************************************************************)
(* An assignment to an in rate: it waits for the daemon, and forgets the   *)
(* late requests.                                                          *)
(***************************************************************************)
LEMMA AssignInKeeps ==
    ASSUME RateInv, NEW j \in Job, NEW rate \in Reported, AssignIn(j, rate),
           resetting' \in [Handler -> Job \cup {Nobody}],
           UNCHANGED <<outRate, daemonVars>>
    PROVE  RateInv'
<1>1. /\ daemon # "out"
      /\ inRate' = [inRate EXCEPT ![j] = rate]
      /\ late' = [late EXCEPT ![j] = 0]
      /\ UNCHANGED <<outRate, daemon, toVisit, job, inSeen, outSeen>>
  BY DEF AssignIn, InLocked, daemonVars
<1>2. rate # Absent /\ rate \in Rates
  BY DEF Reported, Absent, Rates
<1>3. RatesAreTyped'
  BY <1>1, <1>2 DEF RateInv, RatesAreTyped
<1>4. RatesReadTogether' /\ AtMostOneLateRequest'
  BY <1>1 DEF RateInv, RatesAreTyped, RatesReadTogether, AtMostOneLateRequest
<1>5. LateMeansReset'
  BY <1>1 DEF RateInv, RatesAreTyped, LateMeansReset
<1>. QED BY <1>3, <1>4, <1>5 DEF RateInv

(***************************************************************************)
(* An assignment to an out rate, which waits for nothing.                  *)
(***************************************************************************)
LEMMA AssignOutKeeps ==
    ASSUME RateInv, NEW j \in Job, NEW rate \in Reported, AssignOut(j, rate),
           resetting' \in [Handler -> Job \cup {Nobody}],
           UNCHANGED <<inRate, daemonVars, late>>
    PROVE  RateInv'
<1>1. outRate' \in [Job -> Rates]
  BY DEF AssignOut, Reported, Rates, RateInv, RatesAreTyped
<1>. QED
  BY <1>1 DEF daemonVars, RateInv, RatesAreTyped, RatesReadTogether, LateMeansReset,
              AtMostOneLateRequest

LEMMA HandlerKeeps ==
    ASSUME RateInv, NEW h \in Handler, NEW j \in Job,
           \/ ResetIn(h, j) \/ ResetOut(h)
           \/ \E rate \in Rate : SetInRate(h, j, rate) \/ SetOutRate(h, j, rate)
    PROVE  RateInv'
<1>0. resetting \in [Handler -> Job \cup {Nobody}] /\ 0 \in Reported
  BY DEF RateInv, RatesAreTyped, Reported
<1>1. CASE ResetIn(h, j)
  BY <1>0, <1>1, AssignInKeeps DEF ResetIn
<1>2. CASE ResetOut(h)
  <2>1. resetting[h] \in Job
    BY <1>0, <1>2 DEF ResetOut
  <2>. QED BY <1>0, <1>2, <2>1, AssignOutKeeps DEF ResetOut
<1>3. ASSUME NEW rate \in Rate, SetInRate(h, j, rate) PROVE RateInv'
  BY <1>0, <1>3, AssignInKeeps DEF SetInRate, Reported
<1>4. ASSUME NEW rate \in Rate, SetOutRate(h, j, rate) PROVE RateInv'
  BY <1>0, <1>4, AssignOutKeeps DEF SetOutRate, Reported
<1>. QED BY <1>1, <1>2, <1>3, <1>4

(***************************************************************************)
(* The daemon.  A job with a late request has an in rate of zero, which    *)
(* NeedsChange excludes, so it does not get another.                       *)
(***************************************************************************)
LEMMA DaemonKeeps == ASSUME RateInv, CalculateRate PROVE RateInv'
<1>1. CASE ListJobs
  BY <1>1 DEF ListJobs, handlerVars, RateInv, RatesAreTyped, RatesReadTogether,
              LateMeansReset, AtMostOneLateRequest
<1>2. CASE ReadIn
  <2>1. PICK j \in toVisit : job' = j /\ toVisit' = toVisit \ {j} /\ inSeen' = inRate[j]
    BY <1>2 DEF ReadIn
  <2>2. j \in Job /\ inRate[j] \in Reported
    BY DEF RateInv, RatesAreTyped, Rates, Reported
  <2>3. /\ daemon' = "out"
        /\ UNCHANGED <<inRate, outRate, resetting, late>>
    BY <1>2 DEF ReadIn, handlerVars
  <2>4. RatesAreTyped' /\ RatesReadTogether' /\ AtMostOneLateRequest'
    BY <2>1, <2>2, <2>3
    DEF RateInv, RatesAreTyped, RatesReadTogether, AtMostOneLateRequest
  <2>5. LateMeansReset'
    BY <2>1, <2>2, <2>3 DEF RateInv, LateMeansReset
  <2>. QED BY <2>4, <2>5 DEF RateInv
<1>3. CASE ReadOut
  <2>1. job \in Job /\ inSeen \in Reported
    BY <1>3 DEF ReadOut, RateInv, RatesAreTyped
  <2>2. outRate[job] \in Rates
    BY <2>1 DEF RateInv, RatesAreTyped
  <2>3. outSeen' \in Reported
    BY <1>3, <2>2 DEF ReadOut, Rates, Reported, Absent
  <2>4. outRate' \in [Job -> Rates]
    BY <1>3, <2>1, <2>3 DEF ReadOut, RateInv, RatesAreTyped, Rates, Reported
  <2>. QED
    BY <1>3, <2>1, <2>3, <2>4
    DEF ReadOut, RateInv, RatesAreTyped, RatesReadTogether, LateMeansReset,
        AtMostOneLateRequest
<1>4. CASE AlterNodes
  <2>1. job \in Job /\ inSeen # 0 /\ daemon = "decide"
    BY <1>4 DEF AlterNodes, NeedsChange, RateInv, RatesAreTyped
  <2>2. late[job] = 0
    BY <2>1 DEF RateInv, RatesAreTyped, LateMeansReset
  <2>3. /\ late' = [late EXCEPT ![job] = IF inRate[job] = 0 THEN 1 ELSE 0]
        /\ daemon' = "next"
        /\ UNCHANGED <<inRate, outRate, resetting, toVisit, job, inSeen, outSeen>>
    BY <1>4, <2>2 DEF AlterNodes, handlerVars
  <2>4. RatesAreTyped' /\ RatesReadTogether'
    BY <2>1, <2>3 DEF RateInv, RatesAreTyped, RatesReadTogether
  <2>5. LateMeansReset' /\ AtMostOneLateRequest'
    BY <2>1, <2>3 DEF RateInv, RatesAreTyped, LateMeansReset, AtMostOneLateRequest
  <2>. QED BY <2>4, <2>5 DEF RateInv
<1>5. CASE Skip \/ Sleep
  BY <1>5 DEF Skip, Sleep, handlerVars, RateInv, RatesAreTyped, RatesReadTogether,
              LateMeansReset, AtMostOneLateRequest
<1>. QED BY <1>1, <1>2, <1>3, <1>4, <1>5 DEF CalculateRate

LEMMA RateInvNext == RateInv /\ [Next]_vars => RateInv'
<1>. SUFFICES ASSUME RateInv, [Next]_vars PROVE RateInv'
  OBVIOUS
<1>1. ASSUME NEW h \in Handler, ResetOut(h) PROVE RateInv'
  <2>1. resetting[h] \in Job
    BY <1>1 DEF ResetOut, RateInv, RatesAreTyped
  <2>. QED BY <1>1, <2>1, HandlerKeeps
<1>2. CASE UNCHANGED vars
  BY <1>2 DEF vars, handlerVars, daemonVars, RateInv, RatesAreTyped, RatesReadTogether,
              LateMeansReset, AtMostOneLateRequest
<1>. QED BY <1>1, <1>2, HandlerKeeps, DaemonKeeps DEF Next

(***************************************************************************)
(* The daemon never decides on an in rate that was replaced before it read *)
(* the out rate, whatever RPC threads do between its two locks.            *)
(***************************************************************************)
THEOREM RatesAreOfOneMoment == Spec => []RatesReadTogether
<1>1. RateInv => RatesReadTogether
  BY DEF RateInv
<1>. QED BY <1>1, RateInvInit, RateInvNext, PTL DEF Spec

(***************************************************************************)
(* RegisterJob and FinalizeJob end the requests for a job but for one,     *)
(* whatever other jobs and RPC threads do.                                 *)
(***************************************************************************)
THEOREM ResetsAreHeeded == Spec => []AtMostOneLateRequest
<1>1. RateInv => AtMostOneLateRequest
  BY DEF RateInv
<1>. QED BY <1>1, RateInvInit, RateInvNext, PTL DEF Spec
-----------------------------------------------------------------------------
(***************************************************************************)
(* What AlterNodes asks for is an int16_t, whatever it computes it from.   *)
(***************************************************************************)
LEMMA DivisionIsTyped ==
    ASSUME NEW k \in Int, NEW m \in Nat \ {0}
    PROVE  k \div m \in Int /\ k % m \in Int
BY Z3

LEMMA Low16Bits ==
    ASSUME NEW k \in Int
    PROVE  LET low == k % 65536 IN low \in Int /\ 0 <= low /\ low < 65536
OBVIOUS

LEMMA TwoTo64IsTyped == ASSUME NEW m \in Nat \ {0} PROVE TwoTo64Mod(m) \in Int
<1>1. \A k \in Int : k % m \in Int
  BY DivisionIsTyped
<1>. DEFINE power == 16777216 % m
<1>2. power \in Int
  BY <1>1
<1>. HIDE DEF power
<1>3. (power * power) % m \in Int
  <2>1. power * power \in Int
    BY <1>2
  <2>. QED BY <1>1, <2>1, Zenon
<1>. QED BY <1>3 DEF TwoTo64Mod, TwoTo48Mod, power

LEMMA Low16IsTyped ==
    ASSUME NEW n \in Int
    PROVE  LET low == QuotientLow16(n) IN low \in Int /\ 0 <= low /\ low < 65536
<1>1. \A k \in Int : k \div Step \in Int /\ k % Step \in Int
  BY DivisionIsTyped
<1>. DEFINE wrap == TwoTo64Mod(Step)
            quotient == n \div Step
            rest == wrap % Step
            wrapped == wrap \div Step + (rest + n) \div Step
<1>2. wrap \in Int /\ quotient \in Int
  BY <1>1, TwoTo64IsTyped
<1>. HIDE DEF wrap
<1>3. rest \in Int /\ wrap \div Step \in Int
  BY <1>1, <1>2, Zenon
<1>. HIDE DEF rest
<1>4. rest + n \in Int
  BY <1>3
<1>5. (rest + n) \div Step \in Int
  BY <1>1, <1>4, Zenon
<1>6. wrapped \in Int
  BY <1>3, <1>5
<1>. HIDE DEF quotient, wrapped
<1>7. \A low \in {quotient % 65536, wrapped % 65536} :
        low \in Int /\ 0 <= low /\ low < 65536
  BY <1>2, <1>6, Low16Bits
<1>8. QuotientLow16(n) = IF n >= 0 THEN quotient % 65536 ELSE wrapped % 65536
  BY DEF QuotientLow16, quotient, wrapped, rest, wrap
<1>. QED BY <1>7, <1>8

LEMMA NodeChangeIsInt16 ==
    ASSUME NEW o \in Nat, NEW i \in Nat
    PROVE  NodeChange(o, i) \in Int16
<1>. DEFINE n == (Distance(o, i) - Variation \div 2) * Multiplier(o, i)
<1>1. Variation \div 2 \in Int
  OBVIOUS
<1>2. n \in Int
  BY <1>1 DEF Distance, Multiplier, GROW, SHRINK
<1>. DEFINE low == QuotientLow16(n)
<1>3. low \in Int /\ 0 <= low /\ low < 65536
  BY <1>2, Low16IsTyped
<1>4. NodeChange(o, i) = ToInt16(low)
  BY DEF NodeChange
<1>. HIDE DEF low
<1>5. ToInt16(low) \in Int /\ -32768 <= ToInt16(low) /\ ToInt16(low) <= 32767
  BY <1>3 DEF ToInt16
<1>. DEFINE lowest == -32768
            highest == 32767
<1>6. Int16 = lowest .. highest
  BY DEF Int16
<1>7. lowest \in Int /\ highest \in Int /\ lowest <= ToInt16(low) /\ ToInt16(low) <= highest
  BY <1>5
<1>. HIDE DEF lowest, highest
<1>8. ToInt16(low) \in lowest .. highest
  BY <1>5, <1>7
<1>. QED BY <1>4, <1>6, <1>8

(***************************************************************************)
(* The part of TypeOK that RateInv says nothing of: what the daemon has    *)
(* read, and what it has asked for.                                        *)
(***************************************************************************)
DaemonIsTyped ==
    /\ job \in Job \cup {Nobody}
    /\ inSeen \in Rates
    /\ outSeen \in Rates
    /\ request \in [job : Job \cup {Nobody}, out : Rates, in : Rates, nodes : Int16]

LEMMA DaemonIsTypedInit == Init => DaemonIsTyped
BY DEF Init, DaemonIsTyped, Rates, Int16

LEMMA DaemonIsTypedNext ==
    ASSUME RateInv, DaemonIsTyped, [Next]_vars
    PROVE  DaemonIsTyped'
<1>1. CASE ReadIn
  <2>1. PICK j \in toVisit : job' = j /\ inSeen' = inRate[j]
    BY <1>1 DEF ReadIn
  <2>2. j \in Job /\ inRate[j] \in Rates
    BY DEF RateInv, RatesAreTyped
  <2>. QED BY <1>1, <2>1, <2>2 DEF ReadIn, DaemonIsTyped
<1>2. CASE ReadOut
  <2>1. outRate[job] \in Rates /\ 0 \in Rates
    BY <1>2 DEF ReadOut, RateInv, RatesAreTyped, Rates
  <2>. QED BY <1>2, <2>1 DEF ReadOut, DaemonIsTyped
<1>3. CASE AlterNodes
  <2>1. /\ job \in Job
        /\ inSeen \in Reported /\ outSeen \in Reported
    BY <1>3 DEF AlterNodes, RateInv, RatesAreTyped
  <2>2. NodeChange(outSeen, inSeen) \in Int16
    BY <2>1, NodeChangeIsInt16 DEF Reported
  <2>3. request' \in [job : Job \cup {Nobody}, out : Rates, in : Rates, nodes : Int16]
    BY <1>3, <2>1, <2>2 DEF AlterNodes, Rates, Reported
  <2>. QED BY <1>3, <2>3 DEF AlterNodes, DaemonIsTyped
<1>4. CASE UNCHANGED <<job, inSeen, outSeen, request>>
  BY <1>4 DEF DaemonIsTyped
<1>. QED
  BY <1>1, <1>2, <1>3, <1>4
  DEF Next, ResetIn, ResetOut, SetInRate, SetOutRate, CalculateRate, ListJobs, Skip,
      Sleep, vars, daemonVars

LEMMA TypeFromInvariants == RateInv /\ DaemonIsTyped => TypeOK
BY DEF RateInv, RatesAreTyped, AtMostOneLateRequest, DaemonIsTyped, TypeOK

(***************************************************************************)
(* Every variable keeps its type: the rates that AlterNodes computes with  *)
(* were reported, whatever RPC threads reset meanwhile, and what it asks   *)
(* for fits the int16_t it is sent in.                                     *)
(***************************************************************************)
THEOREM TypeCorrect == Spec => []TypeOK
<1>1. RateInv /\ DaemonIsTyped /\ [Next]_vars => DaemonIsTyped'
  BY DaemonIsTypedNext
<1>. QED
  BY <1>1, RateInvInit, RateInvNext, DaemonIsTypedInit, TypeFromInvariants, PTL DEF Spec
-----------------------------------------------------------------------------
(***************************************************************************)
(* Requests to grow.  While no imbalance is worth 2^15 nodes, the product  *)
(* with the multiplier is not negative, the cut to 16 bits cuts nothing,   *)
(* and what is asked for is the quotient.                                  *)
(***************************************************************************)
GrowthFits == \A i, o \in Reported : i > o => i - o < 32768 * Step

(***************************************************************************)
(* Integer division, as the provers are to see it.                         *)
(***************************************************************************)
LEMMA QuotientBounds ==
    ASSUME NEW n \in Nat, NEW s \in Nat \ {0}
    PROVE  /\ n \div s \in Nat
           /\ (n \div s) * s <= n
           /\ n < (n \div s + 1) * s
<1>1. n = s * (n \div s) + (n % s) /\ n % s \in 0 .. s - 1 /\ n \div s \in Int
  BY Z3
<1>. QED BY <1>1, Z3

LEMMA QuotientIsSmall ==
    ASSUME NEW n \in Nat, NEW s \in Nat \ {0}, n < 32768 * s
    PROVE  n \div s < 32768
<1>1. (n \div s) * s <= n /\ n \div s \in Nat
  BY QuotientBounds
<1>. QED BY <1>1, Z3

LEMMA GrowthIsTheQuotient ==
    ASSUME GrowthFits, NEW i \in Reported, NEW o \in Reported, i > o,
           Distance(o, i) >= Variation
    PROVE  LET excess == i - o - Variation \div 2 IN
           /\ excess \in Nat
           /\ NodeChange(o, i) = excess \div Step
<1>. DEFINE excess == i - o - Variation \div 2
<1>1. i \in Nat /\ o \in Nat
  BY DEF Reported
<1>2. Distance(o, i) = i - o /\ Multiplier(o, i) = 1
  BY <1>1 DEF Distance, Multiplier, GROW
<1>3. Variation \div 2 \in Nat /\ Variation \div 2 <= Variation
  OBVIOUS
<1>4. excess \in Nat /\ excess < 32768 * Step
  BY <1>1, <1>2, <1>3 DEF GrowthFits
<1>5. excess \div Step \in Nat /\ excess \div Step < 32768
  BY <1>4, QuotientBounds, QuotientIsSmall
<1>6. QuotientLow16(excess) = excess \div Step
  BY <1>4, <1>5 DEF QuotientLow16
<1>7. (Distance(o, i) - Variation \div 2) * Multiplier(o, i) = excess
  BY <1>2, <1>4
<1>. QED BY <1>4, <1>5, <1>6, <1>7 DEF NodeChange, ToInt16

LEMMA RequestNext ==
    ASSUME GrowthFits, RateInv, GrowthIsProportional, [Next]_vars
    PROVE  GrowthIsProportional'
<1>1. CASE AlterNodes
  <2>1. /\ inSeen \in Reported /\ outSeen \in Reported
        /\ Distance(outSeen, inSeen) >= Variation
    BY <1>1 DEF AlterNodes, NeedsChange, RateInv, RatesAreTyped
  <2>2. request' = [job |-> job, out |-> outSeen, in |-> inSeen,
                    nodes |-> NodeChange(outSeen, inSeen)]
    BY <1>1 DEF AlterNodes
  <2>3. CASE inSeen > outSeen
    <3>. DEFINE excess == inSeen - outSeen - Variation \div 2
    <3>1. excess \in Nat /\ request'.nodes = excess \div Step
      BY <2>1, <2>2, <2>3, GrowthIsTheQuotient
    <3>2. request'.nodes * Step <= excess /\ excess < (request'.nodes + 1) * Step
      BY <3>1, QuotientBounds
    <3>. QED BY <2>2, <3>2 DEF GrowthIsProportional
  <2>. QED BY <2>2, <2>3 DEF GrowthIsProportional
<1>2. CASE UNCHANGED request
  BY <1>2 DEF GrowthIsProportional
<1>. QED
  BY <1>1, <1>2
  DEF Next, ResetIn, ResetOut, SetInRate, SetOutRate, CalculateRate, ListJobs, ReadIn,
      ReadOut, Skip, Sleep, vars

(***************************************************************************)
(* Under GrowthFits a request to grow is proportional, for every           *)
(* configuration.                                                          *)
(***************************************************************************)
THEOREM GrowthIsExact == ASSUME GrowthFits PROVE Spec => []GrowthIsProportional
<1>1. Init => GrowthIsProportional
  BY DEF Init, GrowthIsProportional
<1>2. RateInv /\ GrowthIsProportional /\ [Next]_vars => GrowthIsProportional'
  BY RequestNext
<1>. QED BY <1>1, <1>2, RateInvInit, RateInvNext, PTL DEF Spec
=============================================================================
