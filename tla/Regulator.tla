----------------------------- MODULE Regulator -----------------------------
(***************************************************************************)
(* rhea::byteflow_regulator::Server: RPC threads that run RegisterJob,     *)
(* FinalizeJob, SetInRate and SetOutRate, and the daemon thread that runs  *)
(* CalculateRate every BYTEFLOW_UPDATE_INTERVAL and asks the job manager   *)
(* for more or fewer nodes.                                                *)
(*                                                                         *)
(* in_mutex and out_mutex guard one map each.  An RPC thread holds one of  *)
(* them for one assignment, so locking, assigning and unlocking are one    *)
(* step, which waits while the daemon holds the lock.  The daemon takes    *)
(* in_mutex twice, and out_mutex never: it reads both rates under          *)
(* in_mutex, so only assignments to in_rate_map wait for it.               *)
(***************************************************************************)
EXTENDS NodeVar

CONSTANTS
    Job,        \* the jobs clients register
    Handler,    \* the RPC threads
    Rate,       \* the rates clients report
    Nobody      \* no job

ASSUME RegulatorAssumption ==
    /\ Rate \subseteq Nat
    /\ Nobody \notin Job

Absent == -1    \* no entry in the map

VARIABLES
    inRate,     \* in_rate_map
    outRate,    \* out_rate_map
    resetting,  \* the job whose out rate a RPC thread has still to reset
    daemon,     \* where CalculateRate is
    toVisit,    \* the jobs it has still to look at
    job,        \* the job it looks at
    inSeen,     \* the in rate it read
    outSeen,    \* the out rate it read
    request,    \* the last request to the job manager
    late        \* history: requests for a job since its in rate was reset

handlerVars == <<inRate, outRate, resetting>>
daemonVars == <<daemon, toVisit, job, inSeen, outSeen>>
vars == <<handlerVars, daemonVars, request, late>>

Rates == Rate \cup {0, Absent}

TypeOK ==
    /\ inRate \in [Job -> Rates]
    /\ outRate \in [Job -> Rates]
    /\ resetting \in [Handler -> Job \cup {Nobody}]
    /\ daemon \in {"sleep", "next", "out", "decide"}
    /\ toVisit \in SUBSET Job
    /\ job \in Job \cup {Nobody}
    /\ inSeen \in Rates
    /\ outSeen \in Rates
    /\ request \in [job : Job \cup {Nobody}, out : Rates, in : Rates, nodes : Int16]
    /\ late \in [Job -> 0 .. 2]

Init ==
    /\ inRate = [j \in Job |-> Absent]
    /\ outRate = [j \in Job |-> Absent]
    /\ resetting = [h \in Handler |-> Nobody]
    /\ daemon = "sleep"
    /\ toVisit = {}
    /\ job = Nobody
    /\ inSeen = 0
    /\ outSeen = 0
    /\ request = [job |-> Nobody, out |-> 0, in |-> 0, nodes |-> 0]
    /\ late = [j \in Job |-> 0]

\* the daemon holds in_mutex shared between its two reads
InLocked == daemon = "out"

AssignIn(j, rate) ==
    /\ ~InLocked
    /\ inRate' = [inRate EXCEPT ![j] = rate]
    /\ late' = [late EXCEPT ![j] = 0]

AssignOut(j, rate) == outRate' = [outRate EXCEPT ![j] = rate]
-----------------------------------------------------------------------------
(***************************************************************************)
(* RegisterJob and FinalizeJob do the same: they reset both rates, under   *)
(* one lock after the other, and remove nothing.                           *)
(***************************************************************************)
ResetIn(h, j) ==
    /\ resetting[h] = Nobody
    /\ AssignIn(j, 0)
    /\ resetting' = [resetting EXCEPT ![h] = j]
    /\ UNCHANGED <<outRate, daemonVars, request>>

ResetOut(h) ==
    /\ resetting[h] # Nobody
    /\ AssignOut(resetting[h], 0)
    /\ resetting' = [resetting EXCEPT ![h] = Nobody]
    /\ UNCHANGED <<inRate, daemonVars, request, late>>

SetInRate(h, j, rate) ==
    /\ resetting[h] = Nobody
    /\ AssignIn(j, rate)
    /\ UNCHANGED <<outRate, resetting, daemonVars, request>>

SetOutRate(h, j, rate) ==
    /\ resetting[h] = Nobody
    /\ AssignOut(j, rate)
    /\ UNCHANGED <<inRate, resetting, daemonVars, request, late>>
-----------------------------------------------------------------------------
(***************************************************************************)
(* CalculateRate.  The jobs are listed first, under in_mutex, and visited  *)
(* in any order.  Reading a missing out rate inserts a zero.               *)
(***************************************************************************)
ListJobs ==
    /\ daemon = "sleep"
    /\ toVisit' = {j \in Job : inRate[j] # Absent}
    /\ daemon' = "next"
    /\ UNCHANGED <<handlerVars, job, inSeen, outSeen, request, late>>

ReadIn ==
    /\ daemon = "next"
    /\ \E j \in toVisit :
        /\ job' = j
        /\ toVisit' = toVisit \ {j}
        /\ inSeen' = inRate[j]
    /\ daemon' = "out"
    /\ UNCHANGED <<handlerVars, outSeen, request, late>>

ReadOut ==
    /\ daemon = "out"
    /\ outSeen' = IF outRate[job] = Absent THEN 0 ELSE outRate[job]
    /\ outRate' = [outRate EXCEPT ![job] = outSeen']
    /\ daemon' = "decide"
    /\ UNCHANGED <<inRate, resetting, toVisit, job, inSeen, request, late>>

\* mutant: a rate of zero counts like any other
NeedsChangeAtZero ==
    /\ outSeen # 0
    /\ Distance(outSeen, inSeen) >= Variation

\* mutant: the distance loses its sign
NeedsChangeOneSided ==
    /\ inSeen # 0
    /\ outSeen # 0
    /\ inSeen - outSeen >= Variation

NeedsChange ==
    /\ inSeen # 0
    /\ outSeen # 0
    /\ Distance(outSeen, inSeen) >= Variation

AlterNodes ==
    /\ daemon = "decide"
    /\ NeedsChange
    /\ request' = [job |-> job, out |-> outSeen, in |-> inSeen,
                   nodes |-> NodeChange(outSeen, inSeen)]
    /\ late' = [late EXCEPT ![job] = IF inRate[job] = 0 THEN @ + 1 ELSE @]
    /\ daemon' = "next"
    /\ UNCHANGED <<handlerVars, toVisit, job, inSeen, outSeen>>

Skip ==
    /\ daemon = "decide"
    /\ ~NeedsChange
    /\ daemon' = "next"
    /\ UNCHANGED <<handlerVars, toVisit, job, inSeen, outSeen, request, late>>

Sleep ==
    /\ daemon = "next"
    /\ toVisit = {}
    /\ daemon' = "sleep"
    /\ UNCHANGED <<handlerVars, toVisit, job, inSeen, outSeen, request, late>>

CalculateRate == ListJobs \/ ReadIn \/ ReadOut \/ AlterNodes \/ Skip \/ Sleep

Next ==
    \/ \E h \in Handler, j \in Job :
        \/ ResetIn(h, j)
        \/ \E rate \in Rate : SetInRate(h, j, rate) \/ SetOutRate(h, j, rate)
    \/ \E h \in Handler : ResetOut(h)
    \/ CalculateRate

Spec == Init /\ [][Next]_vars

(***************************************************************************)
(* The daemon thread runs until it is told to stop.                        *)
(***************************************************************************)
FairSpec == Spec /\ WF_vars(CalculateRate)
-----------------------------------------------------------------------------
(***************************************************************************)
(* A job whose rates were reset, by FinalizeJob say, gets one more request *)
(* at most: the one from rates read before the reset.                      *)
(***************************************************************************)
AtMostOneLateRequest == \A j \in Job : late[j] <= 1

(***************************************************************************)
(* Every request to grow asks for a node per Step of the imbalance beyond  *)
(* half the tolerated variation.  (In the range of rates of the instance.) *)
(***************************************************************************)
GrowthIsProportional ==
    LET excess == request.in - request.out - Variation \div 2 IN
    request.in > request.out =>
        /\ request.nodes * Step <= excess
        /\ excess < (request.nodes + 1) * Step

(***************************************************************************)
(* What Alter_Type says: a request made because more flows out than in     *)
(* asks for fewer nodes.                                                   *)
(***************************************************************************)
ShrinkTakesNodes == request.out > request.in => request.nodes < 0

(***************************************************************************)
(* A job whose rates stay apart gets a request, whatever other jobs report *)
(* meanwhile.                                                              *)
(***************************************************************************)
ImbalanceIsAnswered ==
    \A j \in Job, i \in Rate, o \in Rate :
        (Distance(o, i) >= Variation /\ <>[](inRate[j] = i /\ outRate[j] = o)) =>
            []<>(request.job = j /\ request.in = i /\ request.out = o)
=============================================================================
