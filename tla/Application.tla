----------------------------- MODULE Application -----------------------------
(***************************************************************************)
(* The processes of an MPI program that uses Rhea: what they do around the *)
(* calls that move data.  The constructor of rhea::Client configures the   *)
(* process, lets rank 0 submit the job and meets the other processes at a  *)
(* barrier; FinalizeClient meets them, lets rank 0 terminate the job, and  *)
(* meets them again.  MPI_Barrier names neither client nor job: the n-th   *)
(* call of one process meets the n-th call of every other.                 *)
(***************************************************************************)
EXTENDS Naturals, Sequences, FiniteSets

CONSTANTS
    Ranks,      \* the size of MPI_COMM_WORLD
    Job,        \* the job ids
    ProgramOf,  \* ProgramOf[r]: the operations of rank r, in their order
    Services,   \* entries in the list RHEA_CLIENT_SERVICE_HOST
    Regulators  \* entries in the list BYTEFLOW_REGULATOR_HOST

Process == 0 .. Ranks - 1

Operation == [op : {"Client", "RegulatorClient", "Use", "Finalize"}, job : Job]

ASSUME ApplicationAssumption ==
    /\ {Ranks, Services, Regulators} \subseteq Nat \ {0}
    /\ ProgramOf \in [Process -> Seq(Operation)]

VARIABLES
    at,         \* at[r]: the operation of its program that rank r is in
    phase,      \* phase[r]: where it is in that operation
    barriers,   \* barriers[r]: how many barriers it has entered
    config,     \* config[r]: NUM_SERVERS and MY_SERVER of its BASKET_CONF
    jobState,   \* jobState[j]: what the job manager was told
    queues      \* queues[j]: the number of queues job j was submitted for

appVars == <<at, phase, barriers, config, jobState, queues>>

AppInit ==
    /\ at = [r \in Process |-> 1]
    /\ phase = [r \in Process |-> "start"]
    /\ barriers = [r \in Process |-> 0]
    /\ config = [r \in Process |-> [servers |-> 0, my |-> 0]]
    /\ jobState = [j \in Job |-> "none"]
    /\ queues = [j \in Job |-> 0]

(***************************************************************************)
(* Running(r, o): rank r is in operation o, on its job Of(r).              *)
(***************************************************************************)
Finished(r) == at[r] > Len(ProgramOf[r])
Running(r, o) == ~Finished(r) /\ ProgramOf[r][at[r]].op = o
Of(r) == ProgramOf[r][at[r]].job
Using(r, j) == Running(r, "Use") /\ Of(r) = j
Constructing(r) == Running(r, "Client")

Proceed(r, from, to) ==
    /\ phase[r] = from
    /\ phase' = [phase EXCEPT ![r] = to]
    /\ UNCHANGED at

Advance(r) ==
    /\ at' = [at EXCEPT ![r] = @ + 1]
    /\ phase' = [phase EXCEPT ![r] = "start"]
-----------------------------------------------------------------------------
(***************************************************************************)
(* The two configurations write the one BASKET_CONF of the process, and    *)
(* Publish and Subscribe read MY_SERVER from it at every call.  What a     *)
(* configuration leaves there is Basket's, whose source is absent          *)
(* (external): as many servers as the list names, and one of them, chosen  *)
(* by the rank, as the own.                                                *)
(***************************************************************************)
Configured(r, n) == config' = [config EXCEPT ![r] = [servers |-> n, my |-> r % n]]

\* mutant: a process that is configured already stays so
ConfigureRheaClientOnce(r) ==
    /\ Constructing(r)
    /\ Proceed(r, "start", "configured")
    /\ IF config[r].servers = 0 THEN Configured(r, Services) ELSE UNCHANGED config
    /\ UNCHANGED <<barriers, jobState, queues>>

ConfigureRheaClient(r) ==
    /\ Constructing(r)
    /\ Proceed(r, "start", "configured")
    /\ Configured(r, Services)
    /\ UNCHANGED <<barriers, jobState, queues>>

ConfigureByteflowRegulatorClient(r) ==
    /\ Running(r, "RegulatorClient")
    /\ Configured(r, Regulators)
    /\ Advance(r)
    /\ UNCHANGED <<barriers, jobState, queues>>

(***************************************************************************)
(* Rank 0 of an application submits the job with one group of source tasks *)
(* for each service it was configured with.                                *)
(***************************************************************************)
Submits(r) == Constructing(r) /\ r = 0

SubmitJob(r) ==
    /\ Submits(r)
    /\ Proceed(r, "configured", "submitted")
    /\ jobState' = [jobState EXCEPT ![Of(r)] = "submitted"]
    /\ queues' = [queues EXCEPT ![Of(r)] = config[r].servers]
    /\ UNCHANGED <<barriers, config>>

EndUse(r) ==
    /\ Running(r, "Use")
    /\ Advance(r)
    /\ UNCHANGED <<barriers, config, jobState, queues>>

\* mutant: without waiting for the other ranks
TerminateJobAtOnce(r) ==
    /\ Running(r, "Finalize") /\ r = 0
    /\ phase[r] \in {"start", "agreed"}
    /\ Proceed(r, phase[r], "terminated")
    /\ jobState' = [jobState EXCEPT ![Of(r)] = "terminated"]
    /\ UNCHANGED <<barriers, config, queues>>

TerminateJob(r) ==
    /\ Running(r, "Finalize") /\ r = 0
    /\ Proceed(r, "agreed", "terminated")
    /\ jobState' = [jobState EXCEPT ![Of(r)] = "terminated"]
    /\ UNCHANGED <<barriers, config, queues>>
-----------------------------------------------------------------------------
\* mutant: the rank that submits returns without the barrier
EnterBarrierButRoot(r) ==
    /\ \/ Constructing(r) /\ ~Submits(r) /\ Proceed(r, "configured", "inBarrier")
       \/ Submits(r) /\ phase[r] = "submitted" /\ Advance(r)
       \/ Running(r, "Finalize") /\ Proceed(r, "start", "inBarrier")
       \/ /\ Running(r, "Finalize")
          /\ Proceed(r, IF r = 0 THEN "terminated" ELSE "agreed", "inLastBarrier")
    /\ barriers' = [barriers EXCEPT ![r] = IF Submits(r) THEN @ ELSE @ + 1]
    /\ UNCHANGED <<config, jobState, queues>>

EnterBarrier(r) ==
    /\ \/ Constructing(r) /\ ~Submits(r) /\ Proceed(r, "configured", "inBarrier")
       \/ Submits(r) /\ Proceed(r, "submitted", "inBarrier")
       \/ Running(r, "Finalize") /\ Proceed(r, "start", "inBarrier")
       \/ /\ Running(r, "Finalize")
          /\ Proceed(r, IF r = 0 THEN "terminated" ELSE "agreed", "inLastBarrier")
    /\ barriers' = [barriers EXCEPT ![r] = @ + 1]
    /\ UNCHANGED <<config, jobState, queues>>

Met(r) == \A q \in Process : barriers[q] >= barriers[r]

LeaveBarrier(r) ==
    /\ Met(r)
    /\ \/ Running(r, "Finalize") /\ Proceed(r, "inBarrier", "agreed")
       \/ /\ \/ Constructing(r) /\ phase[r] = "inBarrier"
             \/ phase[r] = "inLastBarrier"
          /\ Advance(r)
    /\ UNCHANGED <<barriers, config, jobState, queues>>

ProcessStep(r) ==
    \/ ConfigureRheaClient(r) \/ ConfigureByteflowRegulatorClient(r)
    \/ SubmitJob(r) \/ TerminateJob(r) \/ EnterBarrier(r) \/ LeaveBarrier(r)

AppNext == \E r \in Process : ProcessStep(r) \/ EndUse(r)

AppSpec == AppInit /\ [][AppNext]_appVars
-----------------------------------------------------------------------------
(***************************************************************************)
(* What the library expects of a program, and nothing enforces.  Its ranks *)
(* construct and finalize their clients in one order: the barrier that is  *)
(* the n-th of a rank belongs to the same operation in all.  A rank uses a *)
(* client after its constructor, and neither constructs nor uses it after  *)
(* FinalizeClient.                                                         *)
(***************************************************************************)
OperationOf(r, i) == ProgramOf[r][i]

BarriersOf(o) ==
    IF o.op = "Client" THEN {1} ELSE IF o.op = "Finalize" THEN {1, 2} ELSE {}

Places(r) == DOMAIN ProgramOf[r]

\* the barriers that the first i operations of rank r enter
Slots(r, i) ==
    {s \in (1 .. i) \X {1, 2} : s[1] \in Places(r) /\ s[2] \in BarriersOf(OperationOf(r, s[1]))}

Entered(r, i) == Cardinality(Slots(r, i))

SameCollectives ==
    \A r, q \in Process : \A i \in Places(r) :
        BarriersOf(OperationOf(r, i)) # {} =>
            \E k \in Places(q) :
                OperationOf(q, k) = OperationOf(r, i) /\ Entered(q, k) = Entered(r, i)

ConstructedBeforeUse ==
    \A r \in Process : \A i \in Places(r) :
        OperationOf(r, i).op = "Use" =>
            \E k \in 1 .. i - 1 :
                /\ OperationOf(r, k).op = "Client"
                /\ OperationOf(r, k).job = OperationOf(r, i).job

FinalizedLast ==
    \A r \in Process : \A i, k \in Places(r) :
        /\ OperationOf(r, i).op \in {"Client", "Use"}
        /\ OperationOf(r, k).op = "Finalize"
        /\ OperationOf(r, i).job = OperationOf(r, k).job
        => i < k

WellFormedProgram == SameCollectives /\ ConstructedBeforeUse /\ FinalizedLast
-----------------------------------------------------------------------------
(***************************************************************************)
(* A job lives around its calls.  A rank that makes calls on a client      *)
(* finds its job submitted, by rank 0, and not terminated until the rank   *)
(* has made its last call; and nobody returns from FinalizeClient before   *)
(* the job manager was told, so a rank that goes on to MPI_Finalize leaves *)
(* no job behind.                                                          *)
(***************************************************************************)
UsedJobRuns == \A r \in Process, j \in Job : Using(r, j) => jobState[j] = "submitted"

LeavesNoJobBehind ==
    \A r \in Process : \A i \in 1 .. at[r] - 1 :
        ProgramOf[r][i].op = "Finalize" => jobState[ProgramOf[r][i].job] = "terminated"

JobOutlivesCalls == UsedJobRuns /\ LeavesNoJobBehind

(***************************************************************************)
(* Whatever the process was configured for last, MY_SERVER names a queue   *)
(* that a source task of the job drains.                                   *)
(***************************************************************************)
CallsReachServedQueue ==
    \A r \in Process, j \in Job : Using(r, j) => config[r].my < queues[j]

(***************************************************************************)
(* The barriers of constructors and of FinalizeClient never hold a rank    *)
(* for ever: when calls end, all ranks finish.                             *)
(***************************************************************************)
EveryRankFinishes ==
    (\A r \in Process : <>[]~Running(r, "Use")) => <>[](\A r \in Process : Finished(r))
=============================================================================
