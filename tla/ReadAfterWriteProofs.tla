------------------------ MODULE ReadAfterWriteProofs ------------------------
(***************************************************************************)
(* What holds of every program that uses Rhea as the library expects, for  *)
(* every number of ranks, operations, jobs and services: first of its      *)
(* ranks alone (Application), then of the ranks with the jobs they use     *)
(* (ReadAfterWrite).                                                       *)
(***************************************************************************)
EXTENDS ReadAfterWrite, FiniteSetTheorems, TLAPS

(***************************************************************************)
(* The types, and the phases of each operation.                            *)
(***************************************************************************)
Phase == {"start", "configured", "submitted", "inBarrier", "agreed", "terminated",
          "inLastBarrier"}

PhasesOf(o) ==
    IF o.op = "Client" THEN {"start", "configured", "submitted", "inBarrier"}
    ELSE IF o.op = "Finalize" THEN {"start", "inBarrier", "agreed", "terminated",
                                    "inLastBarrier"}
    ELSE {"start"}

AppTyped ==
    /\ at \in [Process -> Nat \ {0}]
    /\ phase \in [Process -> Phase]
    /\ barriers \in [Process -> Nat]
    /\ config \in [Process -> [servers : Nat, my : Nat]]
    /\ jobState \in [Job -> {"none", "submitted", "terminated"}]
    /\ queues \in [Job -> Nat]
    /\ \A r \in Process :
        \/ at[r] \in Places(r) /\ phase[r] \in PhasesOf(OperationOf(r, at[r]))
        \/ at[r] = Len(ProgramOf[r]) + 1 /\ phase[r] = "start"

(***************************************************************************)
(* A rank has entered the barriers of the operations behind it, and those  *)
(* of its current operation up to its phase.                               *)
(***************************************************************************)
Inside(r) ==
    IF phase[r] \in {"inBarrier", "agreed", "terminated"} THEN 1
    ELSE IF phase[r] = "inLastBarrier" THEN 2 ELSE 0

BarriersAreCounted ==
    \A r \in Process : barriers[r] = Entered(r, at[r] - 1) + Inside(r)

(***************************************************************************)
(* A barrier that one rank has left, all have entered.                     *)
(***************************************************************************)
InBarrier(r) == phase[r] \in {"inBarrier", "inLastBarrier"}

BarriersHold ==
    \A r, q \in Process : barriers[r] - (IF InBarrier(r) THEN 1 ELSE 0) <= barriers[q]

(***************************************************************************)
(* What the job manager was told is what rank 0 has come to.               *)
(***************************************************************************)
Reached(o, phases) ==
    \E i \in Places(0) :
        /\ OperationOf(0, i) = o
        /\ i < at[0] \/ (i = at[0] /\ phase[0] \in phases)

Submitted(j) == Reached([op |-> "Client", job |-> j], {"submitted", "inBarrier"})
Terminated(j) == Reached([op |-> "Finalize", job |-> j], {"terminated", "inLastBarrier"})

JobsFollowRoot ==
    \A j \in Job :
        jobState[j] = IF Terminated(j) THEN "terminated"
                      ELSE IF Submitted(j) THEN "submitted" ELSE "none"

AppInv == AppTyped /\ BarriersAreCounted /\ BarriersHold /\ JobsFollowRoot

(***************************************************************************)
(* A job is submitted with as many queues as its root was configured for   *)
(* in that constructor, and no configuration names another queue.          *)
(***************************************************************************)
ConfigInv ==
    /\ \A r \in Process : config[r].my < Services
    /\ \A r \in Process : phase[r] = "configured" => config[r].servers = Services
    /\ \A j \in Job : Submitted(j) => queues[j] = Services
-----------------------------------------------------------------------------
(***************************************************************************)
(* Counting barriers: an operation adds its own to those before it.        *)
(***************************************************************************)
LEMMA ProgramIsTyped ==
    ASSUME NEW r \in Process
    PROVE  /\ Places(r) = 1 .. Len(ProgramOf[r]) /\ Len(ProgramOf[r]) \in Nat
           /\ \A i \in Places(r) : OperationOf(r, i) \in Operation
<1>1. ProgramOf[r] \in Seq(Operation)
  BY ApplicationAssumption
<1>. QED BY <1>1 DEF Places, OperationOf

LEMMA EnteredIsTyped ==
    ASSUME NEW r \in Process, NEW i \in Nat
    PROVE  IsFiniteSet(Slots(r, i)) /\ Entered(r, i) \in Nat
<1>1. IsFiniteSet(1 .. i)
  BY FS_Interval
<1>2. IsFiniteSet({1, 2})
  <2>1. IsFiniteSet({1})
    BY FS_Singleton
  <2>2. {1, 2} = {1} \cup {2}
    OBVIOUS
  <2>. QED BY <2>1, <2>2, FS_AddElement
<1>3. IsFiniteSet((1 .. i) \X {1, 2})
  BY <1>1, <1>2, FS_Product
<1>4. Slots(r, i) \in SUBSET ((1 .. i) \X {1, 2})
  BY DEF Slots
<1>5. IsFiniteSet(Slots(r, i))
  BY <1>3, <1>4, FS_Subset
<1>. QED BY <1>5, FS_CardinalityType DEF Entered

LEMMA EnteredGrows ==
    ASSUME NEW r \in Process, NEW i \in Nat, NEW k \in Nat, i <= k
    PROVE  Entered(r, i) <= Entered(r, k)
<1>1. Slots(r, i) \in SUBSET Slots(r, k)
  BY DEF Slots
<1>. QED BY <1>1, EnteredIsTyped, FS_Subset DEF Entered

LEMMA EnteredStarts == ASSUME NEW r \in Process PROVE Entered(r, 0) = 0
<1>1. Slots(r, 0) = {}
  BY DEF Slots
<1>. QED BY <1>1, FS_EmptySet DEF Entered

LEMMA EnteredSteps ==
    ASSUME NEW r \in Process, NEW i \in Places(r)
    PROVE  Entered(r, i) = Entered(r, i - 1) +
               (IF OperationOf(r, i).op = "Client" THEN 1
                ELSE IF OperationOf(r, i).op = "Finalize" THEN 2 ELSE 0)
<1>. DEFINE old == Slots(r, i - 1)
            own == BarriersOf(OperationOf(r, i))
<1>1. i \in Nat \ {0} /\ i - 1 \in Nat
  BY ProgramIsTyped
<1>2. IsFiniteSet(old) /\ Cardinality(old) = Entered(r, i - 1) /\ Entered(r, i - 1) \in Nat
  BY <1>1, EnteredIsTyped DEF Entered
<1>3. \A b : <<i, b>> \notin old
  BY <1>1 DEF Slots
<1>4. Slots(r, i) = old \cup {<<i, b>> : b \in own}
  <2>1. ASSUME NEW s \in Slots(r, i) PROVE s \in old \cup {<<i, b>> : b \in own}
    <3>1. s = <<s[1], s[2]>> /\ s[1] \in 1 .. i /\ s[2] \in {1, 2} /\ s[1] \in Places(r)
          /\ s[2] \in BarriersOf(OperationOf(r, s[1]))
      BY <2>1 DEF Slots
    <3>2. CASE s[1] = i
      BY <3>1, <3>2
    <3>3. CASE s[1] \in 1 .. i - 1
      <4>1. s \in (1 .. i - 1) \X {1, 2}
        BY <3>1, <3>3
      <4>. QED BY <3>1, <4>1 DEF Slots
    <3>. QED BY <1>1, <3>1, <3>2, <3>3
  <2>2. old \subseteq Slots(r, i)
    BY <1>1 DEF Slots
  <2>3. ASSUME NEW b \in own PROVE <<i, b>> \in Slots(r, i)
    <3>1. b \in {1, 2}
      BY <2>3 DEF BarriersOf
    <3>. QED BY <1>1, <2>3, <3>1 DEF Slots
  <2>. QED BY <2>1, <2>2, <2>3
<1>. HIDE DEF old
<1>5. CASE OperationOf(r, i).op = "Client"
  <2>1. Slots(r, i) = old \cup {<<i, 1>>}
    BY <1>4, <1>5 DEF BarriersOf
  <2>. QED BY <1>2, <1>3, <1>5, <2>1, FS_AddElement DEF Entered
<1>6. CASE OperationOf(r, i).op = "Finalize"
  <2>1. Slots(r, i) = (old \cup {<<i, 1>>}) \cup {<<i, 2>>}
    BY <1>4, <1>6 DEF BarriersOf
  <2>2. /\ IsFiniteSet(old \cup {<<i, 1>>})
        /\ Cardinality(old \cup {<<i, 1>>}) = Entered(r, i - 1) + 1
    BY <1>2, <1>3, FS_AddElement
  <2>3. <<i, 2>> \notin old \cup {<<i, 1>>}
    BY <1>3
  <2>4. Cardinality((old \cup {<<i, 1>>}) \cup {<<i, 2>>}) = Entered(r, i - 1) + 1 + 1
    BY <2>2, <2>3, FS_AddElement
  <2>. QED BY <1>2, <1>6, <2>1, <2>4 DEF Entered
<1>7. CASE OperationOf(r, i).op \notin {"Client", "Finalize"}
  <2>1. Slots(r, i) = old
    BY <1>4, <1>7 DEF BarriersOf
  <2>. QED BY <1>2, <1>7, <2>1 DEF Entered
<1>. QED BY <1>5, <1>6, <1>7
-----------------------------------------------------------------------------
(***************************************************************************)
(* A rank either goes from one phase of its operation to the next or on to *)
(* its next operation, from the last phase of the one it is in.            *)
(***************************************************************************)
NextPhase ==
    {<<"Client", "start", "configured">>, <<"Client", "configured", "submitted">>,
     <<"Client", "configured", "inBarrier">>, <<"Client", "submitted", "inBarrier">>,
     <<"Finalize", "start", "inBarrier">>, <<"Finalize", "inBarrier", "agreed">>,
     <<"Finalize", "agreed", "terminated">>, <<"Finalize", "agreed", "inLastBarrier">>,
     <<"Finalize", "terminated", "inLastBarrier">>}

LastPhase ==
    {<<"Client", "inBarrier">>, <<"RegulatorClient", "start">>, <<"Use", "start">>,
     <<"Finalize", "inLastBarrier">>}

OpOf(r) == OperationOf(r, at[r]).op

GoesOn(r) ==
    /\ at' = at
    /\ <<OpOf(r), phase[r], phase'[r]>> \in NextPhase

Completes(r) ==
    /\ at'[r] = at[r] + 1
    /\ phase'[r] = "start"
    /\ <<OpOf(r), phase[r]>> \in LastPhase

LEMMA RunningIsTyped ==
    ASSUME AppTyped, NEW r \in Process, NEW o, Running(r, o)
    PROVE  /\ at[r] \in Places(r) /\ OpOf(r) = o
           /\ OperationOf(r, at[r]) = [op |-> o, job |-> Of(r)] /\ Of(r) \in Job
           /\ phase[r] \in PhasesOf(OperationOf(r, at[r]))
<1>1. at[r] \in Places(r)
  BY ProgramIsTyped DEF AppTyped, Running, Finished
<1>2. OperationOf(r, at[r]) \in Operation
  BY <1>1, ProgramIsTyped
<1>3. at[r] # Len(ProgramOf[r]) + 1
  BY <1>1, ProgramIsTyped
<1>. QED BY <1>1, <1>2, <1>3 DEF OpOf, Running, Of, OperationOf, Operation, AppTyped

LEMMA ProceedGoesOn ==
    ASSUME AppTyped, NEW r \in Process, NEW o, NEW f, NEW t,
           Running(r, o), <<o, f, t>> \in NextPhase, Proceed(r, f, t)
    PROVE  /\ at[r] \in Places(r) /\ GoesOn(r) /\ phase[r] = f /\ phase'[r] = t
           /\ \A q \in Process \ {r} : at'[q] = at[q] /\ phase'[q] = phase[q]
           /\ at' \in [Process -> Nat \ {0}] /\ phase' \in [Process -> Phase]
<1>1. at[r] \in Places(r) /\ OpOf(r) = o
  BY RunningIsTyped
<1>2. t \in Phase
  BY DEF NextPhase, Phase
<1>3. phase \in [Process -> Phase] /\ at \in [Process -> Nat \ {0}]
  BY DEF AppTyped
<1>4. phase[r] = f /\ phase' = [phase EXCEPT ![r] = t] /\ at' = at
  BY DEF Proceed
<1>5. phase'[r] = t
  BY <1>3, <1>4
<1>. QED BY <1>1, <1>2, <1>3, <1>4, <1>5 DEF GoesOn

LEMMA AdvanceCompletes ==
    ASSUME AppTyped, NEW r \in Process, at[r] \in Places(r),
           <<OpOf(r), phase[r]>> \in LastPhase, Advance(r)
    PROVE  /\ Completes(r) /\ phase'[r] = "start"
           /\ \A q \in Process \ {r} : at'[q] = at[q] /\ phase'[q] = phase[q]
           /\ at' \in [Process -> Nat \ {0}] /\ phase' \in [Process -> Phase]
<1>1. phase \in [Process -> Phase] /\ at \in [Process -> Nat \ {0}] /\ at[r] + 1 \in Nat \ {0}
  BY DEF AppTyped
<1>2. at' = [at EXCEPT ![r] = at[r] + 1] /\ phase' = [phase EXCEPT ![r] = "start"]
  BY DEF Advance
<1>3. "start" \in Phase
  BY DEF Phase
<1>. QED BY <1>1, <1>2, <1>3 DEF Completes

LEMMA RankMoves ==
    ASSUME AppTyped, NEW r \in Process, ProcessStep(r) \/ EndUse(r)
    PROVE  /\ at[r] \in Places(r)
           /\ \A q \in Process \ {r} : at'[q] = at[q] /\ phase'[q] = phase[q]
           /\ at' \in [Process -> Nat \ {0}] /\ phase' \in [Process -> Phase]
           /\ GoesOn(r) \/ Completes(r)
           /\ InBarrier(r) => Met(r)
           /\ barriers' = [barriers EXCEPT ![r] = @ + (IF InBarrier(r)' THEN 1 ELSE 0)]
<1>1. barriers = [barriers EXCEPT ![r] = @ + 0]
  BY DEF AppTyped
<1>2. CASE ConfigureRheaClient(r)
  <2>1. /\ Running(r, "Client") /\ Proceed(r, "start", "configured") /\ UNCHANGED barriers
        /\ <<"Client", "start", "configured">> \in NextPhase
    BY <1>2 DEF ConfigureRheaClient, Constructing, NextPhase
  <2>2. phase[r] = "start" /\ phase'[r] = "configured"
    BY <2>1, ProceedGoesOn
  <2>3. ~InBarrier(r) /\ ~InBarrier(r)'
    BY <2>2 DEF InBarrier
  <2>. QED BY <1>1, <2>1, <2>3, ProceedGoesOn
<1>3. CASE SubmitJob(r)
  <2>1. /\ Running(r, "Client") /\ Proceed(r, "configured", "submitted") /\ UNCHANGED barriers
        /\ <<"Client", "configured", "submitted">> \in NextPhase
    BY <1>3 DEF SubmitJob, Submits, Constructing, NextPhase
  <2>2. phase[r] = "configured" /\ phase'[r] = "submitted"
    BY <2>1, ProceedGoesOn
  <2>3. ~InBarrier(r) /\ ~InBarrier(r)'
    BY <2>2 DEF InBarrier
  <2>. QED BY <1>1, <2>1, <2>3, ProceedGoesOn
<1>4. CASE TerminateJob(r)
  <2>1. /\ Running(r, "Finalize") /\ Proceed(r, "agreed", "terminated") /\ UNCHANGED barriers
        /\ <<"Finalize", "agreed", "terminated">> \in NextPhase
    BY <1>4 DEF TerminateJob, NextPhase
  <2>2. phase[r] = "agreed" /\ phase'[r] = "terminated"
    BY <2>1, ProceedGoesOn
  <2>3. ~InBarrier(r) /\ ~InBarrier(r)'
    BY <2>2 DEF InBarrier
  <2>. QED BY <1>1, <2>1, <2>3, ProceedGoesOn
<1>5. CASE EnterBarrier(r)
  <2>1. PICK o \in {"Client", "Finalize"},
             f \in {"start", "configured", "submitted", "agreed", "terminated"},
             t \in {"inBarrier", "inLastBarrier"} :
            Running(r, o) /\ <<o, f, t>> \in NextPhase /\ Proceed(r, f, t)
    BY <1>5 DEF EnterBarrier, Submits, Constructing, NextPhase
  <2>2. barriers' = [barriers EXCEPT ![r] = @ + 1]
    BY <1>5 DEF EnterBarrier
  <2>3. ~InBarrier(r) /\ InBarrier(r)'
    BY <2>1, ProceedGoesOn DEF InBarrier
  <2>. QED BY <2>1, <2>2, <2>3, ProceedGoesOn
<1>6. ASSUME at[r] \in Places(r), <<OpOf(r), phase[r]>> \in LastPhase, Advance(r),
             UNCHANGED barriers, InBarrier(r) => Met(r)
      PROVE  /\ Completes(r)
             /\ \A q \in Process \ {r} : at'[q] = at[q] /\ phase'[q] = phase[q]
             /\ at' \in [Process -> Nat \ {0}] /\ phase' \in [Process -> Phase]
             /\ barriers' = [barriers EXCEPT ![r] = @ + (IF InBarrier(r)' THEN 1 ELSE 0)]
  <2>1. phase'[r] = "start"
    BY <1>6, AdvanceCompletes
  <2>2. ~InBarrier(r)'
    BY <2>1 DEF InBarrier
  <2>. QED BY <1>1, <1>6, <2>2, AdvanceCompletes
<1>7. CASE ConfigureByteflowRegulatorClient(r) \/ EndUse(r)
  <2>1. PICK o \in {"RegulatorClient", "Use"} : Running(r, o)
    BY <1>7 DEF ConfigureByteflowRegulatorClient, EndUse
  <2>2. /\ at[r] \in Places(r) /\ <<OpOf(r), phase[r]>> \in LastPhase
        /\ phase[r] = "start"
    BY <2>1, RunningIsTyped DEF PhasesOf, OpOf, LastPhase
  <2>3. Advance(r) /\ UNCHANGED barriers /\ ~InBarrier(r)
    BY <1>7, <2>2 DEF ConfigureByteflowRegulatorClient, EndUse, InBarrier
  <2>. QED BY <1>6, <2>2, <2>3
<1>8. CASE LeaveBarrier(r)
  <2>1. CASE Running(r, "Finalize") /\ Proceed(r, "inBarrier", "agreed")
    <3>1. <<"Finalize", "inBarrier", "agreed">> \in NextPhase
      BY DEF NextPhase
    <3>2. phase'[r] = "agreed"
      BY <2>1, <3>1, ProceedGoesOn
    <3>3. ~InBarrier(r)' /\ Met(r) /\ UNCHANGED barriers
      BY <1>8, <3>2 DEF InBarrier, LeaveBarrier
    <3>. QED BY <1>1, <2>1, <3>1, <3>3, ProceedGoesOn
  <2>2. CASE /\ \/ Constructing(r) /\ phase[r] = "inBarrier"
                \/ phase[r] = "inLastBarrier"
             /\ Advance(r)
    <3>1. at[r] \in Places(r) /\ <<OpOf(r), phase[r]>> \in LastPhase
      <4>1. CASE Constructing(r) /\ phase[r] = "inBarrier"
        BY <4>1, RunningIsTyped DEF Constructing, LastPhase
      <4>2. CASE phase[r] = "inLastBarrier"
        BY <4>2 DEF AppTyped, PhasesOf, OpOf, LastPhase
      <4>. QED BY <2>2, <4>1, <4>2
    <3>2. Met(r) /\ UNCHANGED barriers
      BY <1>8 DEF LeaveBarrier
    <3>. QED BY <1>6, <2>2, <3>1, <3>2
  <2>. QED BY <1>8, <2>1, <2>2 DEF LeaveBarrier
<1>. QED BY <1>2, <1>3, <1>4, <1>5, <1>7, <1>8 DEF ProcessStep

LEMMA AppTypedNext ==
    ASSUME AppTyped, NEW r \in Process, ProcessStep(r) \/ EndUse(r)
    PROVE  AppTyped'
<1>. USE DEF AppTyped
<1>1. /\ config' \in [Process -> [servers : Nat, my : Nat]]
      /\ jobState' \in [Job -> {"none", "submitted", "terminated"}]
      /\ queues' \in [Job -> Nat]
  <2>1. r \in Nat /\ Services \in Nat \ {0} /\ Regulators \in Nat \ {0}
    BY ApplicationAssumption DEF Process
  <2>2. r % Services \in Nat /\ r % Regulators \in Nat
    BY <2>1
  <2>3. CASE ConfigureRheaClient(r) \/ ConfigureByteflowRegulatorClient(r)
    BY <2>1, <2>2, <2>3 DEF ConfigureRheaClient, ConfigureByteflowRegulatorClient, Configured
  <2>4. CASE SubmitJob(r) \/ TerminateJob(r)
    <3>1. config[r].servers \in Nat
      OBVIOUS
    <3>. QED BY <2>4, <3>1 DEF SubmitJob, TerminateJob
  <2>5. CASE EnterBarrier(r) \/ LeaveBarrier(r) \/ EndUse(r)
    BY <2>5 DEF EnterBarrier, LeaveBarrier, EndUse
  <2>. QED BY <2>3, <2>4, <2>5 DEF ProcessStep
<1>2. \A q \in Process \ {r} : at'[q] = at[q] /\ phase'[q] = phase[q]
  BY RankMoves
<1>3. \/ at'[r] \in Places(r) /\ phase'[r] \in PhasesOf(OperationOf(r, at'[r]))
      \/ at'[r] = Len(ProgramOf[r]) + 1 /\ phase'[r] = "start"
  <2>1. at[r] \in Places(r) /\ (GoesOn(r) \/ Completes(r))
    BY RankMoves
  <2>2. CASE GoesOn(r)
    BY <2>1, <2>2 DEF GoesOn, NextPhase, OpOf, PhasesOf
  <2>3. CASE Completes(r)
    <3>1. /\ at[r] \in 1 .. Len(ProgramOf[r]) /\ Len(ProgramOf[r]) \in Nat
          /\ Places(r) = 1 .. Len(ProgramOf[r])
      BY <2>1, ProgramIsTyped
    <3>2. at'[r] \in Places(r) \/ at'[r] = Len(ProgramOf[r]) + 1
      BY <2>3, <3>1 DEF Completes
    <3>3. phase'[r] = "start" /\ "start" \in PhasesOf(OperationOf(r, at'[r]))
      BY <2>3 DEF Completes, PhasesOf
    <3>. QED BY <3>2, <3>3
  <2>. QED BY <2>1, <2>2, <2>3
<1>4. ASSUME NEW q \in Process
      PROVE  \/ at'[q] \in Places(q) /\ phase'[q] \in PhasesOf(OperationOf(q, at'[q]))
             \/ at'[q] = Len(ProgramOf[q]) + 1 /\ phase'[q] = "start"
  BY <1>2, <1>3
<1>5. at' \in [Process -> Nat \ {0}] /\ phase' \in [Process -> Phase]
  BY RankMoves
<1>6. barriers' \in [Process -> Nat]
  <2>. DEFINE d == IF InBarrier(r)' THEN 1 ELSE 0
  <2>1. barriers' = [barriers EXCEPT ![r] = @ + d] /\ d \in Nat
    BY RankMoves
  <2>. HIDE DEF d
  <2>. QED BY <2>1
<1>. QED BY <1>1, <1>4, <1>5, <1>6
-----------------------------------------------------------------------------
(***************************************************************************)
(* The barriers a rank has entered, and what that says of other ranks.     *)
(***************************************************************************)
LEMMA CountNext ==
    ASSUME AppTyped, BarriersAreCounted, NEW r \in Process, ProcessStep(r) \/ EndUse(r)
    PROVE  BarriersAreCounted'
<1>1. /\ at[r] \in Places(r) /\ (GoesOn(r) \/ Completes(r))
      /\ \A q \in Process \ {r} : at'[q] = at[q] /\ phase'[q] = phase[q]
      /\ barriers' = [barriers EXCEPT ![r] = @ + (IF InBarrier(r)' THEN 1 ELSE 0)]
  BY RankMoves
<1>2. at[r] \in Nat \ {0} /\ barriers \in [Process -> Nat]
  BY DEF AppTyped
<1>3. Entered(r, at[r] - 1) \in Nat
  BY <1>2, EnteredIsTyped
<1>4. barriers'[r] = Entered(r, at'[r] - 1) + Inside(r)'
  <2>1. CASE GoesOn(r)
    <3>1. Inside(r)' = Inside(r) + (IF InBarrier(r)' THEN 1 ELSE 0)
      <4>1. <<phase[r], phase'[r]>> \in
                {<<"start", "configured">>, <<"configured", "submitted">>,
                 <<"configured", "inBarrier">>, <<"submitted", "inBarrier">>,
                 <<"start", "inBarrier">>, <<"inBarrier", "agreed">>,
                 <<"agreed", "terminated">>, <<"agreed", "inLastBarrier">>,
                 <<"terminated", "inLastBarrier">>}
        BY <2>1 DEF GoesOn, NextPhase
      <4>2. CASE phase[r] \in {"start", "configured", "submitted"}
        <5>1. phase'[r] \in {"configured", "submitted"} \/ phase'[r] = "inBarrier"
          BY <4>1, <4>2
        <5>2. Inside(r) = 0
          BY <4>2 DEF Inside
        <5>3. CASE phase'[r] \in {"configured", "submitted"}
          <6>1. Inside(r)' = 0 /\ ~InBarrier(r)'
            BY <5>3 DEF Inside, InBarrier
          <6>. QED BY <5>2, <6>1
        <5>4. CASE phase'[r] = "inBarrier"
          <6>1. Inside(r)' = 1 /\ InBarrier(r)'
            BY <5>4 DEF Inside, InBarrier
          <6>. QED BY <5>2, <6>1
        <5>. QED BY <5>1, <5>3, <5>4
      <4>3. CASE phase[r] \in {"inBarrier", "agreed", "terminated"}
        <5>1. phase'[r] \in {"agreed", "terminated"} \/ phase'[r] = "inLastBarrier"
          BY <4>1, <4>3
        <5>2. Inside(r) = 1
          BY <4>3 DEF Inside
        <5>3. CASE phase'[r] \in {"agreed", "terminated"}
          <6>1. Inside(r)' = 1 /\ ~InBarrier(r)'
            BY <5>3 DEF Inside, InBarrier
          <6>. QED BY <5>2, <6>1
        <5>4. CASE phase'[r] = "inLastBarrier"
          <6>1. Inside(r)' = 2 /\ InBarrier(r)'
            BY <5>4 DEF Inside, InBarrier
          <6>. QED BY <5>2, <6>1
        <5>. QED BY <5>1, <5>3, <5>4
      <4>. QED BY <4>1, <4>2, <4>3
    <3>2. Inside(r) \in Nat
      BY DEF Inside
    <3>. QED BY <1>1, <1>2, <1>3, <2>1, <3>1, <3>2 DEF GoesOn, BarriersAreCounted
  <2>2. CASE Completes(r)
    <3>1. Inside(r)' = 0 /\ ~InBarrier(r)' /\ at'[r] - 1 = at[r]
      BY <1>2, <2>2 DEF Completes, Inside, InBarrier
    <3>2. Entered(r, at[r]) = Entered(r, at[r] - 1) + Inside(r)
      BY <1>1, <1>3, <2>2, EnteredSteps DEF Completes, LastPhase, Inside, OpOf
    <3>. QED BY <1>1, <1>2, <1>3, <3>1, <3>2 DEF BarriersAreCounted, Inside
  <2>. QED BY <1>1, <2>1, <2>2
<1>5. ASSUME NEW q \in Process, q # r PROVE barriers'[q] = Entered(q, at'[q] - 1) + Inside(q)'
  BY <1>1, <1>2, <1>5 DEF BarriersAreCounted, Inside
<1>. QED BY <1>4, <1>5 DEF BarriersAreCounted

LEMMA HoldNext ==
    ASSUME AppTyped, BarriersHold, NEW r \in Process, ProcessStep(r) \/ EndUse(r)
    PROVE  BarriersHold'
<1>1. /\ GoesOn(r) \/ Completes(r)
      /\ \A q \in Process \ {r} : at'[q] = at[q] /\ phase'[q] = phase[q]
      /\ InBarrier(r) => Met(r)
      /\ barriers' = [barriers EXCEPT ![r] = @ + (IF InBarrier(r)' THEN 1 ELSE 0)]
  BY RankMoves
<1>2. barriers \in [Process -> Nat]
  BY DEF AppTyped
<1>3. /\ barriers'[r] = barriers[r] + (IF InBarrier(r)' THEN 1 ELSE 0)
      /\ \A q \in Process \ {r} : barriers'[q] = barriers[q]
  BY <1>1, <1>2
<1>4. \A q \in Process : barriers[q] <= barriers'[q] /\ barriers'[q] \in Nat
  BY <1>2, <1>3
<1>5. ASSUME NEW q \in Process
      PROVE  barriers'[r] - (IF InBarrier(r)' THEN 1 ELSE 0) <= barriers'[q]
  <2>1. barriers[r] <= barriers[q]
    BY <1>1, <1>2 DEF Met, BarriersHold
  <2>. QED BY <1>2, <1>3, <1>4, <2>1
<1>6. ASSUME NEW p \in Process, NEW q \in Process, p # r
      PROVE  barriers'[p] - (IF InBarrier(p)' THEN 1 ELSE 0) <= barriers'[q]
  <2>1. InBarrier(p)' <=> InBarrier(p)
    BY <1>1, <1>6 DEF InBarrier
  <2>2. barriers[p] - (IF InBarrier(p) THEN 1 ELSE 0) <= barriers[q]
    BY DEF BarriersHold
  <2>. QED BY <1>2, <1>3, <1>4, <1>6, <2>1, <2>2
<1>. QED BY <1>5, <1>6 DEF BarriersHold

(***************************************************************************)
(* A rank that has entered n barriers more than those before operation k   *)
(* is past k, or in it and n barriers deep.                                *)
(***************************************************************************)
LEMMA CountTellsPlace ==
    ASSUME AppTyped, BarriersAreCounted, NEW q \in Process, NEW k \in Places(q), NEW n \in Nat,
           n > 0, barriers[q] >= Entered(q, k - 1) + n
    PROVE  k < at[q] \/ (k = at[q] /\ Inside(q) >= n)
<1>1. /\ at[q] \in Nat \ {0} /\ k \in Nat \ {0} /\ at[q] - 1 \in Nat /\ k - 1 \in Nat
  <2>1. at[q] \in Nat \ {0}
    BY DEF AppTyped
  <2>2. k \in 1 .. Len(ProgramOf[q]) /\ Len(ProgramOf[q]) \in Nat
    BY ProgramIsTyped
  <2>. QED BY <2>1, <2>2
<1>2. /\ Entered(q, k - 1) \in Nat /\ Entered(q, at[q] - 1) \in Nat /\ Entered(q, at[q]) \in Nat
      /\ Inside(q) \in Nat
  BY <1>1, EnteredIsTyped DEF Inside
<1>3. barriers[q] = Entered(q, at[q] - 1) + Inside(q)
  BY DEF BarriersAreCounted
<1>4. CASE k = at[q]
  BY <1>2, <1>3, <1>4
<1>5. CASE at[q] < k
  <2>1. at[q] \in Places(q)
    BY <1>1, <1>5, ProgramIsTyped
  <2>2. phase[q] \in PhasesOf(OperationOf(q, at[q]))
    <3>1. "start" \in PhasesOf(OperationOf(q, at[q]))
      BY DEF PhasesOf
    <3>. QED BY <3>1 DEF AppTyped
  <2>3. Entered(q, at[q] - 1) + Inside(q) <= Entered(q, at[q])
    <3>. DEFINE o == OperationOf(q, at[q])
    <3>1. Inside(q) <= (IF o.op = "Client" THEN 1 ELSE IF o.op = "Finalize" THEN 2 ELSE 0)
      <4>1. CASE o.op = "Client"
        <5>1. phase[q] \in {"start", "configured", "submitted", "inBarrier"}
          BY <2>2, <4>1 DEF PhasesOf
        <5>2. Inside(q) \in {0, 1}
          BY <5>1 DEF Inside
        <5>. QED BY <4>1, <5>2
      <4>2. CASE o.op = "Finalize"
        <5>1. Inside(q) \in {0, 1, 2} /\ o.op # "Client"
          BY <4>2 DEF Inside
        <5>. QED BY <4>2, <5>1
      <4>3. CASE o.op # "Client" /\ o.op # "Finalize"
        <5>1. phase[q] = "start"
          BY <2>2, <4>3 DEF PhasesOf
        <5>2. Inside(q) = 0
          BY <5>1 DEF Inside
        <5>. QED BY <4>3, <5>2
      <4>. QED BY <4>1, <4>2, <4>3
    <3>2. Entered(q, at[q]) = Entered(q, at[q] - 1) +
              (IF o.op = "Client" THEN 1 ELSE IF o.op = "Finalize" THEN 2 ELSE 0)
      BY <2>1, EnteredSteps
    <3>. HIDE DEF o
    <3>. QED BY <1>2, <3>1, <3>2
  <2>4. Entered(q, at[q]) <= Entered(q, k - 1)
    BY <1>1, <1>5, EnteredGrows
  <2>. QED BY <1>2, <1>3, <2>3, <2>4
<1>. QED BY <1>1, <1>4, <1>5

(***************************************************************************)
(* The barriers of one collective operation are the same in every rank, so *)
(* if one rank has left n of them, another has entered n of them.          *)
(***************************************************************************)
LEMMA CollectivesMeet ==
    ASSUME SameCollectives, AppTyped, BarriersAreCounted, BarriersHold,
           NEW r \in Process, NEW i \in Places(r), OperationOf(r, i).op \in {"Client", "Finalize"},
           NEW n \in {1, 2},
           barriers[r] - (IF InBarrier(r) THEN 1 ELSE 0) >= Entered(r, i - 1) + n,
           NEW q \in Process
    PROVE  \E k \in Places(q) :
               /\ OperationOf(q, k) = OperationOf(r, i)
               /\ k < at[q] \/ (k = at[q] /\ Inside(q) >= n)
<1>1. PICK k \in Places(q) :
          OperationOf(q, k) = OperationOf(r, i) /\ Entered(q, k) = Entered(r, i)
  <2>1. BarriersOf(OperationOf(r, i)) # {}
    BY DEF BarriersOf
  <2>. QED BY <2>1 DEF SameCollectives
<1>2. /\ i - 1 \in Nat /\ k - 1 \in Nat
      /\ Entered(r, i - 1) \in Nat /\ Entered(q, k - 1) \in Nat
  <2>1. i \in 1 .. Len(ProgramOf[r]) /\ Len(ProgramOf[r]) \in Nat
    BY ProgramIsTyped
  <2>2. k \in 1 .. Len(ProgramOf[q]) /\ Len(ProgramOf[q]) \in Nat
    BY ProgramIsTyped
  <2>3. i - 1 \in Nat /\ k - 1 \in Nat
    BY <2>1, <2>2
  <2>. QED BY <2>3, EnteredIsTyped
<1>3. Entered(q, k - 1) = Entered(r, i - 1)
  BY <1>1, <1>2, EnteredSteps
<1>4. barriers[r] \in Nat /\ barriers[q] \in Nat
  BY DEF AppTyped
<1>5. barriers[q] >= Entered(q, k - 1) + n
  BY <1>2, <1>3, <1>4 DEF BarriersHold
<1>. QED BY <1>1, <1>5, CountTellsPlace
-----------------------------------------------------------------------------
(***************************************************************************)
(* Rank 0, which alone talks to the job manager.                           *)
(***************************************************************************)
LEMMA RootIsProcess == 0 \in Process /\ \A r \in Process : r \in Nat
BY ApplicationAssumption DEF Process

Here == OperationOf(0, at[0])

Past(o) == \E i \in Places(0) : OperationOf(0, i) = o /\ i < at[0]

LEMMA ReachedIsHereOrPast ==
    ASSUME AppTyped, at[0] \in Places(0), NEW o, NEW S
    PROVE  /\ Reached(o, S) <=> Past(o) \/ (Here = o /\ phase[0] \in S)
           /\ GoesOn(0) => (Reached(o, S)' <=> Past(o) \/ (Here = o /\ phase'[0] \in S))
           /\ Completes(0) /\ "start" \notin S => (Reached(o, S)' <=> Past(o) \/ Here = o)
<1>. Places(0) = 1 .. Len(ProgramOf[0]) /\ Len(ProgramOf[0]) \in Nat /\ at[0] \in Nat
  BY RootIsProcess, ProgramIsTyped DEF AppTyped
<1>1. Reached(o, S) <=> Past(o) \/ (Here = o /\ phase[0] \in S)
  BY DEF Reached, Past, Here
<1>2. GoesOn(0) => (Reached(o, S)' <=> Past(o) \/ (Here = o /\ phase'[0] \in S))
  BY DEF Reached, Past, Here, GoesOn
<1>3. ASSUME Completes(0), "start" \notin S
      PROVE  Reached(o, S)' <=> Past(o) \/ Here = o
  <2>1. at'[0] = at[0] + 1 /\ phase'[0] \notin S
    BY <1>3 DEF Completes
  <2>2. \A i \in Places(0) : i < at'[0] <=> i < at[0] \/ i = at[0]
    BY <2>1
  <2>. QED BY <2>1, <2>2 DEF Reached, Past, Here
<1>. QED BY <1>1, <1>2, <1>3

LEMMA RootMoves ==
    ASSUME AppTyped, ProcessStep(0) \/ EndUse(0), ~SubmitJob(0), ~TerminateJob(0)
    PROVE  \/ /\ GoesOn(0)
              /\ <<OpOf(0), phase[0], phase'[0]>> \in
                    {<<"Client", "start", "configured">>, <<"Client", "submitted", "inBarrier">>,
                     <<"Finalize", "start", "inBarrier">>, <<"Finalize", "inBarrier", "agreed">>,
                     <<"Finalize", "terminated", "inLastBarrier">>}
           \/ Completes(0)
<1>. USE RootIsProcess
<1>1. GoesOn(0) \/ Completes(0)
  BY RankMoves
<1>2. ASSUME GoesOn(0)
      PROVE  <<OpOf(0), phase[0], phase'[0]>> \notin
                 {<<"Client", "configured", "submitted">>, <<"Client", "configured", "inBarrier">>,
                  <<"Finalize", "agreed", "terminated">>, <<"Finalize", "agreed", "inLastBarrier">>}
  <2>1. CASE ConfigureRheaClient(0)
    BY <2>1 DEF ConfigureRheaClient, Proceed
  <2>2. CASE ConfigureByteflowRegulatorClient(0) \/ EndUse(0)
    <3>1. Running(0, "RegulatorClient") \/ Running(0, "Use")
      BY <2>2 DEF ConfigureByteflowRegulatorClient, EndUse
    <3>2. OpOf(0) \in {"RegulatorClient", "Use"}
      BY <3>1, RunningIsTyped
    <3>. QED BY <3>2
  <2>3. CASE EnterBarrier(0)
    <3>1. phase[0] \notin {"configured", "agreed"}
      BY <2>3 DEF EnterBarrier, Submits, Proceed
    <3>. QED BY <3>1
  <2>4. CASE LeaveBarrier(0)
    <3>1. phase[0] \in {"inBarrier", "inLastBarrier"}
      BY <2>4 DEF LeaveBarrier, Proceed
    <3>. QED BY <3>1
  <2>. QED BY <2>1, <2>2, <2>3, <2>4 DEF ProcessStep
<1>. QED BY <1>1, <1>2 DEF GoesOn, NextPhase

(***************************************************************************)
(* Only the submission and the termination bring rank 0 further with a     *)
(* job.                                                                    *)
(***************************************************************************)
LEMMA OthersReachNothing ==
    ASSUME AppTyped, NEW r \in Process, ProcessStep(r) \/ EndUse(r),
           ~SubmitJob(r), ~TerminateJob(r), NEW j \in Job
    PROVE  /\ Submitted(j)' <=> Submitted(j)
           /\ Terminated(j)' <=> Terminated(j)
<1>. USE RootIsProcess
<1>1. CASE r # 0
  <2>1. at'[0] = at[0] /\ phase'[0] = phase[0]
    BY <1>1, RankMoves
  <2>. QED BY <2>1 DEF Submitted, Terminated, Reached
<1>2. CASE r = 0
  <2>. DEFINE c == [op |-> "Client", job |-> j]
              f == [op |-> "Finalize", job |-> j]
  <2>1. at[0] \in Places(0)
    BY <1>2, RankMoves
  <2>2. (Here = c => OpOf(0) = "Client") /\ (Here = f => OpOf(0) = "Finalize")
    BY DEF Here, OpOf
  <2>3. CASE GoesOn(0)
    <3>1. <<OpOf(0), phase[0], phase'[0]>> \in
              {<<"Client", "start", "configured">>, <<"Client", "submitted", "inBarrier">>,
               <<"Finalize", "start", "inBarrier">>, <<"Finalize", "inBarrier", "agreed">>,
               <<"Finalize", "terminated", "inLastBarrier">>}
      <4>1. ~Completes(0)
        BY <2>3 DEF GoesOn, Completes, AppTyped
      <4>. QED BY <1>2, <4>1, RootMoves
    <3>2. OpOf(0) = "Client" => (phase'[0] \in {"submitted", "inBarrier"} <=>
                                 phase[0] \in {"submitted", "inBarrier"})
      BY <3>1
    <3>3. OpOf(0) = "Finalize" => (phase'[0] \in {"terminated", "inLastBarrier"} <=>
                                   phase[0] \in {"terminated", "inLastBarrier"})
      BY <3>1
    <3>4. Submitted(j)' <=> Submitted(j)
      BY <2>1, <2>2, <2>3, <3>2, ReachedIsHereOrPast DEF Submitted
    <3>5. Terminated(j)' <=> Terminated(j)
      BY <2>1, <2>2, <2>3, <3>3, ReachedIsHereOrPast DEF Terminated
    <3>. QED BY <3>4, <3>5
  <2>4. CASE Completes(0)
    <3>1. OpOf(0) = "Client" => phase[0] \in {"submitted", "inBarrier"}
      BY <2>4 DEF Completes, LastPhase
    <3>2. OpOf(0) = "Finalize" => phase[0] \in {"terminated", "inLastBarrier"}
      BY <2>4 DEF Completes, LastPhase
    <3>3. "start" \notin {"submitted", "inBarrier"}
          /\ "start" \notin {"terminated", "inLastBarrier"}
      OBVIOUS
    <3>4. Submitted(j)' <=> Submitted(j)
      BY <2>1, <2>2, <2>4, <3>1, <3>3, ReachedIsHereOrPast DEF Submitted
    <3>5. Terminated(j)' <=> Terminated(j)
      BY <2>1, <2>2, <2>4, <3>2, <3>3, ReachedIsHereOrPast DEF Terminated
    <3>. QED BY <3>4, <3>5
  <2>. QED BY <1>2, <2>3, <2>4, RootMoves
<1>. QED BY <1>1, <1>2

LEMMA SubmitReaches ==
    ASSUME FinalizedLast, AppTyped, NEW r \in Process, SubmitJob(r)
    PROVE  /\ r = 0 /\ Of(r) \in Job /\ phase[r] = "configured"
           /\ \A j \in Job : /\ Submitted(j)' <=> Submitted(j) \/ j = Of(r)
                             /\ Terminated(j)' <=> Terminated(j)
           /\ ~Terminated(Of(r))
<1>. USE RootIsProcess
<1>1. r = 0 /\ Running(0, "Client") /\ Proceed(0, "configured", "submitted")
  BY DEF SubmitJob, Submits, Constructing
<1>2. <<"Client", "configured", "submitted">> \in NextPhase
  BY DEF NextPhase
<1>3. /\ at[0] \in Places(0) /\ GoesOn(0) /\ phase[0] = "configured" /\ phase'[0] = "submitted"
      /\ Here = [op |-> "Client", job |-> Of(0)] /\ Of(0) \in Job
  BY <1>1, <1>2, ProceedGoesOn, RunningIsTyped DEF Here
<1>4. ASSUME NEW j \in Job
      PROVE  /\ Submitted(j)' <=> Submitted(j) \/ j = Of(0)
             /\ Terminated(j)' <=> Terminated(j)
  <2>1. /\ Here = [op |-> "Client", job |-> j] <=> j = Of(0)
        /\ Here # [op |-> "Finalize", job |-> j]
    BY <1>3
  <2>2. Submitted(j)' <=> Submitted(j) \/ j = Of(0)
    BY <1>3, <2>1, ReachedIsHereOrPast DEF Submitted
  <2>3. Terminated(j)' <=> Terminated(j)
    BY <1>3, <2>1, ReachedIsHereOrPast DEF Terminated
  <2>. QED BY <2>2, <2>3
<1>5. ASSUME Terminated(Of(0)) PROVE FALSE
  <2>1. PICK k \in Places(0) : /\ OperationOf(0, k) = [op |-> "Finalize", job |-> Of(0)]
                               /\ k < at[0] \/ k = at[0]
    BY <1>5 DEF Terminated, Reached
  <2>2. at[0] < k
    BY <1>3, <2>1 DEF FinalizedLast, Here
  <2>3. k \in Int /\ at[0] \in Int
    BY <1>3, ProgramIsTyped
  <2>. QED BY <2>1, <2>2, <2>3
<1>. QED BY <1>1, <1>3, <1>4, <1>5

LEMMA TerminateReaches ==
    ASSUME AppTyped, NEW r \in Process, TerminateJob(r)
    PROVE  /\ r = 0 /\ Of(r) \in Job
           /\ \A j \in Job : /\ Submitted(j)' <=> Submitted(j)
                             /\ Terminated(j)' <=> Terminated(j) \/ j = Of(r)
<1>. USE RootIsProcess
<1>1. r = 0 /\ Running(0, "Finalize") /\ Proceed(0, "agreed", "terminated")
  BY DEF TerminateJob
<1>2. <<"Finalize", "agreed", "terminated">> \in NextPhase
  BY DEF NextPhase
<1>3. /\ at[0] \in Places(0) /\ GoesOn(0) /\ phase[0] = "agreed" /\ phase'[0] = "terminated"
      /\ Here = [op |-> "Finalize", job |-> Of(0)] /\ Of(0) \in Job
  BY <1>1, <1>2, ProceedGoesOn, RunningIsTyped DEF Here
<1>4. ASSUME NEW j \in Job
      PROVE  /\ Submitted(j)' <=> Submitted(j)
             /\ Terminated(j)' <=> Terminated(j) \/ j = Of(0)
  <2>1. /\ Here = [op |-> "Finalize", job |-> j] <=> j = Of(0)
        /\ Here # [op |-> "Client", job |-> j]
    BY <1>3
  <2>2. Submitted(j)' <=> Submitted(j)
    BY <1>3, <2>1, ReachedIsHereOrPast DEF Submitted
  <2>3. Terminated(j)' <=> Terminated(j) \/ j = Of(0)
    BY <1>3, <2>1, ReachedIsHereOrPast DEF Terminated
  <2>. QED BY <2>2, <2>3
<1>. QED BY <1>1, <1>3, <1>4

LEMMA FollowNext ==
    ASSUME FinalizedLast, AppTyped, JobsFollowRoot,
           NEW r \in Process, ProcessStep(r) \/ EndUse(r)
    PROVE  JobsFollowRoot'
<1>0. jobState \in [Job -> {"none", "submitted", "terminated"}]
  BY DEF AppTyped
<1>1. CASE SubmitJob(r)
  <2>1. jobState' = [jobState EXCEPT ![Of(r)] = "submitted"]
    BY <1>1 DEF SubmitJob
  <2>. QED BY <1>0, <1>1, <2>1, SubmitReaches DEF JobsFollowRoot
<1>2. CASE TerminateJob(r)
  <2>1. jobState' = [jobState EXCEPT ![Of(r)] = "terminated"]
    BY <1>2 DEF TerminateJob
  <2>. QED BY <1>0, <1>2, <2>1, TerminateReaches DEF JobsFollowRoot
<1>3. CASE ~SubmitJob(r) /\ ~TerminateJob(r)
  <2>1. jobState' = jobState
    BY <1>3 DEF ProcessStep, ConfigureRheaClient, ConfigureByteflowRegulatorClient, EnterBarrier,
                LeaveBarrier, EndUse
  <2>2. ASSUME NEW j \in Job
        PROVE  jobState'[j] = IF Terminated(j)' THEN "terminated"
                              ELSE IF Submitted(j)' THEN "submitted" ELSE "none"
    <3>1. (Submitted(j)' <=> Submitted(j)) /\ (Terminated(j)' <=> Terminated(j))
      BY <1>3, OthersReachNothing
    <3>. QED BY <2>1, <3>1 DEF JobsFollowRoot
  <2>. QED BY <2>2 DEF JobsFollowRoot
<1>. QED BY <1>1, <1>2, <1>3

LEMMA ConfigNext ==
    ASSUME FinalizedLast, Regulators <= Services, AppTyped, ConfigInv,
           NEW r \in Process, ProcessStep(r) \/ EndUse(r)
    PROVE  ConfigInv'
<1>0. /\ config \in [Process -> [servers : Nat, my : Nat]] /\ queues \in [Job -> Nat]
      /\ Services \in Nat \ {0} /\ Regulators \in Nat \ {0} /\ r \in Nat
  BY RootIsProcess, ApplicationAssumption DEF AppTyped
<1>1. \A q \in Process \ {r} : phase'[q] = phase[q]
  BY RankMoves
<1>2. CASE SubmitJob(r)
  <2>1. /\ config' = config /\ queues' = [queues EXCEPT ![Of(r)] = config[r].servers]
        /\ Running(r, "Client") /\ Proceed(r, "configured", "submitted")
    BY <1>2 DEF SubmitJob, Submits, Constructing
  <2>2. /\ phase[r] = "configured" /\ Of(r) \in Job
        /\ \A j \in Job : Submitted(j)' <=> Submitted(j) \/ j = Of(r)
    BY <1>2, SubmitReaches
  <2>3. phase'[r] = "submitted"
    <3>1. phase' = [phase EXCEPT ![r] = "submitted"] /\ phase \in [Process -> Phase]
      BY <2>1 DEF Proceed, AppTyped
    <3>. QED BY <3>1
  <2>4. config[r].servers = Services
    BY <2>2 DEF ConfigInv
  <2>5. \A j \in Job : queues'[j] = IF j = Of(r) THEN Services ELSE queues[j]
    BY <1>0, <2>1, <2>4
  <2>. QED BY <1>1, <2>1, <2>2, <2>3, <2>5 DEF ConfigInv
<1>3. CASE ~SubmitJob(r)
  <2>1. queues' = queues
    BY <1>3 DEF ProcessStep, ConfigureRheaClient, ConfigureByteflowRegulatorClient, EnterBarrier,
                LeaveBarrier, EndUse, TerminateJob
  <2>2. \A j \in Job : Submitted(j)' <=> Submitted(j)
    BY <1>3, TerminateReaches, OthersReachNothing
  <2>3. /\ \A q \in Process : config'[q].my < Services
        /\ \A q \in Process : phase'[q] = "configured" => config'[q].servers = Services
    <3>1. CASE ConfigureRheaClient(r)
      <4>1. config' = [config EXCEPT ![r] = [servers |-> Services, my |-> r % Services]]
        BY <3>1 DEF ConfigureRheaClient, Configured
      <4>2. r % Services < Services
        BY <1>0
      <4>. QED BY <1>0, <1>1, <4>1, <4>2 DEF ConfigInv
    <3>2. CASE ConfigureByteflowRegulatorClient(r)
      <4>1. config' = [config EXCEPT ![r] = [servers |-> Regulators, my |-> r % Regulators]]
        BY <3>2 DEF ConfigureByteflowRegulatorClient, Configured
      <4>2. r % Regulators < Services /\ r % Regulators \in Nat
        BY <1>0
      <4>3. phase'[r] = "start"
        <5>1. phase' = [phase EXCEPT ![r] = "start"] /\ phase \in [Process -> Phase]
          BY <3>2 DEF ConfigureByteflowRegulatorClient, Advance, AppTyped
        <5>. QED BY <5>1
      <4>. QED BY <1>0, <1>1, <4>1, <4>2, <4>3 DEF ConfigInv
    <3>3. CASE ~ConfigureRheaClient(r) /\ ~ConfigureByteflowRegulatorClient(r)
      <4>1. config' = config
        BY <1>3, <3>3 DEF ProcessStep, EnterBarrier, LeaveBarrier, EndUse, TerminateJob
      <4>2. phase'[r] # "configured"
        <5>1. PICK t \in {"inBarrier", "inLastBarrier", "agreed", "terminated", "start"} :
                  phase' = [phase EXCEPT ![r] = t]
          BY <1>3, <3>3 DEF ProcessStep, EnterBarrier, LeaveBarrier, EndUse, TerminateJob,
                            Proceed, Advance
        <5>2. phase \in [Process -> Phase]
          BY DEF AppTyped
        <5>. QED BY <5>1, <5>2
      <4>. QED BY <1>1, <4>1, <4>2 DEF ConfigInv
    <3>. QED BY <3>1, <3>2, <3>3
  <2>. QED BY <2>1, <2>2, <2>3 DEF ConfigInv
<1>. QED BY <1>2, <1>3

LEMMA AppStarts ==
    ASSUME AppInit
    PROVE  AppInv /\ ConfigInv
<1>1. /\ \A r \in Process : at[r] = 1 /\ phase[r] = "start" /\ barriers[r] = 0
      /\ config = [r \in Process |-> [servers |-> 0, my |-> 0]]
  BY DEF AppInit
<1>2. AppTyped
  <2>1. "start" \in Phase /\ \A o : "start" \in PhasesOf(o)
    BY DEF Phase, PhasesOf
  <2>2. at \in [Process -> Nat \ {0}] /\ phase \in [Process -> Phase]
        /\ barriers \in [Process -> Nat] /\ config \in [Process -> [servers : Nat, my : Nat]]
        /\ jobState \in [Job -> {"none", "submitted", "terminated"}] /\ queues \in [Job -> Nat]
    BY <2>1 DEF AppInit
  <2>3. ASSUME NEW r \in Process PROVE at[r] \in Places(r) \/ at[r] = Len(ProgramOf[r]) + 1
    <3>1. Places(r) = 1 .. Len(ProgramOf[r]) /\ Len(ProgramOf[r]) \in Nat /\ at[r] = 1
      BY <1>1, ProgramIsTyped
    <3>. QED BY <3>1
  <2>. QED BY <1>1, <2>1, <2>2, <2>3 DEF AppTyped
<1>3. BarriersAreCounted
  <2>1. ASSUME NEW r \in Process PROVE barriers[r] = Entered(r, at[r] - 1) + Inside(r)
    <3>1. Inside(r) = 0
      BY <1>1 DEF Inside
    <3>2. at[r] - 1 = 0
      BY <1>1
    <3>. QED BY <1>1, <3>1, <3>2, EnteredStarts
  <2>. QED BY <2>1 DEF BarriersAreCounted
<1>4. BarriersHold
  <2>1. \A r \in Process : ~InBarrier(r)
    BY <1>1 DEF InBarrier
  <2>. QED BY <1>1, <2>1 DEF BarriersHold
<1>5. \A j \in Job : ~Submitted(j) /\ ~Terminated(j)
  <2>1. at[0] = 1 /\ phase[0] = "start"
    BY <1>1, RootIsProcess
  <2>2. \A i \in Places(0) : ~(i < at[0])
    BY <2>1, RootIsProcess, ProgramIsTyped
  <2>. QED BY <2>1, <2>2 DEF Submitted, Terminated, Reached
<1>6. JobsFollowRoot
  BY <1>5 DEF AppInit, JobsFollowRoot
<1>7. ConfigInv
  <2>1. 0 < Services
    BY ApplicationAssumption
  <2>. QED BY <1>1, <1>5, <2>1 DEF ConfigInv
<1>. QED BY <1>2, <1>3, <1>4, <1>6, <1>7 DEF AppInv

LEMMA AppInvNext ==
    ASSUME FinalizedLast, AppInv, [AppNext]_appVars
    PROVE  AppInv' /\ (Regulators <= Services /\ ConfigInv => ConfigInv')
<1>1. CASE AppNext
  <2>1. PICK r \in Process : ProcessStep(r) \/ EndUse(r)
    BY <1>1 DEF AppNext
  <2>. QED BY <2>1, AppTypedNext, CountNext, HoldNext, FollowNext, ConfigNext DEF AppInv
<1>2. CASE UNCHANGED appVars
  BY <1>2 DEF appVars, AppInv, ConfigInv, AppTyped, BarriersAreCounted, BarriersHold,
              JobsFollowRoot, Submitted, Terminated, Reached, Inside, InBarrier
<1>. QED BY <1>1, <1>2
-----------------------------------------------------------------------------
(***************************************************************************)
(* What the invariant says of a rank that calls, and of one that has       *)
(* returned from FinalizeClient.                                           *)
(***************************************************************************)
LEMMA BehindIsEntered ==
    ASSUME AppInv, NEW r \in Process, NEW i \in Places(r), i < at[r],
           OperationOf(r, i).op \in {"Client", "Finalize"}
    PROVE  barriers[r] - (IF InBarrier(r) THEN 1 ELSE 0) >=
               Entered(r, i - 1) + (IF OperationOf(r, i).op = "Client" THEN 1 ELSE 2)
<1>1. i \in Nat \ {0} /\ i - 1 \in Nat /\ at[r] \in Nat /\ at[r] - 1 \in Nat /\ i <= at[r] - 1
  <2>1. i \in 1 .. Len(ProgramOf[r]) /\ Len(ProgramOf[r]) \in Nat
    BY ProgramIsTyped
  <2>2. at[r] \in Nat \ {0}
    BY DEF AppInv, AppTyped
  <2>. QED BY <2>1, <2>2
<1>2. /\ Entered(r, i - 1) \in Nat /\ Entered(r, i) \in Nat /\ Entered(r, at[r] - 1) \in Nat
      /\ Entered(r, i) <= Entered(r, at[r] - 1)
  BY <1>1, EnteredIsTyped, EnteredGrows
<1>3. Entered(r, i) = Entered(r, i - 1) + (IF OperationOf(r, i).op = "Client" THEN 1 ELSE 2)
  BY <1>2, EnteredSteps
<1>4. barriers[r] = Entered(r, at[r] - 1) + Inside(r) /\ barriers[r] \in Nat
  BY DEF AppInv, AppTyped, BarriersAreCounted
<1>5. Inside(r) \in Nat /\ (InBarrier(r) => Inside(r) \in {1, 2})
  BY DEF Inside, InBarrier
<1>. QED BY <1>2, <1>3, <1>4, <1>5

LEMMA UsedIsSubmitted ==
    ASSUME SameCollectives, ConstructedBeforeUse, AppInv,
           NEW r \in Process, NEW j \in Job, Using(r, j)
    PROVE  Submitted(j)
<1>. USE RootIsProcess
<1>1. Running(r, "Use") /\ Of(r) = j
  BY DEF Using
<1>2. /\ at[r] \in Places(r)
      /\ OperationOf(r, at[r]) = [op |-> "Use", job |-> j]
  BY <1>1, RunningIsTyped DEF AppInv
<1>3. PICK i \in 1 .. at[r] - 1 : OperationOf(r, i).op = "Client" /\ OperationOf(r, i).job = j
  BY <1>2 DEF ConstructedBeforeUse
<1>4. i \in Places(r) /\ i < at[r]
  BY <1>2, ProgramIsTyped
<1>5. barriers[r] - (IF InBarrier(r) THEN 1 ELSE 0) >= Entered(r, i - 1) + 1
  BY <1>3, <1>4, BehindIsEntered
<1>6. PICK k \in Places(0) :
          /\ OperationOf(0, k) = OperationOf(r, i)
          /\ k < at[0] \/ (k = at[0] /\ Inside(0) >= 1)
  BY <1>3, <1>4, <1>5, CollectivesMeet DEF AppInv
<1>7. OperationOf(0, k) = [op |-> "Client", job |-> j]
  <2>1. OperationOf(0, k) \in Operation
    BY ProgramIsTyped
  <2>. QED BY <1>3, <1>6, <2>1 DEF Operation
<1>8. k = at[0] /\ Inside(0) >= 1 => phase[0] = "inBarrier"
  <2>1. k = at[0] => phase[0] \in {"start", "configured", "submitted", "inBarrier"}
    <3>1. at[0] \in Places(0) => at[0] # Len(ProgramOf[0]) + 1
      BY ProgramIsTyped
    <3>. QED BY <1>7, <3>1 DEF AppInv, AppTyped, PhasesOf
  <2>2. phase[0] \in {"start", "configured", "submitted"} => Inside(0) = 0
    BY DEF Inside
  <2>. QED BY <2>1, <2>2
<1>. QED BY <1>6, <1>7, <1>8 DEF Submitted, Reached

LEMMA UsedIsNotTerminated ==
    ASSUME SameCollectives, FinalizedLast, AppInv,
           NEW r \in Process, NEW j \in Job, Using(r, j)
    PROVE  ~Terminated(j)
<1>. USE RootIsProcess
<1>1. /\ at[r] \in Places(r)
      /\ OperationOf(r, at[r]) = [op |-> "Use", job |-> j]
  BY RunningIsTyped DEF AppInv, Using
<1>2. SUFFICES ASSUME Terminated(j) PROVE FALSE
  OBVIOUS
<1>3. PICK i \in Places(0) :
          /\ OperationOf(0, i) = [op |-> "Finalize", job |-> j]
          /\ i < at[0] \/ (i = at[0] /\ phase[0] \in {"terminated", "inLastBarrier"})
  BY <1>2 DEF Terminated, Reached
<1>4. barriers[0] - (IF InBarrier(0) THEN 1 ELSE 0) >= Entered(0, i - 1) + 1
  <2>1. Entered(0, i - 1) \in Nat
    <3>1. i - 1 \in Nat
      BY ProgramIsTyped
    <3>. QED BY <3>1, EnteredIsTyped
  <2>2. barriers[0] \in Nat /\ barriers[0] = Entered(0, at[0] - 1) + Inside(0)
    BY DEF AppInv, AppTyped, BarriersAreCounted
  <2>3. CASE i < at[0]
    <3>1. barriers[0] - (IF InBarrier(0) THEN 1 ELSE 0) >= Entered(0, i - 1) + 2
      BY <1>3, <2>3, BehindIsEntered
    <3>. QED BY <2>1, <2>2, <3>1
  <2>4. CASE i = at[0] /\ phase[0] = "terminated"
    <3>1. Inside(0) = 1 /\ ~InBarrier(0)
      BY <2>4 DEF Inside, InBarrier
    <3>. QED BY <2>1, <2>2, <2>4, <3>1
  <2>5. CASE i = at[0] /\ phase[0] = "inLastBarrier"
    <3>1. Inside(0) = 2 /\ InBarrier(0)
      BY <2>5 DEF Inside, InBarrier
    <3>. QED BY <2>1, <2>2, <2>5, <3>1
  <2>. QED BY <1>3, <2>3, <2>4, <2>5
<1>5. PICK k \in Places(r) :
          /\ OperationOf(r, k) = OperationOf(0, i)
          /\ k < at[r] \/ k = at[r]
  BY <1>3, <1>4, CollectivesMeet DEF AppInv
<1>6. at[r] < k
  BY <1>1, <1>3, <1>5 DEF FinalizedLast
<1>7. k \in Int /\ at[r] \in Int
  BY <1>1, ProgramIsTyped
<1>. QED BY <1>5, <1>6, <1>7

LEMMA ReturnedIsTerminated ==
    ASSUME SameCollectives, AppInv, NEW r \in Process, NEW i \in 1 .. at[r] - 1,
           OperationOf(r, i).op = "Finalize"
    PROVE  OperationOf(r, i).job \in Job /\ Terminated(OperationOf(r, i).job)
<1>. USE RootIsProcess
<1>1. i \in Places(r) /\ i < at[r]
  <2>1. Places(r) = 1 .. Len(ProgramOf[r]) /\ Len(ProgramOf[r]) \in Nat
    BY ProgramIsTyped
  <2>2. at[r] \in Nat /\ (at[r] \in Places(r) \/ at[r] = Len(ProgramOf[r]) + 1)
    BY DEF AppInv, AppTyped
  <2>. QED BY <2>1, <2>2
<1>2. barriers[r] - (IF InBarrier(r) THEN 1 ELSE 0) >= Entered(r, i - 1) + 2
  BY <1>1, BehindIsEntered
<1>3. PICK k \in Places(0) :
          /\ OperationOf(0, k) = OperationOf(r, i)
          /\ k < at[0] \/ (k = at[0] /\ Inside(0) >= 2)
  BY <1>1, <1>2, CollectivesMeet DEF AppInv
<1>4. /\ OperationOf(r, i).job \in Job
      /\ OperationOf(0, k) = [op |-> "Finalize", job |-> OperationOf(r, i).job]
  <2>1. OperationOf(0, k) \in Operation
    BY ProgramIsTyped
  <2>. QED BY <1>3, <2>1 DEF Operation
<1>5. Inside(0) >= 2 => phase[0] = "inLastBarrier"
  BY DEF Inside
<1>. QED BY <1>3, <1>4, <1>5 DEF Terminated, Reached

LEMMA AppInvImplies ==
    ASSUME WellFormedProgram, AppInv
    PROVE  JobOutlivesCalls /\ (ConfigInv => CallsReachServedQueue)
<1>. USE DEF WellFormedProgram
<1>1. UsedJobRuns
  BY UsedIsSubmitted, UsedIsNotTerminated DEF UsedJobRuns, AppInv, JobsFollowRoot
<1>2. LeavesNoJobBehind
  <2>1. ASSUME NEW r \in Process, NEW i \in 1 .. at[r] - 1, ProgramOf[r][i].op = "Finalize"
        PROVE  jobState[ProgramOf[r][i].job] = "terminated"
    <3>1. ProgramOf[r][i].job \in Job /\ Terminated(ProgramOf[r][i].job)
      BY <2>1, ReturnedIsTerminated DEF OperationOf
    <3>. QED BY <3>1 DEF AppInv, JobsFollowRoot
  <2>. QED BY <2>1 DEF LeavesNoJobBehind
<1>3. ConfigInv => CallsReachServedQueue
  BY UsedIsSubmitted DEF ConfigInv, CallsReachServedQueue
<1>. QED BY <1>1, <1>2, <1>3 DEF JobOutlivesCalls
-----------------------------------------------------------------------------
(***************************************************************************)
(* In every well-formed program the jobs live around the calls (rhea.h:    *)
(* the constructor and FinalizeClient), whatever number of ranks it runs   *)
(* on and however many jobs it uses.                                       *)
(***************************************************************************)
THEOREM JobsLiveAroundCalls ==
    ASSUME WellFormedProgram
    PROVE  AppSpec => []JobOutlivesCalls
<1>1. AppInit => AppInv
  BY AppStarts
<1>2. AppInv /\ [AppNext]_appVars => AppInv'
  BY AppInvNext DEF WellFormedProgram
<1>3. AppInv => JobOutlivesCalls
  BY AppInvImplies
<1>. QED BY <1>1, <1>2, <1>3, PTL DEF AppSpec

(***************************************************************************)
(* The regulator's client overwrites MY_SERVER of the Rhea client; as long *)
(* as there are no more regulators than services, the calls still reach a  *)
(* queue that a source task drains.                                        *)
(***************************************************************************)
THEOREM QueuesOfCallsAreServed ==
    ASSUME WellFormedProgram, Regulators <= Services
    PROVE  AppSpec => []CallsReachServedQueue
<1>1. AppInit => AppInv /\ ConfigInv
  BY AppStarts
<1>2. AppInv /\ ConfigInv /\ [AppNext]_appVars => (AppInv /\ ConfigInv)'
  BY AppInvNext DEF WellFormedProgram
<1>3. AppInv /\ ConfigInv => CallsReachServedQueue
  BY AppInvImplies
<1>. QED BY <1>1, <1>2, <1>3, PTL DEF AppSpec
-----------------------------------------------------------------------------
(***************************************************************************)
(* The ranks over the two jobs take the steps of the ranks alone.          *)
(***************************************************************************)
LEMMA RanksAreApplication ==
    /\ Init => AppInit
    /\ [Next]_vars => [AppNext]_appVars
<1>1. ASSUME Next PROVE AppNext \/ UNCHANGED appVars
  <2>1. ASSUME NEW k \in Process, RankStep(k) PROVE ProcessStep(k)
    BY <2>1 DEF RankStep, ProcessStep
  <2>2. ASSUME NEW k \in Process, LeaveUse(k) PROVE EndUse(k)
    BY <2>2 DEF LeaveUse
  <2>. QED BY <1>1, <2>1, <2>2 DEF Next, AppNext
<1>. QED BY <1>1 DEF Init, vars

THEOREM JobsLiveAroundReadsAndWrites ==
    ASSUME WellFormedProgram
    PROVE  Spec => []JobOutlivesCalls
<1>1. Spec => AppSpec
  BY RanksAreApplication, PTL DEF Spec, AppSpec
<1>. QED BY <1>1, JobsLiveAroundCalls, PTL

THEOREM QueuesOfReadsAndWritesAreServed ==
    ASSUME WellFormedProgram, Regulators <= Services
    PROVE  Spec => []CallsReachServedQueue
<1>1. Spec => AppSpec
  BY RanksAreApplication, PTL DEF Spec, AppSpec
<1>. QED BY <1>1, QueuesOfCallsAreServed, PTL
-----------------------------------------------------------------------------
(***************************************************************************)
(* The two jobs, with all that is proved of each alone.                    *)
(***************************************************************************)
WP == INSTANCE RheaWriteJobProofs WITH
    Parcel <- Publication, BlockOf <- WriteBlockOf, HomeOf <- WriteHomeOf,
    RankOf <- WriteRankOf, Payload <- Publication, Collector <- WriteCollector,
    Serves <- WriteServes, Sink <- WriteSink, warehouse <- wWarehouse,
    parselState <- wState, pc <- wPc, terminated <- wTerminated, task <- wTask,
    batch <- wBatch, toSink <- wToSink, sink <- wSink, event <- wEvent,
    buffer <- wBuffer

RP == INSTANCE RheaReadJobProofs WITH
    Parcel <- Subscription,
    BlockOf <- [r \in Subscription |-> WriteBlockOf[ReadsBack[r]]],
    HomeOf <- ReadHomeOf, RankOf <- ReadRankOf, Payload <- Publication,
    Collector <- ReadCollector, Serves <- ReadServes, Sink <- ReadSink,
    warehouse <- rWarehouse, parselState <- rState, pc <- rPc,
    terminated <- rTerminated, task <- rTask, batch <- rBatch,
    toSink <- rToSink, sink <- rSink, event <- rEvent, buffer <- rBuffer

LEMMA SameWriteJob ==
    /\ W!Init <=> WP!Init
    /\ W!Next <=> WP!Next
    /\ UNCHANGED W!vars <=> UNCHANGED WP!vars
    /\ W!DistinctBlocks <=> WP!DistinctBlocks
<1>1. W!Init <=> WP!Init
  BY DEF W!Init, WP!Init, W!ClientInit, WP!ClientInit, W!StoreInit, WP!StoreInit
<1>2. W!Next <=> WP!Next
  BY
  DEF W!Next, WP!Next, W!ClientNext, WP!ClientNext, W!ClientStep, WP!ClientStep,
      W!PublishPut, WP!PublishPut, W!PublishPush, WP!PublishPush, W!PublishRecord,
      WP!PublishRecord, W!WaitBegin, WP!WaitBegin, W!WaitPoll, WP!WaitPoll, W!WaitErase,
      WP!WaitErase, W!FinalizeClient, WP!FinalizeClient, W!MayCall, WP!MayCall, W!Idle,
      WP!Idle, W!InCall, WP!InCall, W!Goto, WP!Goto, W!Put, WP!Put, W!Erase, WP!Erase,
      W!Fetched, WP!Fetched, W!SourceStep, WP!SourceStep, W!GetWriteParsel,
      WP!GetWriteParsel, W!Poll, WP!Poll, W!Pop, WP!Pop, W!PopFails, WP!PopFails, W!Stop,
      WP!Stop, W!SpoolTemp, WP!SpoolTemp, W!DeleteData, WP!DeleteData, W!MarkInProgress,
      WP!MarkInProgress, W!Emit, WP!Emit, W!Advance, WP!Advance, W!Current, WP!Current,
      W!KeyBy, WP!KeyBy, W!SinkStep, WP!SinkStep, W!ReadTemp, WP!ReadTemp, W!RemoveTemp,
      WP!RemoveTemp, W!WriteTarget, WP!WriteTarget, W!MarkDone, WP!MarkDone, W!storeVars,
      WP!storeVars, W!clientVars, WP!clientVars, W!sourceVars, WP!sourceVars, W!jobVars,
      WP!jobVars
<1>3. UNCHANGED W!vars <=> UNCHANGED WP!vars
  BY DEF W!vars, WP!vars, W!storeVars, WP!storeVars, W!clientVars, WP!clientVars,
         W!sourceVars, WP!sourceVars, W!jobVars, WP!jobVars
<1>4. W!DistinctBlocks <=> WP!DistinctBlocks
  BY DEF W!DistinctBlocks, WP!DistinctBlocks
<1>. QED BY <1>1, <1>2, <1>3, <1>4

LEMMA SameReadJob ==
    /\ R!ReadInit => RP!ReadInit
    /\ R!Init <=> RP!Init
    /\ R!JobNext <=> RP!JobNext
    /\ R!Observe <=> RP!Observe
    /\ R!Next <=> RP!Next
    /\ UNCHANGED R!vars <=> UNCHANGED RP!vars
<1>1. (R!ReadInit => RP!ReadInit) /\ (R!Init <=> RP!Init)
  BY DEF R!ReadInit, RP!ReadInit, R!Init, RP!Init, R!StoreInit, RP!StoreInit
<1>2. R!JobNext <=> RP!JobNext
  BY
  DEF R!JobNext, RP!JobNext, R!ClientCall, RP!ClientCall, R!ClientStep, RP!ClientStep,
      R!PushRead, RP!PushRead, R!Subscribe, RP!Subscribe, R!AsyncSubscribe,
      RP!AsyncSubscribe, R!WaitBegin, RP!WaitBegin, R!WaitPoll, RP!WaitPoll, R!WaitErase,
      RP!WaitErase, R!CopyOut, RP!CopyOut, R!Fetch, RP!Fetch, R!GetSubscribedData,
      RP!GetSubscribedData, R!Drop, RP!Drop, R!FinalizeClient, RP!FinalizeClient,
      R!MayCall, RP!MayCall, R!Idle, RP!Idle, R!InCall, RP!InCall, R!Goto, RP!Goto, R!Put,
      RP!Put, R!Erase, RP!Erase, R!Fetched, RP!Fetched, R!SourceStep, RP!SourceStep,
      R!Poll, RP!Poll, R!Pop, RP!Pop, R!PopFails, RP!PopFails, R!Stop, RP!Stop,
      R!MarkInProgress, RP!MarkInProgress, R!Emit, RP!Emit, R!SinkStep, RP!SinkStep,
      R!ReadTarget, RP!ReadTarget, R!PutData, RP!PutData, R!MarkDone, RP!MarkDone,
      R!sourceFrame, RP!sourceFrame, R!sinkFrame, RP!sinkFrame, R!storeVars, RP!storeVars,
      R!callVars, RP!callVars, R!sourceVars, RP!sourceVars, R!sinkVars, RP!sinkVars
<1>3. R!Observe <=> RP!Observe
  BY DEF R!Observe, RP!Observe
<1>4. R!Next <=> RP!Next
  BY <1>2, <1>3 DEF R!Next, RP!Next, R!OthersWrite, RP!OthersWrite, R!callVars, RP!callVars,
                    R!sourceVars, RP!sourceVars, R!sinkVars, RP!sinkVars
<1>5. UNCHANGED R!vars <=> UNCHANGED RP!vars
  BY DEF R!vars, RP!vars, R!storeVars, RP!storeVars, R!readVars, RP!readVars, R!callVars,
         RP!callVars, R!sourceVars, RP!sourceVars, R!sinkVars, RP!sinkVars
<1>. QED BY <1>1, <1>2, <1>3, <1>4, <1>5

(***************************************************************************)
(* What each does to the other: the read job nothing, the write job only   *)
(* what it writes into the blocks.                                         *)
(***************************************************************************)
LEMMA WriteJobSteps == [Next]_vars => [WP!Next]_(WP!vars)
<1>1. ASSUME ReadJob PROVE UNCHANGED WP!vars
  <2>1. storage' = storage
    BY <1>1
    DEF ReadJob, R!JobNext, R!ClientCall, R!ClientStep, R!PushRead, R!Subscribe,
        R!AsyncSubscribe, R!WaitBegin, R!WaitPoll, R!WaitErase, R!CopyOut, R!Fetch,
        R!GetSubscribedData, R!Drop, R!FinalizeClient, R!SourceStep, R!Poll, R!Pop,
        R!PopFails, R!Stop, R!MarkInProgress, R!Emit, R!SinkStep, R!ReadTarget, R!PutData,
        R!MarkDone, R!sourceFrame, R!storeVars
  <2>. QED
    BY <1>1, <2>1 DEF ReadJob, writeOnly, WP!vars, WP!storeVars, WP!clientVars, WP!sourceVars,
                      WP!jobVars
<1>2. ASSUME WriteJob PROVE WP!Next
  BY <1>2, SameWriteJob DEF WriteJob
<1>3. ASSUME UNCHANGED <<storage, writeOnly>> PROVE UNCHANGED WP!vars
  BY <1>3 DEF writeOnly, WP!vars, WP!storeVars, WP!clientVars, WP!sourceVars, WP!jobVars
<1>. QED BY <1>1, <1>2, <1>3 DEF Next, RankStep, LeaveUse, vars

LEMMA WriteJobHolds ==
    ASSUME W!DistinctBlocks
    PROVE  /\ Init => WP!DataInv
           /\ WP!DataInv /\ [Next]_vars => WP!DataInv'
<1>. WP!DistinctBlocks
  BY SameWriteJob
<1>1. Init => WP!Init
  BY SameWriteJob DEF Init
<1>2. WP!Init => WP!DataInv
  BY JobsAssumption, WP!TypeInit, WP!InvInit, WP!DataInit
  DEF WP!DataInv, WP!Inv, WP!TaskStatus, W!TaskStatus
<1>3. WP!DataInv /\ [WP!Next]_(WP!vars) => WP!DataInv'
  BY JobsAssumption, WP!DataNext DEF WP!TaskStatus, W!TaskStatus
<1>. QED BY <1>1, <1>2, <1>3, WriteJobSteps

(***************************************************************************)
(* A write step changes the one block its sink writes, to a payload, or    *)
(* none.                                                                   *)
(***************************************************************************)
LEMMA BlocksChangeByWrites ==
    ASSUME WP!DataInv, WP!Next
    PROVE  \/ storage' = storage
           \/ \E b \in Block, w \in Publication : storage' = [storage EXCEPT ![b] = w]
<1>1. ASSUME NEW s \in WriteSink, WP!WriteTarget(s)
      PROVE  \E b \in Block, w \in Publication : storage' = [storage EXCEPT ![b] = w]
  <2>. DEFINE w == wEvent[s]
  <2>1. wSink[s] = "write" /\ w \in Publication \cup {Nothing} /\ w # Nothing
    BY <1>1 DEF WP!WriteTarget, WP!DataInv, WP!Inv, WP!TypeOK, WP!SinksHoldEvents
  <2>2. s = WP!SinkFor(w)
    BY <2>1 DEF WP!DataInv, WP!Inv, WP!OneHolder
  <2>3. wBuffer[s] = w
    BY <2>1, <2>2 DEF WP!DataInv, WP!DataInPlace, WP!SinkData, WP!InSink
  <2>4. WriteBlockOf[w] \in Block
    BY <2>1, JobsAssumption
  <2>. QED BY <1>1, <2>1, <2>3, <2>4 DEF WP!WriteTarget
<1>. QED
  BY <1>1
  DEF WP!Next, WP!ClientNext, WP!ClientStep, WP!PublishPut, WP!PublishPush, WP!PublishRecord,
      WP!WaitBegin, WP!WaitPoll, WP!WaitErase, WP!FinalizeClient, WP!SourceStep,
      WP!GetWriteParsel, WP!Poll, WP!Pop, WP!PopFails, WP!Stop, WP!SpoolTemp, WP!DeleteData,
      WP!MarkInProgress, WP!Emit, WP!KeyBy, WP!SinkStep, WP!ReadTemp, WP!RemoveTemp,
      WP!MarkDone, WP!storeVars

(***************************************************************************)
(* To the read job it is somebody who writes a block, or nobody when the   *)
(* block held the payload already.                                         *)
(***************************************************************************)
LEMMA WritesAreSeen ==
    ASSUME RP!ReadInv, WP!DataInv, WriteJob
    PROVE  [RP!Next]_(RP!vars)
<1>1. RP!Observe /\ UNCHANGED readOnly /\ WP!Next
  BY SameWriteJob, SameReadJob DEF WriteJob
<1>2. UNCHANGED <<rWarehouse, rState, readQueue, RP!callVars, subscribed, rTerminated,
                  RP!sourceVars, rToSink, RP!sinkVars>>
  BY <1>1 DEF readOnly, RP!callVars, RP!sourceVars, RP!sinkVars
<1>3. storage \in [Block -> RP!Held] /\ seen \in [Subscription -> SUBSET RP!Held]
  BY DEF RP!ReadInv, RP!HandInv, RP!TypeInv, RP!TypeOK, RP!StoreTypeOK
<1>4. CASE storage' = storage
  <2>1. ASSUME NEW r \in Subscription, ~(rPc[r] = "new" \/ got[r] # Nothing)
        PROVE  seen[r] \cup {storage[WriteBlockOf[ReadsBack[r]]]} = seen[r]
    BY <2>1 DEF RP!ReadInv, RP!DataFits, RP!DataIsSeen
  <2>2. \A r \in Subscription : seen'[r] = seen[r]
    BY <1>1, <1>4, <2>1 DEF RP!Observe
  <2>3. seen' = seen
    BY <1>1, <1>3, <2>2 DEF RP!Observe
  <2>. QED
    BY <1>2, <1>4, <2>3
    DEF RP!vars, RP!storeVars, RP!readVars, RP!callVars, RP!sourceVars, RP!sinkVars
<1>5. ASSUME NEW b \in Block, NEW w \in Publication, storage' = [storage EXCEPT ![b] = w],
             storage' # storage
      PROVE  RP!Next
  <2>1. storage[b] # w
    BY <1>3, <1>5
  <2>2. RP!OthersWrite(b, w)
    BY <1>1, <1>2, <1>5 DEF RP!OthersWrite
  <2>. QED BY <2>1, <2>2 DEF RP!Next
<1>. QED BY <1>1, <1>4, <1>5, BlocksChangeByWrites

LEMMA ReadJobSteps ==
    ASSUME RP!ReadInv, WP!DataInv, [Next]_vars
    PROVE  [RP!Next]_(RP!vars)
<1>1. ASSUME ReadJob PROVE RP!Next
  BY <1>1, SameReadJob DEF ReadJob, RP!Next
<1>2. ASSUME UNCHANGED <<storage, readOnly, seen>> PROVE UNCHANGED RP!vars
  BY <1>2 DEF readOnly, RP!vars, RP!storeVars, RP!readVars, RP!callVars, RP!sourceVars,
              RP!sinkVars
<1>. QED BY <1>1, <1>2, WritesAreSeen DEF Next, RankStep, LeaveUse, vars

LEMMA ReadJobHolds ==
    /\ Init => RP!ReadInv
    /\ RP!ReadInv /\ WP!DataInv /\ [Next]_vars => RP!ReadInv'
<1>1. Init => RP!Init
  BY SameReadJob DEF Init, RP!Init, RP!StoreInit, W!Init, W!ClientInit, W!StoreInit
<1>. [r \in Subscription |-> WriteBlockOf[ReadsBack[r]]] \in [Subscription -> Block]
  BY JobsAssumption, ReadBackAssumption
<1>. Nothing \notin Subscription \cup Publication \cup RP!TaskStatus
  BY JobsAssumption DEF RP!TaskStatus, W!TaskStatus
<1>2. RP!Init => RP!ReadInv
  BY JobsAssumption, RP!DataInit
<1>3. RP!ReadInv /\ [RP!Next]_(RP!vars) => RP!ReadInv'
  BY JobsAssumption, RP!DataNext
<1>. QED BY <1>1, <1>2, <1>3, ReadJobSteps
-----------------------------------------------------------------------------
(***************************************************************************)
(* A rank that awaits its publication before it reads begins its call when *)
(* the block holds what it published, and nobody overwrites it.            *)
(***************************************************************************)
ReadsFollowWrites ==
    \A r \in Subscription : rPc[r] # "new" =>
        wPc[ReadsBack[r]] = "acked" /\ seen[r] \subseteq {ReadsBack[r]}

LEMMA AckedStays ==
    ASSUME WP!DataInv, WP!Next, NEW w \in Publication, wPc[w] = "acked"
    PROVE  wPc'[w] = "acked"
BY DEF WP!Next, WP!ClientNext, WP!ClientStep, WP!PublishPut, WP!PublishPush, WP!PublishRecord,
       WP!WaitBegin, WP!WaitPoll, WP!WaitErase, WP!FinalizeClient, WP!Goto, WP!SourceStep,
       WP!GetWriteParsel, WP!Poll, WP!Pop, WP!PopFails, WP!Stop, WP!SpoolTemp, WP!DeleteData,
       WP!MarkInProgress, WP!Emit, WP!KeyBy, WP!SinkStep, WP!ReadTemp, WP!RemoveTemp,
       WP!WriteTarget, WP!MarkDone, WP!clientVars, WP!DataInv, WP!Inv, WP!TypeOK,
       WP!ClientTypeOK

LEMMA CallsBegin ==
    ASSUME RP!ReadInv, RP!JobNext, NEW r \in Subscription
    PROVE  /\ rPc[r] = "new" /\ rPc'[r] # "new" =>
                  RP!PushRead(r) /\ rTerminated' = rTerminated
           /\ rPc[r] # "new" => seen'[r] = seen[r]
<1>. USE DEF RP!ReadInv, RP!HandInv, RP!TypeInv, RP!TypeOK
<1>1. ASSUME NEW p \in Subscription, RP!Subscribe(p) \/ RP!AsyncSubscribe(p)
      PROVE  /\ rPc[p] = "new" /\ \A q \in Subscription \ {p} : seen'[q] = seen[q] /\ rPc'[q] = rPc[q]
             /\ RP!PushRead(p) /\ rTerminated' = rTerminated
  BY <1>1 DEF RP!Subscribe, RP!AsyncSubscribe, RP!PushRead, RP!Goto
<1>2. ASSUME NEW p \in Subscription,
             \/ RP!WaitBegin(p) \/ RP!GetSubscribedData(p) \/ RP!ClientStep(p)
      PROVE  rPc[p] # "new" /\ seen' = seen /\ \A q \in Subscription \ {p} : rPc'[q] = rPc[q]
  BY <1>2 DEF RP!WaitBegin, RP!GetSubscribedData, RP!ClientStep, RP!WaitPoll, RP!WaitErase,
              RP!Fetch, RP!CopyOut, RP!Drop, RP!Goto
<1>3. ASSUME \/ RP!FinalizeClient
             \/ \E c \in ReadCollector : RP!SourceStep(c)
             \/ \E s \in ReadSink : RP!SinkStep(s)
      PROVE  rPc' = rPc /\ seen' = seen
  BY <1>3 DEF RP!FinalizeClient, RP!SourceStep, RP!Poll, RP!Pop, RP!PopFails, RP!Stop,
              RP!MarkInProgress, RP!Emit, RP!SinkStep, RP!ReadTarget, RP!PutData, RP!MarkDone,
              RP!sourceFrame, RP!sinkFrame, RP!callVars
<1>. QED BY <1>1, <1>2, <1>3 DEF RP!JobNext, RP!ClientCall

LEMMA FollowsWrites ==
    ASSUME AwaitFirst, WP!DataInv, WP!DataInv', RP!ReadInv, ReadsFollowWrites, [Next]_vars
    PROVE  ReadsFollowWrites'
<1>. USE ReadBackAssumption
<1>1. \A w \in Publication : wPc[w] = "acked" => storage[WriteBlockOf[w]] = w
  BY DEF WP!DataInv, WP!DoneIsDurable
<1>2. \A w \in Publication : wPc'[w] = "acked" => storage'[WriteBlockOf[w]] = w
  BY DEF WP!DataInv, WP!DoneIsDurable
<1>3. CASE WriteJob
  <2>1. RP!Observe /\ rPc' = rPc /\ WP!Next
    BY <1>3, SameWriteJob, SameReadJob DEF WriteJob, readOnly
  <2>2. ASSUME NEW r \in Subscription, rPc'[r] # "new"
        PROVE  wPc'[ReadsBack[r]] = "acked" /\ seen'[r] \subseteq {ReadsBack[r]}
    <3>1. wPc[ReadsBack[r]] = "acked" /\ seen[r] \subseteq {ReadsBack[r]}
      BY <2>1, <2>2 DEF ReadsFollowWrites
    <3>2. wPc'[ReadsBack[r]] = "acked"
      BY <2>1, <3>1, AckedStays
    <3>3. storage'[WriteBlockOf[ReadsBack[r]]] = ReadsBack[r]
      BY <1>2, <3>2
    <3>4. \/ seen'[r] = seen[r]
          \/ seen'[r] = seen[r] \cup {storage'[WriteBlockOf[ReadsBack[r]]]}
      BY <2>1 DEF RP!Observe
    <3>. QED BY <3>1, <3>2, <3>3, <3>4
  <2>. QED BY <2>2 DEF ReadsFollowWrites
<1>4. CASE ReadJob /\ (ReadCallsInProgram \/ rTerminated' # rTerminated)
  <2>1. wPc' = wPc /\ RP!JobNext
    BY <1>4, SameReadJob DEF ReadJob, writeOnly
  <2>2. ASSUME NEW r \in Subscription, rPc[r] = "new", rPc'[r] # "new"
        PROVE  /\ wPc[ReadsBack[r]] = "acked"
               /\ seen'[r] = {storage[WriteBlockOf[ReadsBack[r]]]}
    <3>1. RP!PushRead(r) /\ rTerminated' = rTerminated
      BY <2>1, <2>2, CallsBegin
    <3>2. seen'[r] = {storage[WriteBlockOf[ReadsBack[r]]]}
      BY <3>1 DEF RP!PushRead, RP!ReadInv, RP!HandInv, RP!TypeInv, RP!TypeOK
    <3>3. MayRead(r)
      BY <1>4, <2>2, <3>1 DEF ReadCallsInProgram
    <3>. QED BY <3>2, <3>3 DEF MayRead
  <2>3. ASSUME NEW r \in Subscription, rPc[r] # "new"
        PROVE  seen'[r] = seen[r]
    BY <2>1, <2>3, CallsBegin
  <2>4. ASSUME NEW r \in Subscription, rPc'[r] # "new"
        PROVE  wPc'[ReadsBack[r]] = "acked" /\ seen'[r] \subseteq {ReadsBack[r]}
    <3>1. CASE rPc[r] = "new"
      BY <1>1, <2>1, <2>2, <2>4, <3>1
    <3>2. CASE rPc[r] # "new"
      BY <2>1, <2>3, <3>2 DEF ReadsFollowWrites
    <3>. QED BY <3>1, <3>2
  <2>. QED BY <2>4 DEF ReadsFollowWrites
<1>5. CASE UNCHANGED <<readOnly, writeOnly, seen>>
  BY <1>5 DEF ReadsFollowWrites, readOnly, writeOnly
<1>. QED BY <1>3, <1>4, <1>5 DEF Next, RankStep, LeaveUse, vars

(***************************************************************************)
(* Everything that is proved of the write job and of the read job alone    *)
(* holds of them over one storage, under the calls of a program: the       *)
(* composition takes the steps of each, and of whoever else writes blocks. *)
(***************************************************************************)
THEOREM JobsRunAsAlone ==
    ASSUME W!DistinctBlocks
    PROVE  Spec => W!Spec /\ R!Spec
<1>1. Init => W!Init /\ R!Init
  BY DEF Init, R!Init, R!StoreInit, W!Init, W!ClientInit, W!StoreInit
<1>2. Init => WP!DataInv /\ RP!ReadInv
  BY WriteJobHolds, ReadJobHolds
<1>3. WP!DataInv /\ RP!ReadInv /\ [Next]_vars => WP!DataInv' /\ RP!ReadInv'
  BY WriteJobHolds, ReadJobHolds
<1>4. WP!DataInv /\ RP!ReadInv /\ [Next]_vars => [W!Next]_(W!vars) /\ [R!Next]_(R!vars)
  <2>. SUFFICES ASSUME WP!DataInv, RP!ReadInv, [Next]_vars
                PROVE  [W!Next]_(W!vars) /\ [R!Next]_(R!vars)
    OBVIOUS
  <2>1. W!Next \/ UNCHANGED W!vars
    <3>1. WP!Next \/ UNCHANGED WP!vars
      BY WriteJobSteps
    <3>. QED BY <3>1, SameWriteJob
  <2>2. R!Next \/ UNCHANGED R!vars
    <3>1. RP!Next \/ UNCHANGED RP!vars
      BY ReadJobSteps
    <3>. QED BY <3>1, SameReadJob
  <2>. QED BY <2>1, <2>2
<1>. QED BY <1>1, <1>2, <1>3, <1>4, PTL DEF Spec, W!Spec, R!Spec

(***************************************************************************)
(* ReadsOwnWrite, for a program whose ranks wait for a publication before  *)
(* they read it back and publish no block twice: through whatever queues,  *)
(* tasks and containers the write and the read travel, in whatever order,  *)
(* the reader is given what was published.                                 *)
(***************************************************************************)
THEOREM AwaitedWritesAreRead ==
    ASSUME AwaitFirst, W!DistinctBlocks
    PROVE  Spec => []ReadsOwnWrite
<1>. DEFINE Both == WP!DataInv /\ RP!ReadInv /\ ReadsFollowWrites
<1>1. Init => Both
  <2>1. Init => ReadsFollowWrites
    BY DEF Init, R!ReadInit, ReadsFollowWrites
  <2>. QED BY <2>1, WriteJobHolds, ReadJobHolds
<1>2. Both /\ [Next]_vars => Both'
  BY WriteJobHolds, ReadJobHolds, FollowsWrites
<1>3. Both => ReadsOwnWrite
  <2>. SUFFICES ASSUME Both, NEW r \in Subscription, got[r] # Nothing
                PROVE  got[r] = ReadsBack[r]
    BY DEF ReadsOwnWrite
  <2>1. rPc[r] # "new"
    BY DEF RP!ReadInv, RP!DataFits, RP!NewIsEmpty
  <2>2. got[r] \in {RP!Fetched(x) : x \in seen[r]}
    BY DEF RP!ReadInv, RP!DataFits, RP!DataIsSeen, RP!Offered
  <2>3. ReadsBack[r] # Nothing
    BY ReadBackAssumption, JobsAssumption
  <2>. QED BY <2>1, <2>2, <2>3 DEF ReadsFollowWrites, RP!Fetched
<1>. QED BY <1>1, <1>2, <1>3, PTL DEF Spec
=============================================================================
