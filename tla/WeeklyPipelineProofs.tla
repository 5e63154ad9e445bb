------------------------ MODULE WeeklyPipelineProofs ------------------------
(***************************************************************************)
(* Theorems of WeeklyPipeline, for any number of executions, operators,    *)
(* labels and attempts that use the ledger at once.                        *)
(***************************************************************************)
EXTENDS WeeklyPipeline, TLAPS

----------------------------------------------------------------------------
(* Plans *)

\* The coordinator runs commands it knows
LEMMA PlanType ==
  ASSUME NEW phase \in Phase
  PROVE  Plan(phase) \in Seq(Commands)
  <1> USE DEF Plan, Commands
  <1>1. CASE phase = "all"
    BY <1>1, SMTT(60)
  <1>2. CASE phase = "scrape"
    BY <1>2
  <1>6. CASE phase = "llm"
    BY <1>6
  <1>7. CASE phase = "plots"
    BY <1>7
  <1>3. CASE phase = "processing-er"
    BY <1>3
  <1>4. CASE phase = "metrics"
    BY <1>4
  <1>5. CASE phase = "predictions"
    BY <1>5
  <1> QED
    BY <1>1, <1>2, <1>3, <1>4, <1>5, <1>6, <1>7 DEF Phase, WeeklyPhase

----------------------------------------------------------------------------
(* Types *)

\* A job that runs a step runs one of its plan
AtInPlan ==
  \A p \in Process :
    /\ job[p].pc \in {"next", "call", "finish", "fail"} => job[p].at >= 1
    /\ job[p].pc \in {"call", "finish", "fail"} => job[p].at <= Len(PlanOf(p))

TypeInv == TypeOK /\ AtInPlan

\* What Go changes
LEMMA GoEffect ==
  ASSUME job \in [Process -> Job], NEW p \in Process, NEW pc \in JobPc, Go(p, pc)
  PROVE  /\ job' \in [Process -> Job]
         /\ job'[p] = [job[p] EXCEPT !.pc = pc]
         /\ \A q \in Process \ {p} : job'[q] = job[q]
         /\ job'[p].pc = pc /\ job'[p].at = job[p].at /\ job'[p].phase = job[p].phase
  BY DEF Go, Job

\* What saving a step changes
LEMMA SaveStepEffect ==
  ASSUME TypeOK, WeeklyAssumption, NEW p \in Process, NEW status \in StepStatus,
         SaveStep(p, status)
  PROVE  /\ steps' \in [Label -> Seq(StepRow)]
         /\ \A l \in Label : steps'[l] = <<>> <=> steps[l] = <<>>
  <1> DEFINE l == LabelOf[p]
             rows == steps[l]
             i == job[p].at
  <1>1. l \in Label /\ rows \in Seq(StepRow) /\ steps \in [Label -> Seq(StepRow)]
    BY DEF TypeOK, WeeklyAssumption
  <1>2. CASE RowExists(p)
    <2>1. i \in DOMAIN rows
      BY <1>2 DEF RowExists
    <2>2. rows[i] \in StepRow
      BY <1>1, <2>1
    <2>3. [rows[i] EXCEPT !.status = status] \in StepRow
      BY <2>2 DEF StepRow
    <2>4. [rows EXCEPT ![i].status = status] \in Seq(StepRow)
      BY <1>1, <2>1, <2>3
    <2>5. [rows EXCEPT ![i].status = status] # <<>> /\ rows # <<>>
      BY <1>1, <2>1
    <2>6. steps' = [steps EXCEPT ![l] = [rows EXCEPT ![i].status = status]]
      BY <1>1, <1>2 DEF SaveStep
    <2> QED
      BY <1>1, <2>4, <2>5, <2>6
  <1>3. CASE ~RowExists(p)
    <2>1. steps' = steps
      BY <1>1, <1>3 DEF SaveStep
    <2> QED
      BY <1>1, <2>1
  <1> QED
    BY <1>2, <1>3

LEMMA InitTypeInv == WeeklyAssumption /\ Init => TypeInv
  <1> SUFFICES ASSUME WeeklyAssumption, Init PROVE TypeInv
    OBVIOUS
  <1>1. TypeOK
    BY DEF Init, TypeOK, WeeklyAssumption, Phase, RunStatus, Job, JobPc, Owner, Stage, Process
  <1>2. AtInPlan
    BY DEF Init, AtInPlan
  <1> QED
    BY <1>1, <1>2 DEF TypeInv

\* A step that moves one job, and leaves the place in the plan as it is or keeps
\* it inside
LEMMA MoveKeepsPlan ==
  ASSUME AtInPlan, job \in [Process -> Job], NEW p \in Process,
         job' \in [Process -> Job],
         \A q \in Process \ {p} : job'[q] = job[q],
         job'[p].pc \in {"next", "call", "finish", "fail"} => job'[p].at >= 1,
         job'[p].pc \in {"call", "finish", "fail"} => job'[p].at <= Len(Plan(job'[p].phase))
  PROVE  AtInPlan'
  BY DEF AtInPlan, PlanOf

\* start_pipeline_run
LEMMA StartTypes ==
  ASSUME TypeInv, WeeklyAssumption, NEW p \in Process, StartSteps(p)
  PROVE  TypeInv'
  <1> USE DEF TypeInv
  <1>0. job \in [Process -> Job] /\ LabelOf[p] \in Label /\ job[p] \in Job
    BY DEF TypeOK, WeeklyAssumption
  <1>1. CASE StartPipelineRun(p)
    <2>1. run' \in [Label -> [phase : Phase, status : RunStatus]]
      BY <1>0, <1>1 DEF StartPipelineRun, TypeOK, Job, RunStatus
    <2>2. Go(p, "delete") /\ "delete" \in JobPc
      BY <1>1 DEF StartPipelineRun, JobPc
    <2>3. AtInPlan'
      <3>1. /\ job' \in [Process -> Job] /\ job'[p].pc = "delete"
            /\ \A q \in Process \ {p} : job'[q] = job[q]
        BY <1>0, <2>2, GoEffect
      <3> QED
        BY <1>0, <3>1, MoveKeepsPlan
    <2> QED
      BY <1>0, <1>1, <2>1, <2>2, <2>3, GoEffect DEF StartPipelineRun, workflow, TypeOK
  <1>2. CASE DeleteSteps(p)
    <2>1. steps' \in [Label -> Seq(StepRow)]
      BY <1>0, <1>2 DEF DeleteSteps, TypeOK
    <2>2. Go(p, "create") /\ "create" \in JobPc
      BY <1>2 DEF DeleteSteps, JobPc
    <2>3. AtInPlan'
      <3>1. /\ job' \in [Process -> Job] /\ job'[p].pc = "create"
            /\ \A q \in Process \ {p} : job'[q] = job[q]
        BY <1>0, <2>2, GoEffect
      <3> QED
        BY <1>0, <3>1, MoveKeepsPlan
    <2> QED
      BY <1>0, <1>2, <2>1, <2>2, <2>3, GoEffect DEF DeleteSteps, workflow, TypeOK
  <1>3. CASE CreateSteps(p)
    <2> DEFINE rows == [i \in DOMAIN PlanOf(p) |-> [owner |-> <<p, job[p].attempt>>,
                                                   status |-> "pending"]]
    <2>1. rows \in Seq(StepRow)
      <3>1. PlanOf(p) \in Seq(Commands)
        BY <1>0, PlanType DEF PlanOf, Job
      <3> DEFINE row == [owner |-> <<p, job[p].attempt>>, status |-> "pending"]
                 n == Len(PlanOf(p))
      <3>2. row \in StepRow
        BY <1>0 DEF StepRow, Owner, StepStatus, Job
      <3>3. DOMAIN PlanOf(p) = 1..n /\ n \in Nat
        BY <3>1
      <3>4. rows = [i \in 1..n |-> row]
        BY <3>3
      <3> HIDE DEF row, n, rows
      <3> QED
        BY <3>2, <3>3, <3>4
    <2>2. steps' \in [Label -> Seq(StepRow)]
      BY <1>0, <1>3, <2>1 DEF CreateSteps, TypeOK
    <2>3. PICK pc \in {"list", "error"} : Go(p, pc)
      BY <1>3 DEF CreateSteps
    <2>4. pc \in JobPc /\ pc \notin {"next", "call", "finish", "fail"}
      BY <2>3 DEF JobPc
    <2>5. job' \in [Process -> Job] /\ AtInPlan'
      BY <1>0, <2>3, <2>4, GoEffect, MoveKeepsPlan
    <2> QED
      BY <1>3, <2>2, <2>5 DEF CreateSteps, workflow, TypeOK
  <1>4. CASE ListSteps(p)
    <2> DEFINE rows == steps[LabelOf[p]]
               first == IF rows = <<>> THEN <<p, 0>> ELSE rows[1].owner
               new == [pc |-> "next", phase |-> job[p].phase, attempt |-> job[p].attempt,
                       listed |-> first, count |-> Len(rows), at |-> 1]
    <2>1. rows \in Seq(StepRow)
      BY <1>0 DEF TypeOK
    <2>2. rows # <<>> => rows[1] \in StepRow
      BY <2>1
    <2>3. first \in Owner /\ Len(rows) \in Nat
      BY <2>1, <2>2 DEF StepRow, Owner
    <2>4. new \in Job /\ new.pc = "next" /\ new.at = 1
      BY <1>0, <2>3 DEF Job, JobPc
    <2>5. job' = [job EXCEPT ![p] = new]
      BY <1>0, <1>4 DEF ListSteps
    <2>6. job' \in [Process -> Job] /\ job'[p] = new /\ \A q \in Process \ {p} : job'[q] = job[q]
      BY <1>0, <2>4, <2>5
    <2>7. job'[p].pc = "next" /\ job'[p].at = 1
      BY <2>4, <2>6
    <2> HIDE DEF rows, first, new
    <2>8. AtInPlan'
      BY <1>0, <2>6, <2>7, MoveKeepsPlan
    <2> QED
      BY <1>4, <2>6, <2>8 DEF ListSteps, ledger, workflow, TypeOK
  <1> QED
    BY <1>1, <1>2, <1>3, <1>4 DEF StartSteps

\* Steps that only move the job
LEMMA OnlyGoTypes ==
  ASSUME TypeInv, NEW p \in Process, NEW pc \in JobPc \ {"next", "call", "finish"}, Go(p, pc),
         pc = "fail" => job[p].pc = "call",
         UNCHANGED <<ledger, workflow, killed>>
  PROVE  TypeInv'
  <1>1. job \in [Process -> Job] /\ job[p] \in Job
    BY DEF TypeInv, TypeOK
  <1>2. job[p].pc = "call" => job[p].at >= 1 /\ job[p].at <= Len(Plan(job[p].phase))
    BY DEF TypeInv, AtInPlan, PlanOf
  <1>3. job' \in [Process -> Job] /\ AtInPlan'
    BY <1>1, <1>2, GoEffect, MoveKeepsPlan DEF TypeInv
  <1> QED
    BY <1>3 DEF TypeInv, TypeOK, ledger, workflow

\* The steps of the plan
LEMMA RunTypes ==
  ASSUME TypeInv, WeeklyAssumption, NEW p \in Process, RunSteps(p)
  PROVE  TypeInv'
  <1> USE DEF TypeInv
  <1>0. job \in [Process -> Job] /\ LabelOf[p] \in Label /\ job[p] \in Job
    BY DEF TypeOK, WeeklyAssumption
  <1>1. CASE EndSteps(p) \/ ZipRaises(p) \/ CommandRaises(p)
    <2>1. PICK pc \in {"warm", "check", "abort", "fail"} : Go(p, pc) /\ (pc = "fail" => job[p].pc = "call")
      BY <1>1 DEF EndSteps, ZipRaises, CommandRaises
    <2>2. pc \in JobPc \ {"next", "call", "finish"}
      BY DEF JobPc
    <2>3. UNCHANGED <<ledger, workflow, killed>>
      BY <1>1 DEF EndSteps, ZipRaises, CommandRaises
    <2> QED
      BY <2>1, <2>2, <2>3, OnlyGoTypes
  <1>2. CASE BeginStep(p)
    <2>1. SaveStep(p, "running") /\ "running" \in StepStatus
      BY <1>2 DEF BeginStep, StepStatus
    <2>2. PICK pc \in {"call", "abort"} : Go(p, pc)
      BY <1>2 DEF BeginStep, NextPc
    <2>3. pc \in JobPc
      BY DEF JobPc
    <2>4. job[p].at >= 1 /\ job[p].at <= Len(Plan(job[p].phase))
      BY <1>2 DEF BeginStep, AtInPlan, PlanOf
    <2>5. job' \in [Process -> Job] /\ AtInPlan'
      BY <1>0, <2>2, <2>3, <2>4, GoEffect, MoveKeepsPlan
    <2> QED
      BY <1>2, <2>1, <2>5, SaveStepEffect DEF BeginStep, workflow, TypeOK
  <1>3. CASE CommandReturns(p)
    <2>1. Go(p, "finish") /\ "finish" \in JobPc
      BY <1>3 DEF CommandReturns, JobPc
    <2>2. job[p].at >= 1 /\ job[p].at <= Len(PlanOf(p)) /\ job[p].at \in Nat
      BY <1>0, <1>3 DEF CommandReturns, AtInPlan, Job
    <2>3. PlanOf(p) \in Seq(Commands)
      BY <1>0, PlanType DEF PlanOf, Job
    <2>4. PlanOf(p)[job[p].at] \in Commands
      BY <2>2, <2>3
    <2>5. job' \in [Process -> Job] /\ AtInPlan'
      BY <1>0, <2>1, <2>2, GoEffect, MoveKeepsPlan DEF PlanOf
    <2>6. did' \in [Execution -> SUBSET Commands]
      BY <1>3, <2>4 DEF CommandReturns, TypeOK
    <2> QED
      BY <1>3, <2>5, <2>6 DEF CommandReturns, ledger, TypeOK
  <1>4. CASE FinishStepRun(p)
    <2>1. SaveStep(p, "succeeded") /\ "succeeded" \in StepStatus
      BY <1>4 DEF FinishStepRun, StepStatus
    <2>2. PICK pc \in {"next", "abort"}, at \in {job[p].at, job[p].at + 1} :
            job' = [job EXCEPT ![p].pc = pc, ![p].at = at]
      BY <1>4 DEF FinishStepRun
    <2>3. job[p].at >= 1 /\ job[p].at \in Nat
      BY <1>0, <1>4 DEF FinishStepRun, AtInPlan, Job
    <2>4. pc \in JobPc /\ at \in Nat /\ at >= 1
      BY <2>2, <2>3 DEF JobPc
    <2>5. /\ job' \in [Process -> Job]
          /\ job'[p].pc = pc /\ job'[p].at = at
          /\ \A q \in Process \ {p} : job'[q] = job[q]
      BY <1>0, <2>2, <2>4 DEF Job
    <2>6. AtInPlan'
      BY <1>0, <2>2, <2>4, <2>5, MoveKeepsPlan
    <2> QED
      BY <1>4, <2>1, <2>5, <2>6, SaveStepEffect DEF FinishStepRun, workflow, TypeOK
  <1>5. CASE FailStepRun(p)
    <2>1. SaveStep(p, "failed") /\ "failed" \in StepStatus
      BY <1>5 DEF FailStepRun, StepStatus
    <2>2. Go(p, "abort") /\ "abort" \in JobPc
      BY <1>5 DEF FailStepRun, JobPc
    <2>3. job' \in [Process -> Job] /\ AtInPlan'
      <3>1. /\ job' \in [Process -> Job] /\ job'[p].pc = "abort"
            /\ \A q \in Process \ {p} : job'[q] = job[q]
        BY <1>0, <2>2, GoEffect
      <3> QED
        BY <1>0, <3>1, MoveKeepsPlan
    <2> QED
      BY <1>5, <2>1, <2>3, SaveStepEffect DEF FailStepRun, workflow, TypeOK
  <1> QED
    BY <1>1, <1>2, <1>3, <1>4, <1>5 DEF RunSteps

\* The end of a run
LEMMA EndTypes ==
  ASSUME TypeInv, WeeklyAssumption, NEW p \in Process, EndRun(p)
  PROVE  TypeInv'
  <1> USE DEF TypeInv
  <1>0. job \in [Process -> Job] /\ LabelOf[p] \in Label /\ job[p] \in Job
    BY DEF TypeOK, WeeklyAssumption
  <1>1. CASE WarmGraph(p) \/ CheckFailedSteps(p)
    <2>1. PICK pc \in {"check", "abort", "partial", "succeeded"} : Go(p, pc)
      BY <1>1 DEF WarmGraph, CheckFailedSteps
    <2>2. pc \in JobPc \ {"next", "call", "finish"} /\ pc # "fail"
      BY DEF JobPc
    <2>3. UNCHANGED <<ledger, workflow, killed>>
      BY <1>1 DEF WarmGraph, CheckFailedSteps
    <2> QED
      BY <2>1, <2>2, <2>3, OnlyGoTypes
  <1>2. CASE FinishPipelineRun(p) \/ FailPipelineRun(p)
    <2>1. PICK pc \in {"done", "error"}, status \in {"succeeded", "partial", "failed"} :
            Go(p, pc) /\ SaveRun(p, status)
      BY <1>2 DEF FinishPipelineRun, FailPipelineRun
    <2>2. pc \in JobPc /\ status \in RunStatus
      BY DEF JobPc, RunStatus
    <2>3. job' \in [Process -> Job] /\ AtInPlan'
      BY <1>0, <2>1, <2>2, GoEffect, MoveKeepsPlan
    <2>4. run' \in [Label -> [phase : Phase, status : RunStatus]]
      BY <1>0, <2>1, <2>2 DEF SaveRun, TypeOK
    <2> QED
      BY <1>2, <2>3, <2>4 DEF FinishPipelineRun, FailPipelineRun, workflow, TypeOK
  <1> QED
    BY <1>1, <1>2 DEF EndRun

\* A job that starts
LEMMA StartsTypes ==
  ASSUME TypeInv, NEW p \in Process, NEW phase \in Phase, NEW n \in Nat, Starts(p, phase, n),
         UNCHANGED <<ledger, workflow, killed>>
  PROVE  TypeInv'
  <1> DEFINE new == [pc |-> "start", phase |-> phase, attempt |-> n,
                     listed |-> <<p, 0>>, count |-> 0, at |-> 0]
  <1>1. new \in Job /\ new.pc = "start"
    BY DEF Job, JobPc, Owner
  <1>2. job \in [Process -> Job] /\ job' = [job EXCEPT ![p] = new]
    BY DEF TypeInv, TypeOK, Starts
  <1> HIDE DEF new
  <1>3. /\ job' \in [Process -> Job]
        /\ job'[p].pc = "start"
        /\ \A q \in Process \ {p} : job'[q] = job[q]
    BY <1>1, <1>2
  <1>4. AtInPlan'
    BY <1>2, <1>3, MoveKeepsPlan DEF TypeInv
  <1> QED
    BY <1>3, <1>4 DEF TypeInv, TypeOK, ledger, workflow

\* What Cloud Run and the operator do
LEMMA OutsideTypes ==
  ASSUME TypeInv, WeeklyAssumption, HandAssumption, NEW p \in Process,
         Kill(p) \/ Retry(p) \/ StartByHand(p)
  PROVE  TypeInv'
  <1> USE DEF TypeInv
  <1>0. job \in [Process -> Job] /\ LabelOf[p] \in Label /\ job[p] \in Job
    BY DEF TypeOK, WeeklyAssumption
  <1>1. CASE Kill(p)
    <2>1. Go(p, "error") /\ "error" \in JobPc
      BY <1>1 DEF Kill, JobPc
    <2>2. job' \in [Process -> Job] /\ AtInPlan'
      BY <1>0, <2>1, GoEffect, MoveKeepsPlan, ZenonT(60)
    <2> QED
      BY <1>0, <1>1, <2>2 DEF Kill, ledger, workflow, TypeOK
  <1>2. CASE Retry(p)
    <2>1. job[p].phase \in Phase /\ job[p].attempt + 1 \in Nat
      BY <1>0 DEF Job
    <2> QED
      BY <1>2, <2>1, StartsTypes DEF Retry
  <1>3. CASE StartByHand(p)
    <2>1. PICK phase \in HandPhase : Starts(p, phase, 1)
      BY <1>3 DEF StartByHand
    <2>2. phase \in Phase /\ 1 \in Nat
      BY HandAssumption DEF HandAssumption
    <2> QED
      BY <1>3, <2>1, <2>2, StartsTypes DEF StartByHand
  <1> QED
    BY <1>1, <1>2, <1>3

\* The stages of the workflow follow each other
LEMMA AfterIsAStage ==
  ASSUME NEW s \in {"preflight"} \cup WeeklyPhase
  PROVE  After(s) \in Stage
  BY DEF After, Stage, WeeklyPhase

LEMMA WorkflowTypes ==
  ASSUME TypeInv, WeeklyAssumption, NEW e \in Execution, WorkflowStep(e) \/ Cancel(e)
  PROVE  TypeInv'
  <1> USE DEF TypeInv
  <1>0. /\ e \in Process /\ job \in [Process -> Job] /\ job[e] \in Job
        /\ stage \in [Execution -> Stage]
    BY DEF TypeOK, Process
  <1>1. ASSUME NEW to \in Stage, Proceed(e, to), UNCHANGED <<ledger, job, did, killed>>,
               alerts' \in [Execution -> SUBSET {"succeeded", "failed"}]
        PROVE  TypeInv'
    <2>1. stage' \in [Execution -> Stage]
      BY <1>0, <1>1 DEF Proceed
    <2>2. AtInPlan'
      BY <1>1 DEF AtInPlan, PlanOf
    <2> QED
      BY <1>1, <2>1, <2>2 DEF ledger, TypeOK
  <1>2. CASE \/ RunPreflight(e) \/ JobFailed(e) \/ CheckRun(e) \/ CheckSteps(e) \/ Cancel(e)
    <2>1. PICK to \in {After("preflight"), "failing", "statusSteps", "alert", "cancelled"} :
            Proceed(e, to)
      BY <1>2 DEF RunPreflight, JobFailed, CheckRun, CheckSteps, Cancel
    <2>2. to \in Stage
      BY AfterIsAStage DEF Stage
    <2>3. UNCHANGED <<ledger, job, did, killed, alerts>>
      BY <1>2 DEF RunPreflight, JobFailed, CheckRun, CheckSteps, Cancel
    <2> QED
      BY <1>1, <2>1, <2>2, <2>3 DEF TypeOK
  <1>3. CASE AlertSuccess(e) \/ AlertFailure(e)
    <2>1. PICK to \in {"succeeded", "failing", "failed"} : Proceed(e, to)
      BY <1>3 DEF AlertSuccess, AlertFailure
    <2>2. to \in Stage
      BY DEF Stage
    <2>3. alerts' \in [Execution -> SUBSET {"succeeded", "failed"}]
      BY <1>3 DEF AlertSuccess, AlertFailure, TypeOK
    <2>4. UNCHANGED <<ledger, job, did, killed>>
      BY <1>3 DEF AlertSuccess, AlertFailure
    <2> QED
      BY <1>1, <2>1, <2>2, <2>3, <2>4
  <1>4. CASE RunJob(e)
    <2>1. stage[e] \in Phase /\ Starts(e, stage[e], 1) /\ 1 \in Nat
      BY <1>4 DEF RunJob, InPhase, Phase
    <2> QED
      BY <1>0, <1>4, <2>1, StartsTypes DEF RunJob
  <1>5. CASE JobDone(e)
    <2>1. Go(e, "none") /\ "none" \in JobPc
      BY <1>5 DEF JobDone, JobPc
    <2>2. job' \in [Process -> Job] /\ AtInPlan'
      BY <1>0, <2>1, GoEffect, MoveKeepsPlan
    <2>3. stage' \in [Execution -> Stage]
      BY <1>0, <1>5, AfterIsAStage DEF JobDone, InPhase, Proceed
    <2> QED
      BY <1>5, <2>2, <2>3 DEF JobDone, ledger, TypeOK
  <1> QED
    BY <1>2, <1>3, <1>4, <1>5 DEF WorkflowStep

LEMMA NextTypes ==
  ASSUME TypeInv, WeeklyAssumption, HandAssumption, [Next]_vars
  PROVE  TypeInv'
  <1>1. CASE UNCHANGED vars
    BY <1>1 DEF vars, TypeInv, TypeOK, AtInPlan, PlanOf
  <1>2. ASSUME NEW p \in Process, JobStep(p) \/ Kill(p) \/ Retry(p) \/ StartByHand(p)
        PROVE  TypeInv'
    BY <1>2, StartTypes, RunTypes, EndTypes, OutsideTypes DEF JobStep
  <1>3. ASSUME NEW e \in Execution, WorkflowStep(e) \/ Cancel(e)
        PROVE  TypeInv'
    BY <1>3, WorkflowTypes
  <1> QED
    BY <1>1, <1>2, <1>3 DEF Next

\* Every reachable state is well typed, and a job that runs a step is inside of
\* its plan
THEOREM TypesAlways == Spec => []TypeInv
  <1>1. Init => TypeInv
    BY InitTypeInv, WeeklyAssumption
  <1>2. TypeInv /\ [Next]_vars => TypeInv'
    BY NextTypes, WeeklyAssumption, HandAssumption
  <1> QED
    BY <1>1, <1>2, PTL DEF Spec

\* Every variable keeps its type
THEOREM TypeCorrect == Spec => []TypeOK
  <1>1. TypeInv => TypeOK
    BY DEF TypeInv
  <1> QED
    BY <1>1, TypesAlways, PTL

----------------------------------------------------------------------------
(* No run is left behind *)

\* A run goes on without having been killed: some job will end it, and once there
\* are rows, a job that they cannot keep from doing so
Attended(l) ==
  run[l].status = "running" /\ l \notin killed =>
    /\ Users(l) # {}
    /\ steps[l] # <<>> => \E p \in Users(l) : job[p].pc \notin {"start", "create"}

AttendedInv == \A l \in Label : Attended(l)

\* A step of one job concerns the run of its label only
LEMMA OthersAttended ==
  ASSUME AttendedInv, NEW p \in Process,
         killed \subseteq killed',
         \A q \in Process \ {p} : job'[q] = job[q],
         \A l \in Label \ {LabelOf[p]} : run'[l] = run[l] /\ (steps'[l] = <<>> <=> steps[l] = <<>>),
         LabelOf[p] \in Label => Attended(LabelOf[p])'
  PROVE  AttendedInv'
  <1> SUFFICES ASSUME NEW l \in Label, l # LabelOf[p] PROVE Attended(l)'
    BY DEF AttendedInv
  <1>1. Attended(l)
    BY DEF AttendedInv
  <1>2. \A q \in Process : LabelOf[q] = l => job'[q] = job[q]
    OBVIOUS
  <1>3. Users(l)' = Users(l)
    BY <1>2 DEF Users, Live
  <1>4. \A q \in Users(l) : job'[q] = job[q]
    BY <1>2 DEF Users
  <1> QED
    BY <1>1, <1>3, <1>4 DEF Attended

\* A job that goes on past the creation of its rows attends to its run
LEMMA GoesOnAttended ==
  ASSUME AttendedInv, NEW p \in Process,
         killed \subseteq killed',
         \A q \in Process \ {p} : job'[q] = job[q],
         \A l \in Label : l # LabelOf[p] => run'[l] = run[l] /\ (steps'[l] = <<>> <=> steps[l] = <<>>),
         job'[p].pc \notin {"none", "done", "error", "start", "create"}
  PROVE  AttendedInv'
  <1>1. p \in Users(LabelOf[p])'
    BY DEF Users, Live
  <1>2. Attended(LabelOf[p])'
    BY <1>1 DEF Attended
  <1> QED
    BY <1>2, OthersAttended

\* A process without a job concerns no run
LEMMA IdleAttended ==
  ASSUME AttendedInv, NEW p \in Process, ~Live(p),
         \A q \in Process \ {p} : job'[q] = job[q],
         UNCHANGED <<ledger, killed>>
  PROVE  AttendedInv'
  <1> SUFFICES ASSUME NEW l \in Label PROVE Attended(l)'
    BY DEF AttendedInv
  <1>1. Attended(l)
    BY DEF AttendedInv
  <1>2. \A q \in Users(l) : q # p /\ job'[q] = job[q]
    BY DEF Users
  <1>3. Users(l) \subseteq Users(l)'
    BY <1>2 DEF Users, Live
  <1> QED
    BY <1>1, <1>2, <1>3 DEF Attended, ledger

LEMMA NextAttended ==
  ASSUME TypeInv, AttendedInv, WeeklyAssumption, [Next]_vars
  PROVE  AttendedInv'
  <1>0. /\ job \in [Process -> Job]
        /\ run \in [Label -> [phase : Phase, status : RunStatus]]
        /\ steps \in [Label -> Seq(StepRow)]
        /\ \A p \in Process : LabelOf[p] \in Label
    BY DEF TypeInv, TypeOK, WeeklyAssumption
  <1>1. CASE UNCHANGED vars
    BY <1>1 DEF vars, AttendedInv, Attended, Users, Live
  <1>2. ASSUME NEW p \in Process, StartSteps(p)
        PROVE  AttendedInv'
    <2>1. CASE StartPipelineRun(p)
      BY <1>0, <2>1, GoEffect, GoesOnAttended DEF StartPipelineRun, JobPc
    <2>2. CASE DeleteSteps(p)
      <3>1. /\ \A q \in Process \ {p} : job'[q] = job[q]
            /\ job'[p].pc = "create"
        BY <1>0, <2>2, GoEffect DEF DeleteSteps, JobPc
      <3>2. /\ steps'[LabelOf[p]] = <<>>
            /\ \A l \in Label \ {LabelOf[p]} : steps'[l] = steps[l]
        BY <1>0, <2>2 DEF DeleteSteps
      <3>3. p \in Users(LabelOf[p])'
        BY <3>1 DEF Users, Live
      <3>4. Attended(LabelOf[p])'
        BY <3>2, <3>3 DEF Attended
      <3> QED
        BY <2>2, <3>1, <3>2, <3>4, OthersAttended DEF DeleteSteps
    <2>3. CASE CreateSteps(p) /\ steps[LabelOf[p]] = <<>>
      <3>1. /\ \A q \in Process \ {p} : job'[q] = job[q]
            /\ job'[p].pc = "list"
        BY <1>0, <2>3, GoEffect DEF CreateSteps, JobPc
      <3>2. \A l \in Label \ {LabelOf[p]} : steps'[l] = steps[l]
        BY <1>0, <2>3 DEF CreateSteps
      <3> QED
        BY <2>3, <3>1, <3>2, GoesOnAttended DEF CreateSteps
    <2>4. CASE CreateSteps(p) /\ steps[LabelOf[p]] # <<>>
      <3>1. \A q \in Process \ {p} : job'[q] = job[q]
        BY <1>0, <2>4, GoEffect DEF CreateSteps, JobPc
      <3>2. job[p].pc = "create" /\ UNCHANGED <<ledger, killed>>
        BY <2>4 DEF CreateSteps, ledger
      <3>3. Attended(LabelOf[p])'
        <4> SUFFICES ASSUME run[LabelOf[p]].status = "running", LabelOf[p] \notin killed
                     PROVE  \E q \in Users(LabelOf[p])' : job'[q].pc \notin {"start", "create"}
          BY <3>2 DEF Attended, ledger
        <4>1. PICK q \in Users(LabelOf[p]) : job[q].pc \notin {"start", "create"}
          BY <1>0, <2>4 DEF AttendedInv, Attended
        <4>2. q \in Process \ {p} /\ job'[q] = job[q]
          BY <3>1, <3>2, <4>1 DEF Users
        <4> QED
          BY <4>1, <4>2 DEF Users, Live
      <3> QED
        BY <3>1, <3>2, <3>3, OthersAttended DEF ledger
    <2>5. CASE ListSteps(p)
      <3>1. /\ \A q \in Process \ {p} : job'[q] = job[q]
            /\ job'[p].pc = "next"
        BY <1>0, <2>5 DEF ListSteps
      <3> QED
        BY <2>5, <3>1, GoesOnAttended DEF ListSteps, ledger
    <2> QED
      BY <1>2, <2>1, <2>2, <2>3, <2>4, <2>5 DEF StartSteps
  <1>3. ASSUME NEW p \in Process, RunSteps(p)
        PROVE  AttendedInv'
    <2>1. /\ \A q \in Process \ {p} : job'[q] = job[q]
          /\ job'[p].pc \in {"warm", "check", "abort", "call", "finish", "fail", "next"}
      <3>1. CASE FinishStepRun(p)
        BY <1>0, <3>1 DEF FinishStepRun, Job
      <3>2. CASE ~FinishStepRun(p)
        <4>1. PICK pc \in {"warm", "check", "abort", "call", "finish", "fail"} : Go(p, pc)
          BY <1>3, <3>2 DEF RunSteps, EndSteps, ZipRaises, BeginStep, NextPc, CommandReturns,
                            CommandRaises, FailStepRun
        <4>2. pc \in JobPc
          BY DEF JobPc
        <4> QED
          BY <1>0, <4>1, <4>2, GoEffect
      <3> QED
        BY <3>1, <3>2
    <2>2. /\ run' = run /\ killed' = killed
          /\ steps' = steps \/ \E status \in StepStatus : SaveStep(p, status)
      BY <1>3 DEF RunSteps, EndSteps, ZipRaises, BeginStep, CommandReturns, CommandRaises,
                  FinishStepRun, FailStepRun, ledger, StepStatus
    <2>3. \A l \in Label : steps'[l] = <<>> <=> steps[l] = <<>>
      BY <2>2, SaveStepEffect DEF TypeInv
    <2> QED
      BY <2>1, <2>2, <2>3, GoesOnAttended
  <1>4. ASSUME NEW p \in Process, EndRun(p)
        PROVE  AttendedInv'
    <2>1. CASE WarmGraph(p) \/ CheckFailedSteps(p)
      <3>1. PICK pc \in {"check", "abort", "partial", "succeeded"} : Go(p, pc)
        BY <2>1 DEF WarmGraph, CheckFailedSteps
      <3>2. pc \in JobPc
        BY DEF JobPc
      <3> QED
        BY <1>0, <2>1, <3>1, <3>2, GoEffect, GoesOnAttended,
           ZenonT(60)
        DEF WarmGraph, CheckFailedSteps, ledger
    <2>2. CASE FinishPipelineRun(p) \/ FailPipelineRun(p)
      <3>1. PICK pc \in {"done", "error"}, status \in {"succeeded", "partial", "failed"} :
              Go(p, pc) /\ SaveRun(p, status)
        BY <2>2 DEF FinishPipelineRun, FailPipelineRun
      <3>2. pc \in JobPc
        BY DEF JobPc
      <3>3. \A q \in Process \ {p} : job'[q] = job[q]
        BY <1>0, <3>1, <3>2, GoEffect
      <3>4. /\ run'[LabelOf[p]].status # "running"
            /\ \A l \in Label \ {LabelOf[p]} : run'[l] = run[l]
        BY <1>0, <3>1 DEF SaveRun
      <3>5. Attended(LabelOf[p])'
        BY <3>4 DEF Attended
      <3> QED
        BY <2>2, <3>3, <3>4, <3>5, OthersAttended DEF FinishPipelineRun, FailPipelineRun
    <2> QED
      BY <1>4, <2>1, <2>2 DEF EndRun
  <1>5. ASSUME NEW p \in Process, Kill(p)
        PROVE  AttendedInv'
    <2>1. \A q \in Process \ {p} : job'[q] = job[q]
      BY <1>0, <1>5, GoEffect DEF Kill, JobPc
    <2>2. Attended(LabelOf[p])'
      BY <1>5 DEF Kill, Attended
    <2> QED
      BY <1>5, <2>1, <2>2, OthersAttended DEF Kill, ledger
  <1>6. ASSUME NEW p \in Process, ~Live(p), UNCHANGED <<ledger, killed>>,
               \/ \E phase, n : Starts(p, phase, n)
               \/ Go(p, "none")
        PROVE  AttendedInv'
    <2>1. \A q \in Process \ {p} : job'[q] = job[q]
      BY <1>0, <1>6, GoEffect DEF Starts, JobPc
    <2> QED
      BY <1>6, <2>1, IdleAttended
  <1>7. ASSUME NEW p \in Process, Retry(p) \/ StartByHand(p)
        PROVE  AttendedInv'
    BY <1>6, <1>7 DEF Retry, StartByHand, Live
  <1>8. ASSUME NEW e \in Execution, WorkflowStep(e) \/ Cancel(e)
        PROVE  AttendedInv'
    <2>1. CASE RunJob(e) \/ JobDone(e)
      BY <1>6, <2>1 DEF RunJob, JobDone, Live, Process
    <2>2. CASE UNCHANGED <<ledger, job, killed>>
      BY <2>2 DEF ledger, AttendedInv, Attended, Users, Live
    <2> QED
      BY <1>8, <2>1, <2>2 DEF WorkflowStep, RunPreflight, JobFailed, CheckRun, CheckSteps,
                              AlertSuccess, AlertFailure, Cancel
  <1> QED
    BY <1>1, <1>2, <1>3, <1>4, <1>5, <1>7, <1>8 DEF Next, JobStep

\* However many processes race for the rows of a label, its run stays RUNNING
\* without a process only when one was killed
THEOREM RunsAttended == Spec => []OnlyKilledRunsHang
  <1>1. Init => AttendedInv
    BY WeeklyAssumption DEF Init, AttendedInv, Attended
  <1>2. TypeInv /\ AttendedInv /\ [Next]_vars => AttendedInv'
    BY NextAttended, WeeklyAssumption
  <1>3. AttendedInv => OnlyKilledRunsHang
    BY DEF AttendedInv, Attended, OnlyKilledRunsHang
  <1> QED
    BY <1>1, <1>2, <1>3, TypesAlways, PTL DEF Spec

----------------------------------------------------------------------------
(* A success is complete *)

CommandsOf(phase) == {Plan(phase)[i] : i \in DOMAIN Plan(phase)}

\* The commands of the phases that come before a stage
Needs(s) ==
  CASE s = "llm" -> CommandsOf("scrape")
    [] s = "processing-er" -> CommandsOf("scrape") \cup CommandsOf("llm")
    [] s = "metrics" -> CommandsOf("scrape") \cup CommandsOf("llm") \cup CommandsOf("processing-er")
    [] s = "predictions" -> CommandsOf("scrape") \cup CommandsOf("llm")
                            \cup CommandsOf("processing-er") \cup CommandsOf("metrics")
    [] s \in {"status", "statusSteps", "alert"} -> Commands
    [] OTHER -> {}

\* The commands a job has behind it
Behind(e) ==
  CASE job[e].pc \in {"next", "call", "fail"} ->
         {PlanOf(e)[i] : i \in {k \in DOMAIN PlanOf(e) : k < job[e].at}}
    [] job[e].pc = "finish" ->
         {PlanOf(e)[i] : i \in {k \in DOMAIN PlanOf(e) : k <= job[e].at}}
    [] job[e].pc \in {"warm", "check", "succeeded", "partial", "done"} -> CommandsOf(job[e].phase)
    [] OTHER -> {}

\* What an execution has behind it was completed by its own jobs
Complete(e) ==
  /\ stage[e] = "preflight" => job[e].pc = "none"
  /\ InPhase(e) /\ job[e].pc # "none" => job[e].phase = stage[e]
  /\ Behind(e) \subseteq did[e]
  /\ Needs(stage[e]) \subseteq did[e]
  /\ "succeeded" \in alerts[e] => Commands \subseteq did[e]

CompleteInv == \A e \in Execution : Complete(e)

\* The phases of the workflow add up to the weekly update
LEMMA PhasesAddUp ==
  ASSUME NEW s \in WeeklyPhase
  PROVE  Needs(After(s)) \subseteq Needs(s) \cup CommandsOf(s)
  <1>1. CASE s = "predictions"
    <2>1. Needs(After(s)) = Commands
      BY <1>1 DEF Needs, After
    <2>2. Needs(s) = CommandsOf("scrape") \cup CommandsOf("llm")
                     \cup CommandsOf("processing-er") \cup CommandsOf("metrics")
      BY <1>1 DEF Needs
    <2>3. CommandsOf("scrape") = {"ingest_feeds"}
      BY DEF CommandsOf, Plan
    <2>4. CommandsOf("llm") = {"run_guest_extraction_batch_backfill"}
      BY DEF CommandsOf, Plan
    <2>5. {"sync_guest_appearances", "promote_frequent_guests_to_cohosts",
           "refresh_person_entity_resolution"} \subseteq CommandsOf("processing-er")
      <3>1. Plan("processing-er") = <<"sync_guest_appearances",
               "promote_frequent_guests_to_cohosts", "refresh_person_entity_resolution">>
        BY DEF Plan
      <3> QED
        BY <3>1 DEF CommandsOf
    <2>6. {"calculate_network_metrics", "calculate_network_evolution",
           "build_six_degrees_graph_artifact"} \subseteq CommandsOf("metrics")
      <3>1. Plan("metrics") = <<"calculate_network_metrics", "calculate_network_evolution",
               "build_six_degrees_graph_artifact">>
        BY DEF Plan
      <3> QED
        BY <3>1 DEF CommandsOf
    <2>7. {"audit_future_link_weekly_new_links", "score_future_link_predictions",
           "generate_static_plots"} \subseteq CommandsOf("predictions")
      <3>1. Plan("predictions") = <<"audit_future_link_weekly_new_links",
               "score_future_link_predictions", "generate_static_plots">>
        BY DEF Plan
      <3> QED
        BY <3>1 DEF CommandsOf
    <2> QED
      BY <1>1, <2>1, <2>2, <2>3, <2>4, <2>5, <2>6, <2>7 DEF Commands
  <1>2. CASE s # "predictions"
    BY <1>2 DEF WeeklyPhase, Needs, After
  <1> QED
    BY <1>1, <1>2

\* A step that forgets nothing keeps what it does not move
LEMMA KeepsComplete ==
  ASSUME CompleteInv, did \in [Execution -> SUBSET Commands], NEW p \in Process,
         \A q \in Process \ {p} : job'[q] = job[q],
         \A e \in Execution : did[e] \subseteq did'[e],
         \A e \in Execution \ {p} : stage'[e] = stage[e] /\ alerts'[e] = alerts[e],
         p \in Execution => Complete(p)'
  PROVE  CompleteInv'
  <1> SUFFICES ASSUME NEW e \in Execution, e # p PROVE Complete(e)'
    BY DEF CompleteInv
  <1>1. Complete(e)
    BY DEF CompleteInv
  <1>2. e \in Process \ {p} /\ job'[e] = job[e]
    BY DEF Process
  <1>3. Behind(e)' = Behind(e)
    BY <1>2 DEF Behind, PlanOf
  <1> QED
    BY <1>1, <1>2, <1>3 DEF Complete, InPhase

\* A job that goes on in its phase
LEMMA JobComplete ==
  ASSUME TypeInv, CompleteInv, NEW p \in Process,
         job' \in [Process -> Job],
         \A q \in Process \ {p} : job'[q] = job[q],
         job[p].pc # "none", job'[p].phase = job[p].phase,
         stage' = stage, alerts' = alerts,
         \A e \in Execution : did[e] \subseteq did'[e],
         p \in Execution => Behind(p)' \subseteq did'[p]
  PROVE  CompleteInv'
  <1>1. ASSUME p \in Execution PROVE Complete(p)'
    <2>1. Complete(p)
      BY <1>1 DEF CompleteInv
    <2> QED
      BY <1>1, <2>1 DEF Complete, InPhase
  <1> QED
    BY <1>1, KeepsComplete DEF TypeInv, TypeOK

\* A job whose commands behind it are those it had
LEMMA GoComplete ==
  ASSUME TypeInv, CompleteInv, NEW p \in Process, NEW pc \in JobPc, Go(p, pc),
         job[p].pc # "none",
         stage' = stage, alerts' = alerts, did' = did,
         \/ pc \in {"start", "delete", "create", "list", "abort", "error"}
         \/ pc \in {"call", "fail"} /\ job[p].pc \in {"next", "call"}
         \/ /\ pc \in {"check", "succeeded", "partial", "done"}
            /\ job[p].pc \in {"warm", "check", "succeeded", "partial"}
  PROVE  CompleteInv'
  <1>0. job \in [Process -> Job]
    BY DEF TypeInv, TypeOK
  <1>1. /\ job' \in [Process -> Job]
        /\ \A q \in Process \ {p} : job'[q] = job[q]
        /\ job'[p].pc = pc /\ job'[p].at = job[p].at /\ job'[p].phase = job[p].phase
    BY <1>0, GoEffect
  <1>2. ASSUME p \in Execution PROVE Behind(p)' \subseteq did'[p]
    <2>1. Behind(p) \subseteq did[p]
      BY <1>2 DEF CompleteInv, Complete
    <2>2. CASE pc \in {"start", "delete", "create", "list", "abort", "error"}
      BY <1>1, <2>2 DEF Behind
    <2>3. CASE pc \in {"call", "fail"} /\ job[p].pc \in {"next", "call"}
      BY <1>1, <2>1, <2>3 DEF Behind, PlanOf
    <2>4. CASE /\ pc \in {"check", "succeeded", "partial", "done"}
               /\ job[p].pc \in {"warm", "check", "succeeded", "partial"}
      BY <1>1, <2>1, <2>4 DEF Behind
    <2> QED
      BY <2>2, <2>3, <2>4
  <1> QED
    BY <1>1, <1>2, JobComplete

LEMMA RunComplete ==
  ASSUME TypeInv, CompleteInv, WeeklyAssumption, NEW p \in Process, RunSteps(p)
  PROVE  CompleteInv'
  <1>0. /\ job \in [Process -> Job] /\ job[p] \in Job
        /\ did \in [Execution -> SUBSET Commands]
        /\ PlanOf(p) \in Seq(Commands)
    BY PlanType DEF TypeInv, TypeOK, PlanOf, Job
  <1>1. CASE ZipRaises(p) \/ BeginStep(p) \/ CommandRaises(p) \/ FailStepRun(p)
    <2>1. PICK pc \in {"abort", "call", "fail"} :
            /\ Go(p, pc)
            /\ pc \in {"call", "fail"} => job[p].pc \in {"next", "call"}
      BY <1>1 DEF ZipRaises, BeginStep, NextPc, CommandRaises, FailStepRun
    <2>2. pc \in JobPc
      BY DEF JobPc
    <2>3. job[p].pc # "none" /\ UNCHANGED workflow
      BY <1>1 DEF ZipRaises, BeginStep, CommandRaises, FailStepRun
    <2> QED
      BY <2>1, <2>2, <2>3, GoComplete DEF workflow
  <1>2. CASE EndSteps(p)
    <2>1. PICK pc \in {"warm", "check"} : Go(p, pc)
      BY <1>2 DEF EndSteps
    <2>2. pc \in JobPc
      BY DEF JobPc
    <2>3. /\ job' \in [Process -> Job]
          /\ \A q \in Process \ {p} : job'[q] = job[q]
          /\ job'[p].pc = pc /\ job'[p].phase = job[p].phase
      BY <1>0, <2>1, <2>2, GoEffect
    <2>4. ASSUME p \in Execution PROVE Behind(p)' \subseteq did'[p]
      <3>1. Behind(p) \subseteq did[p] /\ job[p].pc = "next" /\ did' = did
        BY <1>2, <2>4 DEF CompleteInv, Complete, EndSteps, workflow
      <3>2. \A k \in DOMAIN PlanOf(p) : k < job[p].at
        BY <1>0, <1>2 DEF EndSteps, BothExhausted, Job
      <3>3. Behind(p) = {PlanOf(p)[i] : i \in DOMAIN PlanOf(p)}
        BY <3>1, <3>2 DEF Behind
      <3>4. Behind(p)' = CommandsOf(job[p].phase)
        BY <2>3 DEF Behind
      <3> QED
        BY <3>1, <3>3, <3>4 DEF CommandsOf, PlanOf
    <2> QED
      BY <1>2, <2>3, <2>4, JobComplete DEF EndSteps, workflow
  <1>3. CASE CommandReturns(p)
    <2>1. /\ job' \in [Process -> Job]
          /\ \A q \in Process \ {p} : job'[q] = job[q]
          /\ job'[p].pc = "finish" /\ job'[p].phase = job[p].phase /\ job'[p].at = job[p].at
      BY <1>0, <1>3, GoEffect DEF CommandReturns, JobPc
    <2>2. \A e \in Execution : did[e] \subseteq did'[e]
      BY <1>0, <1>3 DEF CommandReturns
    <2>3. ASSUME p \in Execution PROVE Behind(p)' \subseteq did'[p]
      <3>1. /\ Behind(p) \subseteq did[p] /\ job[p].pc = "call"
            /\ did'[p] = did[p] \cup {PlanOf(p)[job[p].at]}
        BY <1>0, <1>3, <2>3 DEF CompleteInv, Complete, CommandReturns
      <3>2. Behind(p) = {PlanOf(p)[i] : i \in {k \in DOMAIN PlanOf(p) : k < job[p].at}}
        BY <3>1 DEF Behind
      <3>3. Behind(p)' = {PlanOf(p)[i] : i \in {k \in DOMAIN PlanOf(p) : k <= job[p].at}}
        BY <2>1 DEF Behind, PlanOf
      <3>4. job[p].at \in Nat /\ \A k \in DOMAIN PlanOf(p) : k \in Nat
        BY <1>0 DEF Job
      <3>5. \A k \in DOMAIN PlanOf(p) : k <= job[p].at => k < job[p].at \/ k = job[p].at
        BY <3>4
      <3> QED
        BY <3>1, <3>2, <3>3, <3>5
    <2> QED
      BY <1>3, <2>1, <2>2, <2>3, JobComplete DEF CommandReturns
  <1>4. CASE FinishStepRun(p)
    <2>1. PICK pc \in {"next", "abort"}, at \in {job[p].at, job[p].at + 1} :
            /\ job' = [job EXCEPT ![p].pc = pc, ![p].at = at]
            /\ pc = "next" => at = job[p].at + 1
      BY <1>4 DEF FinishStepRun
    <2>2. job[p].at \in Nat /\ at \in Nat /\ pc \in JobPc
      BY <1>0, <2>1 DEF Job, JobPc
    <2>3. /\ job' \in [Process -> Job]
          /\ \A q \in Process \ {p} : job'[q] = job[q]
          /\ job'[p].pc = pc /\ job'[p].phase = job[p].phase /\ job'[p].at = at
      BY <1>0, <2>1, <2>2 DEF Job
    <2>4. ASSUME p \in Execution PROVE Behind(p)' \subseteq did'[p]
      <3>1. Behind(p) \subseteq did[p] /\ job[p].pc = "finish" /\ did' = did
        BY <1>4, <2>4 DEF CompleteInv, Complete, FinishStepRun, workflow
      <3>2. CASE pc = "abort"
        BY <2>3, <3>2 DEF Behind
      <3>3. CASE pc = "next"
        <4>1. Behind(p) = {PlanOf(p)[i] : i \in {k \in DOMAIN PlanOf(p) : k <= job[p].at}}
          BY <3>1 DEF Behind
        <4>2. Behind(p)' = {PlanOf(p)[i] : i \in {k \in DOMAIN PlanOf(p) : k < job[p].at + 1}}
          BY <2>1, <2>3, <3>3 DEF Behind, PlanOf
        <4>3. \A k \in DOMAIN PlanOf(p) : k < job[p].at + 1 <=> k <= job[p].at
          BY <1>0, <2>2
        <4> QED
          BY <3>1, <4>1, <4>2, <4>3
      <3> QED
        BY <3>2, <3>3
    <2> QED
      BY <1>4, <2>3, <2>4, JobComplete DEF FinishStepRun, workflow
  <1> QED
    BY <1>1, <1>2, <1>3, <1>4 DEF RunSteps

LEMMA StartComplete ==
  ASSUME TypeInv, CompleteInv, WeeklyAssumption, NEW p \in Process, StartSteps(p)
  PROVE  CompleteInv'
  <1>0. /\ job \in [Process -> Job] /\ job[p] \in Job
        /\ TypeInv'
        /\ PlanOf(p) \in Seq(Commands)
    BY StartTypes, PlanType DEF TypeInv, TypeOK, PlanOf, Job
  <1>1. CASE StartPipelineRun(p) \/ DeleteSteps(p) \/ CreateSteps(p)
    <2>1. PICK pc \in {"delete", "create", "list", "error"} : Go(p, pc)
      BY <1>1 DEF StartPipelineRun, DeleteSteps, CreateSteps
    <2>2. pc \in JobPc
      BY DEF JobPc
    <2>3. job[p].pc # "none" /\ UNCHANGED workflow
      BY <1>1 DEF StartPipelineRun, DeleteSteps, CreateSteps
    <2> QED
      BY <2>1, <2>2, <2>3, GoComplete DEF workflow
  <1>2. CASE ListSteps(p)
    <2>1. /\ \A q \in Process \ {p} : job'[q] = job[q]
          /\ job'[p].pc = "next" /\ job'[p].phase = job[p].phase /\ job'[p].at = 1
      BY <1>0, <1>2 DEF ListSteps
    <2>2. Behind(p)' = {PlanOf(p)[i] : i \in {k \in DOMAIN PlanOf(p) : k < 1}}
      BY <2>1 DEF Behind, PlanOf
    <2>3. Behind(p)' = {}
      BY <1>0, <2>2
    <2> QED
      BY <1>0, <1>2, <2>1, <2>3, JobComplete DEF ListSteps, workflow, TypeInv, TypeOK
  <1> QED
    BY <1>1, <1>2 DEF StartSteps

LEMMA EndComplete ==
  ASSUME TypeInv, CompleteInv, NEW p \in Process, EndRun(p) \/ Kill(p)
  PROVE  CompleteInv'
  <1>1. CASE WarmGraph(p) \/ CheckFailedSteps(p) \/ FinishPipelineRun(p)
    <2>1. PICK pc \in {"check", "partial", "succeeded", "done", "abort"} : Go(p, pc)
      BY <1>1 DEF WarmGraph, CheckFailedSteps, FinishPipelineRun
    <2>2. pc \in JobPc
      BY DEF JobPc
    <2>3. /\ job[p].pc \in {"warm", "check", "succeeded", "partial"}
          /\ UNCHANGED workflow
      BY <1>1 DEF WarmGraph, CheckFailedSteps, FinishPipelineRun
    <2> QED
      BY <2>1, <2>2, <2>3, GoComplete DEF workflow
  <1>2. CASE FailPipelineRun(p) \/ Kill(p)
    <2>1. Go(p, "error") /\ "error" \in JobPc /\ job[p].pc # "none" /\ UNCHANGED workflow
      BY <1>2 DEF FailPipelineRun, Kill, Live, JobPc
    <2> QED
      BY <2>1, GoComplete DEF workflow
  <1> QED
    BY <1>1, <1>2 DEF EndRun

\* A job that starts has nothing behind it
LEMMA StartsComplete ==
  ASSUME TypeInv, CompleteInv, NEW p \in Process, NEW phase \in Phase, NEW n \in Nat,
         Starts(p, phase, n), UNCHANGED workflow,
         p \in Execution => stage[p] # "preflight" /\ (InPhase(p) => phase = stage[p])
  PROVE  CompleteInv'
  <1>1. /\ \A q \in Process \ {p} : job'[q] = job[q]
        /\ job'[p].pc = "start" /\ job'[p].phase = phase
    BY DEF Starts, TypeInv, TypeOK
  <1>2. ASSUME p \in Execution PROVE Complete(p)'
    <2>1. Behind(p)' = {}
      BY <1>1 DEF Behind
    <2> QED
      BY <1>1, <1>2, <2>1 DEF CompleteInv, Complete, InPhase, workflow
  <1> QED
    BY <1>1, <1>2, KeepsComplete DEF workflow, TypeInv, TypeOK

LEMMA OutsideComplete ==
  ASSUME TypeInv, CompleteInv, WeeklyAssumption, HandAssumption, NEW p \in Process,
         Retry(p) \/ StartByHand(p)
  PROVE  CompleteInv'
  <1>1. CASE Retry(p)
    <2>1. job[p].phase \in Phase /\ job[p].attempt + 1 \in Nat
      BY DEF TypeInv, TypeOK, Job
    <2>2. stage[p] # "preflight" /\ (InPhase(p) => job[p].phase = stage[p])
      BY <1>1 DEF Retry, CompleteInv, Complete
    <2> QED
      BY <1>1, <2>1, <2>2, StartsComplete DEF Retry
  <1>2. CASE StartByHand(p)
    <2>1. PICK phase \in HandPhase : Starts(p, phase, 1)
      BY <1>2 DEF StartByHand
    <2>2. phase \in Phase /\ 1 \in Nat /\ p \notin Execution
      BY <1>2, HandAssumption, WeeklyAssumption DEF HandAssumption, WeeklyAssumption, StartByHand
    <2> QED
      BY <1>2, <2>1, <2>2, StartsComplete DEF StartByHand
  <1> QED
    BY <1>1, <1>2

\* A step of the workflow that starts and ends no job
LEMMA ProceedComplete ==
  ASSUME TypeInv, CompleteInv, NEW e \in Execution, NEW to \in Stage \ {"preflight"}, Proceed(e, to),
         UNCHANGED <<job, did>>,
         to \in WeeklyPhase => job[e].pc = "none",
         Needs(to) \subseteq did[e],
         \A d \in Execution \ {e} : alerts'[d] = alerts[d],
         "succeeded" \in alerts'[e] => "succeeded" \in alerts[e] \/ Commands \subseteq did[e]
  PROVE  CompleteInv'
  <1>1. stage'[e] = to /\ \A d \in Execution \ {e} : stage'[d] = stage[d]
    BY DEF Proceed, TypeInv, TypeOK
  <1>2. Behind(e)' = Behind(e)
    BY DEF Behind, PlanOf
  <1>3. Complete(e)
    BY DEF CompleteInv
  <1>4. Complete(e)'
    <2>1. /\ (stage[e] = "preflight" => job[e].pc = "none")'
          /\ (InPhase(e) /\ job[e].pc # "none" => job[e].phase = stage[e])'
      BY <1>1 DEF InPhase
    <2>2. (Behind(e) \subseteq did[e])'
      BY <1>2, <1>3 DEF Complete
    <2>3. (Needs(stage[e]) \subseteq did[e])'
      BY <1>1
    <2>4. ("succeeded" \in alerts[e] => Commands \subseteq did[e])'
      BY <1>3 DEF Complete
    <2> QED
      BY <2>1, <2>2, <2>3, <2>4 DEF Complete
  <1> QED
    BY <1>1, <1>4, KeepsComplete DEF TypeInv, TypeOK, Process

LEMMA WorkflowComplete ==
  ASSUME TypeInv, CompleteInv, WeeklyAssumption, NEW e \in Execution,
         WorkflowStep(e) \/ Cancel(e)
  PROVE  CompleteInv'
  <1>0. /\ e \in Process /\ job \in [Process -> Job] /\ job[e] \in Job
        /\ Complete(e) /\ did \in [Execution -> SUBSET Commands]
        /\ alerts \in [Execution -> SUBSET {"succeeded", "failed"}]
    BY DEF TypeInv, TypeOK, Process, CompleteInv
  <1>1. CASE RunPreflight(e)
    <2>1. PICK to \in {"scrape", "failing"} : Proceed(e, to)
      BY <1>1 DEF RunPreflight, After
    <2>2. to \in Stage \ {"preflight"} /\ Needs(to) = {}
      BY DEF Stage, WeeklyPhase, Needs
    <2>3. job[e].pc = "none"
      BY <1>0, <1>1 DEF RunPreflight, Complete
    <2> QED
      BY <1>1, <2>1, <2>2, <2>3, ProceedComplete DEF RunPreflight
  <1>2. CASE JobFailed(e) \/ Cancel(e)
    <2>1. PICK to \in {"failing", "cancelled"} : Proceed(e, to)
      BY <1>2 DEF JobFailed, Cancel
    <2>2. to \in Stage \ {"preflight"} /\ to \notin WeeklyPhase /\ Needs(to) = {}
      BY DEF Stage, WeeklyPhase, Needs
    <2> QED
      BY <1>2, <2>1, <2>2, ProceedComplete DEF JobFailed, Cancel
  <1>3. CASE CheckRun(e) \/ CheckSteps(e)
    <2>1. PICK to \in {"statusSteps", "alert", "failing"} : Proceed(e, to)
      BY <1>3 DEF CheckRun, CheckSteps
    <2>2. to \in Stage \ {"preflight"} /\ to \notin WeeklyPhase /\ Needs(to) \subseteq Commands
      BY DEF Stage, WeeklyPhase, Needs
    <2>3. Commands \subseteq did[e]
      BY <1>0, <1>3 DEF CheckRun, CheckSteps, Complete, Needs
    <2> QED
      BY <1>3, <2>1, <2>2, <2>3, ProceedComplete DEF CheckRun, CheckSteps
  <1>4. CASE AlertSuccess(e) \/ AlertFailure(e)
    <2>1. PICK to \in {"succeeded", "failing", "failed"} : Proceed(e, to)
      BY <1>4 DEF AlertSuccess, AlertFailure
    <2>2. to \in Stage \ {"preflight"} /\ to \notin WeeklyPhase /\ Needs(to) = {}
      BY DEF Stage, WeeklyPhase, Needs
    <2>3. AlertSuccess(e) => Commands \subseteq did[e]
      BY <1>0 DEF AlertSuccess, Complete, Needs
    <2>4. AlertFailure(e) => ("succeeded" \in alerts'[e] => "succeeded" \in alerts[e])
      BY <1>0 DEF AlertFailure
    <2>5. \A d \in Execution \ {e} : alerts'[d] = alerts[d]
      BY <1>0, <1>4 DEF AlertSuccess, AlertFailure
    <2> QED
      BY <1>4, <2>1, <2>2, <2>3, <2>4, <2>5, ProceedComplete DEF AlertSuccess, AlertFailure
  <1>5. CASE RunJob(e)
    <2>1. stage[e] \in Phase /\ Starts(e, stage[e], 1) /\ 1 \in Nat /\ stage[e] # "preflight"
      BY <1>5 DEF RunJob, InPhase, Phase, WeeklyPhase
    <2> QED
      BY <1>0, <1>5, <2>1, StartsComplete DEF RunJob
  <1>6. CASE JobDone(e)
    <2>1. /\ \A q \in Process \ {e} : job'[q] = job[q]
          /\ job'[e].pc = "none"
      BY <1>0, <1>6, GoEffect DEF JobDone, JobPc
    <2>2. /\ stage'[e] = After(stage[e])
          /\ \A d \in Execution \ {e} : stage'[d] = stage[d]
      BY <1>6 DEF JobDone, Proceed, TypeInv, TypeOK
    <2>3. CommandsOf(stage[e]) \subseteq did[e]
      BY <1>0, <1>6 DEF JobDone, Complete, Behind
    <2>4. Needs(After(stage[e])) \subseteq did[e]
      BY <1>0, <1>6, <2>3, PhasesAddUp DEF JobDone, InPhase, Complete
    <2>5. Behind(e)' = {}
      BY <2>1 DEF Behind
    <2>6. Complete(e)'
      BY <1>0, <1>6, <2>1, <2>2, <2>4, <2>5 DEF JobDone, Complete, InPhase
    <2> QED
      BY <1>0, <1>6, <2>1, <2>2, <2>6, KeepsComplete DEF JobDone
  <1> QED
    BY <1>1, <1>2, <1>3, <1>4, <1>5, <1>6 DEF WorkflowStep

\* A success is announced only when the execution's own jobs completed every
\* command, however many other processes replace the rows of its label
THEOREM SuccessesComplete == Spec => []SuccessIsComplete
  <1>1. Init => CompleteInv
    BY DEF Init, CompleteInv, Complete, InPhase, WeeklyPhase, Behind, Needs, Process
  <1>2. TypeInv /\ CompleteInv /\ [Next]_vars => CompleteInv'
    <2> SUFFICES ASSUME TypeInv, CompleteInv, [Next]_vars PROVE CompleteInv'
      OBVIOUS
    <2>1. CASE UNCHANGED vars
      BY <2>1 DEF vars, CompleteInv, Complete, InPhase, Behind, PlanOf
    <2>2. ASSUME NEW p \in Process, JobStep(p) \/ Kill(p) \/ Retry(p) \/ StartByHand(p)
          PROVE  CompleteInv'
      BY <2>2, StartComplete, RunComplete, EndComplete, OutsideComplete, WeeklyAssumption,
         HandAssumption DEF JobStep
    <2>3. ASSUME NEW e \in Execution, WorkflowStep(e) \/ Cancel(e)
          PROVE  CompleteInv'
      BY <2>3, WorkflowComplete, WeeklyAssumption
    <2> QED
      BY <2>1, <2>2, <2>3 DEF Next
  <1>3. TypeInv /\ CompleteInv => SuccessIsComplete
    BY DEF TypeInv, TypeOK, CompleteInv, Complete, SuccessIsComplete
  <1> QED
    BY <1>1, <1>2, <1>3, TypesAlways, PTL DEF Spec

----------------------------------------------------------------------------
(* A ledger that can be believed *)

\* No phase is empty
LEMMA PlanIsNotEmpty ==
  ASSUME NEW phase \in Phase
  PROVE  Plan(phase) # <<>>
  BY DEF Plan, Phase, WeeklyPhase

Succeeded(rows) == \A i \in DOMAIN rows : rows[i].status = "succeeded"

\* What a job that is alone with its label has made of the ledger so far
Progress(p) ==
  LET rows == steps[LabelOf[p]]
      own == run[LabelOf[p]]
      at == job[p].at
      pc == job[p].pc
  IN
  /\ pc # "start" => own.status = "running" /\ own.phase = job[p].phase
  /\ pc = "create" => rows = <<>>
  /\ pc \notin {"start", "delete", "create"} => Len(rows) = Len(PlanOf(p))
  /\ pc = "list" =>
       \A i \in DOMAIN rows : rows[i].owner = <<p, job[p].attempt>> /\ rows[i].status = "pending"
  /\ pc \in {"next", "call", "finish", "fail"} =>
       /\ job[p].count = Len(rows)
       /\ \A i \in DOMAIN rows : rows[i].owner = job[p].listed
  /\ pc = "next" =>
       /\ at <= Len(rows) + 1
       /\ \A i \in DOMAIN rows : rows[i].status = IF i < at THEN "succeeded" ELSE "pending"
  /\ pc \in {"call", "finish", "fail"} =>
       \A i \in DOMAIN rows : rows[i].status = IF i < at THEN "succeeded"
                                               ELSE IF i = at THEN "running" ELSE "pending"
  /\ pc \in {"warm", "check", "succeeded"} => Succeeded(rows)
  /\ pc = "warm" => WarmsGraph(job[p].phase)
  /\ pc = "abort" => \/ \E i \in DOMAIN rows : rows[i].status = "failed"
                     \/ Succeeded(rows) /\ WarmsGraph(job[p].phase)
  /\ pc # "partial"

\* LedgerIsTrue, label by label
TrueOf(l) ==
  LET rows == steps[l] IN
  /\ \A i, j \in DOMAIN rows :
       i < j /\ rows[j].status # "pending" => rows[i].status = "succeeded"
  /\ run[l].status = "succeeded" => Succeeded(rows) /\ Len(rows) = Len(Plan(run[l].phase))
  /\ run[l].status = "failed" =>
       \/ \E i \in DOMAIN rows : rows[i].status = "failed"
       \/ Succeeded(rows) /\ WarmsGraph(run[l].phase)
  /\ run[l].status # "partial"

OneAtATime == \A p, q \in Process : Live(p) /\ Live(q) /\ LabelOf[p] = LabelOf[q] => p = q

LedgerInv ==
  /\ OneAtATime
  /\ \A p \in Process : Live(p) => Progress(p)
  /\ \A l \in Label : TrueOf(l)

\* Going on to another statement keeps the rest of a job
LEMMA GoKeeps ==
  ASSUME job \in [Process -> Job], NEW p \in Process, NEW pc \in JobPc, Go(p, pc)
  PROVE  /\ job'[p].attempt = job[p].attempt /\ job'[p].listed = job[p].listed
         /\ job'[p].count = job[p].count
  BY DEF Go, Job

\* A step of a job that lives concerns its own label, which nobody else uses
LEMMA StepOfLabel ==
  ASSUME TypeInv, WeeklyAssumption, LedgerInv, NEW p \in Process, Live(p),
         \A q \in Process \ {p} : job'[q] = job[q],
         \A l \in Label \ {LabelOf[p]} : run'[l] = run[l] /\ steps'[l] = steps[l],
         Live(p)' => Progress(p)',
         TrueOf(LabelOf[p])'
  PROVE  LedgerInv'
  <1>1. \A q \in Process : Live(q)' => Live(q)
    BY DEF Live
  <1>2. OneAtATime'
    BY <1>1 DEF LedgerInv, OneAtATime
  <1>3. ASSUME NEW q \in Process, Live(q)'
        PROVE  Progress(q)'
    <2>1. CASE q = p
      BY <1>3, <2>1
    <2>2. CASE q # p
      <3>1. LabelOf[q] # LabelOf[p] /\ LabelOf[q] \in Label
        BY <1>1, <1>3, <2>2 DEF LedgerInv, OneAtATime, WeeklyAssumption
      <3>2. /\ job'[q] = job[q] /\ run'[LabelOf[q]] = run[LabelOf[q]]
            /\ steps'[LabelOf[q]] = steps[LabelOf[q]]
        BY <2>2, <3>1
      <3>3. Progress(q)
        BY <1>1, <1>3 DEF LedgerInv
      <3> QED
        BY <3>2, <3>3 DEF Progress, PlanOf
    <2> QED
      BY <2>1, <2>2
  <1>4. ASSUME NEW l \in Label
        PROVE  TrueOf(l)'
    <2>1. CASE l = LabelOf[p]
      BY <2>1
    <2>2. CASE l # LabelOf[p]
      <3>1. run'[l] = run[l] /\ steps'[l] = steps[l] /\ TrueOf(l)
        BY <2>2 DEF LedgerInv
      <3> QED
        BY <3>1 DEF TrueOf
    <2> QED
      BY <2>1, <2>2
  <1> QED
    BY <1>2, <1>3, <1>4 DEF LedgerInv

\* While its job runs, a label needs only its steps in order
LEMMA RunningIsTrue ==
  ASSUME NEW l \in Label, run[l].status = "running",
         \A i, j \in DOMAIN steps[l] :
           i < j /\ steps[l][j].status # "pending" => steps[l][i].status = "succeeded"
  PROVE  TrueOf(l)
  BY DEF TrueOf

LEMMA StartLedger ==
  ASSUME TypeInv, WeeklyAssumption, LedgerInv, NEW p \in Process, StartSteps(p)
  PROVE  LedgerInv'
  <1> DEFINE l == LabelOf[p]
  <1>0. /\ job \in [Process -> Job] /\ job[p] \in Job /\ l \in Label
        /\ run \in [Label -> [phase : Phase, status : RunStatus]]
        /\ steps \in [Label -> Seq(StepRow)] /\ steps[l] \in Seq(StepRow)
        /\ job[p].phase \in Phase
    BY DEF TypeInv, TypeOK, WeeklyAssumption, Job
  <1>l. Live(p) /\ Progress(p) /\ TrueOf(l)
    BY <1>0 DEF StartSteps, StartPipelineRun, DeleteSteps, CreateSteps, ListSteps, Live, LedgerInv
  <1>1. CASE StartPipelineRun(p)
    <2>1. /\ \A q \in Process \ {p} : job'[q] = job[q]
          /\ job'[p].pc = "delete" /\ job'[p].phase = job[p].phase
      BY <1>0, <1>1, GoEffect DEF StartPipelineRun, JobPc
    <2>2. /\ run'[l].phase = job[p].phase /\ run'[l].status = "running"
          /\ \A k \in Label \ {l} : run'[k] = run[k]
          /\ steps' = steps
      BY <1>0, <1>1 DEF StartPipelineRun
    <2>3. Progress(p)'
      BY <2>1, <2>2 DEF Progress
    <2>4. TrueOf(l)'
      BY <1>l, <2>2 DEF TrueOf
    <2> QED
      BY <1>l, <2>1, <2>2, <2>3, <2>4, StepOfLabel
  <1>2. CASE DeleteSteps(p)
    <2>1. /\ \A q \in Process \ {p} : job'[q] = job[q]
          /\ job'[p].pc = "create" /\ job'[p].phase = job[p].phase
      BY <1>0, <1>2, GoEffect DEF DeleteSteps, JobPc
    <2>2. /\ steps'[l] = <<>> /\ run' = run
          /\ \A k \in Label \ {l} : steps'[k] = steps[k]
      BY <1>0, <1>2 DEF DeleteSteps
    <2>3. run[l].status = "running" /\ run[l].phase = job[p].phase
      BY <1>l, <1>2 DEF Progress, DeleteSteps
    <2>4. Progress(p)'
      BY <2>1, <2>2, <2>3 DEF Progress
    <2>5. TrueOf(l)'
      BY <2>2, <2>3 DEF TrueOf
    <2> QED
      BY <1>l, <2>1, <2>2, <2>4, <2>5, StepOfLabel
  <1>3. CASE CreateSteps(p)
    <2> DEFINE row == [owner |-> <<p, job[p].attempt>>, status |-> "pending"]
               rows == [i \in DOMAIN PlanOf(p) |-> row]
    <2>1. /\ run[l].status = "running" /\ run[l].phase = job[p].phase /\ steps[l] = <<>>
      BY <1>l, <1>3 DEF Progress, CreateSteps
    <2>2. /\ \A q \in Process \ {p} : job'[q] = job[q]
          /\ job'[p].pc = "list" /\ job'[p].phase = job[p].phase
          /\ job'[p].attempt = job[p].attempt
      <3>1. Go(p, "list") /\ "list" \in JobPc
        BY <1>3, <2>1 DEF CreateSteps, JobPc
      <3> QED
        BY <1>0, <3>1, GoEffect, GoKeeps
    <2>3. /\ steps' = [steps EXCEPT ![l] = rows] /\ run' = run
      BY <1>3, <2>1 DEF CreateSteps
    <2>4. /\ steps'[l] = rows
          /\ \A k \in Label \ {l} : steps'[k] = steps[k]
      BY <1>0, <2>3
    <2>5. /\ DOMAIN rows = 1..Len(PlanOf(p)) /\ Len(PlanOf(p)) \in Nat
          /\ \A i \in DOMAIN rows : /\ rows[i].owner = <<p, job[p].attempt>>
                                    /\ rows[i].status = "pending"
      BY <1>0, PlanType DEF PlanOf
    <2>6. Len(rows) = Len(PlanOf(p))
      BY <2>5
    <2> HIDE DEF rows
    <2>7. PlanOf(p)' = PlanOf(p)
      BY <2>2 DEF PlanOf
    <2>8. Progress(p)'
      BY <2>1, <2>2, <2>3, <2>4, <2>5, <2>6, <2>7 DEF Progress
    <2>9. TrueOf(l)'
      BY <2>1, <2>3, <2>4, <2>5 DEF TrueOf
    <2> QED
      BY <1>l, <2>2, <2>3, <2>4, <2>8, <2>9, StepOfLabel
  <1>4. CASE ListSteps(p)
    <2>1. /\ run[l].status = "running" /\ run[l].phase = job[p].phase
          /\ Len(steps[l]) = Len(PlanOf(p))
          /\ \A i \in DOMAIN steps[l] : /\ steps[l][i].owner = <<p, job[p].attempt>>
                                        /\ steps[l][i].status = "pending"
      BY <1>l, <1>4 DEF Progress, ListSteps
    <2>2. UNCHANGED <<run, steps>>
      BY <1>4 DEF ListSteps, ledger
    <2>3. steps[l] # <<>> /\ 1 \in DOMAIN steps[l]
      BY <1>0, <2>1, PlanType, PlanIsNotEmpty DEF PlanOf
    <2>4. /\ \A q \in Process \ {p} : job'[q] = job[q]
          /\ job'[p].pc = "next" /\ job'[p].phase = job[p].phase /\ job'[p].at = 1
          /\ job'[p].listed = steps[l][1].owner /\ job'[p].count = Len(steps[l])
      BY <1>0, <1>4, <2>3 DEF ListSteps
    <2>5. PlanOf(p)' = PlanOf(p)
      BY <2>4 DEF PlanOf
    <2>6. \A i \in DOMAIN steps[l] : /\ ~ i < job'[p].at
                                      /\ steps'[l][i].owner = job'[p].listed
                                      /\ steps'[l][i].status = "pending"
      <3>1. \A i \in DOMAIN steps[l] : i \in Nat /\ i >= 1
        BY <1>0
      <3>2. steps'[l] = steps[l]
        BY <2>2
      <3>3. \A i \in DOMAIN steps[l] : steps[l][i].owner = job'[p].listed
        BY <2>1, <2>3, <2>4
      <3> QED
        BY <2>1, <2>4, <3>1, <3>2, <3>3
    <2>a. /\ Len(steps[l]) \in Nat /\ job'[p].at <= Len(steps[l]) + 1
          /\ Len(steps'[l]) = Len(PlanOf(p)') /\ DOMAIN steps'[l] = DOMAIN steps[l]
          /\ job'[p].count = Len(steps'[l])
          /\ run'[l].status = "running" /\ run'[l].phase = job'[p].phase
      BY <1>0, <2>1, <2>2, <2>4, <2>5
    <2>b. \A i \in DOMAIN steps'[l] :
            /\ steps'[l][i].owner = job'[p].listed
            /\ steps'[l][i].status = IF i < job'[p].at THEN "succeeded" ELSE "pending"
      BY <2>6, <2>a
    <2>7. Progress(p)'
      BY <2>4, <2>a, <2>b DEF Progress
    <2>8. TrueOf(l)'
      BY <1>l, <2>2 DEF TrueOf
    <2> QED
      BY <1>l, <2>2, <2>4, <2>7, <2>8, StepOfLabel
  <1> QED
    BY <1>1, <1>2, <1>3, <1>4 DEF StartSteps

\* Saving a step whose row is there changes the status of that row alone
LEMMA SaveRow ==
  ASSUME TypeOK, WeeklyAssumption, NEW p \in Process, NEW status \in StepStatus,
         SaveStep(p, status), RowExists(p)
  PROVE  /\ \A k \in Label \ {LabelOf[p]} : steps'[k] = steps[k]
         /\ DOMAIN steps'[LabelOf[p]] = DOMAIN steps[LabelOf[p]]
         /\ Len(steps'[LabelOf[p]]) = Len(steps[LabelOf[p]])
         /\ \A i \in DOMAIN steps[LabelOf[p]] :
              /\ steps'[LabelOf[p]][i].owner = steps[LabelOf[p]][i].owner
              /\ steps'[LabelOf[p]][i].status = IF i = job[p].at THEN status
                                               ELSE steps[LabelOf[p]][i].status
  <1> DEFINE l == LabelOf[p]
             rows == steps[l]
             at == job[p].at
             new == [rows EXCEPT ![at].status = status]
  <1>1. l \in Label /\ rows \in Seq(StepRow) /\ steps \in [Label -> Seq(StepRow)]
    BY DEF TypeOK, WeeklyAssumption
  <1>2. at \in DOMAIN rows
    BY DEF RowExists
  <1>3. steps' = [steps EXCEPT ![l] = new]
    BY <1>1 DEF SaveStep
  <1>4. \A k \in Label \ {l} : steps'[k] = steps[k]
    BY <1>1, <1>3
  <1>5. steps'[l] = new
    BY <1>1, <1>3
  <1>6. new = [i \in DOMAIN rows |-> IF i = at THEN [rows[at] EXCEPT !.status = status]
                                     ELSE rows[i]]
    BY <1>1, <1>2
  <1>7. DOMAIN new = DOMAIN rows /\ Len(new) = Len(rows)
    BY <1>1, <1>6
  <1>8. rows[at] \in StepRow
    BY <1>1, <1>2
  <1>9. \A i \in DOMAIN rows :
          /\ new[i].owner = rows[i].owner
          /\ new[i].status = IF i = at THEN status ELSE rows[i].status
    BY <1>6, <1>8 DEF StepRow
  <1> QED
    BY <1>4, <1>5, <1>7, <1>9

\* The row of the step that a job alone with its label has before it is its own
LEMMA OwnRow ==
  ASSUME TypeInv, WeeklyAssumption, NEW p \in Process, Progress(p),
         job[p].pc \in {"next", "call", "finish", "fail"},
         job[p].at <= job[p].count
  PROVE  RowExists(p)
  <1> DEFINE l == LabelOf[p]
  <1>1. job[p] \in Job /\ job[p].at \in Nat /\ l \in Label /\ steps[l] \in Seq(StepRow)
    BY DEF TypeInv, TypeOK, WeeklyAssumption, Job
  <1>2. job[p].at >= 1
    BY DEF TypeInv, AtInPlan
  <1>3. /\ job[p].count = Len(steps[l])
        /\ \A i \in DOMAIN steps[l] : steps[l][i].owner = job[p].listed
    BY DEF Progress
  <1>4. job[p].at \in DOMAIN steps[l]
    BY <1>1, <1>2, <1>3
  <1> QED
    BY <1>3, <1>4 DEF RowExists

LEMMA RunLedger ==
  ASSUME TypeInv, WeeklyAssumption, LedgerInv, NEW p \in Process, RunSteps(p)
  PROVE  LedgerInv'
  <1> DEFINE l == LabelOf[p]
             rows == steps[l]
             at == job[p].at
  <1>0. /\ job \in [Process -> Job] /\ job[p] \in Job /\ l \in Label
        /\ run \in [Label -> [phase : Phase, status : RunStatus]]
        /\ steps \in [Label -> Seq(StepRow)] /\ rows \in Seq(StepRow)
        /\ job[p].phase \in Phase /\ at \in Nat /\ Len(rows) \in Nat
        /\ DOMAIN rows = 1..Len(rows) /\ TypeOK
    BY DEF TypeInv, TypeOK, WeeklyAssumption, Job
  <1>p. job[p].pc \in {"next", "call", "finish", "fail"}
    BY DEF RunSteps, EndSteps, ZipRaises, BeginStep, CommandReturns, CommandRaises,
           FinishStepRun, FailStepRun
  <1>l. Live(p) /\ Progress(p) /\ TrueOf(l)
    BY <1>0, <1>p DEF Live, LedgerInv
  <1>r. /\ run[l].status = "running" /\ run[l].phase = job[p].phase
        /\ Len(rows) = Len(PlanOf(p)) /\ job[p].count = Len(rows)
        /\ \A i \in DOMAIN rows : rows[i].owner = job[p].listed
    BY <1>p, <1>l DEF Progress
  <1>n. at >= 1
    BY <1>p DEF TypeInv, AtInPlan
  <1>1. CASE EndSteps(p)
    <2> DEFINE pc == IF WarmsGraph(job[p].phase) THEN "warm" ELSE "check"
    <2>1. Go(p, pc) /\ pc \in JobPc /\ UNCHANGED <<run, steps>> /\ at > Len(rows)
          /\ job[p].pc = "next"
      BY <1>0, <1>1, <1>r DEF EndSteps, BothExhausted, JobPc, ledger
    <2>2. /\ \A q \in Process \ {p} : job'[q] = job[q]
          /\ job'[p].pc = pc /\ job'[p].phase = job[p].phase
      BY <1>0, <2>1, GoEffect
    <2>3. \A i \in DOMAIN rows : i < at
      BY <1>0, <2>1
    <2>4. Succeeded(rows)
      BY <1>l, <2>1, <2>3 DEF Progress, Succeeded
    <2>5. PlanOf(p)' = PlanOf(p)
      BY <2>2 DEF PlanOf
    <2>6. Progress(p)'
      BY <1>r, <2>1, <2>2, <2>4, <2>5 DEF Progress, Succeeded
    <2>7. TrueOf(l)'
      BY <1>l, <2>1 DEF TrueOf
    <2> QED
      BY <1>l, <2>1, <2>2, <2>6, <2>7, StepOfLabel
  <1>2. CASE ZipRaises(p)
    \* as many rows as steps
    BY <1>0, <1>2, <1>r DEF ZipRaises, OneExhausted
  <1>3. CASE BeginStep(p)
    <2>1. /\ job[p].pc = "next" /\ at <= Len(rows)
          /\ SaveStep(p, "running") /\ Go(p, NextPc(p)) /\ run' = run
      BY <1>0, <1>3, <1>r DEF BeginStep
    <2>2. RowExists(p)
      BY <1>l, <1>p, <1>r, <2>1, OwnRow
    <2>3. Go(p, "call") /\ "call" \in JobPc
      BY <2>1, <2>2 DEF NextPc, JobPc
    <2>4. /\ \A q \in Process \ {p} : job'[q] = job[q]
          /\ job'[p].pc = "call" /\ job'[p].phase = job[p].phase /\ job'[p].at = at
          /\ job'[p].count = job[p].count /\ job'[p].listed = job[p].listed
      BY <1>0, <2>3, GoEffect, GoKeeps
    <2>5. /\ \A k \in Label \ {l} : steps'[k] = steps[k]
          /\ DOMAIN steps'[l] = DOMAIN rows /\ Len(steps'[l]) = Len(rows)
          /\ \A i \in DOMAIN rows :
               /\ steps'[l][i].owner = rows[i].owner
               /\ steps'[l][i].status = IF i = at THEN "running" ELSE rows[i].status
      BY <1>0, <2>1, <2>2, SaveRow DEF StepStatus
    <2>6. \A i \in DOMAIN rows : rows[i].status = IF i < at THEN "succeeded" ELSE "pending"
      BY <1>l, <2>1 DEF Progress
    <2>7. \A i \in DOMAIN steps'[l] :
            /\ steps'[l][i].owner = job'[p].listed
            /\ steps'[l][i].status = IF i < at THEN "succeeded"
                                     ELSE IF i = at THEN "running" ELSE "pending"
      BY <1>0, <1>r, <2>4, <2>5, <2>6
    <2>8. PlanOf(p)' = PlanOf(p)
      BY <2>4 DEF PlanOf
    <2>9. Progress(p)'
      BY <1>r, <2>1, <2>4, <2>5, <2>7, <2>8 DEF Progress
    <2>a. \A i, j \in DOMAIN steps'[l] :
            i < j /\ steps'[l][j].status # "pending" => steps'[l][i].status = "succeeded"
      BY <1>0, <2>5, <2>7
    <2>b. TrueOf(l)'
      BY <1>r, <2>1, <2>a DEF TrueOf
    <2> QED
      BY <1>l, <2>1, <2>4, <2>5, <2>9, <2>b, StepOfLabel
  <1>4. CASE CommandReturns(p) \/ CommandRaises(p)
    <2>1. PICK pc \in {"finish", "fail"} : Go(p, pc)
      BY <1>4 DEF CommandReturns, CommandRaises
    <2>2. pc \in JobPc /\ UNCHANGED <<run, steps>> /\ job[p].pc = "call"
      BY <1>4 DEF CommandReturns, CommandRaises, JobPc, ledger
    <2>3. /\ \A q \in Process \ {p} : job'[q] = job[q]
          /\ job'[p].pc = pc /\ job'[p].phase = job[p].phase /\ job'[p].at = at
          /\ job'[p].count = job[p].count /\ job'[p].listed = job[p].listed
      BY <1>0, <2>1, <2>2, GoEffect, GoKeeps
    <2>4. PlanOf(p)' = PlanOf(p)
      BY <2>3 DEF PlanOf
    <2>5. \A i \in DOMAIN rows : rows[i].status = IF i < at THEN "succeeded"
                                                  ELSE IF i = at THEN "running" ELSE "pending"
      BY <1>l, <2>2 DEF Progress
    <2>6. Progress(p)'
      BY <1>r, <2>2, <2>3, <2>4, <2>5 DEF Progress
    <2>7. TrueOf(l)'
      BY <1>l, <2>2 DEF TrueOf
    <2> QED
      BY <1>l, <2>2, <2>3, <2>6, <2>7, StepOfLabel
  <1>5. CASE FinishStepRun(p)
    <2>1. /\ job[p].pc = "finish" /\ SaveStep(p, "succeeded") /\ run' = run
          /\ at <= Len(rows)
      BY <1>0, <1>5, <1>r DEF FinishStepRun, TypeInv, AtInPlan
    <2>2. RowExists(p)
      BY <1>l, <1>p, <1>r, <2>1, OwnRow
    <2>3. job' = [job EXCEPT ![p].pc = "next", ![p].at = at + 1]
      BY <1>5, <2>2 DEF FinishStepRun
    <2>4. /\ \A q \in Process \ {p} : job'[q] = job[q]
          /\ job'[p].pc = "next" /\ job'[p].phase = job[p].phase /\ job'[p].at = at + 1
          /\ job'[p].count = job[p].count /\ job'[p].listed = job[p].listed
      BY <1>0, <2>3 DEF Job
    <2>5. /\ \A k \in Label \ {l} : steps'[k] = steps[k]
          /\ DOMAIN steps'[l] = DOMAIN rows /\ Len(steps'[l]) = Len(rows)
          /\ \A i \in DOMAIN rows :
               /\ steps'[l][i].owner = rows[i].owner
               /\ steps'[l][i].status = IF i = at THEN "succeeded" ELSE rows[i].status
      BY <1>0, <2>1, <2>2, SaveRow DEF StepStatus
    <2>6. \A i \in DOMAIN rows : rows[i].status = IF i < at THEN "succeeded"
                                                  ELSE IF i = at THEN "running" ELSE "pending"
      BY <1>l, <2>1 DEF Progress
    <2>7. \A i \in DOMAIN steps'[l] :
            /\ steps'[l][i].owner = job'[p].listed
            /\ steps'[l][i].status = IF i < at + 1 THEN "succeeded" ELSE "pending"
      BY <1>0, <1>r, <2>4, <2>5, <2>6
    <2>8. PlanOf(p)' = PlanOf(p) /\ at + 1 <= Len(steps'[l]) + 1
      BY <1>0, <2>1, <2>4, <2>5 DEF PlanOf
    <2>9. Progress(p)'
      BY <1>r, <2>1, <2>4, <2>5, <2>7, <2>8 DEF Progress
    <2>a. \A i, j \in DOMAIN steps'[l] :
            i < j /\ steps'[l][j].status # "pending" => steps'[l][i].status = "succeeded"
      BY <1>0, <2>5, <2>7
    <2>b. TrueOf(l)'
      BY <1>r, <2>1, <2>a DEF TrueOf
    <2> QED
      BY <1>l, <2>1, <2>4, <2>5, <2>9, <2>b, StepOfLabel
  <1>6. CASE FailStepRun(p)
    <2>1. /\ job[p].pc = "fail" /\ SaveStep(p, "failed") /\ run' = run
          /\ at <= Len(rows) /\ Go(p, "abort") /\ "abort" \in JobPc
      BY <1>0, <1>6, <1>r DEF FailStepRun, TypeInv, AtInPlan, JobPc
    <2>2. RowExists(p)
      BY <1>l, <1>p, <1>r, <2>1, OwnRow
    <2>3. /\ \A q \in Process \ {p} : job'[q] = job[q]
          /\ job'[p].pc = "abort" /\ job'[p].phase = job[p].phase
      BY <1>0, <2>1, GoEffect
    <2>4. /\ \A k \in Label \ {l} : steps'[k] = steps[k]
          /\ DOMAIN steps'[l] = DOMAIN rows /\ Len(steps'[l]) = Len(rows)
          /\ \A i \in DOMAIN rows :
               steps'[l][i].status = IF i = at THEN "failed" ELSE rows[i].status
      BY <1>0, <2>1, <2>2, SaveRow DEF StepStatus
    <2>5. \A i \in DOMAIN rows : rows[i].status = IF i < at THEN "succeeded"
                                                  ELSE IF i = at THEN "running" ELSE "pending"
      BY <1>l, <2>1 DEF Progress
    <2>6. at \in DOMAIN steps'[l] /\ steps'[l][at].status = "failed"
      BY <1>0, <1>n, <2>1, <2>4
    <2>7. PlanOf(p)' = PlanOf(p)
      BY <2>3 DEF PlanOf
    <2>8. Progress(p)'
      BY <1>r, <2>1, <2>3, <2>4, <2>6, <2>7 DEF Progress
    <2>9. \A i, j \in DOMAIN steps'[l] :
            i < j /\ steps'[l][j].status # "pending" => steps'[l][i].status = "succeeded"
      BY <1>0, <2>4, <2>5
    <2>a. TrueOf(l)'
      BY <1>r, <2>1, <2>9 DEF TrueOf
    <2> QED
      BY <1>l, <2>1, <2>3, <2>4, <2>8, <2>a, StepOfLabel
  <1> QED
    BY <1>1, <1>2, <1>3, <1>4, <1>5, <1>6 DEF RunSteps

LEMMA EndLedger ==
  ASSUME TypeInv, WeeklyAssumption, LedgerInv, NEW p \in Process, EndRun(p)
  PROVE  LedgerInv'
  <1> DEFINE l == LabelOf[p]
             rows == steps[l]
  <1>0. /\ job \in [Process -> Job] /\ job[p] \in Job /\ l \in Label
        /\ run \in [Label -> [phase : Phase, status : RunStatus]]
        /\ job[p].phase \in Phase
    BY DEF TypeInv, TypeOK, WeeklyAssumption, Job
  <1>p. job[p].pc \in {"warm", "check", "succeeded", "partial", "abort"}
    BY DEF EndRun, WarmGraph, CheckFailedSteps, FinishPipelineRun, FailPipelineRun
  <1>l. Live(p) /\ Progress(p) /\ TrueOf(l)
    BY <1>0, <1>p DEF Live, LedgerInv
  <1>r. /\ run[l].status = "running" /\ run[l].phase = job[p].phase
        /\ Len(rows) = Len(PlanOf(p))
    BY <1>p, <1>l DEF Progress
  <1>1. CASE WarmGraph(p)
    <2>1. /\ job[p].pc = "warm" /\ UNCHANGED <<run, steps>>
      BY <1>1 DEF WarmGraph, ledger
    <2>2. PICK pc \in {"check", "abort"} : Go(p, pc)
      BY <1>1 DEF WarmGraph
    <2>3. pc \in JobPc
      BY DEF JobPc
    <2>4. /\ \A q \in Process \ {p} : job'[q] = job[q]
          /\ job'[p].pc = pc /\ job'[p].phase = job[p].phase
      BY <1>0, <2>2, <2>3, GoEffect
    <2>5. Succeeded(rows) /\ WarmsGraph(job[p].phase)
      BY <1>l, <2>1 DEF Progress
    <2>6. PlanOf(p)' = PlanOf(p)
      BY <2>4 DEF PlanOf
    <2>7. Progress(p)'
      BY <1>r, <2>1, <2>4, <2>5, <2>6 DEF Progress, Succeeded
    <2>8. TrueOf(l)'
      BY <1>l, <2>1 DEF TrueOf
    <2> QED
      BY <1>l, <2>1, <2>4, <2>7, <2>8, StepOfLabel
  <1>2. CASE CheckFailedSteps(p)
    <2>1. /\ job[p].pc = "check" /\ UNCHANGED <<run, steps>>
      BY <1>2 DEF CheckFailedSteps, ledger
    <2>2. Succeeded(rows)
      BY <1>l, <2>1 DEF Progress
    <2>3. Go(p, "succeeded") /\ "succeeded" \in JobPc
      BY <1>2, <2>2 DEF CheckFailedSteps, Succeeded, JobPc
    <2>4. /\ \A q \in Process \ {p} : job'[q] = job[q]
          /\ job'[p].pc = "succeeded" /\ job'[p].phase = job[p].phase
      BY <1>0, <2>3, GoEffect
    <2>5. PlanOf(p)' = PlanOf(p)
      BY <2>4 DEF PlanOf
    <2>6. Progress(p)'
      BY <1>r, <2>1, <2>2, <2>4, <2>5 DEF Progress, Succeeded
    <2>7. TrueOf(l)'
      BY <1>l, <2>1 DEF TrueOf
    <2> QED
      BY <1>l, <2>1, <2>4, <2>6, <2>7, StepOfLabel
  <1>3. CASE FinishPipelineRun(p)
    <2>1. /\ job[p].pc = "succeeded" /\ steps' = steps
          /\ SaveRun(p, "succeeded") /\ Go(p, "done") /\ "done" \in JobPc
      BY <1>3, <1>l DEF FinishPipelineRun, Progress, JobPc
    <2>2. /\ \A q \in Process \ {p} : job'[q] = job[q]
          /\ job'[p].pc = "done"
      BY <1>0, <2>1, GoEffect
    <2>3. /\ \A k \in Label \ {l} : run'[k] = run[k]
          /\ run'[l].status = "succeeded" /\ run'[l].phase = run[l].phase
      BY <1>0, <2>1 DEF SaveRun
    <2>4. Succeeded(rows) /\ Len(rows) = Len(Plan(run'[l].phase))
      BY <1>l, <1>r, <2>1, <2>3 DEF Progress, PlanOf
    <2>5. TrueOf(l)'
      BY <1>l, <2>1, <2>3, <2>4 DEF TrueOf, Succeeded
    <2>6. ~Live(p)'
      BY <2>2 DEF Live
    <2> QED
      BY <1>l, <2>1, <2>2, <2>3, <2>5, <2>6, StepOfLabel
  <1>4. CASE FailPipelineRun(p)
    <2>1. /\ job[p].pc = "abort" /\ steps' = steps
          /\ SaveRun(p, "failed") /\ Go(p, "error") /\ "error" \in JobPc
      BY <1>4 DEF FailPipelineRun, JobPc
    <2>2. /\ \A q \in Process \ {p} : job'[q] = job[q]
          /\ job'[p].pc = "error"
      BY <1>0, <2>1, GoEffect
    <2>3. /\ \A k \in Label \ {l} : run'[k] = run[k]
          /\ run'[l].status = "failed" /\ run'[l].phase = run[l].phase
      BY <1>0, <2>1 DEF SaveRun
    <2>4. \/ \E i \in DOMAIN rows : rows[i].status = "failed"
          \/ Succeeded(rows) /\ WarmsGraph(run'[l].phase)
      BY <1>l, <1>r, <2>1, <2>3 DEF Progress
    <2>5. TrueOf(l)'
      BY <1>l, <2>1, <2>3, <2>4 DEF TrueOf, Succeeded
    <2>6. ~Live(p)'
      BY <2>2 DEF Live
    <2> QED
      BY <1>l, <2>1, <2>2, <2>3, <2>5, <2>6, StepOfLabel
  <1> QED
    BY <1>1, <1>2, <1>3, <1>4 DEF EndRun

\* Jobs that start where nobody works take over a label
LEMMA StartsLedger ==
  ASSUME TypeInv, WeeklyAssumption, LedgerInv, ~Together, NEW p \in Process, NEW phase \in Phase,
         NEW n \in Nat, Starts(p, phase, n), UNCHANGED <<run, steps>>
  PROVE  LedgerInv'
  <1>1. /\ \A q \in Process \ {p} : job'[q] = job[q]
        /\ job'[p].pc = "start"
    BY DEF Starts, TypeInv, TypeOK
  <1>2. \A q \in Process : LabelOf[q] = LabelOf[p] => ~Live(q)
    BY DEF Starts, Users
  <1>3. \A q \in Process \ {p} : Live(q)' <=> Live(q)
    BY <1>1 DEF Live
  <1>4. OneAtATime'
    BY <1>2, <1>3 DEF LedgerInv, OneAtATime
  <1>5. ASSUME NEW q \in Process, Live(q)'
        PROVE  Progress(q)'
    <2>1. CASE q = p
      BY <1>1, <2>1 DEF Progress
    <2>2. CASE q # p
      <3>1. job'[q] = job[q] /\ Progress(q)
        BY <1>1, <1>3, <1>5, <2>2 DEF LedgerInv
      <3> QED
        BY <3>1 DEF Progress, PlanOf
    <2> QED
      BY <2>1, <2>2
  <1>6. \A l \in Label : TrueOf(l)'
    BY DEF LedgerInv, TrueOf
  <1> QED
    BY <1>4, <1>5, <1>6 DEF LedgerInv

\* Steps that touch neither a ledger nor a job, but for a job that ends
LEMMA IdleLedger ==
  ASSUME LedgerInv, UNCHANGED <<run, steps>>,
         \A q \in Process : job'[q] = job[q] \/ ~Live(q)'
  PROVE  LedgerInv'
  <1>1. \A q \in Process : Live(q)' => Live(q) /\ job'[q] = job[q]
    BY DEF Live
  <1>2. OneAtATime'
    BY <1>1 DEF LedgerInv, OneAtATime
  <1>3. ASSUME NEW q \in Process, Live(q)'
        PROVE  Progress(q)'
    <2>1. job'[q] = job[q] /\ Progress(q)
      BY <1>1, <1>3 DEF LedgerInv
    <2> QED
      BY <2>1 DEF Progress, PlanOf
  <1>4. \A l \in Label : TrueOf(l)'
    BY DEF LedgerInv, TrueOf
  <1> QED
    BY <1>2, <1>3, <1>4 DEF LedgerInv

LEMMA OutsideLedger ==
  ASSUME TypeInv, WeeklyAssumption, HandAssumption, LedgerInv, ~Together, NEW p \in Process,
         Kill(p) \/ Retry(p) \/ StartByHand(p)
  PROVE  LedgerInv'
  <1>0. job \in [Process -> Job] /\ job[p] \in Job
    BY DEF TypeInv, TypeOK
  <1>1. CASE Kill(p)
    <2>1. Go(p, "error") /\ "error" \in JobPc /\ UNCHANGED <<run, steps>>
      BY <1>1 DEF Kill, JobPc, ledger
    <2>2. job'[p].pc = "error" /\ \A q \in Process \ {p} : job'[q] = job[q]
      BY <1>0, <2>1, GoEffect
    <2> QED
      BY <2>1, <2>2, IdleLedger DEF Live
  <1>2. CASE Retry(p)
    <2>1. /\ Starts(p, job[p].phase, job[p].attempt + 1) /\ UNCHANGED <<run, steps>>
          /\ job[p].phase \in Phase /\ job[p].attempt + 1 \in Nat
      BY <1>0, <1>2 DEF Retry, ledger, Job
    <2> QED
      BY <2>1, StartsLedger
  <1>3. CASE StartByHand(p)
    <2>1. PICK phase \in HandPhase : Starts(p, phase, 1)
      BY <1>3 DEF StartByHand
    <2>2. phase \in Phase /\ UNCHANGED <<run, steps>>
      BY <1>3 DEF HandAssumption, StartByHand, ledger
    <2> QED
      BY <2>1, <2>2, StartsLedger
  <1> QED
    BY <1>1, <1>2, <1>3

LEMMA WorkflowLedger ==
  ASSUME TypeInv, WeeklyAssumption, LedgerInv, ~Together, NEW e \in Execution,
         WorkflowStep(e) \/ Cancel(e)
  PROVE  LedgerInv'
  <1>0. job \in [Process -> Job] /\ e \in Process /\ UNCHANGED <<run, steps>>
    BY DEF TypeInv, TypeOK, Process, WorkflowStep, RunPreflight, RunJob, JobDone, JobFailed,
           CheckRun, CheckSteps, AlertSuccess, AlertFailure, Cancel, ledger
  <1>1. CASE RunJob(e)
    <2>1. Starts(e, stage[e], 1) /\ stage[e] \in Phase
      BY <1>1 DEF RunJob, InPhase, Phase
    <2> QED
      BY <1>0, <2>1, StartsLedger
  <1>2. CASE JobDone(e)
    <2>1. Go(e, "none") /\ "none" \in JobPc
      BY <1>2 DEF JobDone, JobPc
    <2>2. job'[e].pc = "none" /\ \A q \in Process \ {e} : job'[q] = job[q]
      BY <1>0, <2>1, GoEffect
    <2> QED
      BY <1>0, <2>2, IdleLedger DEF Live
  <1>3. CASE ~RunJob(e) /\ ~JobDone(e)
    <2>1. job' = job
      BY <1>3 DEF WorkflowStep, RunPreflight, JobFailed, CheckRun, CheckSteps, AlertSuccess,
                  AlertFailure, Cancel
    <2> QED
      BY <1>0, <2>1, IdleLedger
  <1> QED
    BY <1>1, <1>2, <1>3

\* Where jobs use a label one at a time - whoever starts them, however often one of
\* them is killed and retried - the ledger tells the truth: the steps that succeeded
\* come first, and a run that is over is over for the reason its steps show
THEOREM LedgerBelieved == ASSUME ~Together PROVE Spec => []LedgerIsTrue
  <1>1. Init => LedgerInv
    BY DEF Init, LedgerInv, OneAtATime, TrueOf, Live
  <1>2. TypeInv /\ LedgerInv /\ [Next]_vars => LedgerInv'
    <2> SUFFICES ASSUME TypeInv, LedgerInv, [Next]_vars PROVE LedgerInv'
      OBVIOUS
    <2>1. CASE UNCHANGED vars
      BY <2>1, IdleLedger DEF vars
    <2>2. ASSUME NEW p \in Process, JobStep(p) \/ Kill(p) \/ Retry(p) \/ StartByHand(p)
          PROVE  LedgerInv'
      BY <2>2, StartLedger, RunLedger, EndLedger, OutsideLedger, WeeklyAssumption,
         HandAssumption DEF JobStep
    <2>3. ASSUME NEW e \in Execution, WorkflowStep(e) \/ Cancel(e)
          PROVE  LedgerInv'
      BY <2>3, WorkflowLedger, WeeklyAssumption
    <2> QED
      BY <2>1, <2>2, <2>3 DEF Next
  <1>3. LedgerInv => LedgerIsTrue
    BY DEF LedgerInv, TrueOf, LedgerIsTrue, Succeeded
  <1> QED
    BY <1>1, <1>2, <1>3, TypesAlways, PTL DEF Spec

=============================================================================
