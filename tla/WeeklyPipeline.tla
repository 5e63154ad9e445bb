--------------------------- MODULE WeeklyPipeline ---------------------------
(***************************************************************************)
(* The weekly update: run_weekly_update_pipeline, which runs the commands  *)
(* of a phase and keeps the ledger of PipelineRun and PipelineStepRun; the *)
(* Cloud Workflow that runs its phases as Cloud Run jobs, checks the       *)
(* ledger with weekly_update_status and sends an alert; the operator who   *)
(* runs phases by hand.                                                    *)
(*                                                                         *)
(* All phases of a week share one label, hence one PipelineRun row, whose  *)
(* steps every phase replaces.  Nothing stops two processes from using one *)
(* label at once: an execution may be started again, or cancelled, while a *)
(* job it started goes on.                                                 *)
(***************************************************************************)
EXTENDS Naturals, Sequences, FiniteSets

CONSTANTS
  Execution,    \* executions of the workflow
  Operator,     \* processes started by hand
  HandPhase,    \* the phases that are run by hand
  Label,
  LabelOf,      \* the run_label of each execution and operator
  Together,     \* whether a job may start while another one uses its label
  MaxAttempts   \* attempts a Cloud Run job makes in all

Process == Execution \cup Operator

ASSUME WeeklyAssumption ==
  /\ Execution \cap Operator = {}
  /\ LabelOf \in [Process -> Label]
  /\ Together \in BOOLEAN
  /\ MaxAttempts \in Nat \ {0}

VARIABLES
  run,     \* PipelineRun rows, by label
  steps,   \* PipelineStepRun rows of each label, in sequence
  job,     \* the run_weekly_update_pipeline that each process runs, if any
  stage,   \* where each workflow execution stands
  did,     \* history: commands that jobs of each execution completed
  killed,  \* history: labels of jobs that were killed
  alerts   \* alerts each execution sent

ledger == <<run, steps>>
workflow == <<stage, did, alerts>>
vars == <<run, steps, job, stage, did, killed, alerts>>

----------------------------------------------------------------------------
(* build_pipeline_steps, no step being skipped *)

Commands ==
  {"ingest_feeds", "run_guest_extraction_batch_backfill", "sync_guest_appearances",
   "promote_frequent_guests_to_cohosts", "refresh_person_entity_resolution",
   "calculate_network_metrics", "calculate_network_evolution",
   "audit_future_link_weekly_new_links", "score_future_link_predictions",
   "generate_static_plots", "build_six_degrees_graph_artifact"}

Plan(phase) ==
  CASE phase = "all" ->
         <<"ingest_feeds", "run_guest_extraction_batch_backfill", "sync_guest_appearances",
           "promote_frequent_guests_to_cohosts", "refresh_person_entity_resolution",
           "calculate_network_metrics", "calculate_network_evolution",
           "audit_future_link_weekly_new_links", "score_future_link_predictions",
           "generate_static_plots", "build_six_degrees_graph_artifact">>
    [] phase = "scrape" -> <<"ingest_feeds">>
    [] phase = "llm" -> <<"run_guest_extraction_batch_backfill">>
    [] phase = "processing-er" -> <<"sync_guest_appearances",
         "promote_frequent_guests_to_cohosts", "refresh_person_entity_resolution">>
    [] phase = "metrics" -> <<"calculate_network_metrics", "calculate_network_evolution",
         "build_six_degrees_graph_artifact">>
    [] phase = "predictions" -> <<"audit_future_link_weekly_new_links",
         "score_future_link_predictions", "generate_static_plots">>
    [] OTHER -> <<"generate_static_plots">>

WarmsGraph(phase) == phase \in {"all", "metrics"}

----------------------------------------------------------------------------
(* Data *)

WeeklyPhase == {"scrape", "llm", "processing-er", "metrics", "predictions"}
Phase == WeeklyPhase \cup {"all", "plots"}

ASSUME HandAssumption == HandPhase \subseteq Phase

RunStatus == {"none", "running", "succeeded", "partial", "failed"}
StepStatus == {"pending", "running", "succeeded", "failed"}

\* Who created a row: a process and the attempt it was in
Owner == Process \X Nat
StepRow == [owner : Owner, status : StepStatus]

\* Each value of pc is the statement that comes next; listed is the owner of the
\* rows the job iterates over, of which there are count
JobPc == {"none", "start", "delete", "create", "list", "next", "call", "finish", "fail",
          "warm", "check", "succeeded", "partial", "abort", "done", "error"}
Job == [pc : JobPc, phase : Phase, attempt : Nat, listed : Owner, count : Nat, at : Nat]

Live(p) == job[p].pc \notin {"none", "done", "error"}
Users(l) == {p \in Process : LabelOf[p] = l /\ Live(p)}

Go(p, pc) == job' = [job EXCEPT ![p].pc = pc]

PlanOf(p) == Plan(job[p].phase)

\* The row the job's step object stands for is still there
RowExists(p) ==
  LET rows == steps[LabelOf[p]]
  IN  job[p].at \in DOMAIN rows /\ rows[job[p].at].owner = job[p].listed

SaveStep(p, status) ==
  steps' = [steps EXCEPT ![LabelOf[p]] =
              IF RowExists(p) THEN [@ EXCEPT ![job[p].at].status = status] ELSE @]

SaveRun(p, status) == run' = [run EXCEPT ![LabelOf[p]].status = status]

----------------------------------------------------------------------------
(* start_pipeline_run *)

\* update_or_create
StartPipelineRun(p) ==
  /\ job[p].pc = "start"
  /\ run' = [run EXCEPT ![LabelOf[p]] = [phase |-> job[p].phase, status |-> "running"]]
  /\ Go(p, "delete")
  /\ UNCHANGED <<steps, workflow, killed>>

DeleteSteps(p) ==
  /\ job[p].pc = "delete"
  /\ steps' = [steps EXCEPT ![LabelOf[p]] = <<>>]
  /\ Go(p, "create")
  /\ UNCHANGED <<run, workflow, killed>>

\* bulk_create; rows of another job violate unique_pipeline_step_sequence_per_run,
\* outside of the try: the row of the run is left as it is
CreateSteps(p) ==
  /\ job[p].pc = "create"
  /\ IF steps[LabelOf[p]] = <<>>
     THEN /\ steps' = [steps EXCEPT ![LabelOf[p]] =
                         [i \in DOMAIN PlanOf(p) |-> [owner |-> <<p, job[p].attempt>>,
                                                      status |-> "pending"]]]
          /\ Go(p, "list")
     ELSE Go(p, "error") /\ UNCHANGED steps
  /\ UNCHANGED <<run, workflow, killed>>

----------------------------------------------------------------------------
(* The steps *)

\* The rows are read when the loop starts, whoever created them
ListSteps(p) ==
  LET rows == steps[LabelOf[p]] IN
  /\ job[p].pc = "list"
  /\ job' = [job EXCEPT ![p] =
               [pc |-> "next", phase |-> @.phase, attempt |-> @.attempt,
                listed |-> IF rows = <<>> THEN <<p, 0>> ELSE rows[1].owner,
                count |-> Len(rows), at |-> 1]]
  /\ UNCHANGED <<ledger, workflow, killed>>

\* Mutant: zip without strict
AnyExhausted(p) == job[p].at > job[p].count \/ job[p].at > Len(PlanOf(p))

BothExhausted(p) == job[p].at > job[p].count /\ job[p].at > Len(PlanOf(p))

OneExhausted(p) == (job[p].at > job[p].count) # (job[p].at > Len(PlanOf(p)))

EndSteps(p) ==
  /\ job[p].pc = "next"
  /\ BothExhausted(p)
  /\ Go(p, IF WarmsGraph(job[p].phase) THEN "warm" ELSE "check")
  /\ UNCHANGED <<ledger, workflow, killed>>

\* zip(strict=True): as many rows as steps, or ValueError
ZipRaises(p) ==
  /\ job[p].pc = "next"
  /\ OneExhausted(p)
  /\ Go(p, "abort")
  /\ UNCHANGED <<ledger, workflow, killed>>

\* A save with update_fields of a row that is gone raises
NextPc(p) == IF RowExists(p) THEN "call" ELSE "abort"

BeginStep(p) ==
  /\ job[p].pc = "next"
  /\ job[p].at <= job[p].count /\ job[p].at <= Len(PlanOf(p))
  /\ SaveStep(p, "running")
  /\ Go(p, NextPc(p))
  /\ UNCHANGED <<run, workflow, killed>>

CommandReturns(p) ==
  /\ job[p].pc = "call"
  /\ Go(p, "finish")
  /\ did' = IF p \in Execution THEN [did EXCEPT ![p] = @ \cup {PlanOf(p)[job[p].at]}] ELSE did
  /\ UNCHANGED <<ledger, stage, alerts, killed>>

CommandRaises(p) ==
  /\ job[p].pc = "call"
  /\ Go(p, "fail")
  /\ UNCHANGED <<ledger, workflow, killed>>

FinishStepRun(p) ==
  /\ job[p].pc = "finish"
  /\ SaveStep(p, "succeeded")
  /\ job' = [job EXCEPT ![p].pc = IF RowExists(p) THEN "next" ELSE "abort",
                        ![p].at = IF RowExists(p) THEN @ + 1 ELSE @]
  /\ UNCHANGED <<run, workflow, killed>>

\* Mutant: the failure is raised before it is saved
FailStepRunUnsaved(p) ==
  /\ job[p].pc = "fail"
  /\ Go(p, "abort")
  /\ UNCHANGED <<ledger, workflow, killed>>

FailStepRun(p) ==
  /\ job[p].pc = "fail"
  /\ SaveStep(p, "failed")
  /\ Go(p, "abort")
  /\ UNCHANGED <<run, workflow, killed>>

----------------------------------------------------------------------------
(* The end of the run *)

WarmGraph(p) ==
  /\ job[p].pc = "warm"
  /\ \E pc \in {"check", "abort"} : Go(p, pc)
  /\ UNCHANGED <<ledger, workflow, killed>>

CheckFailedSteps(p) ==
  LET rows == steps[LabelOf[p]] IN
  /\ job[p].pc = "check"
  /\ Go(p, IF \E i \in DOMAIN rows : rows[i].status = "failed" THEN "partial" ELSE "succeeded")
  /\ UNCHANGED <<ledger, workflow, killed>>

FinishPipelineRun(p) ==
  /\ job[p].pc \in {"succeeded", "partial"}
  /\ SaveRun(p, job[p].pc)
  /\ Go(p, "done")
  /\ UNCHANGED <<steps, workflow, killed>>

\* The except clause around the steps
FailPipelineRun(p) ==
  /\ job[p].pc = "abort"
  /\ SaveRun(p, "failed")
  /\ Go(p, "error")
  /\ UNCHANGED <<steps, workflow, killed>>

----------------------------------------------------------------------------
(* Cloud Run (external) and the operator *)

Starts(p, phase, attempt) ==
  /\ Together \/ Users(LabelOf[p]) = {}
  /\ job' = [job EXCEPT ![p] = [pc |-> "start", phase |-> phase, attempt |-> attempt,
                                listed |-> <<p, 0>>, count |-> 0, at |-> 0]]

Kill(p) ==
  /\ Live(p)
  /\ Go(p, "error")
  /\ killed' = killed \cup {LabelOf[p]}
  /\ UNCHANGED <<ledger, workflow>>

\* A task that was killed or exited with an error is run again
Retry(p) ==
  /\ p \in Execution
  /\ job[p].pc = "error"
  /\ job[p].attempt < MaxAttempts
  /\ Starts(p, job[p].phase, job[p].attempt + 1)
  /\ UNCHANGED <<ledger, workflow, killed>>

StartByHand(p) ==
  /\ p \in Operator
  /\ job[p].pc = "none"
  /\ \E phase \in HandPhase : Starts(p, phase, 1)
  /\ UNCHANGED <<ledger, workflow, killed>>

----------------------------------------------------------------------------
(* The workflow *)

\* After the phases come the status check, which reads the run and its steps one
\* after the other, and the alerts
Stage == {"preflight"} \cup WeeklyPhase
         \cup {"status", "statusSteps", "alert", "failing", "succeeded", "failed", "cancelled"}
After(s) ==
  CASE s = "preflight" -> "scrape"
    [] s = "scrape" -> "llm"
    [] s = "llm" -> "processing-er"
    [] s = "processing-er" -> "metrics"
    [] s = "metrics" -> "predictions"
    [] s = "predictions" -> "status"
Over == {"succeeded", "failed", "cancelled"}

Proceed(e, to) == stage' = [stage EXCEPT ![e] = to]

InPhase(e) == stage[e] \in WeeklyPhase

RunPreflight(e) ==
  /\ stage[e] = "preflight"
  /\ \E to \in {After("preflight"), "failing"} : Proceed(e, to)
  /\ UNCHANGED <<ledger, job, did, killed, alerts>>

RunJob(e) ==
  /\ InPhase(e)
  /\ job[e].pc = "none"
  /\ Starts(e, stage[e], 1)
  /\ UNCHANGED <<ledger, workflow, killed>>

JobDone(e) ==
  /\ InPhase(e)
  /\ job[e].pc = "done"
  /\ Go(e, "none")
  /\ Proceed(e, After(stage[e]))
  /\ UNCHANGED <<ledger, did, killed, alerts>>

\* Mutant: the workflow waits for a job that succeeds
JobFailedWaits(e) == FALSE

JobFailed(e) ==
  /\ InPhase(e)
  /\ job[e].pc = "error"
  /\ job[e].attempt = MaxAttempts
  /\ Proceed(e, "failing")
  /\ UNCHANGED <<ledger, job, did, killed, alerts>>

\* weekly_update_status --fail-on-problem
CheckRun(e) ==
  /\ stage[e] = "status"
  /\ Proceed(e, IF run[LabelOf[e]].status = "succeeded" THEN "statusSteps" ELSE "failing")
  /\ UNCHANGED <<ledger, job, did, killed, alerts>>

CheckSteps(e) ==
  LET rows == steps[LabelOf[e]] IN
  /\ stage[e] = "statusSteps"
  /\ Proceed(e, IF \A i \in DOMAIN rows : rows[i].status = "succeeded"
                THEN "alert" ELSE "failing")
  /\ UNCHANGED <<ledger, job, did, killed, alerts>>

\* The job of an alert may be lost before or after the webhook has the alert
AlertSuccess(e) ==
  /\ stage[e] = "alert"
  /\ \/ alerts' = [alerts EXCEPT ![e] = @ \cup {"succeeded"}] /\ Proceed(e, "succeeded")
     \/ alerts' = [alerts EXCEPT ![e] = @ \cup {"succeeded"}] /\ Proceed(e, "failing")
     \/ alerts' = alerts /\ Proceed(e, "failing")
  /\ UNCHANGED <<ledger, job, did, killed>>

AlertFailure(e) ==
  /\ stage[e] = "failing"
  /\ \/ alerts' = [alerts EXCEPT ![e] = @ \cup {"failed"}]
     \/ alerts' = alerts
  /\ Proceed(e, "failed")
  /\ UNCHANGED <<ledger, job, did, killed>>

\* Cancelling an execution does not cancel the job it waits for
Cancel(e) ==
  /\ stage[e] \notin Over
  /\ Proceed(e, "cancelled")
  /\ UNCHANGED <<ledger, job, did, killed, alerts>>

----------------------------------------------------------------------------
(* Specification *)

Init ==
  /\ run = [l \in Label |-> [phase |-> "all", status |-> "none"]]
  /\ steps = [l \in Label |-> <<>>]
  /\ job = [p \in Process |-> [pc |-> "none", phase |-> "all", attempt |-> 0,
                               listed |-> <<p, 0>>, count |-> 0, at |-> 0]]
  /\ stage = [e \in Execution |-> "preflight"]
  /\ did = [e \in Execution |-> {}]
  /\ killed = {}
  /\ alerts = [e \in Execution |-> {}]

\* Mutant: the steps are replaced before the run is marked RUNNING
DeleteStepsFirst(p) ==
  \/ /\ job[p].pc = "start"
     /\ steps' = [steps EXCEPT ![LabelOf[p]] = <<>>]
     /\ Go(p, "delete")
     /\ UNCHANGED <<run, workflow, killed>>
  \/ /\ job[p].pc = "delete"
     /\ run' = [run EXCEPT ![LabelOf[p]] = [phase |-> job[p].phase, status |-> "running"]]
     /\ Go(p, "create")
     /\ UNCHANGED <<steps, workflow, killed>>
  \/ CreateSteps(p)
  \/ ListSteps(p)

StartSteps(p) == StartPipelineRun(p) \/ DeleteSteps(p) \/ CreateSteps(p) \/ ListSteps(p)

RunSteps(p) ==
  \/ EndSteps(p)
  \/ ZipRaises(p)
  \/ BeginStep(p)
  \/ CommandReturns(p)
  \/ CommandRaises(p)
  \/ FinishStepRun(p)
  \/ FailStepRun(p)

EndRun(p) ==
  \/ WarmGraph(p)
  \/ CheckFailedSteps(p)
  \/ FinishPipelineRun(p)
  \/ FailPipelineRun(p)

JobStep(p) == StartSteps(p) \/ RunSteps(p) \/ EndRun(p)

WorkflowStep(e) ==
  \/ RunPreflight(e)
  \/ RunJob(e)
  \/ JobDone(e)
  \/ JobFailed(e)
  \/ CheckRun(e)
  \/ CheckSteps(e)
  \/ AlertSuccess(e)
  \/ AlertFailure(e)

Next ==
  \/ \E p \in Process : JobStep(p) \/ Kill(p) \/ Retry(p) \/ StartByHand(p)
  \/ \E e \in Execution : WorkflowStep(e) \/ Cancel(e)

Spec == Init /\ [][Next]_vars

\* Commands return (the task timeout kills those that do not), failed tasks are
\* retried and the workflow goes on.
Fairness ==
  /\ \A p \in Process : WF_vars(JobStep(p)) /\ WF_vars(Retry(p))
  /\ \A e \in Execution : WF_vars(WorkflowStep(e))

FairSpec == Spec /\ Fairness

----------------------------------------------------------------------------
(* Properties *)

\* Every variable has its type
TypeOK ==
  /\ run \in [Label -> [phase : Phase, status : RunStatus]]
  /\ steps \in [Label -> Seq(StepRow)]
  /\ job \in [Process -> Job]
  /\ stage \in [Execution -> Stage]
  /\ did \in [Execution -> SUBSET Commands]
  /\ killed \subseteq Label
  /\ alerts \in [Execution -> SUBSET {"succeeded", "failed"}]

\* A success is announced only when the execution's own jobs completed every
\* command of the weekly update, whatever else used its label meanwhile: rows
\* another process deleted or replaced never make a phase pass with steps not run.
SuccessIsComplete ==
  \A e \in Execution :
    "succeeded" \in alerts[e] => did[e] = Commands

\* A PipelineRun stays RUNNING without a process only when one was killed: no
\* exception, and no race for the rows of a label, leaves it behind.
OnlyKilledRunsHang ==
  \A l \in Label :
    run[l].status = "running" /\ Users(l) = {} => l \in killed

\* Jobs that use a label one at a time keep a ledger that can be believed: the
\* steps that succeeded come first, at most one is running or failed, the others
\* are pending; a run that is over succeeded when all its steps did, and no run
\* is partial.
LedgerIsTrue ==
  \A l \in Label :
    LET rows == steps[l]
        all == \A i \in DOMAIN rows : rows[i].status = "succeeded"
    IN
    /\ \A i, j \in DOMAIN rows :
         i < j /\ rows[j].status # "pending" => rows[i].status = "succeeded"
    /\ run[l].status = "succeeded" => all /\ Len(rows) = Len(Plan(run[l].phase))
    /\ run[l].status = "failed" =>
         (\E i \in DOMAIN rows : rows[i].status = "failed") \/ (all /\ WarmsGraph(run[l].phase))
    /\ run[l].status # "partial"

\* Every execution of the workflow comes to a verdict, be it cancelled
ExecutionEnds == \A e \in Execution : <>(stage[e] \in Over)

=============================================================================
