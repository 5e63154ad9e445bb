---------------------------- MODULE BatchBackfill ----------------------------
(***************************************************************************)
(* Guest extraction through the OpenAI Batch API: the coordinator command  *)
(* run_guest_extraction_batch_backfill, the ExtractionRun and              *)
(* EpisodeGuestExtraction tables it writes, the batches it leaves with the *)
(* service, and the operator commands that touch the same rows.            *)
(*                                                                         *)
(* Every process step is one interaction with the database or with the     *)
(* service, so a crash can fall between any two of them.  A crashed (or    *)
(* raised) command loses its locals; the tables and the batches stay.      *)
(***************************************************************************)
EXTENDS Naturals, Sequences, FiniteSets

CONSTANTS
  Coordinator,      \* invocations of run_guest_extraction_batch_backfill
  Operator,         \* people running the manual sync and status commands
  Label,            \* coordinator labels
  LabelOf,          \* the --coordinator-label of each coordinator
  NumEpisodes,      \* episodes of the catalog, 1 the most recently published
  BatchSize,        \* --first-pass-batch-size
  MaxFirstPass,     \* --max-first-pass-batches of the first, second, ... start of a
                    \* coordinator; 0 runs until exhausted
  NewEpisodesOnly,  \* --new-episodes-only
  MaxBatches,       \* bound: batches ever created at the service
  MaxStarts,        \* bound: times one coordinator is started
  MaxFaults         \* bound: requests and batches the service fails

Episode == 1..NumEpisodes
Proc == Coordinator \cup Operator
Phase == {"first_pass", "second_pass"}
NoRun == 0

ASSUME BackfillAssumption ==
  /\ Coordinator \cap Operator = {}
  /\ LabelOf \in [Coordinator -> Label]
  /\ NumEpisodes \in Nat
  /\ BatchSize \in Nat \ {0}
  /\ {MaxBatches, MaxStarts, MaxFaults} \subseteq Nat
  /\ MaxFirstPass \in [1..MaxStarts -> Nat]
  /\ NewEpisodesOnly \in BOOLEAN

VARIABLES
  batches,     \* OpenAI batches, in the order they were created
  runs,        \* ExtractionRun rows, in started_at order
  extraction,  \* EpisodeGuestExtraction row per model (one model per phase) and episode
  pc,          \* where each process stands
  held,        \* the run a process polls, syncs or reviews
  plan,        \* what a coordinator is about to submit
  todo,        \* episodes whose output lines are not persisted yet
  passes,      \* completed_first_pass_batches
  starts,      \* times each process was started
  faults       \* what the service failed so far, for the bound

tables == <<batches, runs, extraction, faults>>
locals == <<pc, held, plan, todo, passes, starts>>
vars == <<batches, runs, extraction, pc, held, plan, todo, passes, starts, faults>>

----------------------------------------------------------------------------
(* Data *)

RunStatus == {"running", "succeeded", "partial", "failed"}

\* What a batch's output file says of one request: no line at all (the request
\* is in the error file only), a line that carries an error, a parsed answer
\* with a candidate in the review band and none above it, any other answer.
Answer == {"none", "error", "review", "settled"}
Parsed == {"review", "settled"}

NoAnswer == [e \in Episode |-> "none"]
NoPlan == [phase |-> "first_pass", parent |-> NoRun, episodes |-> {}, batch |-> 0]

\* Service states.  "failed" stands for failed, expired and cancelled, which
\* wait_and_sync_run treats alike.
Batch == [state : {"in_progress", "completed", "failed"}, phase : Phase,
          episodes : SUBSET Episode, answer : [Episode -> Answer]]
Run == [status : RunStatus, label : Label, phase : Phase, parent : Nat, batch : Nat]
Row == [status : {"absent", "succeeded", "failed"}, answer : Answer, run : Nat]

RunIds == DOMAIN runs
BatchOf(r) == batches[runs[r].batch]
Answered(b) == {e \in b.episodes : b.answer[e] # "none"}

\* output_file_id is set when some request has an output line
HasOutput(b) == Answered(b) # {}

Succeeded(phase, e) == extraction[phase][e].status = "succeeded"

----------------------------------------------------------------------------
(* What the coordinator reads *)

\* The first n episodes in -published_at order
Newest(S, n) == {e \in S : Cardinality({d \in S : d < e}) < n}

\* Mutant: the Exists(successful_extraction) exclusion is forgotten
SelectAlsoExtracted == Newest(Episode, BatchSize)

\* Mutant: any row excludes its episode, a failed one too
SelectUntouched ==
  Newest({e \in Episode : extraction["first_pass"][e].status = "absent"}, BatchSize)

\* With --new-episodes-only a success of any model excludes the episode,
\* without it only a success of the first-pass model.
SelectEpisodes ==
  Newest({e \in Episode :
            /\ ~Succeeded("first_pass", e)
            /\ NewEpisodesOnly => ~Succeeded("second_pass", e)}, BatchSize)

\* Episodes whose first-pass row still belongs to the run and lies in the band
SelectSecondPassReviewEpisodes(first) ==
  {e \in Episode :
     /\ Succeeded("first_pass", e)
     /\ extraction["first_pass"][e].run = first
     /\ extraction["first_pass"][e].answer = "review"
     /\ ~Succeeded("second_pass", e)}

\* Mutant: never resumes
FindNoRun(label, phase, parent) == {}

\* Running runs of a label and phase; a second pass is looked up by its first
FindRunningRun(label, phase, parent) ==
  {r \in RunIds :
     /\ runs[r].status = "running"
     /\ runs[r].label = label
     /\ runs[r].phase = phase
     /\ phase = "second_pass" => runs[r].parent = parent}

----------------------------------------------------------------------------
(* Process control *)

Ended == {"down", "exhausted", "stopped", "finished"}
CoordinatorPc == Ended \cup {"loop", "submit", "record", "poll", "sync", "review"}

Goto(p, label) == pc' = [pc EXCEPT ![p] = label]
Hold(p, r) == held' = [held EXCEPT ![p] = r]

\* A new invocation of the command; nothing survives from an earlier one
Start(c) ==
  /\ pc[c] \in Ended
  /\ starts[c] < MaxStarts
  /\ Goto(c, "loop")
  /\ starts' = [starts EXCEPT ![c] = @ + 1]
  /\ passes' = [passes EXCEPT ![c] = 0]
  /\ Hold(c, NoRun)
  /\ plan' = [plan EXCEPT ![c] = NoPlan]
  /\ todo' = [todo EXCEPT ![c] = {}]
  /\ UNCHANGED tables

\* The process is killed, or a call to the service, the bucket or the database
\* raises out of the command.
Crash(p) ==
  /\ pc[p] \notin Ended
  /\ Goto(p, "down")
  /\ Hold(p, NoRun)
  /\ plan' = [plan EXCEPT ![p] = NoPlan]
  /\ todo' = [todo EXCEPT ![p] = {}]
  /\ UNCHANGED <<tables, passes, starts>>

MayContinue(c) == LET limit == MaxFirstPass[starts[c]] IN limit = 0 \/ passes[c] < limit

FinishBatches(c) ==
  /\ pc[c] = "loop"
  /\ ~MayContinue(c)
  /\ Goto(c, "finished")
  /\ UNCHANGED <<tables, held, plan, todo, passes, starts>>

\* Resume the oldest match
Resume(c, running) ==
  /\ \E r \in running : /\ \A s \in running : r <= s
                         /\ Hold(c, r)
  /\ Goto(c, "poll")
  /\ UNCHANGED plan

PlanBatch(c, phase, parent, episodes) ==
  /\ plan' = [plan EXCEPT ![c] = [phase |-> phase, parent |-> parent,
                                  episodes |-> episodes, batch |-> 0]]
  /\ Goto(c, "submit")
  /\ Hold(c, NoRun)

NothingToSubmit(c, next) ==
  /\ Goto(c, next)
  /\ Hold(c, NoRun)
  /\ UNCHANGED plan

GetOrSubmit(c, phase, parent, episodes, whenNone) ==
  LET running == FindRunningRun(LabelOf[c], phase, parent) IN
  /\ \/ Resume(c, running)
     \/ running = {} /\ episodes # {} /\ PlanBatch(c, phase, parent, episodes)
     \/ running = {} /\ episodes = {} /\ NothingToSubmit(c, whenNone)
  /\ UNCHANGED <<tables, todo, passes, starts>>

GetOrSubmitFirstPass(c) ==
  /\ pc[c] = "loop"
  /\ MayContinue(c)
  /\ GetOrSubmit(c, "first_pass", NoRun, SelectEpisodes, "exhausted")

GetOrSubmitSecondPass(c) ==
  /\ pc[c] = "review"
  /\ GetOrSubmit(c, "second_pass", held[c],
                 SelectSecondPassReviewEpisodes(held[c]), "loop")

\* client.files.create and client.batches.create: the batch exists at the
\* service, and nothing in the database knows it.
SubmitBatch(c) ==
  /\ pc[c] = "submit"
  /\ Len(batches) < MaxBatches
  /\ batches' = Append(batches, [state |-> "in_progress", phase |-> plan[c].phase,
                                 episodes |-> plan[c].episodes, answer |-> NoAnswer])
  /\ plan' = [plan EXCEPT ![c].batch = Len(batches) + 1]
  /\ Goto(c, "record")
  /\ UNCHANGED <<faults, runs, extraction, held, todo, passes, starts>>

\* Mutant: goes on with the empty lookup instead of the run it recorded
RecordRunUnheld(c) ==
  /\ pc[c] = "record"
  /\ runs' = Append(runs, [status |-> "running", label |-> LabelOf[c],
                           phase |-> plan[c].phase, parent |-> plan[c].parent,
                           batch |-> plan[c].batch])
  /\ plan' = [plan EXCEPT ![c] = NoPlan]
  /\ Goto(c, "poll")
  /\ UNCHANGED <<faults, batches, extraction, held, todo, passes, starts>>

\* ExtractionRun.objects.create, whose default status is RUNNING
RecordRun(c) ==
  /\ pc[c] = "record"
  /\ runs' = Append(runs, [status |-> "running", label |-> LabelOf[c],
                           phase |-> plan[c].phase, parent |-> plan[c].parent,
                           batch |-> plan[c].batch])
  /\ Hold(c, Len(runs) + 1)
  /\ plan' = [plan EXCEPT ![c] = NoPlan]
  /\ Goto(c, "poll")
  /\ UNCHANGED <<faults, batches, extraction, todo, passes, starts>>

----------------------------------------------------------------------------
(* wait_and_sync_run: the in-memory run was RUNNING when it was fetched and is
   not read again before it is synced, so the row's own status is no guard. *)

HeldBatch(p) == BatchOf(held[p])

PollCompleted(c) ==
  /\ pc[c] = "poll"
  /\ HeldBatch(c).state = "completed"
  /\ HasOutput(HeldBatch(c))
  /\ todo' = [todo EXCEPT ![c] = Answered(HeldBatch(c))]
  /\ Goto(c, "sync")
  /\ UNCHANGED <<tables, held, plan, passes, starts>>

\* Mutant: goes on sleeping when there is nothing to download
PollWithoutOutputWaits(c) ==
  /\ pc[c] = "poll"
  /\ HeldBatch(c).state = "completed"
  /\ ~HasOutput(HeldBatch(c))
  /\ UNCHANGED vars

\* "completed without an output_file_id" raises and leaves the run RUNNING
PollWithoutOutput(c) ==
  /\ pc[c] = "poll"
  /\ HeldBatch(c).state = "completed"
  /\ ~HasOutput(HeldBatch(c))
  /\ Goto(c, "down")
  /\ Hold(c, NoRun)
  /\ UNCHANGED <<tables, plan, todo, passes, starts>>

SetStatus(r, status) == runs' = [runs EXCEPT ![r].status = status]

\* mark_failed, after which the command returns as if it had finished
PollFailed(c) ==
  /\ pc[c] = "poll"
  /\ HeldBatch(c).state = "failed"
  /\ SetStatus(held[c], "failed")
  /\ Goto(c, "stopped")
  /\ Hold(c, NoRun)
  /\ UNCHANGED <<faults, batches, extraction, plan, todo, passes, starts>>

\* Mutant: extraction_run is missing from the defaults of the upsert
PersistKeepsRun(row, r, answer) ==
  [row EXCEPT !.status = IF answer \in Parsed THEN "succeeded" ELSE "failed",
              !.answer = IF answer \in Parsed THEN answer ELSE @]

\* update_or_create: a failure keeps the candidates of an earlier success
Persist(row, r, answer) ==
  IF answer \in Parsed
  THEN [status |-> "succeeded", answer |-> answer, run |-> r]
  ELSE [row EXCEPT !.status = "failed", !.run = r]

\* One line of the output file, committed on its own
SyncOutputRecord(p) ==
  /\ pc[p] = "sync"
  /\ \E e \in todo[p] :
       /\ extraction' = [extraction EXCEPT ![runs[held[p]].phase][e] =
                           Persist(@, held[p], HeldBatch(p).answer[e])]
       /\ todo' = [todo EXCEPT ![p] = @ \ {e}]
  /\ UNCHANGED <<faults, batches, runs, pc, held, plan, passes, starts>>

\* The status follows from the lines of the output file alone
FinalStatus(b) ==
  LET succeeded == {e \in Answered(b) : b.answer[e] \in Parsed}
      failed == Answered(b) \ succeeded
  IN IF failed = {} THEN "succeeded"
     ELSE IF succeeded = {} THEN "failed" ELSE "partial"

\* Mutant: finalizes before every line is persisted
SyncedAnything(p) == TRUE

SyncedEverything(p) == todo[p] = {}

FinalizeExtractionRun(p, next) ==
  /\ pc[p] = "sync"
  /\ SyncedEverything(p)
  /\ SetStatus(held[p], FinalStatus(HeldBatch(p)))
  /\ Goto(p, next)
  /\ UNCHANGED <<faults, batches, extraction, plan, todo, starts>>

FinishFirstPass(c) ==
  /\ pc[c] = "sync"
  /\ runs[held[c]].phase = "first_pass"
  /\ FinalizeExtractionRun(c, "review")
  /\ passes' = [passes EXCEPT ![c] = @ + 1]
  /\ UNCHANGED held

FinishSecondPass(c) ==
  /\ pc[c] = "sync"
  /\ runs[held[c]].phase = "second_pass"
  /\ FinalizeExtractionRun(c, "loop")
  /\ Hold(c, NoRun)
  /\ UNCHANGED passes

----------------------------------------------------------------------------
(* Manual commands.  Neither sync command requires the run to be RUNNING: one
   takes any --run-id, the other has --include-non-running. *)

OperatorSync(o) ==
  /\ pc[o] = "down"
  /\ \E r \in RunIds :
       /\ BatchOf(r).state = "completed"
       /\ HasOutput(BatchOf(r))
       /\ Hold(o, r)
       /\ todo' = [todo EXCEPT ![o] = Answered(BatchOf(r))]
  /\ starts[o] < MaxStarts
  /\ starts' = [starts EXCEPT ![o] = @ + 1]
  /\ Goto(o, "sync")
  /\ UNCHANGED <<tables, plan, passes>>

OperatorFinish(o) ==
  /\ FinalizeExtractionRun(o, "down")
  /\ Hold(o, NoRun)
  /\ UNCHANGED passes

\* batch_guest_extraction_status and mark_failed of the series sync
OperatorMarkFailed(o) ==
  /\ \E r \in RunIds : /\ BatchOf(r).state = "failed"
                       /\ runs[r].status # "failed"
                       /\ SetStatus(r, "failed")
  /\ UNCHANGED <<faults, batches, extraction, locals>>

\* --mark-duplicates-from-run-id, "only for known duplicate submissions"; each
\* row is saved on its own, so several rows are several steps
OperatorMarkDuplicate(o) ==
  /\ starts[o] < MaxStarts
  /\ starts' = [starts EXCEPT ![o] = @ + 1]
  /\ \E r, s \in RunIds : /\ s < r
                          /\ BatchOf(s).episodes \cap BatchOf(r).episodes # {}
                          /\ runs[r].phase = runs[s].phase
                          /\ SetStatus(r, "failed")
  /\ UNCHANGED <<faults, batches, extraction, pc, held, plan, todo, passes>>

----------------------------------------------------------------------------
(* The service (external): a batch ends within its completion window, answers
   each request or not, and may fail as a whole. *)

\* The band is defined for first-pass answers only
AnswersOf(b) ==
  {f \in [Episode -> Answer] :
     \A e \in Episode :
       /\ e \notin b.episodes => f[e] = "none"
       /\ b.phase = "second_pass" => f[e] # "review"}

Fault(n) ==
  /\ faults + n <= MaxFaults
  /\ faults' = faults + n

BatchCompletes(i) ==
  /\ batches[i].state = "in_progress"
  /\ \E f \in AnswersOf(batches[i]) :
       /\ batches' = [batches EXCEPT ![i].state = "completed", ![i].answer = f]
       /\ Fault(Cardinality({e \in batches[i].episodes : f[e] \notin Parsed}))
  /\ UNCHANGED <<runs, extraction, locals>>

BatchFails(i) ==
  /\ batches[i].state = "in_progress"
  /\ batches' = [batches EXCEPT ![i].state = "failed"]
  /\ Fault(1)
  /\ UNCHANGED <<runs, extraction, locals>>

----------------------------------------------------------------------------
(* Specification *)

Init ==
  /\ batches = <<>>
  /\ runs = <<>>
  /\ extraction = [m \in Phase |-> [e \in Episode |->
                     [status |-> "absent", answer |-> "none", run |-> NoRun]]]
  /\ pc = [p \in Proc |-> "down"]
  /\ held = [p \in Proc |-> NoRun]
  /\ plan = [p \in Proc |-> NoPlan]
  /\ todo = [p \in Proc |-> {}]
  /\ passes = [p \in Proc |-> 0]
  /\ starts = [p \in Proc |-> 0]
  /\ faults = 0

\* One step of a running coordinator
Advance(c) ==
  \/ FinishBatches(c)
  \/ GetOrSubmitFirstPass(c)
  \/ GetOrSubmitSecondPass(c)
  \/ SubmitBatch(c)
  \/ RecordRun(c)
  \/ PollCompleted(c)
  \/ PollWithoutOutput(c)
  \/ PollFailed(c)
  \/ SyncOutputRecord(c)
  \/ FinishFirstPass(c)
  \/ FinishSecondPass(c)

CoordinatorStep(c) == Start(c) \/ Crash(c) \/ Advance(c)

OperatorStep(o) ==
  \/ OperatorSync(o)
  \/ SyncOutputRecord(o)
  \/ OperatorFinish(o)
  \/ Crash(o)
  \/ OperatorMarkFailed(o)
  \/ OperatorMarkDuplicate(o)

ServiceStep(i) == BatchCompletes(i) \/ BatchFails(i)

Next ==
  \/ \E c \in Coordinator : CoordinatorStep(c)
  \/ \E o \in Operator : OperatorStep(o)
  \/ \E i \in DOMAIN batches : ServiceStep(i)

Spec == Init /\ [][Next]_vars

\* A coordinator that runs goes on, and the service answers within the 24 h
\* completion window; nobody has to start a command again.
Fairness ==
  /\ \A c \in Coordinator : WF_vars(Advance(c))
  /\ \A i \in 1..MaxBatches : WF_vars(i \in DOMAIN batches /\ ServiceStep(i))

FairSpec == Spec /\ Fairness

----------------------------------------------------------------------------
(* Properties *)

\* Every variable has its type
Types ==
  /\ batches \in Seq(Batch)
  /\ runs \in Seq(Run)
  /\ extraction \in [Phase -> [Episode -> Row]]
  /\ pc \in [Proc -> CoordinatorPc]
  /\ held \in [Proc -> Nat]
  /\ plan \in [Proc -> [phase : Phase, parent : Nat,
                        episodes : SUBSET Episode, batch : Nat]]
  /\ todo \in [Proc -> SUBSET Episode]
  /\ passes \in [Proc -> Nat]
  /\ starts \in [Proc -> Nat]
  /\ faults \in Nat

\* Every run names a batch of its own phase
RunsHaveBatches ==
  \A r \in RunIds : /\ runs[r].batch \in DOMAIN batches
                    /\ BatchOf(r).phase = runs[r].phase

\* A process that polls, syncs or reviews holds a run
HeldIsARun ==
  \A p \in Proc : pc[p] \in {"poll", "sync", "review"} => held[p] \in RunIds

\* A process that syncs has answered requests left to persist
TodoIsAnswered ==
  \A p \in Proc : pc[p] = "sync" => /\ HeldBatch(p).state = "completed"
                                    /\ todo[p] \subseteq Answered(HeldBatch(p))

\* A coordinator that is about to record a run has created its batch
DraftExists ==
  \A p \in Proc : pc[p] = "record" =>
    /\ plan[p].batch \in DOMAIN batches
    /\ batches[plan[p].batch].phase = plan[p].phase
    /\ batches[plan[p].batch].episodes = plan[p].episodes

\* The references between the tables and the processes hold: every run names a
\* batch of its own phase, a process that polls, syncs or reviews holds a run of
\* the table, one that syncs has only answered requests of a completed batch left
\* to persist, and one about to record a run has created the batch it names, with
\* the phase and episodes it planned.
TypeOK ==
  /\ Types
  /\ RunsHaveBatches
  /\ HeldIsARun
  /\ TodoIsAnswered
  /\ DraftExists

\* A coordinator resumes a run rather than submitting its work a second time:
\* a label never has two RUNNING first passes, nor two RUNNING second passes of
\* one first pass (get_or_submit_first_pass_run, get_or_submit_second_pass_run).
OneRunningRunPerPass ==
  \A r, s \in RunIds :
    /\ runs[r].status = "running"
    /\ runs[s].status = "running"
    /\ runs[r].label = runs[s].label
    /\ runs[r].phase = runs[s].phase
    /\ runs[r].parent = runs[s].parent
    => r = s

\* What has been extracted and paid for is never turned into a failure by a
\* later run, although persist_failed_extraction would overwrite it.
SuccessIsKept ==
  [][\A m \in Phase, e \in Episode :
       Succeeded(m, e) => Succeeded(m, e)']_vars

\* A run reported SUCCEEDED or PARTIAL has every parsed line in the table: a
\* crash between two lines or before finalize_extraction_run loses none.
FinishedRunIsSynced ==
  \A r \in RunIds :
    runs[r].status \in {"succeeded", "partial"} =>
      \A e \in Answered(BatchOf(r)) :
        BatchOf(r).answer[e] \in Parsed => Succeeded(runs[r].phase, e)

\* A run that ended has the status its batch stands for, so that two processes
\* that finalize it (each with its own stale copy) agree.
StatusFollowsBatch ==
  \A r \in RunIds :
    \/ runs[r].status = "running"
    \/ BatchOf(r).state = "failed" /\ runs[r].status = "failed"
    \/ BatchOf(r).state = "completed" /\ runs[r].status = FinalStatus(BatchOf(r))

\* Once ended, a run is never RUNNING again, and so never polled again by a
\* coordinator that starts later.
EndedRunStaysEnded ==
  [][\A r \in RunIds : runs[r].status # "running" => runs'[r].status # "running"]_vars

\* "No remaining first-pass episodes" is true when it is printed and stays true,
\* and no first pass of the label is left RUNNING behind it.
ExhaustedMeansExtracted ==
  \A c \in Coordinator :
    pc[c] = "exhausted" =>
      /\ \A e \in Episode : \E m \in Phase : Succeeded(m, e)
      /\ FindRunningRun(LabelOf[c], "first_pass", NoRun) = {}

\* While a lone coordinator waits for a run, that run is still RUNNING in the
\* table: the copy it fetched before its sleeps is not stale.
HeldRunIsRunning ==
  \A c \in Coordinator :
    pc[c] \in {"poll", "sync"} => runs[held[c]].status = "running"

\* Every invocation comes to an end, with finitely many failures of the service
InvocationEnds ==
  \A c \in Coordinator : pc[c] \notin Ended ~> pc[c] \in Ended

\* The help text calls the coordinator resumable: when it says that nothing is
\* left, no run of its label is still RUNNING.
NothingLeftRunning ==
  \A c \in Coordinator :
    pc[c] = "exhausted" =>
      \A r \in RunIds : runs[r].label = LabelOf[c] => runs[r].status # "running"

----------------------------------------------------------------------------
(* A lone coordinator implements the ledger of extraction results *)

Results == {x \in Phase \X Episode : Succeeded(x[1], x[2])}
EndedRuns == {r \in RunIds : runs[r].status # "running"}

Ledger == INSTANCE ExtractionLedger
            WITH Result <- Phase \X Episode, opened <- Len(runs),
                 closed <- EndedRuns, results <- Results

\* Runs open and close once, and results only accumulate while a run is open
ImplementsLedger == Ledger!Spec

=============================================================================
