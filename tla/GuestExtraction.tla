--------------------------- MODULE GuestExtraction ---------------------------
(***************************************************************************)
(* Every command that extracts guests, on the same tables: the coordinator *)
(* and the manual commands of BatchBackfill, the commands that submit      *)
(* batches in waves (run_guest_extraction_cloud_backfill, its second pass, *)
(* rerun_guest_extraction_review_band_cloud) or without waiting for them   *)
(* (submit_guest_extraction_batch and _series), and the commands that call *)
(* the model directly (extract_guests, backfill_guest_extractions).        *)
(*                                                                         *)
(* The processes that submit are Operators of BatchBackfill: they share    *)
(* its pc, held, plan and todo, and the steps that submit a batch and      *)
(* persist its output.                                                     *)
(***************************************************************************)
EXTENDS BatchBackfill, FiniteSetsExt

CONSTANTS
  Submitter,        \* the Operators that submit batches
  Direct,           \* invocations of extract_guests and backfill_guest_extractions
  LabelOfKind,      \* the --run-label of each kind of submitting command
  WaveSize,         \* --wave-size, --max-batches of a series
  DirectBatches,    \* --max-batches of backfill_guest_extractions
  MaxSubmitters,    \* bound: times a submitting command is started
  MaxDirect,        \* bound: times a direct command is started
  Cost, Budget,     \* bound: what each start costs, and what all starts may cost
  MaxTrouble        \* bound: processes killed and requests failed

Waves == {"first", "second", "rerun"}
Kind == Waves \cup {"manual"}

ASSUME ExtractionAssumption ==
  /\ Submitter \subseteq Operator
  /\ LabelOfKind \in [Kind -> Label \ {LabelOf[c] : c \in Coordinator}]
  /\ \A k, j \in Kind : LabelOfKind[k] = LabelOfKind[j] => k = j
  /\ {WaveSize, DirectBatches} \subseteq Nat \ {0}
  /\ Cost \in [Proc \cup Direct -> Nat]

VARIABLES
  wave,    \* what a submitting command keeps in memory
  calls,   \* the ExtractionRun rows of direct runs, and what their calls answered
  direct,  \* what a direct command keeps in memory
  crashes  \* bound: processes killed so far

extVars == <<wave, calls, direct, crashes>>
allVars == <<vars, extVars>>

NoWave == [kind |-> "manual", phase |-> "first_pass", active |-> {},
           pending |-> FALSE, expired |-> FALSE, chunks |-> <<>>]

\* An extract_guests run, or one of the batches of a backfill
NoDirect == [at |-> "ended", command |-> "extract", force |-> FALSE,
             run |-> 0, checked |-> {}, batch |-> 0, starts |-> 0]

Tolerable == faults' + crashes <= MaxTrouble

\* Row ids of direct runs, above those of the runs of batches
DirectId(i) == MaxBatches + i

----------------------------------------------------------------------------
(* What the submitting commands select *)

NeverExtracted == {e \in Episode : \A m \in Phase : ~Succeeded(m, e)}

\* First-pass answers in the band, whatever run they are from
ReviewBand ==
  {e \in Episode : Succeeded("first_pass", e) /\ extraction["first_pass"][e].answer = "review"}

\* Those whose run has the source effort in its metadata: of all commands only
\* the manual submissions default to it, and a direct run records no effort.
RerunBand ==
  {e \in ReviewBand : LET r == extraction["first_pass"][e].run IN
                        r \in RunIds /\ runs[r].label = LabelOfKind["manual"]}

Selectable(kind) ==
  CASE kind = "first"  -> NeverExtracted
    [] kind = "second" -> {e \in ReviewBand : ~Succeeded("second_pass", e)}
    [] kind = "rerun"  -> RerunBand
    [] kind = "manual" -> SelectEpisodes

\* A rerun overwrites rows of the first-pass model
PhaseOf(kind) == IF kind = "second" THEN "second_pass" ELSE "first_pass"

\* chunked: newest first, in pieces of the batch size
Chunked(S) ==
  LET pieces == (Cardinality(S) + BatchSize - 1) \div BatchSize
  IN [i \in 1..pieces |-> Newest(S, i * BatchSize) \ Newest(S, (i - 1) * BatchSize)]

----------------------------------------------------------------------------
(* The submitting commands *)

Kept == UNCHANGED <<calls, direct, crashes>>

\* Nothing of a command survives its end
EndSubmitter(w) ==
  /\ Goto(w, "down")
  /\ wave' = [wave EXCEPT ![w] = NoWave]

StartSubmitter(w, kind) ==
  /\ pc[w] = "down"
  /\ starts[w] < MaxSubmitters
  /\ starts' = [starts EXCEPT ![w] = @ + 1]
  /\ wave' = [wave EXCEPT ![w] = [NoWave EXCEPT !.kind = kind, !.phase = PhaseOf(kind)]]
  /\ Goto(w, IF kind = "manual" THEN "select" ELSE "list")
  /\ UNCHANGED <<tables, held, plan, todo, passes>> /\ Kept

\* sync_active_runs: the RUNNING runs of the label, read once per round
ListActiveRuns(w) ==
  LET active == {r \in RunIds : /\ runs[r].status = "running"
                                /\ runs[r].label = LabelOfKind[wave[w].kind]}
  IN /\ pc[w] = "list"
     /\ wave' = [wave EXCEPT ![w].active = active, ![w].pending = FALSE]
     /\ Goto(w, IF active = {} THEN "count" ELSE "check")
     /\ UNCHANGED <<tables, held, plan, todo, passes, starts>> /\ Kept

\* batches.retrieve of the next listed run, in started_at order
CheckRun(w) ==
  /\ pc[w] = "check"
  /\ \E r \in wave[w].active :
       LET state == BatchOf(r).state
           Checked == wave' = [wave EXCEPT ![w].active = @ \ {r},
                                           ![w].pending = @ \/ state = "in_progress"]
       IN /\ \A s \in wave[w].active : r <= s
          /\ \/ /\ state = "in_progress"
                /\ Checked
                /\ UNCHANGED <<runs, pc, held, todo>>
             \/ /\ state = "failed"
                /\ Checked
                /\ SetStatus(r, "failed")
                /\ UNCHANGED <<pc, held, todo>>
             \/ /\ state = "completed" /\ HasOutput(BatchOf(r))
                /\ Checked
                /\ Hold(w, r)
                /\ todo' = [todo EXCEPT ![w] = Answered(BatchOf(r))]
                /\ Goto(w, "sync")
                /\ UNCHANGED runs
             \/ /\ state = "completed" /\ ~HasOutput(BatchOf(r))
                /\ EndSubmitter(w)
                /\ UNCHANGED <<runs, held, todo>>
  /\ UNCHANGED <<batches, extraction, faults, plan, passes, starts>> /\ Kept

SubmitterFinishes(w) ==
  /\ FinalizeExtractionRun(w, "check")
  /\ Hold(w, NoRun)
  /\ UNCHANGED <<passes, extVars>>

\* --max-runtime-seconds have passed since the command was started
Late(w, late) ==
  /\ wave[w].expired => late
  /\ wave' = [wave EXCEPT ![w].expired = late]

\* With batches pending the command sleeps and lists again, unless it is late
EndOfRound(w) ==
  /\ pc[w] = "check"
  /\ wave[w].active = {}
  /\ \E late \in BOOLEAN :
       /\ Late(w, late)
       /\ Goto(w, IF wave[w].pending /\ ~late THEN "list" ELSE "count")
  /\ UNCHANGED <<tables, held, plan, todo, passes, starts>> /\ Kept

\* Mutant: a command that is late goes on to the next wave
CountRemainingOnly(w) ==
  /\ pc[w] = "count"
  /\ \/ Selectable(wave[w].kind) = {} /\ EndSubmitter(w)
     \/ Selectable(wave[w].kind) # {} /\ Goto(w, "select") /\ UNCHANGED wave
  /\ UNCHANGED <<tables, held, plan, todo, passes, starts>> /\ Kept

\* Nothing remains, or --max-runtime-seconds are over
CountRemaining(w) ==
  /\ pc[w] = "count"
  /\ \/ EndSubmitter(w)
     \/ /\ Selectable(wave[w].kind) # {}
        /\ Late(w, FALSE)
        /\ Goto(w, "select")
  /\ UNCHANGED <<tables, held, plan, todo, passes, starts>> /\ Kept

PlanChunk(w, chunk, phase) ==
  plan' = [plan EXCEPT ![w] = [phase |-> phase, parent |-> NoRun,
                               episodes |-> chunk, batch |-> 0]]

PlanChunks(w, chunks, phase) ==
  /\ wave' = [wave EXCEPT ![w].chunks = Tail(chunks), ![w].phase = phase]
  /\ PlanChunk(w, Head(chunks), phase)
  /\ Goto(w, "submit")

\* A wave of chunks; what was counted may be gone by now
SelectWave(w) ==
  LET kind == wave[w].kind
      chunks == Chunked(Newest(Selectable(kind), BatchSize * WaveSize))
  IN /\ pc[w] = "select"
     /\ \/ chunks # <<>> /\ PlanChunks(w, chunks, PhaseOf(kind))
        \/ chunks = <<>> /\ kind \in {"first", "manual"} /\ EndSubmitter(w) /\ UNCHANGED plan
        \/ chunks = <<>> /\ kind \notin {"first", "manual"} /\ Goto(w, "list") /\ UNCHANGED <<plan, wave>>
     /\ UNCHANGED <<tables, held, todo, passes, starts>> /\ Kept

\* submit_guest_extraction_batch --review-band-run-id
SelectReviewBand(w) ==
  /\ pc[w] = "select"
  /\ wave[w].kind = "manual"
  /\ \E r \in RunIds :
       LET review == SelectSecondPassReviewEpisodes(r)
       IN review # {} /\ PlanChunks(w, <<Newest(review, BatchSize)>>, "second_pass")
  /\ UNCHANGED <<tables, held, todo, passes, starts>> /\ Kept

SubmitChunk(w) == SubmitBatch(w) /\ UNCHANGED extVars

SubmittedRun(w) ==
  [status |-> "running", label |-> LabelOfKind[wave[w].kind], phase |-> plan[w].phase,
   parent |-> NoRun, batch |-> plan[w].batch]

\* ExtractionRun.objects.create, then the next chunk of the wave
RecordChunk(w) ==
  /\ pc[w] = "record"
  /\ runs' = Append(runs, SubmittedRun(w))
  /\ \/ /\ wave[w].chunks # <<>>
        /\ PlanChunks(w, wave[w].chunks, plan[w].phase)
     \/ /\ wave[w].chunks = <<>>
        /\ IF wave[w].kind = "manual" THEN EndSubmitter(w)
           ELSE Goto(w, "list") /\ UNCHANGED wave
        /\ plan' = [plan EXCEPT ![w] = NoPlan]
  /\ UNCHANGED <<batches, extraction, faults, held, todo, passes, starts>> /\ Kept

----------------------------------------------------------------------------
(* The direct commands *)

Elsewhere == UNCHANGED <<batches, runs, locals, wave>>

\* A backfill has no --force
StartDirect(d, command, force) ==
  /\ direct[d].at = "ended"
  /\ direct[d].starts < MaxDirect
  /\ force => command = "extract"
  /\ direct' = [direct EXCEPT ![d] = [NoDirect EXCEPT !.at = "select", !.command = command,
                                        !.force = force, !.starts = direct[d].starts + 1]]
  /\ UNCHANGED <<extraction, faults, calls, crashes>> /\ Elsewhere

EndDirect(d) == direct' = [direct EXCEPT ![d] = [NoDirect EXCEPT !.starts = direct[d].starts]]

\* select_episodes, and the ExtractionRun of what it returns; nothing that is
\* read in between is used later, for every episode is looked up again
OpenDirectRun(d, phase, episodes) ==
  /\ calls' = Append(calls, [status |-> "running", phase |-> phase,
                             episodes |-> episodes, outcome |-> NoAnswer])
  /\ direct' = [direct EXCEPT ![d].at = "run", ![d].run = Len(calls) + 1, ![d].checked = {},
                              ![d].batch = IF phase = "first_pass" THEN @ + 1 ELSE @]
  /\ UNCHANGED <<extraction, faults, crashes>> /\ Elsewhere

DirectSelection(d) ==
  IF direct[d].force THEN Newest(Episode, BatchSize)
  ELSE IF direct[d].command = "extract" THEN SelectEpisodes
  ELSE Newest({e \in Episode : ~Succeeded("first_pass", e)}, BatchSize)

SelectDirect(d) ==
  /\ direct[d].at = "select"
  /\ \/ DirectSelection(d) # {} /\ OpenDirectRun(d, "first_pass", DirectSelection(d))
     \/ /\ DirectSelection(d) = {}
        /\ EndDirect(d)
        /\ UNCHANGED <<extraction, faults, calls, crashes>> /\ Elsewhere

\* The episodes of a run are independent of each other: one after the other, or
\* as tasks of one event loop.
Waiting(d) == {e \in calls[direct[d].run].episodes : calls[direct[d].run].outcome[e] = "none"}

\* already_extracted: the answer is used when the call returns, much later
CheckEpisode(d, e) ==
  LET call == direct[d].run IN
  /\ direct[d].at = "run"
  /\ e \in Waiting(d) \ direct[d].checked
  /\ IF ~direct[d].force /\ Succeeded(calls[call].phase, e)
     THEN calls' = [calls EXCEPT ![call].outcome[e] = "skipped"] /\ UNCHANGED direct
     ELSE direct' = [direct EXCEPT ![d].checked = @ \cup {e}] /\ UNCHANGED calls
  /\ UNCHANGED <<extraction, faults, crashes>> /\ Elsewhere

\* The call with its retries, and persist_successful_ or persist_failed_extraction
CallModel(d, e) ==
  LET call == direct[d].run
      phase == calls[call].phase
  IN /\ direct[d].at = "run"
     /\ e \in Waiting(d) \cap direct[d].checked
     /\ \E answer \in Answer \ {"none"} :
          /\ phase = "second_pass" => answer # "review"
          /\ Fault(IF answer = "error" THEN 1 ELSE 0) /\ Tolerable
          /\ calls' = [calls EXCEPT ![call].outcome[e] = answer]
          /\ extraction' = [extraction EXCEPT ![phase][e] =
                              Persist(@, DirectId(call), answer)]
     /\ UNCHANGED <<direct, crashes>> /\ Elsewhere

\* finalize_extraction_run counts the outcomes the process kept
DirectStatus(outcomes) ==
  IF "error" \notin outcomes THEN "succeeded"
  ELSE IF outcomes = {"error"} THEN "failed" ELSE "partial"

NextBatch(d) ==
  \/ direct[d].batch < DirectBatches /\ direct' = [direct EXCEPT ![d].at = "select"]
  \/ direct[d].batch = DirectBatches /\ EndDirect(d)

FinalizeDirect(d) ==
  LET call == direct[d].run IN
  /\ direct[d].at = "run"
  /\ Waiting(d) = {}
  /\ calls' = [calls EXCEPT ![call].status =
                 DirectStatus({calls[call].outcome[e] : e \in calls[call].episodes})]
  /\ CASE direct[d].command = "extract" -> EndDirect(d)
       [] calls[call].phase = "second_pass" -> NextBatch(d)
       [] OTHER -> direct' = [direct EXCEPT ![d].at = "review"]
  /\ UNCHANGED <<extraction, faults, crashes>> /\ Elsewhere

\* --second-pass-review-band, after each batch of a backfill
SelectDirectReview(d) ==
  LET review == SelectSecondPassReviewEpisodes(DirectId(direct[d].run)) IN
  /\ direct[d].at = "review"
  /\ \/ review # {} /\ OpenDirectRun(d, "second_pass", review)
     \/ /\ review = {}
        /\ NextBatch(d)
        /\ UNCHANGED <<extraction, faults, calls, crashes>> /\ Elsewhere

----------------------------------------------------------------------------
(* Specification *)

ExtractionInit ==
  /\ Init
  /\ wave = [w \in Submitter |-> NoWave]
  /\ calls = <<>>
  /\ direct = [d \in Direct |-> NoDirect]
  /\ crashes = 0

\* A killed process: what it submitted or recorded stays
Killed ==
  /\ crashes + faults < MaxTrouble
  /\ crashes' = crashes + 1
  /\ \/ \E p \in Proc : /\ Crash(p)
                         /\ wave' = [w \in Submitter |-> IF w = p THEN NoWave ELSE wave[w]]
                         /\ UNCHANGED <<calls, direct>>
     \/ \E d \in Direct : /\ direct[d].at # "ended"
                          /\ EndDirect(d)
                          /\ UNCHANGED <<extraction, faults, calls>> /\ Elsewhere

MayStart(p) ==
  /\ IF p \in Direct THEN direct[p].at = "ended" ELSE pc[p] \in Ended
  /\ MapThenSumSet(LAMBDA q : starts[q] * Cost[q], Proc)
       + MapThenSumSet(LAMBDA d : direct[d].starts * Cost[d], Direct) + Cost[p] <= Budget

SubmitterStep(w) ==
  \/ MayStart(w) /\ \E kind \in Kind : StartSubmitter(w, kind)
  \/ ListActiveRuns(w)
  \/ CheckRun(w)
  \/ SyncOutputRecord(w) /\ UNCHANGED extVars
  \/ SubmitterFinishes(w)
  \/ EndOfRound(w)
  \/ CountRemaining(w)
  \/ SelectWave(w)
  \/ SelectReviewBand(w)
  \/ SubmitChunk(w)
  \/ RecordChunk(w)

DirectStep(d) ==
  \/ /\ MayStart(d)
     /\ \E command \in {"extract", "backfill"}, force \in BOOLEAN :
          StartDirect(d, command, force)
  \/ SelectDirect(d)
  \/ \E e \in Episode : CheckEpisode(d, e) \/ CallModel(d, e)
  \/ FinalizeDirect(d)
  \/ SelectDirectReview(d)

OperatorOnly(o) ==
  /\ \/ MayStart(o) /\ (OperatorSync(o) \/ OperatorMarkDuplicate(o))
     \/ SyncOutputRecord(o)
     \/ OperatorFinish(o)
     \/ OperatorMarkFailed(o)
  /\ UNCHANGED extVars

\* The answers of a batch that no run records are never read
ExtractionNext ==
  \/ \E c \in Coordinator : ((MayStart(c) /\ Start(c)) \/ Advance(c)) /\ UNCHANGED extVars
  \/ \E o \in Operator \ Submitter : OperatorOnly(o)
  \/ \E w \in Submitter : SubmitterStep(w)
  \/ \E d \in Direct : DirectStep(d)
  \/ \E r \in RunIds : ServiceStep(runs[r].batch) /\ Tolerable /\ UNCHANGED extVars
  \/ Killed

ExtractionSpec == ExtractionInit /\ [][ExtractionNext]_allVars

----------------------------------------------------------------------------
(* Properties *)

\* What the batch or the call of a run answered for an episode
AnswerOf(run, e) ==
  IF run \in RunIds THEN BatchOf(run).answer[e] ELSE calls[run - MaxBatches].outcome[e]

\* However many commands of whatever kind work on an episode, a row that says
\* succeeded repeats what the run it names was answered for that episode
\* (update_or_create in persist_successful_extraction, persist_failed_extraction).
EverySuccessIsTraceable ==
  \A m \in Phase, e \in Episode :
    LET row == extraction[m][e] IN
    Succeeded(m, e) =>
      /\ \/ row.run \in RunIds /\ runs[row.run].phase = m
         \/ row.run - MaxBatches \in DOMAIN calls /\ calls[row.run - MaxBatches].phase = m
      /\ AnswerOf(row.run, e) = row.answer

\* A command that submits in waves never asks for an episode again while a batch
\* of its label that asks for it is RUNNING: not after a crash within a wave, and
\* not when --max-runtime-seconds pass while batches are pending.
WavesDoNotOverlap ==
  \A r, s \in RunIds :
    /\ r # s
    /\ runs[r].status = "running"
    /\ runs[s].status = "running"
    /\ runs[r].label = runs[s].label
    /\ runs[r].label \in {LabelOfKind[k] : k \in Waves}
    => BatchOf(r).episodes \cap BatchOf(s).episodes = {}
=============================================================================
