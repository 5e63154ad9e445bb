------------------------- MODULE GuestExtractionProofs -------------------------
(***************************************************************************)
(* Theorems of GuestExtraction, for any number of commands of each kind,   *)
(* labels, episodes and batches, and whatever is killed or fails.          *)
(***************************************************************************)
EXTENDS GuestExtraction, BatchBackfillProofs

----------------------------------------------------------------------------
(* What is always true of the tables and of the processes *)

Plans == [phase : Phase, parent : Nat, episodes : SUBSET Episode, batch : Nat]
SubmitterPc == CoordinatorPc \cup {"list", "check", "count", "select"}
WaveRow == [kind : Kind, phase : Phase, active : SUBSET Nat, pending : BOOLEAN,
            expired : BOOLEAN, chunks : Seq(SUBSET Episode)]
Outcome == Answer \cup {"skipped"}
Call == [status : RunStatus, phase : Phase, episodes : SUBSET Episode,
         outcome : [Episode -> Outcome]]
DirectRow == [at : {"ended", "select", "run", "review"}, command : {"extract", "backfill"},
              force : BOOLEAN, run : Nat, checked : SUBSET Episode,
              batch : Nat, starts : Nat]

\* The rows of the tables, of direct runs and at the service
TablesTyped ==
  /\ batches \in Seq(Batch)
  /\ runs \in Seq(Run)
  /\ calls \in Seq(Call)
  /\ extraction \in [Phase -> [Episode -> Row]]

\* What the processes of the Batch API keep in memory
LocalsTyped ==
  /\ pc \in [Proc -> SubmitterPc]
  /\ held \in [Proc -> Nat]
  /\ plan \in [Proc -> Plans]
  /\ todo \in [Proc -> SUBSET Episode]

\* Runs that a submitting command listed are in the table
WavesTyped ==
  /\ wave \in [Submitter -> WaveRow]
  /\ \A w \in Submitter : wave[w].active \subseteq RunIds

\* A direct command that waits for its calls has opened a run
DirectsTyped ==
  /\ direct \in [Direct -> DirectRow]
  /\ \A d \in Direct : direct[d].at \in {"run", "review"} => direct[d].run \in DOMAIN calls

\* No batch is recorded twice, and none before its submitter recorded it
BatchesAreOwned ==
  /\ Len(batches) <= MaxBatches
  /\ \A r, s \in RunIds : runs[r].batch = runs[s].batch => r = s
  /\ \A p \in Proc : pc[p] = "record" =>
       /\ \A r \in RunIds : runs[r].batch # plan[p].batch
       /\ \A q \in Proc : pc[q] = "record" /\ plan[q].batch = plan[p].batch => q = p

\* The run a row that says succeeded names, and what it was answered
FromBatch(m, e, row) ==
  /\ row.run \in RunIds
  /\ runs[row.run].phase = m
  /\ BatchOf(row.run).state = "completed"
  /\ BatchOf(row.run).answer[e] = row.answer

FromCall(m, e, row) ==
  \E i \in DOMAIN calls : /\ row.run = DirectId(i)
                          /\ calls[i].phase = m
                          /\ calls[i].outcome[e] = row.answer

RowsAreTraced ==
  \A m \in Phase, e \in Episode :
    Succeeded(m, e) =>
      /\ extraction[m][e].answer \in Parsed
      /\ FromBatch(m, e, extraction[m][e]) \/ FromCall(m, e, extraction[m][e])

\* Inductive strengthening of EverySuccessIsTraceable
ExtractionInv ==
  /\ TablesTyped
  /\ LocalsTyped
  /\ WavesTyped
  /\ DirectsTyped
  /\ RunsHaveBatches
  /\ HeldIsARun
  /\ TodoIsAnswered
  /\ DraftExists
  /\ BatchesAreOwned
  /\ RowsAreTraced

\* The constants as the proofs use them
LEMMA SubmittersAreProcs ==
  /\ Submitter \subseteq Operator /\ Operator \subseteq Proc /\ Coordinator \subseteq Proc
  /\ LabelOfKind \in [Kind -> Label] /\ LabelOf \in [Coordinator -> Label]
  BY ExtractionAssumption, BackfillAssumption DEF Proc

\* Rows of the tables have their types
LEMMA RowTypes ==
  ASSUME TablesTyped
  PROVE  /\ DOMAIN runs = 1..Len(runs) /\ Len(runs) \in Nat
         /\ DOMAIN batches = 1..Len(batches) /\ Len(batches) \in Nat
         /\ DOMAIN calls = 1..Len(calls) /\ Len(calls) \in Nat
         /\ \A r \in RunIds : runs[r] \in Run
         /\ \A i \in DOMAIN batches : batches[i] \in Batch
         /\ \A i \in DOMAIN calls : calls[i] \in Call
         /\ RunIds \subseteq Nat
  BY ElementOfSeq, LenProperties DEF TablesTyped, RunIds

\* There are no more runs than batches, so ids of direct runs are their own
LEMMA RunsAreFewerThanBatches ==
  ASSUME TablesTyped, RunsHaveBatches, BatchesAreOwned
  PROVE  Len(runs) <= MaxBatches
  <1> DEFINE f == [r \in 1..Len(runs) |-> runs[r].batch]
  <1>1. f \in Injection(1..Len(runs), 1..Len(batches))
    BY RowTypes DEF RunsHaveBatches, BatchesAreOwned, RunIds, Injection, IsInjective
  <1> HIDE DEF f
  <1>2. Len(runs) \in Nat /\ Len(batches) \in Nat
    BY RowTypes
  <1>3. /\ IsFiniteSet(1..Len(batches))
        /\ Cardinality(1..Len(batches)) = Len(batches)
        /\ Cardinality(1..Len(runs)) = Len(runs)
    <2>1. ASSUME NEW n \in Nat
          PROVE  IsFiniteSet(1..n) /\ Cardinality(1..n) = n
      <3>1. /\ IsFiniteSet(1..n)
            /\ Cardinality(1..n) = IF 1 > n THEN 0 ELSE n - 1 + 1
        BY FS_Interval
      <3> QED
        BY <3>1
    <2> QED
      BY <1>2, <2>1
  <1>4. Cardinality(1..Len(runs)) <= Cardinality(1..Len(batches))
    BY <1>1, <1>3, FS_Injection
  <1> QED
    BY <1>2, <1>3, <1>4, BackfillAssumption DEF BatchesAreOwned

\* What the invariant says of a row is what the property says of it
LEMMA TracedRowsAreTraceable ==
  ExtractionInv => EverySuccessIsTraceable
  <1> SUFFICES ASSUME ExtractionInv, NEW m \in Phase, NEW e \in Episode, Succeeded(m, e)
               PROVE  LET row == extraction[m][e] IN
                      /\ \/ row.run \in RunIds /\ runs[row.run].phase = m
                         \/ /\ row.run - MaxBatches \in DOMAIN calls
                            /\ calls[row.run - MaxBatches].phase = m
                      /\ AnswerOf(row.run, e) = row.answer
    BY DEF EverySuccessIsTraceable
  <1> DEFINE row == extraction[m][e]
  <1>1. CASE FromBatch(m, e, row)
    BY <1>1 DEF FromBatch, AnswerOf
  <1>2. CASE FromCall(m, e, row)
    <2>1. PICK i \in DOMAIN calls : /\ row.run = DirectId(i)
                                    /\ calls[i].phase = m
                                    /\ calls[i].outcome[e] = row.answer
      BY <1>2 DEF FromCall
    <2>2. i \in Nat /\ i > 0 /\ MaxBatches \in Nat
      BY RowTypes, BackfillAssumption DEF ExtractionInv
    <2>3. row.run - MaxBatches = i
      BY <2>1, <2>2 DEF DirectId
    <2>4. row.run \notin RunIds
      <3>1. Len(runs) <= MaxBatches /\ RunIds = 1..Len(runs) /\ Len(runs) \in Nat
        BY RunsAreFewerThanBatches, RowTypes DEF ExtractionInv, RunIds
      <3> QED
        BY <2>1, <2>2, <3>1 DEF DirectId
    <2> QED
      BY <2>1, <2>3, <2>4 DEF AnswerOf
  <1> QED
    BY <1>1, <1>2 DEF ExtractionInv, RowsAreTraced

----------------------------------------------------------------------------
(* What every step keeps *)

\* A batch is never resubmitted under its id, a run never changes its batch, and
\* what a batch or a call has answered is never revised
RecordsAreKept ==
  /\ \A i \in DOMAIN batches :
       /\ i \in DOMAIN batches'
       /\ batches'[i].phase = batches[i].phase
       /\ batches'[i].episodes = batches[i].episodes
       /\ batches[i].state = "completed" => batches'[i] = batches[i]
  /\ \A r \in RunIds : /\ r \in RunIds'
                       /\ runs'[r].batch = runs[r].batch
                       /\ runs'[r].phase = runs[r].phase
  /\ \A i \in DOMAIN calls :
       /\ i \in DOMAIN calls'
       /\ calls'[i].phase = calls[i].phase
       /\ \A e \in Episode :
            calls[i].outcome[e] # "none" => calls'[i].outcome[e] = calls[i].outcome[e]

\* Tables that do not change are kept
LEMMA UnchangedIsKept ==
  ASSUME UNCHANGED <<batches, runs, calls>>
  PROVE  RecordsAreKept
  BY DEF RecordsAreKept, RunIds

\* A row that is traced stays traced
LEMMA TraceIsKept ==
  ASSUME ExtractionInv, RecordsAreKept, NEW m \in Phase, NEW e \in Episode,
         Succeeded(m, e), extraction'[m][e] = extraction[m][e]
  PROVE  /\ extraction'[m][e].answer \in Parsed
         /\ \/ FromBatch(m, e, extraction[m][e])'
            \/ FromCall(m, e, extraction[m][e])'
  <1> DEFINE row == extraction[m][e]
  <1>1. row.answer \in Parsed /\ (FromBatch(m, e, row) \/ FromCall(m, e, row))
    BY DEF ExtractionInv, RowsAreTraced
  <1>2. CASE FromBatch(m, e, row)
    <2>1. runs[row.run].batch \in DOMAIN batches
      BY <1>2 DEF FromBatch, ExtractionInv, RunsHaveBatches
    <2>2. /\ row.run \in RunIds' /\ runs'[row.run].phase = m
          /\ runs'[row.run].batch = runs[row.run].batch
      BY <1>2 DEF FromBatch, RecordsAreKept
    <2>3. batches'[runs[row.run].batch] = batches[runs[row.run].batch]
      BY <1>2, <2>1 DEF FromBatch, RecordsAreKept, BatchOf
    <2>4. extraction'[m][e] = row
      OBVIOUS
    <2> HIDE DEF row
    <2>5. FromBatch(m, e, extraction[m][e])'
      BY <1>2, <2>2, <2>3, <2>4 DEF FromBatch, BatchOf
    <2> QED
      BY <1>1, <2>4, <2>5
  <1>3. CASE FromCall(m, e, row)
    <2>1. PICK i \in DOMAIN calls : /\ row.run = DirectId(i)
                                    /\ calls[i].phase = m
                                    /\ calls[i].outcome[e] = row.answer
      BY <1>3 DEF FromCall
    <2>2. calls[i].outcome[e] # "none"
      BY <1>1, <2>1 DEF Parsed
    <2>3. FromCall(m, e, extraction[m][e])'
      BY <2>1, <2>2 DEF FromCall, RecordsAreKept, DirectId
    <2> QED
      BY <1>1, <2>3
  <1> QED
    BY <1>1, <1>2, <1>3

\* A step that persists nothing keeps every row traced
LEMMA RowsAreKept ==
  ASSUME ExtractionInv, RecordsAreKept, UNCHANGED extraction
  PROVE  RowsAreTraced'
  <1> SUFFICES ASSUME NEW m \in Phase, NEW e \in Episode, (Succeeded(m, e))'
               PROVE  /\ extraction'[m][e].answer \in Parsed
                      /\ \/ FromBatch(m, e, extraction[m][e])'
                         \/ FromCall(m, e, extraction[m][e])'
    BY DEF RowsAreTraced
  <1> QED
    BY TraceIsKept DEF Succeeded

\* What a process keeps in memory stays in order when it moves on
LEMMA MemoryIsKept ==
  ASSUME ExtractionInv, RecordsAreKept, NEW p \in Proc,
         NEW l \in SubmitterPc, NEW h \in Nat, NEW a \in Plans, NEW t \in SUBSET Episode,
         pc' = [pc EXCEPT ![p] = l],
         held' = [held EXCEPT ![p] = h],
         plan' = [plan EXCEPT ![p] = a],
         todo' = [todo EXCEPT ![p] = t],
         l \in {"poll", "sync", "review"} => h \in RunIds',
         l = "sync" => /\ batches'[runs'[h].batch].state = "completed"
                       /\ t \subseteq {e \in batches'[runs'[h].batch].episodes :
                                         batches'[runs'[h].batch].answer[e] # "none"},
         l = "record" => /\ a.batch \in DOMAIN batches'
                         /\ batches'[a.batch].phase = a.phase
                         /\ batches'[a.batch].episodes = a.episodes
  PROVE  LocalsTyped' /\ HeldIsARun' /\ TodoIsAnswered' /\ DraftExists'
  <1> USE DEF ExtractionInv
  <1>1. LocalsTyped'
    BY DEF LocalsTyped
  <1>2. /\ pc'[p] = l /\ held'[p] = h /\ plan'[p] = a /\ todo'[p] = t
        /\ \A q \in Proc : q # p => /\ pc'[q] = pc[q] /\ held'[q] = held[q]
                                    /\ plan'[q] = plan[q] /\ todo'[q] = todo[q]
    BY DEF LocalsTyped
  <1>3. HeldIsARun'
    BY <1>2 DEF HeldIsARun, RecordsAreKept
  <1>4. TodoIsAnswered'
    <2> SUFFICES ASSUME NEW q \in Proc, pc'[q] = "sync"
                 PROVE  /\ batches'[runs'[held'[q]].batch].state = "completed"
                        /\ todo'[q] \subseteq
                             {e \in batches'[runs'[held'[q]].batch].episodes :
                                batches'[runs'[held'[q]].batch].answer[e] # "none"}
      BY DEF TodoIsAnswered, HeldBatch, BatchOf, Answered
    <2>1. CASE q = p
      BY <1>2, <2>1
    <2>2. CASE q # p
      <3>1. held[q] \in RunIds /\ pc[q] = "sync"
        BY <1>2, <2>2 DEF HeldIsARun
      <3>2. /\ runs[held[q]].batch \in DOMAIN batches
            /\ batches[runs[held[q]].batch].state = "completed"
            /\ todo[q] \subseteq {e \in batches[runs[held[q]].batch].episodes :
                                    batches[runs[held[q]].batch].answer[e] # "none"}
        BY <3>1 DEF TodoIsAnswered, RunsHaveBatches, HeldBatch, BatchOf, Answered
      <3>3. batches'[runs'[held'[q]].batch] = batches[runs[held[q]].batch]
        BY <1>2, <2>2, <3>1, <3>2 DEF RecordsAreKept
      <3> QED
        BY <1>2, <2>2, <3>2, <3>3
    <2> QED
      BY <2>1, <2>2
  <1>5. DraftExists'
    BY <1>2 DEF DraftExists, RecordsAreKept
  <1> QED
    BY <1>1, <1>3, <1>4, <1>5

\* Without new batches, runs or drafts the batches have the owners they had
LEMMA OwnersAreKept ==
  ASSUME ExtractionInv, RecordsAreKept, RunIds' = RunIds, Len(batches') = Len(batches),
         \A p \in Proc : pc'[p] = "record" => pc[p] = "record" /\ plan'[p] = plan[p]
  PROVE  BatchesAreOwned'
  BY DEF ExtractionInv, BatchesAreOwned, RecordsAreKept

\* A step of a process that changes no table
LEMMA LocalStep ==
  ASSUME ExtractionInv, UNCHANGED <<batches, runs, extraction, calls>>, NEW p \in Proc,
         NEW l \in SubmitterPc \ {"record"},
         NEW h \in Nat, NEW a \in Plans, NEW t \in SUBSET Episode,
         pc' = [pc EXCEPT ![p] = l],
         held' = [held EXCEPT ![p] = h],
         plan' = [plan EXCEPT ![p] = a],
         todo' = [todo EXCEPT ![p] = t],
         l \in {"poll", "sync", "review"} => h \in RunIds,
         l = "sync" => BatchOf(h).state = "completed" /\ t \subseteq Answered(BatchOf(h)),
         WavesTyped', DirectsTyped'
  PROVE  ExtractionInv'
  <1>1. RecordsAreKept /\ RunIds' = RunIds
    BY UnchangedIsKept DEF RunIds
  <1>2. TablesTyped' /\ RunsHaveBatches'
    BY DEF ExtractionInv, TablesTyped, RunsHaveBatches, RunIds, BatchOf
  <1>3. RowsAreTraced'
    BY <1>1, RowsAreKept
  <1>4. LocalsTyped' /\ HeldIsARun' /\ TodoIsAnswered' /\ DraftExists'
    BY <1>1, MemoryIsKept DEF BatchOf, Answered
  <1>5. BatchesAreOwned'
    <2>1. \A q \in Proc : pc'[q] = "record" => pc[q] = "record" /\ plan'[q] = plan[q]
      BY DEF ExtractionInv, LocalsTyped
    <2> QED
      BY <1>1, <2>1, OwnersAreKept
  <1> QED
    BY <1>2, <1>3, <1>4, <1>5 DEF ExtractionInv

----------------------------------------------------------------------------
(* Steps of a process that change no table *)

\* What a process does not touch, as an update to what it is
LEMMA UntouchedLocals ==
  ASSUME ExtractionInv, NEW p \in Proc
  PROVE  /\ pc = [pc EXCEPT ![p] = pc[p]] /\ pc[p] \in SubmitterPc
         /\ held = [held EXCEPT ![p] = held[p]] /\ held[p] \in Nat
         /\ plan = [plan EXCEPT ![p] = plan[p]] /\ plan[p] \in Plans
         /\ todo = [todo EXCEPT ![p] = todo[p]] /\ todo[p] \in SUBSET Episode
         /\ NoRun \in Nat /\ NoPlan \in Plans /\ {} \in SUBSET Episode
  BY DEF ExtractionInv, LocalsTyped, NoRun, NoPlan, Plans, Phase

\* What a process does not touch, as some update
LEMMA UntouchedUpdates ==
  ASSUME ExtractionInv, NEW p \in Proc
  PROVE  /\ UNCHANGED held => \E h \in Nat : held' = [held EXCEPT ![p] = h]
         /\ UNCHANGED plan => \E a \in Plans : plan' = [plan EXCEPT ![p] = a]
         /\ UNCHANGED todo => \E t \in SUBSET Episode : todo' = [todo EXCEPT ![p] = t]
  <1>1. \E h \in Nat : held = [held EXCEPT ![p] = h]
    BY UntouchedLocals
  <1>2. \E a \in Plans : plan = [plan EXCEPT ![p] = a]
    BY UntouchedLocals
  <1>3. \E t \in SUBSET Episode : todo = [todo EXCEPT ![p] = t]
    BY UntouchedLocals
  <1> QED
    BY <1>1, <1>2, <1>3

\* What the other commands keep in memory while tables only grow
LEMMA OtherCommandsAreKept ==
  ASSUME ExtractionInv, RecordsAreKept
  PROVE  /\ UNCHANGED wave => WavesTyped'
         /\ UNCHANGED direct => DirectsTyped'
  BY DEF ExtractionInv, RecordsAreKept, WavesTyped, DirectsTyped

\* Batches of runs, and what they answered, are typed
LEMMA AnsweredEpisodes ==
  ASSUME ExtractionInv, NEW r \in RunIds
  PROVE  /\ runs[r] \in Run /\ BatchOf(r) \in Batch /\ r \in Nat
         /\ Answered(BatchOf(r)) \in SUBSET Episode
  BY RowTypes DEF ExtractionInv, RunsHaveBatches, BatchOf, Answered, Batch

\* A lookup or submission plan
LEMMA GetOrSubmitStep ==
  ASSUME ExtractionInv, UNCHANGED extVars, NEW c \in Proc,
         NEW phase \in Phase, NEW parent \in Nat,
         NEW episodes \in SUBSET Episode, NEW whenNone \in {"exhausted", "loop"},
         GetOrSubmit(c, phase, parent, episodes, whenNone)
  PROVE  ExtractionInv'
  <1> DEFINE found == FindRunningRun(LabelOf[c], phase, parent)
  <1>1. UNCHANGED <<batches, runs, extraction, calls>> /\ todo' = [todo EXCEPT ![c] = todo[c]]
    BY UntouchedLocals DEF GetOrSubmit, tables, extVars
  <1>2. WavesTyped' /\ DirectsTyped'
    BY <1>1, UnchangedIsKept, OtherCommandsAreKept DEF extVars
  <1>3. found \subseteq RunIds /\ RunIds \subseteq Nat
    BY LookupsAreRuns, RowTypes DEF ExtractionInv
  <1>4. CASE Resume(c, found)
    <2>1. PICK r \in found : held' = [held EXCEPT ![c] = r]
      BY <1>4 DEF Resume, Hold
    <2>2. /\ pc' = [pc EXCEPT ![c] = "poll"] /\ plan' = [plan EXCEPT ![c] = plan[c]]
          /\ "poll" \in SubmitterPc \ {"record"} /\ r \in RunIds /\ r \in Nat
      BY <1>3, <1>4, UntouchedLocals DEF Resume, Goto, SubmitterPc, CoordinatorPc
    <2> QED
      BY <1>1, <1>2, <2>1, <2>2, UntouchedLocals, LocalStep
  <1>5. CASE PlanBatch(c, phase, parent, episodes)
    <2> DEFINE a == [phase |-> phase, parent |-> parent, episodes |-> episodes, batch |-> 0]
    <2>1. /\ a \in Plans /\ plan' = [plan EXCEPT ![c] = a]
          /\ pc' = [pc EXCEPT ![c] = "submit"] /\ "submit" \in SubmitterPc \ {"record"}
          /\ held' = [held EXCEPT ![c] = NoRun]
      BY <1>5 DEF PlanBatch, Plans, Goto, Hold, SubmitterPc, CoordinatorPc
    <2> HIDE DEF a
    <2> QED
      BY <1>1, <1>2, <2>1, UntouchedLocals, LocalStep
  <1>6. CASE NothingToSubmit(c, whenNone)
    <2>1. /\ plan' = [plan EXCEPT ![c] = plan[c]]
          /\ pc' = [pc EXCEPT ![c] = whenNone]
          /\ whenNone \in SubmitterPc \ {"record", "poll", "sync", "review"}
          /\ held' = [held EXCEPT ![c] = NoRun]
      BY <1>6, UntouchedLocals
      DEF NothingToSubmit, Goto, Hold, SubmitterPc, CoordinatorPc, Ended
    <2> QED
      BY <1>1, <1>2, <2>1, UntouchedLocals, LocalStep
  <1> QED
    BY <1>4, <1>5, <1>6 DEF GetOrSubmit

\* A process that starts, stops, polls without a result or is killed
LEMMA ControlStep ==
  ASSUME ExtractionInv, NEW p \in Proc,
         UNCHANGED calls, WavesTyped', DirectsTyped',
         Start(p) \/ Crash(p) \/ FinishBatches(p) \/ PollWithoutOutput(p)
  PROVE  ExtractionInv'
  <1>1. UNCHANGED <<batches, runs, extraction, calls>>
    BY DEF Start, Crash, FinishBatches, PollWithoutOutput, tables
  <1>2. PICK l \in {"loop", "down", "finished"} : pc' = [pc EXCEPT ![p] = l]
    BY DEF Start, Crash, FinishBatches, PollWithoutOutput, Goto
  <1>3. PICK h \in Nat : held' = [held EXCEPT ![p] = h]
    BY UntouchedLocals DEF Start, Crash, FinishBatches, PollWithoutOutput, Hold
  <1>4. PICK a \in Plans : plan' = [plan EXCEPT ![p] = a]
    BY UntouchedLocals DEF Start, Crash, FinishBatches, PollWithoutOutput
  <1>5. PICK t \in SUBSET Episode : todo' = [todo EXCEPT ![p] = t]
    BY UntouchedLocals DEF Start, Crash, FinishBatches, PollWithoutOutput
  <1>6. l \in SubmitterPc \ {"record", "poll", "sync", "review"}
    BY DEF SubmitterPc, CoordinatorPc, Ended
  <1> QED
    BY <1>1, <1>2, <1>3, <1>4, <1>5, <1>6, LocalStep

\* A process that takes the output of a batch to persist it
LEMMA TakeOutputStep ==
  ASSUME ExtractionInv, NEW p \in Proc, NEW r \in RunIds,
         UNCHANGED <<batches, runs, extraction, calls, plan>>,
         WavesTyped', DirectsTyped',
         BatchOf(r).state = "completed",
         pc' = [pc EXCEPT ![p] = "sync"],
         held' = [held EXCEPT ![p] = r],
         todo' = [todo EXCEPT ![p] = Answered(BatchOf(r))]
  PROVE  ExtractionInv'
  <1>1. r \in Nat /\ Answered(BatchOf(r)) \in SUBSET Episode
    BY AnsweredEpisodes
  <1>2. plan' = [plan EXCEPT ![p] = plan[p]] /\ plan[p] \in Plans
    BY UntouchedLocals
  <1>3. "sync" \in SubmitterPc \ {"record"}
    BY DEF SubmitterPc, CoordinatorPc
  <1> QED
    BY <1>1, <1>2, <1>3, LocalStep

----------------------------------------------------------------------------
(* Steps of a submitting command that change no table *)

\* The rows of waves after one of them changed
LEMMA WaveStep ==
  ASSUME ExtractionInv, NEW w \in Submitter, NEW v \in WaveRow, RunIds' = RunIds,
         wave' = [wave EXCEPT ![w] = v], v.active \subseteq RunIds
  PROVE  WavesTyped'
  <1>1. wave \in [Submitter -> WaveRow] /\ \A u \in Submitter : wave[u].active \subseteq RunIds
    BY DEF ExtractionInv, WavesTyped
  <1>2. wave' \in [Submitter -> WaveRow]
    BY <1>1
  <1>3. \A u \in Submitter : wave'[u].active \subseteq RunIds
    BY <1>1
  <1> QED
    BY <1>2, <1>3 DEF WavesTyped

\* A command that has ended keeps nothing
LEMMA NoWaveIsTyped ==
  NoWave \in WaveRow /\ NoWave.active = {}
  <1>1. <<>> \in Seq(SUBSET Episode)
    BY EmptySeq
  <1> QED
    BY <1>1 DEF NoWave, WaveRow, Kind, Waves, Phase

\* A row of a wave, field by field
LEMMA WaveFields ==
  ASSUME ExtractionInv, NEW w \in Submitter
  PROVE  /\ w \in Proc
         /\ wave[w] \in WaveRow /\ wave[w].active \subseteq RunIds
         /\ wave[w].kind \in Kind /\ wave[w].phase \in Phase
         /\ wave[w].chunks \in Seq(SUBSET Episode)
         /\ wave = [wave EXCEPT ![w] = wave[w]]
  BY SubmittersAreProcs DEF ExtractionInv, WavesTyped, WaveRow

\* A step of a submitting command that moves it on and changes its own memory
LEMMA SubmitterMoves ==
  ASSUME ExtractionInv, NEW w \in Submitter, NEW v \in WaveRow,
         NEW l \in SubmitterPc \ {"record", "poll", "sync", "review"},
         NEW a \in Plans,
         UNCHANGED <<batches, runs, extraction, calls, direct, held, todo>>,
         pc' = [pc EXCEPT ![w] = l],
         plan' = [plan EXCEPT ![w] = a],
         wave' = [wave EXCEPT ![w] = v], v.active \subseteq RunIds
  PROVE  ExtractionInv'
  <1>1. w \in Proc
    BY SubmittersAreProcs
  <1>2. WavesTyped'
    BY WaveStep DEF RunIds
  <1>3. DirectsTyped'
    BY UnchangedIsKept, OtherCommandsAreKept
  <1>4. held' = [held EXCEPT ![w] = held[w]] /\ todo' = [todo EXCEPT ![w] = todo[w]]
    BY <1>1, UntouchedLocals
  <1>5. l \notin {"poll", "sync", "review"} /\ l # "record"
    OBVIOUS
  <1>6. held[w] \in Nat /\ todo[w] \in SUBSET Episode
    BY <1>1, UntouchedLocals
  <1> QED
    BY <1>1, <1>2, <1>3, <1>4, <1>5, <1>6, LocalStep

\* The labels of a submitting command
LEMMA SubmitterLabels ==
  {"down", "list", "check", "count", "select", "submit"}
    \subseteq SubmitterPc \ {"record", "poll", "sync", "review"}
  BY DEF SubmitterPc, CoordinatorPc, Ended

\* Starting a submitting command
LEMMA StartSubmitterStep ==
  ASSUME ExtractionInv, NEW w \in Submitter, NEW kind \in Kind, StartSubmitter(w, kind)
  PROVE  ExtractionInv'
  <1> DEFINE v == [NoWave EXCEPT !.kind = kind, !.phase = PhaseOf(kind)]
  <1>1. v \in WaveRow /\ v.active = {}
    BY NoWaveIsTyped DEF NoWave, WaveRow, PhaseOf, Phase
  <1>2. PICK l \in {"list", "select"} : pc' = [pc EXCEPT ![w] = l]
    BY DEF StartSubmitter, Goto
  <1>3. /\ wave' = [wave EXCEPT ![w] = v]
        /\ UNCHANGED <<batches, runs, extraction, calls, direct, held, todo, plan>>
    BY DEF StartSubmitter, tables, Kept
  <1> HIDE DEF v
  <1>4. plan' = [plan EXCEPT ![w] = plan[w]] /\ plan[w] \in Plans
    BY <1>3, WaveFields, UntouchedLocals
  <1> QED
    BY <1>1, <1>2, <1>3, <1>4, SubmitterMoves, SubmitterLabels

\* Listing and counting, and the end of a round
LEMMA RoundStep ==
  ASSUME ExtractionInv, NEW w \in Submitter,
         ListActiveRuns(w) \/ EndOfRound(w) \/ CountRemaining(w)
  PROVE  ExtractionInv'
  <1>1. wave[w] \in WaveRow /\ wave[w].active \subseteq RunIds /\ RunIds \subseteq Nat
    BY WaveFields, RowTypes DEF ExtractionInv
  <1>2. PICK l \in {"down", "list", "check", "count", "select"} : pc' = [pc EXCEPT ![w] = l]
    BY DEF ListActiveRuns, EndOfRound, CountRemaining, EndSubmitter, Goto
  <1>3. UNCHANGED <<batches, runs, extraction, calls, direct, held, todo, plan>>
    BY DEF ListActiveRuns, EndOfRound, CountRemaining, tables, Kept
  <1>4. PICK v \in WaveRow : wave' = [wave EXCEPT ![w] = v] /\ v.active \subseteq RunIds
    <2>1. CASE ListActiveRuns(w)
      <3> DEFINE active == {r \in RunIds : /\ runs[r].status = "running"
                                           /\ runs[r].label = LabelOfKind[wave[w].kind]}
                 v == [wave[w] EXCEPT !.active = active, !.pending = FALSE]
      <3>1. v \in WaveRow /\ v.active \subseteq RunIds
        BY <1>1 DEF WaveRow
      <3>2. wave' = [wave EXCEPT ![w] = v]
        BY <2>1 DEF ListActiveRuns
      <3> QED
        BY <3>1, <3>2
    <2>2. ASSUME NEW late \in BOOLEAN, Late(w, late)
          PROVE  \E v \in WaveRow : wave' = [wave EXCEPT ![w] = v] /\ v.active \subseteq RunIds
      <3> DEFINE v == [wave[w] EXCEPT !.expired = late]
      <3>1. v \in WaveRow /\ v.active \subseteq RunIds
        BY <1>1 DEF WaveRow
      <3>2. wave' = [wave EXCEPT ![w] = v]
        BY <2>2 DEF Late
      <3> QED
        BY <3>1, <3>2
    <2>3. CASE EndSubmitter(w)
      BY <2>3, NoWaveIsTyped DEF EndSubmitter
    <2> QED
      BY <2>1, <2>2, <2>3 DEF EndOfRound, CountRemaining
  <1>5. plan' = [plan EXCEPT ![w] = plan[w]] /\ plan[w] \in Plans
    BY <1>3, WaveFields, UntouchedLocals
  <1> QED
    BY <1>2, <1>3, <1>4, <1>5, SubmitterMoves, SubmitterLabels

\* Selections in pieces are sequences of sets of episodes
LEMMA ChunkedType ==
  ASSUME NEW S \in SUBSET Episode
  PROVE  Chunked(S) \in Seq(SUBSET Episode)
  <1> DEFINE pieces == (Cardinality(S) + BatchSize - 1) \div BatchSize
  <1>1. Cardinality(S) \in Nat
    <2>1. 1 \in Int /\ NumEpisodes \in Int
      BY BackfillAssumption
    <2>2. IsFiniteSet(Episode)
      BY <2>1, FS_Interval DEF Episode
    <2> QED
      BY <2>2, FS_Subset, FS_CardinalityType
  <1>2. pieces \in Nat
    BY <1>1, BackfillAssumption
  <1> HIDE DEF pieces
  <1>3. \A i \in 1..pieces : Newest(S, i * BatchSize) \ Newest(S, (i - 1) * BatchSize) \in SUBSET Episode
    BY DEF Newest
  <1>4. Chunked(S) = [i \in 1..pieces |-> Newest(S, i * BatchSize) \ Newest(S, (i - 1) * BatchSize)]
    BY DEF Chunked, pieces
  <1>5. Chunked(S) \in [1..pieces -> SUBSET Episode]
    BY <1>3, <1>4
  <1> QED
    BY <1>2, <1>5, SeqDef

\* Planning the first of some chunks
LEMMA PlanChunksStep ==
  ASSUME ExtractionInv, NEW w \in Submitter, NEW phase \in Phase,
         NEW chunks \in Seq(SUBSET Episode), chunks # <<>>,
         PlanChunks(w, chunks, phase)
  PROVE  \E a \in Plans, v \in WaveRow :
           /\ pc' = [pc EXCEPT ![w] = "submit"]
           /\ plan' = [plan EXCEPT ![w] = a]
           /\ wave' = [wave EXCEPT ![w] = v] /\ v.active = wave[w].active
  <1> DEFINE a == [phase |-> phase, parent |-> NoRun, episodes |-> Head(chunks), batch |-> 0]
             v == [wave[w] EXCEPT !.chunks = Tail(chunks), !.phase = phase]
  <1>1. Head(chunks) \in SUBSET Episode /\ Tail(chunks) \in Seq(SUBSET Episode)
    BY HeadTailProperties
  <1>2. a \in Plans
    BY <1>1 DEF Plans, NoRun
  <1>3. v \in WaveRow /\ v.active = wave[w].active
    BY <1>1, WaveFields DEF WaveRow
  <1>4. /\ pc' = [pc EXCEPT ![w] = "submit"]
        /\ plan' = [plan EXCEPT ![w] = a]
        /\ wave' = [wave EXCEPT ![w] = v]
    BY DEF PlanChunks, PlanChunk, Goto
  <1> HIDE DEF a, v
  <1> QED
    BY <1>2, <1>3, <1>4

\* Selecting the episodes of a wave, or of the review band of a run
LEMMA SelectStep ==
  ASSUME ExtractionInv, NEW w \in Submitter, SelectWave(w) \/ SelectReviewBand(w)
  PROVE  ExtractionInv'
  <1>1. UNCHANGED <<batches, runs, extraction, calls, direct, held, todo>>
    BY DEF SelectWave, SelectReviewBand, tables, Kept
  <1>2. w \in Proc /\ wave[w] \in WaveRow /\ wave[w].active \subseteq RunIds
    BY WaveFields
  <1>3. ASSUME NEW phase \in Phase, NEW chunks \in Seq(SUBSET Episode), chunks # <<>>,
               PlanChunks(w, chunks, phase)
        PROVE  ExtractionInv'
    <2>1. PICK a \in Plans, v \in WaveRow :
            /\ pc' = [pc EXCEPT ![w] = "submit"]
            /\ plan' = [plan EXCEPT ![w] = a]
            /\ wave' = [wave EXCEPT ![w] = v] /\ v.active = wave[w].active
      BY <1>3, PlanChunksStep
    <2> QED
      BY <1>1, <1>2, <2>1, SubmitterMoves, SubmitterLabels
  <1>4. CASE SelectReviewBand(w)
    <2>1. PICK r \in RunIds :
            PlanChunks(w, <<Newest(SelectSecondPassReviewEpisodes(r), BatchSize)>>, "second_pass")
      BY <1>4 DEF SelectReviewBand
    <2> DEFINE chunk == Newest(SelectSecondPassReviewEpisodes(r), BatchSize)
    <2>2. chunk \in SUBSET Episode
      BY SelectionsAreEpisodes DEF Newest
    <2> HIDE DEF chunk
    <2>3. <<chunk>> \in Seq(SUBSET Episode) /\ <<chunk>> # <<>>
      BY <2>2
    <2> QED
      BY <1>3, <2>1, <2>3 DEF chunk, Phase
  <1>5. CASE SelectWave(w)
    <2> DEFINE kind == wave[w].kind
               chunks == Chunked(Newest(Selectable(kind), BatchSize * WaveSize))
    <2>1. kind \in Kind /\ PhaseOf(kind) \in Phase
      BY WaveFields DEF PhaseOf, Phase
    <2>2. Newest(Selectable(kind), BatchSize * WaveSize) \in SUBSET Episode
      BY <2>1, SelectionsAreEpisodes
      DEF Newest, Selectable, Kind, Waves, NeverExtracted, ReviewBand, RerunBand
    <2>3. chunks \in Seq(SUBSET Episode)
      BY <2>2, ChunkedType
    <2>4. CASE chunks # <<>> /\ PlanChunks(w, chunks, PhaseOf(kind))
      <3> HIDE DEF chunks
      <3> QED
        BY <1>3, <2>1, <2>3, <2>4
    <2>5. CASE EndSubmitter(w) /\ UNCHANGED plan
      <3>1. /\ pc' = [pc EXCEPT ![w] = "down"] /\ wave' = [wave EXCEPT ![w] = NoWave]
            /\ plan' = [plan EXCEPT ![w] = plan[w]] /\ plan[w] \in Plans
        BY <1>2, <2>5, UntouchedLocals DEF EndSubmitter, Goto
      <3> QED
        BY <1>1, <3>1, NoWaveIsTyped, SubmitterMoves, SubmitterLabels
    <2>6. CASE Goto(w, "list") /\ UNCHANGED <<plan, wave>>
      <3>1. /\ pc' = [pc EXCEPT ![w] = "list"] /\ wave' = [wave EXCEPT ![w] = wave[w]]
            /\ plan' = [plan EXCEPT ![w] = plan[w]] /\ plan[w] \in Plans
        BY <1>2, <2>6, UntouchedLocals, WaveFields DEF Goto
      <3> QED
        BY <1>1, <1>2, <3>1, SubmitterMoves, SubmitterLabels
    <2> QED
      BY <1>5, <2>4, <2>5, <2>6 DEF SelectWave
  <1> QED
    BY <1>4, <1>5

----------------------------------------------------------------------------
(* Steps that change the status of a run *)

\* A step of something that is no process of the Batch API
LEMMA MemoryIsUnchanged ==
  ASSUME ExtractionInv, RecordsAreKept, UNCHANGED <<pc, held, plan, todo>>
  PROVE  LocalsTyped' /\ HeldIsARun' /\ TodoIsAnswered' /\ DraftExists'
  <1> USE DEF ExtractionInv
  <1>1. LocalsTyped' /\ HeldIsARun'
    BY DEF LocalsTyped, HeldIsARun, RecordsAreKept
  <1>2. DraftExists'
    BY DEF DraftExists, RecordsAreKept
  <1>3. TodoIsAnswered'
    <2> SUFFICES ASSUME NEW q \in Proc, pc[q] = "sync"
                 PROVE  (HeldBatch(q))' = HeldBatch(q)
      BY DEF TodoIsAnswered, Answered
    <2>1. /\ held[q] \in RunIds /\ HeldBatch(q).state = "completed"
          /\ runs[held[q]].batch \in DOMAIN batches
      BY DEF HeldIsARun, TodoIsAnswered, RunsHaveBatches
    <2> QED
      BY <2>1 DEF RecordsAreKept, HeldBatch, BatchOf
  <1> QED
    BY <1>1, <1>2, <1>3

\* What setting a status does to the rows of ExtractionRun
LEMMA StatusEffect ==
  ASSUME ExtractionInv, NEW r \in RunIds, NEW status \in RunStatus, SetStatus(r, status),
         UNCHANGED <<batches, extraction, calls>>
  PROVE  /\ TablesTyped' /\ RunsHaveBatches' /\ RunIds' = RunIds /\ RecordsAreKept
         /\ \A s \in RunIds : /\ runs'[s].batch = runs[s].batch
                              /\ runs'[s].label = runs[s].label
                              /\ s # r => runs'[s] = runs[s]
  <1>1. runs \in Seq(Run) /\ r \in DOMAIN runs /\ runs[r] \in Run
    BY RowTypes DEF ExtractionInv, TablesTyped, RunIds
  <1> DEFINE row == [runs[r] EXCEPT !.status = status]
  <1>2. row \in Run /\ runs' = [runs EXCEPT ![r] = row]
    BY <1>1 DEF Run, SetStatus
  <1>3. row.batch = runs[r].batch /\ row.phase = runs[r].phase /\ row.label = runs[r].label
    BY <1>1 DEF Run
  <1> HIDE DEF row
  <1>4. /\ runs' \in Seq(Run) /\ DOMAIN runs' = DOMAIN runs /\ runs'[r] = row
        /\ \A s \in DOMAIN runs : s # r => runs'[s] = runs[s]
    BY <1>1, <1>2, UpdateRow
  <1>5. /\ RunIds' = RunIds
        /\ \A s \in RunIds : /\ runs'[s].batch = runs[s].batch
                             /\ runs'[s].phase = runs[s].phase
                             /\ runs'[s].label = runs[s].label
                             /\ s # r => runs'[s] = runs[s]
    BY <1>3, <1>4 DEF RunIds
  <1>6. RecordsAreKept
    BY <1>5 DEF RecordsAreKept
  <1>7. TablesTyped' /\ RunsHaveBatches'
    BY <1>4, <1>5 DEF ExtractionInv, TablesTyped, RunsHaveBatches, BatchOf
  <1> QED
    BY <1>5, <1>6, <1>7

\* A process that ends a run and moves on
LEMMA StatusStep ==
  ASSUME ExtractionInv, NEW p \in Proc, NEW r \in RunIds, NEW status \in RunStatus,
         SetStatus(r, status), UNCHANGED <<batches, extraction, calls, plan, todo>>,
         NEW l \in SubmitterPc \ {"record", "poll", "sync"}, NEW h \in Nat,
         pc' = [pc EXCEPT ![p] = l],
         held' = [held EXCEPT ![p] = h],
         l = "review" => h \in RunIds,
         WavesTyped', DirectsTyped'
  PROVE  ExtractionInv'
  <1>1. /\ TablesTyped' /\ RunsHaveBatches' /\ RunIds' = RunIds /\ RecordsAreKept
    BY StatusEffect
  <1>2. LocalsTyped' /\ HeldIsARun' /\ TodoIsAnswered' /\ DraftExists'
    <2>1. /\ plan' = [plan EXCEPT ![p] = plan[p]] /\ plan[p] \in Plans
          /\ todo' = [todo EXCEPT ![p] = todo[p]] /\ todo[p] \in SUBSET Episode
      BY UntouchedLocals
    <2>2. /\ l \in {"poll", "sync", "review"} => h \in RunIds'
          /\ l # "sync" /\ l # "record" /\ l \in SubmitterPc
      BY <1>1
    <2> QED
      BY <1>1, <2>1, <2>2, MemoryIsKept
  <1>3. BatchesAreOwned'
    <2>1. \A q \in Proc : pc'[q] = "record" => pc[q] = "record" /\ plan'[q] = plan[q]
      BY DEF ExtractionInv, LocalsTyped
    <2> QED
      BY <1>1, <2>1, OwnersAreKept
  <1>4. RowsAreTraced'
    BY <1>1, RowsAreKept
  <1> QED
    BY <1>1, <1>2, <1>3, <1>4 DEF ExtractionInv

\* A coordinator, operator or submitting command that ends the run it holds
LEMMA EndRunStep ==
  ASSUME ExtractionInv, NEW p \in Proc, UNCHANGED extVars,
         \/ PollFailed(p) \/ FinishFirstPass(p) \/ FinishSecondPass(p)
         \/ OperatorFinish(p)
         \/ FinalizeExtractionRun(p, "check") /\ Hold(p, NoRun)
  PROVE  ExtractionInv'
  <1>1. held[p] \in RunIds /\ held[p] \in Nat
    BY UntouchedLocals
    DEF ExtractionInv, HeldIsARun, PollFailed, FinishFirstPass, FinishSecondPass,
        OperatorFinish, FinalizeExtractionRun
  <1>2. UNCHANGED <<batches, extraction, calls, plan, todo>>
    BY DEF PollFailed, FinishFirstPass, FinishSecondPass, OperatorFinish,
           FinalizeExtractionRun, extVars
  <1>3. PICK status \in RunStatus : SetStatus(held[p], status)
    BY FinalStatusIsAStatus
    DEF PollFailed, FinishFirstPass, FinishSecondPass, OperatorFinish,
        FinalizeExtractionRun, RunStatus
  <1>4. PICK l \in {"stopped", "review", "loop", "down", "check"} : pc' = [pc EXCEPT ![p] = l]
    BY DEF PollFailed, FinishFirstPass, FinishSecondPass, OperatorFinish,
           FinalizeExtractionRun, Goto
  <1>5. PICK h \in {held[p], NoRun} : held' = [held EXCEPT ![p] = h]
    BY UntouchedLocals
    DEF PollFailed, FinishFirstPass, FinishSecondPass, OperatorFinish, Hold
  <1>6. l = "review" => h \in RunIds
    <2>1. CASE FinishFirstPass(p)
      <3>1. held' = held
        BY <2>1 DEF FinishFirstPass
      <3>2. held'[p] = h
        BY <1>5 DEF ExtractionInv, LocalsTyped
      <3> QED
        BY <1>1, <3>1, <3>2
    <2>2. CASE ~FinishFirstPass(p)
      <3>1. pc'[p] # "review"
        BY <2>2 DEF PollFailed, FinishSecondPass, OperatorFinish,
                    FinalizeExtractionRun, Goto, ExtractionInv, LocalsTyped
      <3> QED
        BY <1>4, <3>1 DEF ExtractionInv, LocalsTyped
    <2> QED
      BY <2>1, <2>2
  <1>7. l \in SubmitterPc \ {"record", "poll", "sync"} /\ h \in Nat
    BY <1>1, <1>5 DEF SubmitterPc, CoordinatorPc, Ended, NoRun
  <1>8. WavesTyped' /\ DirectsTyped'
    BY <1>1, <1>2, <1>3, StatusEffect, OtherCommandsAreKept DEF extVars
  <1> QED
    BY <1>1, <1>2, <1>3, <1>4, <1>5, <1>6, <1>7, <1>8, StatusStep

\* The commands of an operator that set a status
LEMMA MarkStep ==
  ASSUME ExtractionInv, NEW o \in Proc, UNCHANGED extVars,
         OperatorMarkFailed(o) \/ OperatorMarkDuplicate(o)
  PROVE  ExtractionInv'
  <1>1. PICK r \in RunIds : SetStatus(r, "failed")
    BY DEF OperatorMarkFailed, OperatorMarkDuplicate
  <1>2. UNCHANGED <<batches, extraction, calls, pc, held, plan, todo>>
    BY DEF OperatorMarkFailed, OperatorMarkDuplicate, locals, extVars
  <1>3. /\ TablesTyped' /\ RunsHaveBatches' /\ RunIds' = RunIds /\ RecordsAreKept
    BY <1>1, <1>2, StatusEffect DEF RunStatus
  <1>4. LocalsTyped' /\ HeldIsARun' /\ TodoIsAnswered' /\ DraftExists'
    BY <1>2, <1>3, MemoryIsUnchanged
  <1>5. BatchesAreOwned' /\ RowsAreTraced' /\ WavesTyped' /\ DirectsTyped'
    BY <1>2, <1>3, OwnersAreKept, RowsAreKept, OtherCommandsAreKept DEF extVars
  <1> QED
    BY <1>3, <1>4, <1>5 DEF ExtractionInv

\* Looking at the next listed run
LEMMA CheckRunStep ==
  ASSUME ExtractionInv, NEW w \in Submitter, CheckRun(w)
  PROVE  ExtractionInv'
  <1>1. PICK r \in wave[w].active :
          LET state == BatchOf(r).state
              Checked == wave' = [wave EXCEPT ![w].active = @ \ {r},
                                              ![w].pending = @ \/ state = "in_progress"]
          IN \/ /\ state = "in_progress"
                /\ Checked
                /\ UNCHANGED <<runs, pc, held, todo>>
             \/ /\ state = "failed"
                /\ Checked
                /\ SetStatus(r, "failed")
                /\ UNCHANGED <<pc, held, todo>>
             \/ /\ state = "completed" /\ HasOutput(BatchOf(r))
                /\ Checked
                /\ Hold(w, r)
                /\ todo' = [todo EXCEPT ![w] = Answered(BatchOf(r))]
                /\ Goto(w, "sync")
                /\ UNCHANGED runs
             \/ /\ state = "completed" /\ ~HasOutput(BatchOf(r))
                /\ EndSubmitter(w)
                /\ UNCHANGED <<runs, held, todo>>
    BY DEF CheckRun
  <1>2. /\ UNCHANGED <<batches, extraction, plan, calls, direct>>
        /\ pc[w] = "check"
    BY DEF CheckRun, Kept
  <1>3. /\ w \in Proc /\ wave[w] \in WaveRow
        /\ wave[w].active \subseteq RunIds /\ r \in RunIds /\ wave[w].pending \in BOOLEAN
    BY WaveFields DEF WaveRow
  <1> DEFINE checked(late) == [wave[w] EXCEPT !.active = @ \ {r}, !.pending = late]
  <1>4. ASSUME NEW late \in BOOLEAN
        PROVE  checked(late) \in WaveRow /\ checked(late).active \subseteq RunIds
    BY <1>3 DEF WaveRow
  <1>5. ASSUME wave' = [wave EXCEPT ![w].active = @ \ {r},
                                    ![w].pending = @ \/ BatchOf(r).state = "in_progress"]
        PROVE  \E v \in WaveRow : wave' = [wave EXCEPT ![w] = v] /\ v.active \subseteq RunIds
    <2> DEFINE late == wave[w].pending \/ BatchOf(r).state = "in_progress"
               v == checked(late)
    <2>1. late \in BOOLEAN
      OBVIOUS
    <2>2. v \in WaveRow /\ v.active \subseteq RunIds
      BY <1>4, <2>1
    <2>3. wave' = [wave EXCEPT ![w] = v]
      BY <1>3, <1>5 DEF ExtractionInv, WavesTyped, WaveRow
    <2> HIDE DEF v
    <2> QED
      BY <2>2, <2>3
  <1> HIDE DEF checked
  <1> DEFINE Checked == wave' = [wave EXCEPT ![w].active = @ \ {r},
                                   ![w].pending = @ \/ BatchOf(r).state = "in_progress"]
  <1>6. CASE Checked /\ UNCHANGED <<runs, pc, held, todo>>
    <2>1. PICK v \in WaveRow : wave' = [wave EXCEPT ![w] = v] /\ v.active \subseteq RunIds
      BY <1>5, <1>6
    <2>2. /\ pc' = [pc EXCEPT ![w] = "check"]
          /\ plan' = [plan EXCEPT ![w] = plan[w]] /\ plan[w] \in Plans
      BY <1>2, <1>3, <1>6, UntouchedLocals
    <2>3. "check" \in SubmitterPc \ {"record", "poll", "sync", "review"}
      BY SubmitterLabels
    <2> QED
      BY <1>2, <1>6, <2>1, <2>2, <2>3, SubmitterMoves
  <1>7. CASE Checked /\ SetStatus(r, "failed") /\ UNCHANGED <<pc, held, todo>>
    <2>1. TablesTyped' /\ RunsHaveBatches' /\ RunIds' = RunIds /\ RecordsAreKept
      BY <1>2, <1>3, <1>7, StatusEffect DEF RunStatus
    <2>2. WavesTyped'
      BY <1>5, <1>7, <2>1, WaveStep
    <2>3. LocalsTyped' /\ HeldIsARun' /\ TodoIsAnswered' /\ DraftExists'
      BY <1>2, <1>7, <2>1, MemoryIsUnchanged
    <2>4. BatchesAreOwned' /\ RowsAreTraced' /\ DirectsTyped'
      BY <1>2, <1>7, <2>1, OwnersAreKept, RowsAreKept, OtherCommandsAreKept
    <2> QED
      BY <2>1, <2>2, <2>3, <2>4 DEF ExtractionInv
  <1>8. CASE /\ BatchOf(r).state = "completed"
             /\ Checked /\ Hold(w, r) /\ Goto(w, "sync") /\ UNCHANGED runs
             /\ todo' = [todo EXCEPT ![w] = Answered(BatchOf(r))]
    <2>1. WavesTyped'
      BY <1>5, <1>8, WaveStep DEF RunIds
    <2>2. DirectsTyped'
      BY <1>2, <1>8, UnchangedIsKept, OtherCommandsAreKept
    <2> QED
      BY <1>2, <1>3, <1>8, <2>1, <2>2, TakeOutputStep DEF Hold, Goto
  <1>9. CASE EndSubmitter(w) /\ UNCHANGED <<runs, held, todo>>
    <2>1. /\ pc' = [pc EXCEPT ![w] = "down"] /\ wave' = [wave EXCEPT ![w] = NoWave]
          /\ plan' = [plan EXCEPT ![w] = plan[w]] /\ plan[w] \in Plans
      BY <1>2, <1>3, <1>9, UntouchedLocals DEF EndSubmitter, Goto
    <2> QED
      BY <1>2, <1>9, <2>1, NoWaveIsTyped, SubmitterMoves, SubmitterLabels
  <1> QED
    BY <1>1, <1>6, <1>7, <1>8, <1>9

----------------------------------------------------------------------------
(* Steps that persist an answer, submit a batch or record a run *)

\* What persisting an answer does to a row
LEMMA PersistedRow ==
  ASSUME NEW row \in Row, NEW r \in Nat, NEW answer \in Answer
  PROVE  /\ Persist(row, r, answer) \in Row
         /\ Persist(row, r, answer).status = "succeeded" <=> answer \in Parsed
         /\ answer \in Parsed => /\ Persist(row, r, answer).run = r
                                 /\ Persist(row, r, answer).answer = answer
  <1>1. CASE answer \in Parsed
    BY <1>1 DEF Persist, Row
  <1>2. CASE answer \notin Parsed
    BY <1>2 DEF Persist, Row
  <1> QED
    BY <1>1, <1>2

\* One line of an output file
LEMMA SyncStep ==
  ASSUME ExtractionInv, NEW p \in Proc, UNCHANGED extVars, SyncOutputRecord(p)
  PROVE  ExtractionInv'
  <1>1. /\ pc[p] = "sync" /\ held[p] \in RunIds /\ held[p] \in Nat
        /\ UNCHANGED <<batches, runs, pc, held, plan, calls, wave, direct>>
    BY UntouchedLocals DEF SyncOutputRecord, ExtractionInv, HeldIsARun, extVars
  <1>2. PICK m \in Phase : m = runs[held[p]].phase
    BY <1>1, AnsweredEpisodes DEF Run
  <1>3. PICK e \in todo[p] :
          /\ extraction' = [extraction EXCEPT ![m][e] =
                              Persist(@, held[p], HeldBatch(p).answer[e])]
          /\ todo' = [todo EXCEPT ![p] = @ \ {e}]
    BY <1>2 DEF SyncOutputRecord
  <1>4. e \in Episode /\ HeldBatch(p).state = "completed" /\ HeldBatch(p).answer[e] \in Answer
    BY <1>1, AnsweredEpisodes, UntouchedLocals
    DEF ExtractionInv, TodoIsAnswered, HeldBatch, Batch
  <1>5. extraction \in [Phase -> [Episode -> Row]]
    BY DEF ExtractionInv, TablesTyped
  <1> DEFINE row == Persist(extraction[m][e], held[p], HeldBatch(p).answer[e])
  <1>6. /\ row \in Row
        /\ row.status = "succeeded" <=> HeldBatch(p).answer[e] \in Parsed
        /\ HeldBatch(p).answer[e] \in Parsed =>
             row.run = held[p] /\ row.answer = HeldBatch(p).answer[e]
    BY <1>1, <1>4, <1>5, PersistedRow
  <1>7. /\ extraction' \in [Phase -> [Episode -> Row]]
        /\ extraction'[m][e] = row
        /\ \A n \in Phase, f \in Episode :
             n # m \/ f # e => extraction'[n][f] = extraction[n][f]
    <2>1. extraction' = [extraction EXCEPT ![m][e] = row]
      BY <1>3
    <2> HIDE DEF row
    <2> QED
      BY <1>4, <1>5, <1>6, <2>1
  <1> HIDE DEF row
  <1>8. RecordsAreKept /\ RunIds' = RunIds
    BY <1>1, UnchangedIsKept DEF RunIds
  <1>9. TablesTyped' /\ RunsHaveBatches'
    BY <1>1, <1>7 DEF ExtractionInv, TablesTyped, RunsHaveBatches, RunIds, BatchOf
  <1>10. LocalsTyped' /\ HeldIsARun' /\ TodoIsAnswered' /\ DraftExists'
    <2> DEFINE t == todo[p] \ {e}
    <2>1. /\ t \in SUBSET Episode /\ todo' = [todo EXCEPT ![p] = t]
          /\ t \subseteq Answered(HeldBatch(p))
      BY <1>1, <1>3, UntouchedLocals DEF ExtractionInv, TodoIsAnswered
    <2>2. PICK a \in Plans, h \in RunIds :
            /\ h = held[p] /\ h \in Nat
            /\ held' = [held EXCEPT ![p] = h]
            /\ plan' = [plan EXCEPT ![p] = a]
      BY <1>1, UntouchedLocals
    <2>3. pc' = [pc EXCEPT ![p] = "sync"] /\ "sync" \in SubmitterPc
      BY <1>1, UntouchedLocals
    <2>4. /\ batches'[runs'[h].batch].state = "completed"
          /\ t \subseteq {x \in batches'[runs'[h].batch].episodes :
                            batches'[runs'[h].batch].answer[x] # "none"}
      BY <1>1, <1>4, <2>1, <2>2 DEF HeldBatch, BatchOf, Answered
    <2> HIDE DEF t
    <2> QED
      BY <1>8, <2>1, <2>2, <2>3, <2>4, MemoryIsKept
  <1>11. BatchesAreOwned' /\ WavesTyped' /\ DirectsTyped'
    BY <1>1, <1>8, OwnersAreKept, OtherCommandsAreKept
  <1>12. RowsAreTraced'
    <2> SUFFICES ASSUME NEW n \in Phase, NEW f \in Episode, (Succeeded(n, f))'
                 PROVE  /\ extraction'[n][f].answer \in Parsed
                        /\ \/ FromBatch(n, f, extraction[n][f])'
                           \/ FromCall(n, f, extraction[n][f])'
      BY DEF RowsAreTraced
    <2>1. CASE n # m \/ f # e
      BY <1>7, <1>8, <2>1, TraceIsKept DEF Succeeded
    <2>2. CASE n = m /\ f = e
      <3>1. /\ HeldBatch(p).answer[e] \in Parsed
            /\ row.run = held[p] /\ row.answer = HeldBatch(p).answer[e]
        BY <1>6, <1>7, <2>2 DEF Succeeded
      <3>2. FromBatch(n, f, extraction[n][f])'
        BY <1>1, <1>2, <1>4, <1>7, <2>2, <3>1 DEF FromBatch, HeldBatch, BatchOf, RunIds
      <3> QED
        BY <1>7, <2>2, <3>1, <3>2
    <2> QED
      BY <2>1, <2>2
  <1> QED
    BY <1>9, <1>10, <1>11, <1>12 DEF ExtractionInv

\* Creating a batch at the service
LEMMA SubmitStep ==
  ASSUME ExtractionInv, NEW p \in Proc, UNCHANGED extVars, SubmitBatch(p)
  PROVE  ExtractionInv'
  <1> DEFINE new == [state |-> "in_progress", phase |-> plan[p].phase,
                     episodes |-> plan[p].episodes, answer |-> NoAnswer]
             n == Len(batches) + 1
             a == [plan[p] EXCEPT !.batch = n]
  <1>1. /\ plan[p] \in Plans /\ Len(batches) \in Nat /\ Len(batches) < MaxBatches
        /\ DOMAIN batches = 1..Len(batches)
        /\ UNCHANGED <<runs, extraction, held, todo, calls, wave, direct>>
        /\ pc' = [pc EXCEPT ![p] = "record"] /\ pc[p] = "submit"
    BY UntouchedLocals, RowTypes DEF ExtractionInv, SubmitBatch, extVars, Goto
  <1>2. new \in Batch
    BY <1>1 DEF Batch, Plans, NoAnswer, Answer
  <1>3. a \in Plans /\ a.batch = n /\ a.phase = plan[p].phase /\ a.episodes = plan[p].episodes
    BY <1>1 DEF Plans
  <1>4. /\ batches' = Append(batches, new) /\ plan' = [plan EXCEPT ![p] = a]
        /\ new.phase = plan[p].phase /\ new.episodes = plan[p].episodes
    BY DEF SubmitBatch
  <1> HIDE DEF new, a
  <1>5. /\ batches' \in Seq(Batch) /\ Len(batches') = n /\ DOMAIN batches' = 1..n
        /\ \A i \in DOMAIN batches : batches'[i] = batches[i]
        /\ batches'[n] = new
    BY <1>2, <1>4, AppendRow DEF ExtractionInv, TablesTyped
  <1>6. n \in DOMAIN batches' /\ n \notin DOMAIN batches /\ DOMAIN batches \subseteq DOMAIN batches'
    BY <1>1, <1>5
  <1> HIDE DEF n
  <1>7. RecordsAreKept /\ RunIds' = RunIds
    BY <1>1, <1>5, <1>6 DEF RecordsAreKept, RunIds
  <1>8. TablesTyped' /\ RunsHaveBatches'
    BY <1>1, <1>5, <1>6 DEF ExtractionInv, TablesTyped, RunsHaveBatches, RunIds, BatchOf
  <1>9. LocalsTyped' /\ HeldIsARun' /\ TodoIsAnswered' /\ DraftExists'
    <2>1. "record" \in SubmitterPc
      BY DEF SubmitterPc, CoordinatorPc
    <2>2. a.batch \in DOMAIN batches' /\ batches'[a.batch].phase = a.phase
          /\ batches'[a.batch].episodes = a.episodes
      BY <1>3, <1>4, <1>5, <1>6
    <2>3. PICK h \in Nat : held' = [held EXCEPT ![p] = h]
      <3>1. UNCHANGED held
        BY <1>1
      <3> QED
        BY <3>1, UntouchedUpdates
    <2>4. PICK t \in SUBSET Episode : todo' = [todo EXCEPT ![p] = t]
      <3>1. UNCHANGED todo
        BY <1>1
      <3> QED
        BY <3>1, UntouchedUpdates
    <2>5. /\ plan' = [plan EXCEPT ![p] = a] /\ a \in Plans
          /\ pc' = [pc EXCEPT ![p] = "record"]
      BY <1>1, <1>3, <1>4
    <2> QED
      BY <1>7, <2>1, <2>2, <2>3, <2>4, <2>5, MemoryIsKept
  <1>10. BatchesAreOwned'
    <2>1. Len(batches') <= MaxBatches
      BY <1>1, <1>5, BackfillAssumption DEF n
    <2>2. /\ plan'[p].batch = n
          /\ \A q \in Proc : q # p => pc'[q] = pc[q] /\ plan'[q] = plan[q]
      BY <1>1, <1>3, <1>4 DEF ExtractionInv, LocalsTyped
    <2>3. \A r \in RunIds : runs[r].batch # n
      BY <1>6 DEF ExtractionInv, RunsHaveBatches
    <2>4. \A q \in Proc : pc[q] = "record" => plan[q].batch # n
      BY <1>6 DEF ExtractionInv, DraftExists
    <2>5. \A q \in Proc : pc'[q] = "record" =>
            /\ \A r \in RunIds : runs[r].batch # plan'[q].batch
            /\ \A z \in Proc : pc'[z] = "record" /\ plan'[z].batch = plan'[q].batch => z = q
      BY <2>2, <2>3, <2>4 DEF ExtractionInv, BatchesAreOwned
    <2> QED
      BY <1>1, <1>7, <2>1, <2>5 DEF ExtractionInv, BatchesAreOwned
  <1>11. RowsAreTraced' /\ WavesTyped' /\ DirectsTyped'
    BY <1>1, <1>7, RowsAreKept, OtherCommandsAreKept
  <1> QED
    BY <1>8, <1>9, <1>10, <1>11 DEF ExtractionInv

\* What recording a run does to the rows of ExtractionRun
LEMMA RunIsRecorded ==
  ASSUME ExtractionInv, NEW p \in Proc, pc[p] = "record", NEW row \in Run,
         row.batch = plan[p].batch, row.phase = plan[p].phase,
         runs' = Append(runs, row), UNCHANGED <<batches, extraction, calls>>
  PROVE  /\ RecordsAreKept /\ TablesTyped' /\ RunsHaveBatches'
         /\ RunIds' = RunIds \cup {Len(runs) + 1} /\ Len(runs) + 1 \notin RunIds
         /\ Len(runs) + 1 \in Nat
         /\ runs'[Len(runs) + 1] = row
         /\ \A r \in RunIds : runs'[r] = runs[r]
  <1> DEFINE n == Len(runs) + 1
  <1>1. /\ runs \in Seq(Run) /\ Len(runs) \in Nat /\ n \in Nat
        /\ plan[p].batch \in DOMAIN batches
        /\ batches[plan[p].batch].phase = plan[p].phase
    BY RowTypes DEF ExtractionInv, TablesTyped, DraftExists
  <1>2. /\ runs' \in Seq(Run) /\ DOMAIN runs = 1..Len(runs) /\ DOMAIN runs' = 1..n
        /\ \A r \in DOMAIN runs : runs'[r] = runs[r]
        /\ runs'[n] = row
    BY <1>1, AppendRow
  <1>3. /\ RunIds' = RunIds \cup {n} /\ n \notin RunIds
        /\ \A r \in RunIds : runs'[r] = runs[r]
    BY <1>1, <1>2 DEF RunIds
  <1> HIDE DEF n
  <1>4. RecordsAreKept
    BY <1>3 DEF RecordsAreKept
  <1>5. TablesTyped'
    BY <1>2 DEF ExtractionInv, TablesTyped
  <1>6. RunsHaveBatches'
    <2> SUFFICES ASSUME NEW r \in RunIds'
                 PROVE  /\ runs'[r].batch \in DOMAIN batches
                        /\ batches[runs'[r].batch].phase = runs'[r].phase
      BY DEF RunsHaveBatches, BatchOf
    <2>1. CASE r = n
      BY <1>1, <1>2, <2>1
    <2>2. CASE r \in RunIds
      BY <1>3, <2>2 DEF ExtractionInv, RunsHaveBatches, BatchOf
    <2> QED
      BY <1>3, <2>1, <2>2
  <1> QED
    BY <1>1, <1>2, <1>3, <1>4, <1>5, <1>6 DEF n

\* A run that is recorded by the process that submitted its batch
LEMMA RecordStep ==
  ASSUME ExtractionInv, NEW p \in Proc, pc[p] = "record", NEW row \in Run,
         row.batch = plan[p].batch, row.phase = plan[p].phase,
         runs' = Append(runs, row),
         UNCHANGED <<batches, extraction, calls, direct, todo>>,
         NEW l \in SubmitterPc \ {"record", "sync", "review"},
         NEW h \in Nat, NEW a \in Plans,
         pc' = [pc EXCEPT ![p] = l],
         held' = [held EXCEPT ![p] = h],
         plan' = [plan EXCEPT ![p] = a],
         l = "poll" => h = Len(runs) + 1,
         wave' = wave \/ WavesTyped'
  PROVE  ExtractionInv'
  <1> DEFINE n == Len(runs) + 1
  <1>1. /\ RecordsAreKept /\ TablesTyped' /\ RunsHaveBatches'
        /\ RunIds' = RunIds \cup {n} /\ n \notin RunIds
        /\ runs'[n] = row
        /\ \A r \in RunIds : runs'[r] = runs[r]
    BY RunIsRecorded
  <1>2. LocalsTyped' /\ HeldIsARun' /\ TodoIsAnswered' /\ DraftExists'
    <2>1. PICK t \in SUBSET Episode : todo' = [todo EXCEPT ![p] = t]
      BY UntouchedLocals
    <2>2. l \in {"poll", "sync", "review"} => h \in RunIds'
      BY <1>1
    <2> QED
      BY <1>1, <2>1, <2>2, MemoryIsKept
  <1> HIDE DEF n
  <1>3. BatchesAreOwned'
    <2>1. /\ Len(batches) <= MaxBatches
          /\ \A r, s \in RunIds : runs[r].batch = runs[s].batch => r = s
          /\ \A r \in RunIds : runs[r].batch # row.batch
          /\ \A q \in Proc : pc[q] = "record" =>
               /\ \A r \in RunIds : runs[r].batch # plan[q].batch
               /\ \A z \in Proc : pc[z] = "record" /\ plan[z].batch = plan[q].batch => z = q
      BY DEF ExtractionInv, BatchesAreOwned
    <2>2. /\ pc'[p] # "record"
          /\ \A q \in Proc : q # p => pc'[q] = pc[q] /\ plan'[q] = plan[q]
      BY DEF ExtractionInv, LocalsTyped
    <2>3. ASSUME NEW r \in RunIds'
          PROVE  \/ r \in RunIds /\ runs'[r] = runs[r]
                 \/ r = n /\ runs'[r] = row
      BY <1>1
    <2>4. ASSUME NEW r \in RunIds', NEW s \in RunIds', runs'[r].batch = runs'[s].batch
          PROVE  r = s
      <3>1. CASE r = n /\ s = n
        BY <3>1
      <3>2. CASE r # n /\ s # n
        <4>1. r \in RunIds /\ s \in RunIds /\ runs'[r] = runs[r] /\ runs'[s] = runs[s]
          BY <2>3, <3>2
        <4> QED
          BY <2>1, <2>4, <4>1
      <3>3. CASE r = n /\ s # n
        BY <1>1, <2>1, <2>3, <2>4, <3>3
      <3>4. CASE r # n /\ s = n
        BY <1>1, <2>1, <2>3, <2>4, <3>4
      <3> QED
        BY <3>1, <3>2, <3>3, <3>4
    <2>5. ASSUME NEW q \in Proc, pc'[q] = "record"
          PROVE  /\ \A r \in RunIds' : runs'[r].batch # plan'[q].batch
                 /\ \A z \in Proc : pc'[z] = "record" /\ plan'[z].batch = plan'[q].batch => z = q
      <3>1. q # p /\ pc[q] = "record" /\ plan'[q] = plan[q]
        BY <2>2, <2>5
      <3>2. plan[q].batch # row.batch
        BY <2>1, <3>1
      <3>3. ASSUME NEW r \in RunIds'
            PROVE  runs'[r].batch # plan'[q].batch
        <4>1. CASE r \in RunIds /\ runs'[r] = runs[r]
          BY <2>1, <3>1, <4>1
        <4>2. CASE r = n /\ runs'[r] = row
          BY <3>1, <3>2, <4>2
        <4> QED
          BY <2>3, <4>1, <4>2
      <3>4. \A z \in Proc : pc'[z] = "record" /\ plan'[z].batch = plan'[q].batch => z = q
        BY <2>1, <2>2, <3>1
      <3> QED
        BY <3>3, <3>4
    <2> QED
      BY <2>1, <2>4, <2>5 DEF BatchesAreOwned
  <1>4. RowsAreTraced' /\ WavesTyped' /\ DirectsTyped'
    BY <1>1, RowsAreKept, OtherCommandsAreKept
  <1> QED
    BY <1>1, <1>2, <1>3, <1>4 DEF ExtractionInv

\* ExtractionRun.objects.create of the coordinator
LEMMA RecordRunStep ==
  ASSUME ExtractionInv, NEW c \in Coordinator, UNCHANGED extVars, RecordRun(c)
  PROVE  ExtractionInv'
  <1> DEFINE row == [status |-> "running", label |-> LabelOf[c],
                     phase |-> plan[c].phase, parent |-> plan[c].parent,
                     batch |-> plan[c].batch]
  <1>1. c \in Proc /\ plan[c] \in Plans
    BY SubmittersAreProcs, UntouchedLocals
  <1>2. row \in Run
    BY <1>1, SubmittersAreProcs DEF Run, RunStatus, Plans
  <1>3. row.batch = plan[c].batch /\ row.phase = plan[c].phase /\ runs' = Append(runs, row)
    BY DEF RecordRun
  <1> HIDE DEF row
  <1>4. /\ pc[c] = "record" /\ pc' = [pc EXCEPT ![c] = "poll"]
        /\ UNCHANGED <<batches, extraction, calls, direct, todo, wave>>
        /\ plan' = [plan EXCEPT ![c] = NoPlan]
        /\ "poll" \in SubmitterPc \ {"record", "sync", "review"}
    BY DEF RecordRun, extVars, Goto, SubmitterPc, CoordinatorPc
  <1>5. PICK h \in Nat : h = Len(runs) + 1 /\ held' = [held EXCEPT ![c] = h]
    <2>1. Len(runs) + 1 \in Nat
      BY RowTypes DEF ExtractionInv
    <2>2. held' = [held EXCEPT ![c] = Len(runs) + 1]
      BY DEF RecordRun, Hold
    <2> QED
      BY <2>1, <2>2
  <1> QED
    BY <1>1, <1>2, <1>3, <1>4, <1>5, UntouchedLocals, RecordStep

\* ExtractionRun.objects.create of a submitting command
LEMMA RecordChunkStep ==
  ASSUME ExtractionInv, NEW w \in Submitter, RecordChunk(w)
  PROVE  ExtractionInv'
  <1> DEFINE row == SubmittedRun(w)
  <1>1. w \in Proc /\ plan[w] \in Plans /\ plan[w].phase \in Phase
    BY WaveFields, UntouchedLocals DEF Plans
  <1>2. row \in Run
    BY <1>1, SubmittersAreProcs, WaveFields DEF Run, RunStatus, Plans, SubmittedRun, NoRun
  <1>3. row.batch = plan[w].batch /\ row.phase = plan[w].phase /\ runs' = Append(runs, row)
    BY DEF RecordChunk, SubmittedRun
  <1> HIDE DEF row
  <1>4. /\ pc[w] = "record"
        /\ UNCHANGED <<batches, extraction, calls, direct, todo, held>>
    BY DEF RecordChunk, Kept
  <1>5. PICK h \in Nat : held' = [held EXCEPT ![w] = h]
    BY <1>1, <1>4, UntouchedLocals
  <1>6. \E a \in Plans, l \in {"submit", "down", "list"}, v \in WaveRow :
          /\ pc' = [pc EXCEPT ![w] = l]
          /\ plan' = [plan EXCEPT ![w] = a]
          /\ wave' = [wave EXCEPT ![w] = v] /\ v.active \subseteq RunIds
    <2>1. CASE wave[w].chunks # <<>> /\ PlanChunks(w, wave[w].chunks, plan[w].phase)
      BY <1>1, <2>1, WaveFields, PlanChunksStep
    <2>2. CASE /\ EndSubmitter(w) \/ (Goto(w, "list") /\ UNCHANGED wave)
               /\ plan' = [plan EXCEPT ![w] = NoPlan]
      <3>1. NoPlan \in Plans
        BY <1>1, UntouchedLocals
      <3>2. CASE EndSubmitter(w)
        BY <2>2, <3>1, <3>2, NoWaveIsTyped DEF EndSubmitter, Goto
      <3>3. CASE Goto(w, "list") /\ UNCHANGED wave
        BY <2>2, <3>1, <3>3, WaveFields DEF Goto
      <3> QED
        BY <2>2, <3>2, <3>3
    <2> QED
      BY <2>1, <2>2 DEF RecordChunk
  <1>7. PICK a \in Plans, l \in {"submit", "down", "list"}, v \in WaveRow :
          /\ pc' = [pc EXCEPT ![w] = l]
          /\ plan' = [plan EXCEPT ![w] = a]
          /\ wave' = [wave EXCEPT ![w] = v] /\ v.active \subseteq RunIds
    BY <1>6
  <1>8. l \in SubmitterPc \ {"record", "poll", "sync", "review"}
    BY SubmitterLabels
  <1>9. WavesTyped'
    <2>1. RunIds \subseteq RunIds'
      BY <1>1, <1>2, <1>3, <1>4, RunIsRecorded
    <2>2. wave \in [Submitter -> WaveRow] /\ \A u \in Submitter : wave[u].active \subseteq RunIds
      BY DEF ExtractionInv, WavesTyped
    <2>3. wave' \in [Submitter -> WaveRow] /\ \A u \in Submitter : wave'[u].active \subseteq RunIds
      BY <1>7, <2>2
    <2> QED
      BY <2>1, <2>3 DEF WavesTyped
  <1> QED
    BY <1>1, <1>2, <1>3, <1>4, <1>5, <1>7, <1>8, <1>9, RecordStep

----------------------------------------------------------------------------
(* Steps of the service and of the direct commands *)

\* The service ends the batch of a run
LEMMA ServiceStepKeeps ==
  ASSUME ExtractionInv, NEW b \in RunIds, UNCHANGED extVars, ServiceStep(runs[b].batch)
  PROVE  ExtractionInv'
  <1> DEFINE i == runs[b].batch
  <1>1. /\ i \in DOMAIN batches /\ batches[i] \in Batch /\ batches[i].state = "in_progress"
        /\ UNCHANGED <<runs, extraction, pc, held, plan, todo, calls, wave, direct>>
    BY RowTypes
    DEF ExtractionInv, RunsHaveBatches, ServiceStep, BatchCompletes, BatchFails, locals, extVars
  <1>2. PICK row \in Batch : /\ batches' = [batches EXCEPT ![i] = row]
                             /\ row.phase = batches[i].phase
                             /\ row.episodes = batches[i].episodes
    <2>1. CASE BatchCompletes(i)
      <3>1. PICK f \in [Episode -> Answer] :
              batches' = [batches EXCEPT ![i].state = "completed", ![i].answer = f]
        BY <2>1 DEF BatchCompletes, AnswersOf
      <3> DEFINE row == [batches[i] EXCEPT !.state = "completed", !.answer = f]
      <3>2. /\ row \in Batch /\ row.phase = batches[i].phase
            /\ row.episodes = batches[i].episodes
        BY <1>1 DEF Batch
      <3>3. batches' = [batches EXCEPT ![i] = row]
        BY <1>1, <3>1 DEF Batch, ExtractionInv, TablesTyped
      <3> HIDE DEF row
      <3> QED
        BY <3>2, <3>3
    <2>2. CASE BatchFails(i)
      <3> DEFINE row == [batches[i] EXCEPT !.state = "failed"]
      <3>1. /\ row \in Batch /\ row.phase = batches[i].phase
            /\ row.episodes = batches[i].episodes
        BY <1>1 DEF Batch
      <3>2. batches' = [batches EXCEPT ![i] = row]
        BY <2>2 DEF BatchFails
      <3> HIDE DEF row
      <3> QED
        BY <3>1, <3>2
    <2> QED
      BY <2>1, <2>2 DEF ServiceStep
  <1> HIDE DEF i
  <1>3. /\ batches' \in Seq(Batch) /\ DOMAIN batches' = DOMAIN batches /\ batches'[i] = row
        /\ \A j \in DOMAIN batches : j # i => batches'[j] = batches[j]
    BY <1>1, <1>2, UpdateRow DEF ExtractionInv, TablesTyped
  <1>4. /\ RunIds' = RunIds /\ Len(batches') = Len(batches)
        /\ \A j \in DOMAIN batches : /\ batches'[j].phase = batches[j].phase
                                     /\ batches'[j].episodes = batches[j].episodes
                                     /\ batches[j].state = "completed" => batches'[j] = batches[j]
    <2>1. batches \in Seq(Batch)
      BY DEF ExtractionInv, TablesTyped
    <2>2. Len(batches') = Len(batches)
      BY <1>3, <2>1, LenProperties
    <2>3. RunIds' = RunIds
      BY <1>1 DEF RunIds
    <2> QED
      BY <1>1, <1>2, <1>3, <2>2, <2>3
  <1>5. RecordsAreKept
    BY <1>1, <1>3, <1>4 DEF RecordsAreKept
  <1>6. TablesTyped' /\ RunsHaveBatches'
    BY <1>1, <1>3, <1>4 DEF ExtractionInv, TablesTyped, RunsHaveBatches, BatchOf
  <1>7. LocalsTyped' /\ HeldIsARun' /\ TodoIsAnswered' /\ DraftExists'
    BY <1>1, <1>5, MemoryIsUnchanged
  <1>8. BatchesAreOwned' /\ RowsAreTraced' /\ WavesTyped' /\ DirectsTyped'
    BY <1>1, <1>4, <1>5, OwnersAreKept, RowsAreKept, OtherCommandsAreKept
  <1> QED
    BY <1>6, <1>7, <1>8 DEF ExtractionInv

\* A step that leaves the processes of the Batch API and their tables alone
LEMMA DirectFrame ==
  ASSUME ExtractionInv, Elsewhere, RecordsAreKept, calls' \in Seq(Call),
         extraction' \in [Phase -> [Episode -> Row]],
         RowsAreTraced', DirectsTyped'
  PROVE  ExtractionInv'
  <1>1. UNCHANGED <<batches, runs, pc, held, plan, todo, wave>> /\ RunIds' = RunIds
    BY DEF Elsewhere, locals, RunIds
  <1>2. TablesTyped' /\ RunsHaveBatches'
    BY <1>1 DEF ExtractionInv, TablesTyped, RunsHaveBatches, BatchOf
  <1>3. LocalsTyped' /\ HeldIsARun' /\ TodoIsAnswered' /\ DraftExists'
    BY <1>1, MemoryIsUnchanged
  <1>4. BatchesAreOwned' /\ WavesTyped'
    BY <1>1, OwnersAreKept, OtherCommandsAreKept
  <1> QED
    BY <1>2, <1>3, <1>4 DEF ExtractionInv

\* What a direct command keeps in memory after it moved on
LEMMA DirectMoves ==
  ASSUME ExtractionInv, NEW d \in Direct, NEW v \in DirectRow,
         direct' = [direct EXCEPT ![d] = v],
         DOMAIN calls \subseteq DOMAIN calls',
         v.at \in {"run", "review"} => v.run \in DOMAIN calls'
  PROVE  DirectsTyped'
  <1>1. /\ direct \in [Direct -> DirectRow]
        /\ \A c \in Direct : direct[c].at \in {"run", "review"} => direct[c].run \in DOMAIN calls
    BY DEF ExtractionInv, DirectsTyped
  <1>2. direct' \in [Direct -> DirectRow]
    BY <1>1
  <1>3. \A c \in Direct : direct'[c].at \in {"run", "review"} => direct'[c].run \in DOMAIN calls'
    BY <1>1
  <1> QED
    BY <1>2, <1>3 DEF DirectsTyped

\* A direct command that moves on without a call
LEMMA DirectLocalStep ==
  ASSUME ExtractionInv, Elsewhere, UNCHANGED <<extraction, calls>>,
         NEW d \in Direct, NEW v \in DirectRow,
         direct' = [direct EXCEPT ![d] = v],
         v.at \in {"run", "review"} => v.run \in DOMAIN calls
  PROVE  ExtractionInv'
  <1>1. RecordsAreKept
    BY UnchangedIsKept DEF Elsewhere
  <1>2. RowsAreTraced' /\ DirectsTyped'
    BY <1>1, RowsAreKept, DirectMoves
  <1>3. calls' \in Seq(Call) /\ extraction' \in [Phase -> [Episode -> Row]]
    BY DEF ExtractionInv, TablesTyped
  <1> QED
    BY <1>1, <1>2, <1>3, DirectFrame

\* A row of a direct command, field by field
LEMMA DirectFields ==
  ASSUME ExtractionInv, NEW d \in Direct
  PROVE  /\ direct[d] \in DirectRow
         /\ direct[d].batch \in Nat /\ direct[d].starts \in Nat
         /\ direct[d].at \in {"run", "review"} =>
              direct[d].run \in DOMAIN calls /\ calls[direct[d].run] \in Call
         /\ NoDirect \in DirectRow /\ [NoDirect EXCEPT !.starts = direct[d].starts] \in DirectRow
         /\ [NoDirect EXCEPT !.starts = direct[d].starts].at = "ended"
  <1>1. /\ direct[d] \in DirectRow /\ NoDirect \in DirectRow
        /\ direct[d].batch \in Nat /\ direct[d].starts \in Nat
    BY DEF ExtractionInv, DirectsTyped, DirectRow, NoDirect
  <1>2. /\ [NoDirect EXCEPT !.starts = direct[d].starts] \in DirectRow
        /\ [NoDirect EXCEPT !.starts = direct[d].starts].at = "ended"
    BY <1>1 DEF DirectRow, NoDirect
  <1>3. direct[d].at \in {"run", "review"} =>
          direct[d].run \in DOMAIN calls /\ calls[direct[d].run] \in Call
    BY RowTypes DEF ExtractionInv, DirectsTyped
  <1> QED
    BY <1>1, <1>2, <1>3

\* A direct command that ends
LEMMA EndDirectStep ==
  ASSUME ExtractionInv, Elsewhere, UNCHANGED <<extraction, calls>>,
         NEW d \in Direct, EndDirect(d)
  PROVE  ExtractionInv'
  <1> DEFINE v == [NoDirect EXCEPT !.starts = direct[d].starts]
  <1>1. v \in DirectRow /\ v.at = "ended" /\ direct' = [direct EXCEPT ![d] = v]
    BY DirectFields DEF EndDirect
  <1> HIDE DEF v
  <1> QED
    BY <1>1, DirectLocalStep

\* Starting a direct command
LEMMA StartDirectStep ==
  ASSUME ExtractionInv, NEW d \in Direct, NEW command \in {"extract", "backfill"},
         NEW force \in BOOLEAN, StartDirect(d, command, force)
  PROVE  ExtractionInv'
  <1> DEFINE v == [NoDirect EXCEPT !.at = "select", !.command = command,
                                   !.force = force, !.starts = direct[d].starts + 1]
  <1>1. v \in DirectRow /\ v.at = "select"
    <2>1. direct[d].starts \in Nat
      BY DirectFields
    <2>2. direct[d].starts + 1 \in Nat
      BY <2>1
    <2> QED
      BY <2>2 DEF DirectRow, NoDirect
  <1>2. /\ direct' = [direct EXCEPT ![d] = v]
        /\ Elsewhere /\ UNCHANGED <<extraction, calls>>
    BY DEF StartDirect
  <1> HIDE DEF v
  <1> QED
    BY <1>1, <1>2, DirectLocalStep

\* Opening a direct run
LEMMA OpenDirectRunStep ==
  ASSUME ExtractionInv, NEW d \in Direct, NEW phase \in Phase,
         NEW episodes \in SUBSET Episode, OpenDirectRun(d, phase, episodes)
  PROVE  ExtractionInv'
  <1> DEFINE row == [status |-> "running", phase |-> phase,
                     episodes |-> episodes, outcome |-> NoAnswer]
             n == Len(calls) + 1
             b == IF phase = "first_pass" THEN direct[d].batch + 1 ELSE direct[d].batch
             v == [direct[d] EXCEPT !.at = "run", !.run = n, !.checked = {}, !.batch = b]
  <1>1. row \in Call
    BY DEF Call, RunStatus, NoAnswer, Outcome, Answer
  <1>2. calls' = Append(calls, row) /\ Elsewhere /\ UNCHANGED extraction
    BY DEF OpenDirectRun
  <1>3. calls \in Seq(Call) /\ Len(calls) \in Nat /\ n \in Nat
    BY RowTypes DEF ExtractionInv, TablesTyped
  <1>4. v \in DirectRow /\ v.run = n
    <2>1. direct[d] \in DirectRow /\ direct[d].batch \in Nat
      BY DirectFields
    <2>2. b \in Nat
      BY <2>1
    <2> HIDE DEF b, n
    <2> QED
      BY <1>3, <2>1, <2>2 DEF DirectRow
  <1>5. direct' = [direct EXCEPT ![d] = v]
    BY DirectFields DEF OpenDirectRun, DirectRow, ExtractionInv, DirectsTyped
  <1> HIDE DEF row, v, b
  <1>6. /\ calls' \in Seq(Call) /\ DOMAIN calls = 1..Len(calls) /\ DOMAIN calls' = 1..n
        /\ \A i \in DOMAIN calls : calls'[i] = calls[i]
    BY <1>1, <1>2, <1>3, AppendRow
  <1>7. n \in DOMAIN calls' /\ DOMAIN calls \subseteq DOMAIN calls'
    BY <1>3, <1>6
  <1> HIDE DEF n
  <1>8. RecordsAreKept
    BY <1>2, <1>6, <1>7 DEF RecordsAreKept, Elsewhere, RunIds
  <1>9. RowsAreTraced' /\ DirectsTyped'
    BY <1>2, <1>4, <1>5, <1>7, <1>8, RowsAreKept, DirectMoves
  <1> QED
    BY <1>2, <1>6, <1>8, <1>9, DirectFrame DEF ExtractionInv, TablesTyped

\* Selecting the episodes of a direct run
LEMMA SelectDirectStep ==
  ASSUME ExtractionInv, NEW d \in Direct, SelectDirect(d) \/ SelectDirectReview(d)
  PROVE  ExtractionInv'
  <1>1. ASSUME NEW v \in DirectRow, Elsewhere, UNCHANGED <<extraction, calls>>,
               direct' = [direct EXCEPT ![d] = v], v.at = "select"
        PROVE  ExtractionInv'
    BY <1>1, DirectLocalStep
  <1>2. CASE SelectDirect(d)
    <2>1. DirectSelection(d) \in SUBSET Episode
      BY SelectionsAreEpisodes DEF DirectSelection, Newest
    <2>2. CASE OpenDirectRun(d, "first_pass", DirectSelection(d))
      BY <2>1, <2>2, OpenDirectRunStep DEF Phase
    <2>3. CASE EndDirect(d) /\ Elsewhere /\ UNCHANGED <<extraction, calls>>
      BY <2>3, EndDirectStep
    <2> QED
      BY <1>2, <2>2, <2>3 DEF SelectDirect
  <1>3. CASE SelectDirectReview(d)
    <2> DEFINE review == SelectSecondPassReviewEpisodes(DirectId(direct[d].run))
    <2>1. review \in SUBSET Episode
      BY SelectionsAreEpisodes
    <2> HIDE DEF review
    <2>2. CASE OpenDirectRun(d, "second_pass", review)
      BY <2>1, <2>2, OpenDirectRunStep DEF Phase
    <2>3. CASE NextBatch(d) /\ Elsewhere /\ UNCHANGED <<extraction, calls>>
      <3>1. CASE EndDirect(d)
        BY <2>3, <3>1, EndDirectStep
      <3>2. CASE direct' = [direct EXCEPT ![d].at = "select"]
        <4> DEFINE v == [direct[d] EXCEPT !.at = "select"]
        <4>1. v \in DirectRow /\ v.at = "select" /\ direct' = [direct EXCEPT ![d] = v]
          BY <3>2, DirectFields DEF DirectRow
        <4> HIDE DEF v
        <4> QED
          BY <1>1, <2>3, <4>1
      <3> QED
        BY <2>3, <3>1, <3>2 DEF NextBatch
    <2> QED
      BY <1>3, <2>2, <2>3 DEF SelectDirectReview, review
  <1> QED
    BY <1>2, <1>3

\* What changing a row does to the direct runs
LEMMA CallChanges ==
  ASSUME ExtractionInv, Elsewhere, NEW i \in DOMAIN calls, NEW row \in Call,
         calls' = [calls EXCEPT ![i] = row], row.phase = calls[i].phase,
         \A e \in Episode : calls[i].outcome[e] # "none" =>
                              row.outcome[e] = calls[i].outcome[e]
  PROVE  /\ calls' \in Seq(Call) /\ DOMAIN calls' = DOMAIN calls
         /\ calls'[i] = row /\ RecordsAreKept
  <1>1. /\ calls' \in Seq(Call) /\ DOMAIN calls' = DOMAIN calls /\ calls'[i] = row
        /\ \A j \in DOMAIN calls : j # i => calls'[j] = calls[j]
    BY UpdateRow DEF ExtractionInv, TablesTyped
  <1>2. UNCHANGED <<batches, runs>>
    BY DEF Elsewhere
  <1> QED
    BY <1>1, <1>2 DEF RecordsAreKept, RunIds

\* A step that changes the row of a direct run and no extraction
LEMMA CallStep ==
  ASSUME ExtractionInv, Elsewhere, UNCHANGED extraction, NEW i \in DOMAIN calls,
         NEW row \in Call, calls' = [calls EXCEPT ![i] = row],
         row.phase = calls[i].phase,
         \A e \in Episode : calls[i].outcome[e] # "none" =>
                              row.outcome[e] = calls[i].outcome[e],
         NEW d \in Direct, NEW v \in DirectRow,
         direct' = [direct EXCEPT ![d] = v],
         v.at \in {"run", "review"} => v.run \in DOMAIN calls
  PROVE  ExtractionInv'
  <1>1. calls' \in Seq(Call) /\ DOMAIN calls' = DOMAIN calls /\ RecordsAreKept
    BY CallChanges
  <1>2. RowsAreTraced' /\ DirectsTyped'
    BY <1>1, RowsAreKept, DirectMoves
  <1> QED
    BY <1>1, <1>2, DirectFrame DEF ExtractionInv, TablesTyped

\* already_extracted, and the end of a direct run
LEMMA CheckOrFinalizeStep ==
  ASSUME ExtractionInv, NEW d \in Direct,
         FinalizeDirect(d) \/ \E e \in Episode : CheckEpisode(d, e)
  PROVE  ExtractionInv'
  <1> DEFINE i == direct[d].run
  <1>1. /\ direct[d] \in DirectRow /\ i \in DOMAIN calls /\ calls[i] \in Call
        /\ Elsewhere /\ UNCHANGED extraction
    BY DirectFields DEF FinalizeDirect, CheckEpisode
  <1>2. CASE FinalizeDirect(d)
    <2> DEFINE status == DirectStatus({calls[i].outcome[e] : e \in calls[i].episodes})
               row == [calls[i] EXCEPT !.status = status]
    <2>1. status \in RunStatus
      BY DEF DirectStatus, RunStatus
    <2> HIDE DEF status
    <2>2. row \in Call /\ row.phase = calls[i].phase /\ row.outcome = calls[i].outcome
      BY <1>1, <2>1 DEF Call
    <2>3. calls' = [calls EXCEPT ![i] = row]
      BY <1>2 DEF FinalizeDirect, status
    <2>4. \E v \in DirectRow : /\ direct' = [direct EXCEPT ![d] = v]
                               /\ v.at \in {"run", "review"} => v.run \in DOMAIN calls
      <3>1. ASSUME NEW l \in {"select", "review"}, direct' = [direct EXCEPT ![d].at = l]
            PROVE  \E v \in DirectRow :
                     /\ direct' = [direct EXCEPT ![d] = v]
                     /\ v.at \in {"run", "review"} => v.run \in DOMAIN calls
        <4> DEFINE v == [direct[d] EXCEPT !.at = l]
        <4>1. v \in DirectRow /\ v.run = i
          BY <1>1 DEF DirectRow
        <4>2. direct' = [direct EXCEPT ![d] = v]
          BY <3>1
        <4> HIDE DEF v
        <4> QED
          BY <1>1, <4>1, <4>2
      <3>2. CASE EndDirect(d)
        BY <3>2, DirectFields DEF EndDirect
      <3>3. CASE direct' = [direct EXCEPT ![d].at = "select"]
        BY <3>1, <3>3
      <3>4. CASE direct' = [direct EXCEPT ![d].at = "review"]
        BY <3>1, <3>4
      <3> QED
        BY <1>2, <3>2, <3>3, <3>4 DEF FinalizeDirect, NextBatch
    <2> HIDE DEF row, i
    <2> QED
      BY <1>1, <2>2, <2>3, <2>4, CallStep
  <1>3. ASSUME NEW e \in Episode, CheckEpisode(d, e)
        PROVE  ExtractionInv'
    <2>1. calls[i].outcome[e] = "none"
      BY <1>3 DEF CheckEpisode, Waiting
    <2>2. CASE calls' = [calls EXCEPT ![i].outcome[e] = "skipped"] /\ UNCHANGED direct
      <3> DEFINE row == [calls[i] EXCEPT !.outcome[e] = "skipped"]
      <3>1. /\ row \in Call /\ row.phase = calls[i].phase
            /\ \A f \in Episode : f # e => row.outcome[f] = calls[i].outcome[f]
        BY <1>1 DEF Call, Outcome
      <3>2. calls' = [calls EXCEPT ![i] = row]
        BY <2>2
      <3>3. direct' = [direct EXCEPT ![d] = direct[d]]
        BY <2>2 DEF ExtractionInv, DirectsTyped
      <3>4. direct[d].run \in DOMAIN calls
        BY <1>1
      <3> HIDE DEF row, i
      <3>5. \A f \in Episode : calls[i].outcome[f] # "none" =>
                                 row.outcome[f] = calls[i].outcome[f]
        BY <2>1, <3>1
      <3> QED
        BY <1>1, <3>1, <3>2, <3>3, <3>4, <3>5, CallStep
    <2>3. CASE direct' = [direct EXCEPT ![d].checked = @ \cup {e}] /\ UNCHANGED calls
      <3> DEFINE v == [direct[d] EXCEPT !.checked = @ \cup {e}]
      <3>1. v \in DirectRow /\ v.run = i
        BY <1>1 DEF DirectRow
      <3>2. direct' = [direct EXCEPT ![d] = v]
        BY <2>3
      <3> HIDE DEF v
      <3> QED
        BY <1>1, <2>3, <3>1, <3>2, DirectLocalStep
    <2> QED
      BY <1>3, <2>2, <2>3 DEF CheckEpisode
  <1> QED
    BY <1>2, <1>3

\* A call of the model, and the row it leaves
LEMMA CallModelStep ==
  ASSUME ExtractionInv, NEW d \in Direct, NEW e \in Episode, CallModel(d, e)
  PROVE  ExtractionInv'
  <1> DEFINE i == direct[d].run
             m == calls[i].phase
  <1>1. /\ direct[d] \in DirectRow /\ i \in DOMAIN calls /\ calls[i] \in Call
        /\ m \in Phase /\ calls[i].outcome[e] = "none"
        /\ Elsewhere /\ UNCHANGED direct
    BY DirectFields DEF CallModel, Waiting, Call
  <1>2. PICK answer \in Answer :
          /\ calls' = [calls EXCEPT ![i].outcome[e] = answer]
          /\ extraction' = [extraction EXCEPT ![m][e] = Persist(@, DirectId(i), answer)]
    BY DEF CallModel
  <1> DEFINE row == [calls[i] EXCEPT !.outcome[e] = answer]
  <1>3. /\ row \in Call /\ row.phase = m /\ row.outcome[e] = answer
        /\ \A f \in Episode : f # e => row.outcome[f] = calls[i].outcome[f]
    BY <1>1 DEF Call, Outcome
  <1>4. calls' = [calls EXCEPT ![i] = row]
    BY <1>2
  <1> HIDE DEF row, i
  <1>5. /\ calls' \in Seq(Call) /\ DOMAIN calls' = DOMAIN calls
        /\ calls'[i] = row /\ RecordsAreKept
    <2>1. i \in DOMAIN calls /\ row \in Call /\ row.phase = calls[i].phase /\ Elsewhere
      BY <1>1, <1>3
    <2>2. \A f \in Episode : calls[i].outcome[f] # "none" =>
                              row.outcome[f] = calls[i].outcome[f]
      BY <1>1, <1>3
    <2> HIDE DEF m
    <2> QED
      BY <1>4, <2>1, <2>2, CallChanges
  <1>6. DirectId(i) \in Nat
    BY <1>1, RowTypes, BackfillAssumption DEF DirectId, ExtractionInv
  <1>7. extraction \in [Phase -> [Episode -> Row]]
    BY DEF ExtractionInv, TablesTyped
  <1> DEFINE new == Persist(extraction[m][e], DirectId(i), answer)
  <1>8. /\ new \in Row
        /\ new.status = "succeeded" <=> answer \in Parsed
        /\ answer \in Parsed => new.run = DirectId(i) /\ new.answer = answer
    BY <1>1, <1>6, <1>7, PersistedRow
  <1>9. /\ extraction' \in [Phase -> [Episode -> Row]]
        /\ extraction'[m][e] = new
        /\ \A n \in Phase, f \in Episode :
             n # m \/ f # e => extraction'[n][f] = extraction[n][f]
    <2>1. extraction' = [extraction EXCEPT ![m][e] = new]
      BY <1>2
    <2> HIDE DEF new, m
    <2> QED
      BY <1>1, <1>7, <1>8, <2>1
  <1> HIDE DEF new
  <1>10. RowsAreTraced'
    <2> SUFFICES ASSUME NEW n \in Phase, NEW f \in Episode, (Succeeded(n, f))'
                 PROVE  /\ extraction'[n][f].answer \in Parsed
                        /\ \/ FromBatch(n, f, extraction[n][f])'
                           \/ FromCall(n, f, extraction[n][f])'
      BY DEF RowsAreTraced
    <2>1. CASE n # m \/ f # e
      BY <1>5, <1>9, <2>1, TraceIsKept DEF Succeeded
    <2>2. CASE n = m /\ f = e
      <3>1. answer \in Parsed /\ new.run = DirectId(i) /\ new.answer = answer
        BY <1>8, <1>9, <2>2 DEF Succeeded
      <3>2. FromCall(n, f, extraction[n][f])'
        BY <1>1, <1>3, <1>5, <1>9, <2>2, <3>1 DEF FromCall, DirectId
      <3> QED
        BY <1>9, <2>2, <3>1, <3>2
    <2> QED
      BY <2>1, <2>2
  <1>11. DirectsTyped'
    BY <1>1, <1>5, OtherCommandsAreKept
  <1> QED
    BY <1>1, <1>5, <1>9, <1>10, <1>11, DirectFrame

----------------------------------------------------------------------------
(* The theorems *)

\* The tables start empty, and no command runs
LEMMA InitExtractionInv == ExtractionInit => ExtractionInv
  <1> SUFFICES ASSUME ExtractionInit PROVE ExtractionInv
    OBVIOUS
  <1> USE DEF ExtractionInit, Init
  <1>1. /\ batches \in Seq(Batch) /\ runs \in Seq(Run) /\ calls \in Seq(Call)
        /\ RunIds = {} /\ Len(batches) = 0
    BY EmptySeq DEF RunIds
  <1>2. extraction \in [Phase -> [Episode -> Row]]
    BY DEF Row, Answer, NoRun
  <1>3. \A m \in Phase, e \in Episode : ~Succeeded(m, e)
    BY DEF Succeeded
  <1>4. LocalsTyped
    <2>1. NoPlan \in Plans /\ "down" \in SubmitterPc /\ NoRun \in Nat
      BY DEF NoPlan, NoRun, Phase, Plans, SubmitterPc, CoordinatorPc, Ended
    <2> QED
      BY <2>1 DEF LocalsTyped
  <1>5. WavesTyped
    BY NoWaveIsTyped DEF WavesTyped
  <1>6. DirectsTyped
    BY DEF DirectsTyped, DirectRow, NoDirect
  <1>7. RunsHaveBatches /\ HeldIsARun /\ TodoIsAnswered /\ DraftExists
    BY <1>1 DEF RunsHaveBatches, HeldIsARun, TodoIsAnswered, DraftExists
  <1>8. BatchesAreOwned
    BY <1>1, BackfillAssumption DEF BatchesAreOwned
  <1>9. RowsAreTraced
    BY <1>3 DEF RowsAreTraced
  <1> QED
    BY <1>1, <1>2, <1>4, <1>5, <1>6, <1>7, <1>8, <1>9 DEF ExtractionInv, TablesTyped

\* A process, whatever it is, that is killed
LEMMA KilledStep ==
  ASSUME ExtractionInv, Killed
  PROVE  ExtractionInv'
  <1>1. CASE \E p \in Proc : /\ Crash(p)
                             /\ wave' = [w \in Submitter |-> IF w = p THEN NoWave ELSE wave[w]]
                             /\ UNCHANGED <<calls, direct>>
    <2>1. PICK p \in Proc :
            /\ Crash(p)
            /\ wave' = [w \in Submitter |-> IF w = p THEN NoWave ELSE wave[w]]
      BY <1>1
    <2>2. UNCHANGED <<batches, runs, calls, direct>> /\ RunIds' = RunIds
      BY <1>1, <2>1 DEF Crash, tables, RunIds
    <2>3. WavesTyped'
      BY <2>1, <2>2, NoWaveIsTyped DEF ExtractionInv, WavesTyped
    <2>4. DirectsTyped'
      BY <2>2, UnchangedIsKept, OtherCommandsAreKept
    <2> QED
      BY <2>1, <2>2, <2>3, <2>4, ControlStep
  <1>2. CASE \E d \in Direct : /\ EndDirect(d)
                               /\ UNCHANGED <<extraction, calls>> /\ Elsewhere
    BY <1>2, EndDirectStep
  <1> QED
    BY <1>1, <1>2 DEF Killed

\* A step of a coordinator
LEMMA CoordinatorKeeps ==
  ASSUME ExtractionInv, NEW c \in Coordinator, UNCHANGED extVars, Start(c) \/ Advance(c)
  PROVE  ExtractionInv'
  <1>1. c \in Proc
    BY SubmittersAreProcs
  <1>2. CASE Start(c) \/ FinishBatches(c) \/ PollWithoutOutput(c)
    <2>1. UNCHANGED <<batches, runs, calls, wave, direct>>
      BY <1>2 DEF Start, FinishBatches, PollWithoutOutput, tables, extVars
    <2>2. WavesTyped' /\ DirectsTyped'
      BY <2>1, UnchangedIsKept, OtherCommandsAreKept
    <2> QED
      BY <1>1, <1>2, <2>1, <2>2, ControlStep
  <1>3. CASE GetOrSubmitFirstPass(c)
    BY <1>1, <1>3, SelectionsAreEpisodes, GetOrSubmitStep DEF GetOrSubmitFirstPass, Phase, NoRun
  <1>4. CASE GetOrSubmitSecondPass(c)
    BY <1>1, <1>4, UntouchedLocals, SelectionsAreEpisodes, GetOrSubmitStep
    DEF GetOrSubmitSecondPass, Phase
  <1>5. CASE PollCompleted(c)
    <2>1. /\ UNCHANGED <<batches, runs, extraction, calls, plan, wave, direct, held>>
          /\ pc' = [pc EXCEPT ![c] = "sync"]
          /\ held[c] \in RunIds
          /\ BatchOf(held[c]).state = "completed"
          /\ todo' = [todo EXCEPT ![c] = Answered(BatchOf(held[c]))]
      BY <1>1, <1>5
      DEF PollCompleted, tables, extVars, Goto, HeldBatch, ExtractionInv, HeldIsARun
    <2>2. WavesTyped' /\ DirectsTyped'
      BY <2>1, UnchangedIsKept, OtherCommandsAreKept
    <2>3. PICK r \in RunIds : r = held[c] /\ held' = [held EXCEPT ![c] = r]
      BY <1>1, <2>1, UntouchedLocals
    <2> QED
      BY <1>1, <2>1, <2>2, <2>3, TakeOutputStep
  <1>6. CASE SubmitBatch(c) \/ SyncOutputRecord(c)
    BY <1>1, <1>6, SubmitStep, SyncStep
  <1>7. CASE RecordRun(c)
    BY <1>7, RecordRunStep
  <1>8. CASE PollFailed(c) \/ FinishFirstPass(c) \/ FinishSecondPass(c)
    BY <1>1, <1>8, EndRunStep
  <1> QED
    BY <1>2, <1>3, <1>4, <1>5, <1>6, <1>7, <1>8 DEF Advance

\* A step of an operator
LEMMA OperatorKeeps ==
  ASSUME ExtractionInv, NEW o \in Operator, OperatorOnly(o)
  PROVE  ExtractionInv'
  <1>1. o \in Proc /\ UNCHANGED extVars
    BY SubmittersAreProcs DEF OperatorOnly
  <1>2. CASE OperatorSync(o)
    <2>1. PICK r \in RunIds : /\ BatchOf(r).state = "completed"
                              /\ held' = [held EXCEPT ![o] = r]
                              /\ todo' = [todo EXCEPT ![o] = Answered(BatchOf(r))]
      BY <1>2 DEF OperatorSync, Hold
    <2>2. /\ UNCHANGED <<batches, runs, extraction, calls, plan, wave, direct>>
          /\ pc' = [pc EXCEPT ![o] = "sync"]
      BY <1>1, <1>2 DEF OperatorSync, tables, extVars, Goto
    <2>3. WavesTyped' /\ DirectsTyped'
      BY <2>2, UnchangedIsKept, OtherCommandsAreKept
    <2> QED
      BY <1>1, <2>1, <2>2, <2>3, TakeOutputStep
  <1>3. CASE OperatorMarkDuplicate(o) \/ OperatorMarkFailed(o)
    BY <1>1, <1>3, MarkStep
  <1>4. CASE SyncOutputRecord(o)
    BY <1>1, <1>4, SyncStep
  <1>5. CASE OperatorFinish(o)
    BY <1>1, <1>5, EndRunStep
  <1> QED
    BY <1>2, <1>3, <1>4, <1>5 DEF OperatorOnly

\* A step of a submitting command
LEMMA SubmitterKeeps ==
  ASSUME ExtractionInv, NEW w \in Submitter, SubmitterStep(w)
  PROVE  ExtractionInv'
  <1>1. w \in Proc
    BY SubmittersAreProcs
  <1>2. CASE \E kind \in Kind : StartSubmitter(w, kind)
    BY <1>2, StartSubmitterStep
  <1>3. CASE ListActiveRuns(w) \/ EndOfRound(w) \/ CountRemaining(w)
    BY <1>3, RoundStep
  <1>4. CASE CheckRun(w)
    BY <1>4, CheckRunStep
  <1>5. CASE SyncOutputRecord(w) /\ UNCHANGED extVars
    BY <1>1, <1>5, SyncStep
  <1>6. CASE SubmitterFinishes(w)
    BY <1>1, <1>6, EndRunStep DEF SubmitterFinishes
  <1>7. CASE SelectWave(w) \/ SelectReviewBand(w)
    BY <1>7, SelectStep
  <1>8. CASE SubmitChunk(w)
    BY <1>1, <1>8, SubmitStep DEF SubmitChunk
  <1>9. CASE RecordChunk(w)
    BY <1>9, RecordChunkStep
  <1> QED
    BY <1>2, <1>3, <1>4, <1>5, <1>6, <1>7, <1>8, <1>9 DEF SubmitterStep

\* A step of a direct command
LEMMA DirectKeeps ==
  ASSUME ExtractionInv, NEW d \in Direct, DirectStep(d)
  PROVE  ExtractionInv'
  BY StartDirectStep, SelectDirectStep, CheckOrFinalizeStep, CallModelStep DEF DirectStep

\* Every step keeps the invariant
LEMMA NextExtractionInv == ExtractionInv /\ [ExtractionNext]_allVars => ExtractionInv'
  <1> SUFFICES ASSUME ExtractionInv, [ExtractionNext]_allVars PROVE ExtractionInv'
    OBVIOUS
  <1>1. CASE UNCHANGED allVars
    <2>1. /\ UNCHANGED <<batches, runs, extraction, calls, pc, held, plan, todo, wave, direct>>
          /\ RunIds' = RunIds
      BY <1>1 DEF allVars, vars, extVars, RunIds
    <2>2. RecordsAreKept
      BY <2>1, UnchangedIsKept
    <2>3. TablesTyped' /\ RunsHaveBatches'
      BY <2>1 DEF ExtractionInv, TablesTyped, RunsHaveBatches, BatchOf
    <2>4. LocalsTyped' /\ HeldIsARun' /\ TodoIsAnswered' /\ DraftExists'
      BY <2>1, <2>2, MemoryIsUnchanged
    <2>5. BatchesAreOwned' /\ RowsAreTraced' /\ WavesTyped' /\ DirectsTyped'
      BY <2>1, <2>2, OwnersAreKept, RowsAreKept, OtherCommandsAreKept
    <2> QED
      BY <2>3, <2>4, <2>5 DEF ExtractionInv
  <1>2. CASE \E c \in Coordinator : (Start(c) \/ Advance(c)) /\ UNCHANGED extVars
    BY <1>2, CoordinatorKeeps
  <1>3. CASE \E o \in Operator \ Submitter : OperatorOnly(o)
    BY <1>3, OperatorKeeps
  <1>4. CASE \E w \in Submitter : SubmitterStep(w)
    BY <1>4, SubmitterKeeps
  <1>5. CASE \E d \in Direct : DirectStep(d)
    BY <1>5, DirectKeeps
  <1>6. CASE \E r \in RunIds : ServiceStep(runs[r].batch) /\ UNCHANGED extVars
    BY <1>6, ServiceStepKeeps
  <1>7. CASE Killed
    BY <1>7, KilledStep
  <1> QED
    BY <1>1, <1>2, <1>3, <1>4, <1>5, <1>6, <1>7 DEF ExtractionNext

\* The invariant holds of every state, whichever commands run
THEOREM ExtractionInvariant == ExtractionSpec => []ExtractionInv
  BY InitExtractionInv, NextExtractionInv, PTL DEF ExtractionSpec

\* However many commands of whatever kind extract at the same time, and whatever
\* is killed, a row that says succeeded repeats what the run it names was
\* answered: update_or_create of two processes never mixes two answers.
THEOREM SuccessIsTraceableEverywhere == ExtractionSpec => []EverySuccessIsTraceable
  <1>1. ExtractionSpec => []ExtractionInv
    BY ExtractionInvariant
  <1> QED
    BY <1>1, TracedRowsAreTraceable, PTL

----------------------------------------------------------------------------
(* Waves of one submitting command at a time do not overlap *)

OneSubmitter == \A v, w \in Submitter : v = w

\* The RUNNING runs of a kind of submitting command
RunningOf(kind) == {r \in RunIds : /\ runs[r].status = "running"
                                   /\ runs[r].label = LabelOfKind[kind]}

\* WavesDoNotOverlap, kind by kind
DisjointWaves ==
  \A kind \in Waves : \A r, s \in RunningOf(kind) :
    r # s => BatchOf(r).episodes \cap BatchOf(s).episodes = {}

\* What is still to be submitted of a wave overlaps nothing that is RUNNING
DisjointChunks(w) ==
  LET chunks == wave[w].chunks IN
  /\ \A r \in RunningOf(wave[w].kind) :
       /\ BatchOf(r).episodes \cap plan[w].episodes = {}
       /\ \A i \in DOMAIN chunks : BatchOf(r).episodes \cap chunks[i] = {}
  /\ \A i \in DOMAIN chunks : plan[w].episodes \cap chunks[i] = {}
  /\ \A i, j \in DOMAIN chunks : i # j => chunks[i] \cap chunks[j] = {}

\* In a round a RUNNING run is yet to be looked at, held, or was seen pending;
\* after it there is none, unless the command ran out of time
WaveInOrder(w) ==
  /\ pc[w] = "check" => wave[w].pending \/ RunningOf(wave[w].kind) \subseteq wave[w].active
  /\ pc[w] = "sync" => \/ wave[w].pending
                       \/ RunningOf(wave[w].kind) \subseteq wave[w].active \cup {held[w]}
  /\ pc[w] = "count" => wave[w].expired \/ RunningOf(wave[w].kind) = {}
  /\ pc[w] = "select" /\ wave[w].kind \in Waves => RunningOf(wave[w].kind) = {}
  /\ pc[w] \in {"submit", "record"} /\ wave[w].kind \in Waves => DisjointChunks(w)

\* Inductive strengthening of WavesDoNotOverlap
WaveInv == DisjointWaves /\ \A w \in Submitter : WaveInOrder(w)

\* A step after which nothing runs that did not run before
NothingNewRuns ==
  \A kind \in Kind : \A r \in RunningOf(kind)' :
    r \in RunningOf(kind) /\ (BatchOf(r))'.episodes = BatchOf(r).episodes

\* Then no wave overlaps that did not, and what is left of one is as it was
LEMMA QuietStep ==
  ASSUME ExtractionInv, WaveInv, NothingNewRuns
  PROVE  /\ DisjointWaves'
         /\ \A w \in Submitter :
              /\ pc'[w] = pc[w] /\ held'[w] = held[w]
              /\ plan'[w] = plan[w] /\ wave'[w] = wave[w]
              => WaveInOrder(w)'
  <1>1. DisjointWaves'
    <2> SUFFICES ASSUME NEW kind \in Waves, NEW r \in RunningOf(kind)', NEW s \in RunningOf(kind)',
                        r # s
                 PROVE  (BatchOf(r))'.episodes \cap (BatchOf(s))'.episodes = {}
      BY DEF DisjointWaves
    <2>1. /\ r \in RunningOf(kind) /\ (BatchOf(r))'.episodes = BatchOf(r).episodes
          /\ s \in RunningOf(kind) /\ (BatchOf(s))'.episodes = BatchOf(s).episodes
      BY DEF NothingNewRuns, Kind
    <2> QED
      BY <2>1 DEF WaveInv, DisjointWaves
  <1>2. ASSUME NEW w \in Submitter, pc'[w] = pc[w], held'[w] = held[w],
               plan'[w] = plan[w], wave'[w] = wave[w]
        PROVE  WaveInOrder(w)'
    <2>1. PICK kind \in Kind : kind = wave[w].kind /\ kind = wave'[w].kind
      BY <1>2, WaveFields
    <2>2. \A r \in RunningOf(kind)' :
            r \in RunningOf(kind) /\ (BatchOf(r))'.episodes = BatchOf(r).episodes
      BY DEF NothingNewRuns
    <2>3. WaveInOrder(w)
      BY DEF WaveInv
    <2>4. DisjointChunks(w) => DisjointChunks(w)'
      BY <1>2, <2>1, <2>2 DEF DisjointChunks
    <2> QED
      BY <1>2, <2>1, <2>2, <2>3, <2>4 DEF WaveInOrder
  <1> QED
    BY <1>1, <1>2

\* Steps that leave the runs and what their batches ask for alone
LEMMA SameRunsAreQuiet ==
  ASSUME ExtractionInv, UNCHANGED runs,
         \A i \in DOMAIN batches : batches'[i].episodes = batches[i].episodes
  PROVE  NothingNewRuns
  <1>1. \A r \in RunIds : runs[r].batch \in DOMAIN batches
    BY DEF ExtractionInv, RunsHaveBatches
  <1> QED
    BY <1>1 DEF NothingNewRuns, RunningOf, BatchOf, RunIds

\* Ending a run is quiet, and it no longer runs
LEMMA EndingARunIsQuiet ==
  ASSUME ExtractionInv, NEW r \in RunIds, NEW status \in RunStatus \ {"running"},
         SetStatus(r, status), UNCHANGED <<batches, extraction, calls>>
  PROVE  NothingNewRuns /\ RunIds' = RunIds /\ \A kind : r \notin RunningOf(kind)'
  <1>1. /\ RunIds' = RunIds
        /\ \A s \in RunIds : /\ runs'[s].batch = runs[s].batch
                             /\ runs'[s].label = runs[s].label
                             /\ s # r => runs'[s] = runs[s]
    BY StatusEffect
  <1>2. runs'[r].status = status
    <2>1. runs[r] \in Run
      BY RowTypes DEF ExtractionInv
    <2> QED
      BY <2>1 DEF SetStatus, Run, RunIds
  <1>3. NothingNewRuns
    BY <1>1, <1>2 DEF NothingNewRuns, RunningOf, BatchOf
  <1> QED
    BY <1>1, <1>2, <1>3 DEF RunningOf

\* A batch that is created overlaps no wave before it is recorded
LEMMA SubmitIsQuiet ==
  ASSUME ExtractionInv, NEW p \in Proc, SubmitBatch(p)
  PROVE  /\ NothingNewRuns
         /\ plan'[p].episodes = plan[p].episodes /\ pc'[p] = "record" /\ pc[p] = "submit"
         /\ \A q \in Proc : q # p => plan'[q] = plan[q] /\ pc'[q] = pc[q]
         /\ UNCHANGED <<runs, held>>
  <1> DEFINE new == [state |-> "in_progress", phase |-> plan[p].phase,
                     episodes |-> plan[p].episodes, answer |-> NoAnswer]
  <1>1. plan[p] \in Plans
    BY UntouchedLocals
  <1>2. new \in Batch /\ batches \in Seq(Batch) /\ batches' = Append(batches, new)
    BY <1>1 DEF Batch, Plans, NoAnswer, Answer, SubmitBatch, ExtractionInv, TablesTyped
  <1> HIDE DEF new
  <1>3. \A i \in DOMAIN batches : batches'[i] = batches[i]
    BY <1>2, AppendRow
  <1>4. NothingNewRuns
    BY <1>3, SameRunsAreQuiet DEF SubmitBatch
  <1> QED
    BY <1>1, <1>4 DEF SubmitBatch, Goto, Plans, ExtractionInv, LocalsTyped

\* A coordinator has a label of its own
LEMMA RecordRunIsQuiet ==
  ASSUME ExtractionInv, NEW c \in Coordinator, RecordRun(c), UNCHANGED calls
  PROVE  NothingNewRuns
  <1> DEFINE row == [status |-> "running", label |-> LabelOf[c],
                     phase |-> plan[c].phase, parent |-> plan[c].parent,
                     batch |-> plan[c].batch]
  <1>1. c \in Proc /\ plan[c] \in Plans
    BY SubmittersAreProcs, UntouchedLocals
  <1>2. /\ row \in Run /\ row.batch = plan[c].batch /\ row.phase = plan[c].phase
        /\ row.label = LabelOf[c]
    BY <1>1, SubmittersAreProcs DEF Run, RunStatus, Plans
  <1>3. /\ runs' = Append(runs, row) /\ pc[c] = "record"
        /\ UNCHANGED <<batches, extraction>>
    BY DEF RecordRun
  <1> HIDE DEF row
  <1>4. /\ RunIds' = RunIds \cup {Len(runs) + 1}
        /\ runs'[Len(runs) + 1] = row
        /\ \A r \in RunIds : runs'[r] = runs[r]
    BY <1>1, <1>2, <1>3, RunIsRecorded
  <1>5. \A kind \in Kind : LabelOfKind[kind] # LabelOf[c]
    BY ExtractionAssumption
  <1> SUFFICES ASSUME NEW kind \in Kind, NEW r \in RunningOf(kind)'
               PROVE  r \in RunningOf(kind) /\ (BatchOf(r))'.episodes = BatchOf(r).episodes
    BY DEF NothingNewRuns
  <1>6. r \in RunIds' /\ runs'[r].status = "running" /\ runs'[r].label = LabelOfKind[kind]
    BY DEF RunningOf
  <1>7. r \in RunIds /\ runs'[r] = runs[r]
    BY <1>2, <1>4, <1>5, <1>6
  <1> QED
    BY <1>3, <1>6, <1>7 DEF RunningOf, BatchOf

\* What a process other than a submitting command does to the waves
LEMMA OtherProcessIsQuiet ==
  ASSUME ExtractionInv, WaveInv, NEW p \in Proc \ Submitter, UNCHANGED wave,
         NothingNewRuns,
         \A q \in Proc : q # p => pc'[q] = pc[q] /\ held'[q] = held[q] /\ plan'[q] = plan[q]
  PROVE  WaveInv'
  <1>1. \A w \in Submitter : w \in Proc /\ w # p
    BY SubmittersAreProcs
  <1>2. \A w \in Submitter : WaveInOrder(w)'
    BY <1>1, QuietStep
  <1> QED
    BY <1>2, QuietStep DEF WaveInv

\* Coordinators
LEMMA CoordinatorsDisturbNoWave ==
  ASSUME ExtractionInv, WaveInv, NEW c \in Coordinator, UNCHANGED extVars,
         Start(c) \/ Advance(c)
  PROVE  WaveInv'
  <1>1. c \in Proc \ Submitter /\ UNCHANGED <<wave, calls>>
    BY ExtractionAssumption, BackfillAssumption DEF Proc, extVars
  <1>2. ASSUME NEW q \in Proc, q # c
        PROVE  pc'[q] = pc[q] /\ held'[q] = held[q] /\ plan'[q] = plan[q]
    <2>1. /\ pc \in [Proc -> SubmitterPc] /\ held \in [Proc -> Nat] /\ plan \in [Proc -> Plans]
      BY DEF ExtractionInv, LocalsTyped
    <2>2. /\ \E l : pc' = [pc EXCEPT ![c] = l] \/ pc' = pc
          /\ \E h : held' = [held EXCEPT ![c] = h] \/ held' = held
          /\ \E a : plan' = [plan EXCEPT ![c] = a] \/ plan' = plan
      <3>1. CASE Start(c) \/ FinishBatches(c) \/ SubmitBatch(c) \/ RecordRun(c)
        BY <3>1 DEF Start, FinishBatches, SubmitBatch, RecordRun, Goto, Hold
      <3>2. CASE PollCompleted(c) \/ PollWithoutOutput(c) \/ PollFailed(c) \/ SyncOutputRecord(c)
        BY <3>2 DEF PollCompleted, PollWithoutOutput, PollFailed, SyncOutputRecord, Goto, Hold
      <3>3. CASE FinishFirstPass(c) \/ FinishSecondPass(c)
        BY <3>3 DEF FinishFirstPass, FinishSecondPass, FinalizeExtractionRun, Goto, Hold
      <3>4. ASSUME NEW phase, NEW parent, NEW episodes, NEW none,
                   GetOrSubmit(c, phase, parent, episodes, none)
            PROVE  /\ \E l : pc' = [pc EXCEPT ![c] = l] \/ pc' = pc
                   /\ \E h : held' = [held EXCEPT ![c] = h] \/ held' = held
                   /\ \E a : plan' = [plan EXCEPT ![c] = a] \/ plan' = plan
        BY <3>4 DEF GetOrSubmit, Resume, PlanBatch, NothingToSubmit, Goto, Hold
      <3> QED
        BY <3>1, <3>2, <3>3, <3>4 DEF Advance, GetOrSubmitFirstPass, GetOrSubmitSecondPass
    <2> QED
      BY <1>2, <2>1, <2>2
  <1>3. NothingNewRuns
    <2>1. CASE RecordRun(c)
      BY <1>1, <2>1, RecordRunIsQuiet
    <2>2. CASE SubmitBatch(c)
      BY <1>1, <2>2, SubmitIsQuiet
    <2>3. CASE PollFailed(c) \/ FinishFirstPass(c) \/ FinishSecondPass(c)
      <3>1. /\ held[c] \in RunIds
            /\ UNCHANGED <<batches, extraction, calls>>
            /\ \E status \in RunStatus \ {"running"} : SetStatus(held[c], status)
        BY <1>1, <2>3, FinalStatusIsAStatus
        DEF ExtractionInv, HeldIsARun, PollFailed, FinishFirstPass, FinishSecondPass,
            FinalizeExtractionRun, RunStatus
      <3> QED
        BY <3>1, EndingARunIsQuiet
    <2>4. CASE UNCHANGED <<batches, runs>>
      BY <2>4, SameRunsAreQuiet
    <2>5. \/ RecordRun(c) \/ SubmitBatch(c)
          \/ PollFailed(c) \/ FinishFirstPass(c) \/ FinishSecondPass(c)
          \/ UNCHANGED <<batches, runs>>
      BY DEF Advance, Start, FinishBatches, PollCompleted, PollWithoutOutput, SyncOutputRecord,
             GetOrSubmitFirstPass, GetOrSubmitSecondPass, GetOrSubmit, tables
    <2> QED
      BY <2>1, <2>2, <2>3, <2>4, <2>5
  <1> QED
    BY <1>1, <1>2, <1>3, OtherProcessIsQuiet

\* Operators
LEMMA OperatorsDisturbNoWave ==
  ASSUME ExtractionInv, WaveInv, NEW o \in Operator \ Submitter, OperatorOnly(o)
  PROVE  WaveInv'
  <1>1. o \in Proc \ Submitter /\ UNCHANGED <<wave, calls>>
    BY SubmittersAreProcs DEF OperatorOnly, extVars
  <1>2. ASSUME NEW q \in Proc, q # o
        PROVE  pc'[q] = pc[q] /\ held'[q] = held[q] /\ plan'[q] = plan[q]
    <2>1. /\ pc \in [Proc -> SubmitterPc] /\ held \in [Proc -> Nat] /\ plan \in [Proc -> Plans]
      BY DEF ExtractionInv, LocalsTyped
    <2>2. /\ \E l : pc' = [pc EXCEPT ![o] = l] \/ pc' = pc
          /\ \E h : held' = [held EXCEPT ![o] = h] \/ held' = held
          /\ plan' = plan
      BY DEF OperatorOnly, OperatorSync, OperatorMarkDuplicate, OperatorMarkFailed,
             SyncOutputRecord, OperatorFinish, FinalizeExtractionRun, Goto, Hold, locals
    <2> QED
      BY <1>2, <2>1, <2>2
  <1>3. NothingNewRuns
    <2>1. CASE OperatorSync(o) \/ SyncOutputRecord(o)
      BY <2>1, SameRunsAreQuiet DEF OperatorSync, SyncOutputRecord, tables
    <2>2. CASE OperatorMarkDuplicate(o) \/ OperatorMarkFailed(o)
      <3>1. /\ UNCHANGED <<batches, extraction, calls>>
            /\ \E r \in RunIds : SetStatus(r, "failed")
        BY <1>1, <2>2 DEF OperatorMarkDuplicate, OperatorMarkFailed
      <3> QED
        BY <3>1, EndingARunIsQuiet DEF RunStatus
    <2>3. CASE OperatorFinish(o)
      <3>1. /\ held[o] \in RunIds
            /\ UNCHANGED <<batches, extraction, calls>>
            /\ \E status \in RunStatus \ {"running"} : SetStatus(held[o], status)
        BY <1>1, <2>3, FinalStatusIsAStatus
        DEF ExtractionInv, HeldIsARun, OperatorFinish, FinalizeExtractionRun
      <3> QED
        BY <3>1, EndingARunIsQuiet
    <2> QED
      BY <2>1, <2>2, <2>3 DEF OperatorOnly
  <1> QED
    BY <1>1, <1>2, <1>3, OtherProcessIsQuiet

\* Direct commands
LEMMA DirectsDisturbNoWave ==
  ASSUME ExtractionInv, WaveInv, Elsewhere
  PROVE  WaveInv'
  <1>1. UNCHANGED <<batches, runs, pc, held, plan, wave>>
    BY DEF Elsewhere, locals
  <1>2. NothingNewRuns
    BY <1>1, SameRunsAreQuiet
  <1> QED
    BY <1>1, <1>2, QuietStep DEF WaveInv

\* The service
LEMMA ServiceDisturbsNoWave ==
  ASSUME ExtractionInv, WaveInv, NEW i, ServiceStep(i), UNCHANGED extVars
  PROVE  WaveInv'
  <1>1. UNCHANGED <<runs, pc, held, plan, wave>>
    BY DEF ServiceStep, BatchCompletes, BatchFails, locals, extVars
  <1>2. \A j \in DOMAIN batches : batches'[j].episodes = batches[j].episodes
    <2>1. batches \in Seq(Batch) /\ \A j \in DOMAIN batches : batches[j] \in Batch
      BY RowTypes DEF ExtractionInv, TablesTyped
    <2>2. CASE BatchCompletes(i)
      BY <2>1, <2>2 DEF BatchCompletes, Batch
    <2>3. CASE BatchFails(i)
      BY <2>1, <2>3 DEF BatchFails, Batch
    <2> QED
      BY <2>2, <2>3 DEF ServiceStep
  <1>3. NothingNewRuns
    BY <1>1, <1>2, SameRunsAreQuiet
  <1> QED
    BY <1>1, <1>3, QuietStep DEF WaveInv

\* Pieces of a selection have nothing in common
LEMMA PiecesAreDisjoint ==
  ASSUME NEW S \in SUBSET Episode,
         NEW i \in DOMAIN Chunked(S), NEW j \in DOMAIN Chunked(S), i # j
  PROVE  Chunked(S)[i] \cap Chunked(S)[j] = {}
  <1> DEFINE pieces == (Cardinality(S) + BatchSize - 1) \div BatchSize
  <1>1. /\ DOMAIN Chunked(S) = 1..pieces
        /\ \A k \in 1..pieces :
             Chunked(S)[k] = Newest(S, k * BatchSize) \ Newest(S, (k - 1) * BatchSize)
    BY DEF Chunked
  <1> HIDE DEF pieces
  <1>2. \A e \in S : Cardinality({d \in S : d < e}) \in Nat
    <2>1. 1 \in Int /\ NumEpisodes \in Int
      BY BackfillAssumption
    <2>2. IsFiniteSet(Episode)
      BY <2>1, FS_Interval DEF Episode
    <2> QED
      BY <2>2, FS_Subset, FS_CardinalityType
  <1>3. BatchSize \in Nat /\ \A k \in 1..pieces : k \in Int /\ k * BatchSize \in Int
    BY BackfillAssumption
  <1>4. ASSUME NEW k \in 1..pieces, NEW l \in 1..pieces, k < l
        PROVE  Chunked(S)[k] \cap Chunked(S)[l] = {}
    <2>1. k * BatchSize <= (l - 1) * BatchSize /\ (l - 1) * BatchSize \in Int
      <3>1. k \in Int /\ l - 1 \in Int /\ k <= l - 1
        BY <1>4
      <3>2. \A x, y \in Int, b \in Nat : x <= y => x * b <= y * b
        OBVIOUS
      <3> QED
        BY <1>3, <3>1, <3>2
    <2> SUFFICES ASSUME NEW e \in Chunked(S)[k], e \in Chunked(S)[l] PROVE FALSE
      OBVIOUS
    <2>2. e \in S /\ Cardinality({d \in S : d < e}) < k * BatchSize
      BY <1>1 DEF Newest
    <2>3. ~(Cardinality({d \in S : d < e}) < (l - 1) * BatchSize)
      BY <1>1, <2>2 DEF Newest
    <2>4. Cardinality({d \in S : d < e}) \in Nat
      BY <1>2, <2>2
    <2> HIDE DEF Newest
    <2> QED
      BY <1>3, <2>1, <2>2, <2>3, <2>4
  <1>5. i < j \/ j < i
    BY <1>1
  <1> QED
    BY <1>1, <1>4, <1>5

\* With one submitting command, its own wave is all there is to look at
LEMMA OwnStep ==
  ASSUME OneSubmitter, ExtractionInv, WaveInv, NEW w \in Submitter,
         NothingNewRuns, WaveInOrder(w)'
  PROVE  WaveInv'
  BY QuietStep DEF OneSubmitter, WaveInv

\* Planning the first of some chunks that overlap nothing
LEMMA PlannedChunksAreDisjoint ==
  ASSUME ExtractionInv, NEW w \in Submitter, NEW phase, NEW kind, kind = wave[w].kind,
         NEW chunks \in Seq(SUBSET Episode), chunks # <<>>,
         PlanChunks(w, chunks, phase),
         \A r \in RunningOf(kind)', i \in DOMAIN chunks :
           (BatchOf(r))'.episodes \cap chunks[i] = {},
         \A i, j \in DOMAIN chunks : i # j => chunks[i] \cap chunks[j] = {}
  PROVE  WaveInOrder(w)'
  <1>1. /\ wave[w] \in WaveRow /\ plan \in [Proc -> Plans] /\ wave \in [Submitter -> WaveRow]
        /\ pc \in [Proc -> SubmitterPc] /\ w \in Proc
    BY WaveFields DEF ExtractionInv, LocalsTyped, WavesTyped
  <1>2. /\ pc'[w] = "submit" /\ plan'[w].episodes = Head(chunks)
        /\ wave'[w].chunks = Tail(chunks) /\ wave'[w].kind = kind
    BY <1>1 DEF PlanChunks, PlanChunk, Goto, WaveRow
  <1>3. /\ Head(chunks) = chunks[1] /\ 1 \in DOMAIN chunks
        /\ \A i \in DOMAIN Tail(chunks) : /\ Tail(chunks)[i] = chunks[i + 1]
                                          /\ i + 1 \in DOMAIN chunks /\ i + 1 # 1
        /\ \A i, j \in DOMAIN Tail(chunks) : i # j => i + 1 # j + 1
    <2>1. /\ Tail(chunks) \in Seq(SUBSET Episode) /\ Len(Tail(chunks)) = Len(chunks) - 1
          /\ \A i \in 1..Len(Tail(chunks)) : Tail(chunks)[i] = chunks[i + 1]
      BY HeadTailProperties
    <2>2. DOMAIN Tail(chunks) = 1..Len(Tail(chunks)) /\ Len(Tail(chunks)) \in Nat
      BY <2>1, LenProperties
    <2>3. DOMAIN chunks = 1..Len(chunks) /\ Len(chunks) \in Nat /\ Len(chunks) # 0
      BY LenProperties, EmptySeq
    <2>4. Head(chunks) = chunks[1]
      OBVIOUS
    <2> QED
      BY <2>1, <2>2, <2>3, <2>4
  <1>4. \A r \in RunningOf(kind)' :
          /\ (BatchOf(r))'.episodes \cap plan'[w].episodes = {}
          /\ \A i \in DOMAIN Tail(chunks) : (BatchOf(r))'.episodes \cap Tail(chunks)[i] = {}
    BY <1>2, <1>3
  <1>5. \A i \in DOMAIN Tail(chunks) : plan'[w].episodes \cap Tail(chunks)[i] = {}
    BY <1>2, <1>3
  <1>6. \A i, j \in DOMAIN Tail(chunks) : i # j => Tail(chunks)[i] \cap Tail(chunks)[j] = {}
    BY <1>3
  <1>7. DisjointChunks(w)'
    BY <1>2, <1>4, <1>5, <1>6 DEF DisjointChunks
  <1> QED
    BY <1>2, <1>7 DEF WaveInOrder

\* A submitting command that has moved on, seen in its own row
LEMMA WaveMoved ==
  ASSUME ExtractionInv, NEW w \in Submitter
  PROVE  /\ \A l : Goto(w, l) => pc'[w] = l
         /\ \A h : Hold(w, h) => held'[w] = h
         /\ \A v : wave' = [wave EXCEPT ![w] = v] => wave'[w] = v
         /\ EndSubmitter(w) => pc'[w] = "down"
  BY WaveFields DEF ExtractionInv, LocalsTyped, WavesTyped, Goto, Hold, EndSubmitter

\* Starting, listing, counting, and the end of a round
LEMMA RoundsKeepWaves ==
  ASSUME OneSubmitter, ExtractionInv, WaveInv, NEW w \in Submitter,
         \/ \E kind \in Kind : StartSubmitter(w, kind)
         \/ ListActiveRuns(w) \/ EndOfRound(w) \/ CountRemaining(w)
  PROVE  WaveInv'
  <1>1. UNCHANGED <<batches, runs>>
    BY DEF StartSubmitter, ListActiveRuns, EndOfRound, CountRemaining, tables
  <1>2. NothingNewRuns /\ \A k : RunningOf(k)' = RunningOf(k)
    BY <1>1, SameRunsAreQuiet DEF RunningOf, RunIds
  <1>3. PICK kind \in Kind : kind = wave[w].kind
    BY WaveFields
  <1>4. WaveInOrder(w) /\ wave[w] \in WaveRow
    BY WaveFields DEF WaveInv
  <1>5. CASE \E k \in Kind : StartSubmitter(w, k)
    <2>1. PICK k \in Kind : StartSubmitter(w, k)
      BY <1>5
    <2>2. /\ pc'[w] = IF k = "manual" THEN "select" ELSE "list"
          /\ wave'[w].kind = k
      <3>1. [NoWave EXCEPT !.kind = k, !.phase = PhaseOf(k)].kind = k
        BY DEF NoWave
      <3> QED
        BY <2>1, <3>1, WaveMoved DEF StartSubmitter
    <2>3. WaveInOrder(w)'
      BY <2>2 DEF WaveInOrder, Waves
    <2> QED
      BY <1>2, <2>3, OwnStep
  <1>6. CASE ListActiveRuns(w)
    <2> DEFINE v == [wave[w] EXCEPT !.active = RunningOf(kind), !.pending = FALSE]
    <2>1. v.active = RunningOf(kind) /\ v.pending = FALSE /\ v.kind = kind
      BY <1>3, <1>4 DEF WaveRow
    <2>2. wave' = [wave EXCEPT ![w] = v]
      BY <1>3, <1>6 DEF ListActiveRuns, RunningOf
    <2> HIDE DEF v
    <2>3. /\ wave'[w].active = RunningOf(kind) /\ wave'[w].pending = FALSE
          /\ wave'[w].kind = kind
      BY <2>1, <2>2, WaveMoved
    <2>4. pc'[w] = IF RunningOf(kind) = {} THEN "count" ELSE "check"
      BY <1>3, <1>6, WaveMoved DEF ListActiveRuns, RunningOf
    <2>5. (RunningOf(wave[w].kind))' = RunningOf(kind)
      BY <1>2, <2>3
    <2>6. WaveInOrder(w)'
      BY <2>3, <2>4, <2>5 DEF WaveInOrder
    <2> QED
      BY <1>2, <2>6, OwnStep
  <1>7. ASSUME NEW late \in BOOLEAN, Late(w, late)
        PROVE  /\ wave'[w].expired = late /\ (wave[w].expired => late)
               /\ wave'[w].kind = kind /\ wave'[w].pending = wave[w].pending
               /\ wave'[w].active = wave[w].active
               /\ (RunningOf(wave[w].kind))' = RunningOf(kind)
    <2> DEFINE v == [wave[w] EXCEPT !.expired = late]
    <2>1. /\ v.expired = late /\ v.kind = kind /\ v.pending = wave[w].pending
          /\ v.active = wave[w].active
      BY <1>3, <1>4 DEF WaveRow
    <2>2. wave' = [wave EXCEPT ![w] = v] /\ (wave[w].expired => late)
      BY <1>7 DEF Late
    <2> HIDE DEF v
    <2>3. wave'[w] = v
      BY <2>2, WaveMoved
    <2> QED
      BY <1>2, <2>1, <2>2, <2>3
  <1>8. CASE EndOfRound(w)
    <2>1. PICK late \in BOOLEAN :
            /\ Late(w, late)
            /\ Goto(w, IF wave[w].pending /\ ~late THEN "list" ELSE "count")
      BY <1>8 DEF EndOfRound
    <2>2. pc'[w] = IF wave[w].pending /\ ~late THEN "list" ELSE "count"
      BY <2>1, WaveMoved
    <2>3. wave[w].pending \/ RunningOf(kind) = {}
      BY <1>3, <1>4, <1>8 DEF EndOfRound, WaveInOrder
    <2>4. WaveInOrder(w)'
      BY <1>7, <2>1, <2>2, <2>3 DEF WaveInOrder
    <2> QED
      BY <1>2, <2>4, OwnStep
  <1>9. CASE CountRemaining(w)
    <2>1. CASE EndSubmitter(w)
      <3>1. WaveInOrder(w)'
        BY <2>1, WaveMoved DEF WaveInOrder
      <3> QED
        BY <1>2, <3>1, OwnStep
    <2>2. CASE Late(w, FALSE) /\ Goto(w, "select")
      <3>1. pc'[w] = "select"
        BY <2>2, WaveMoved
      <3>2. ~wave[w].expired /\ RunningOf(kind) = {}
        BY <1>3, <1>4, <1>7, <1>9, <2>2 DEF CountRemaining, WaveInOrder
      <3>3. WaveInOrder(w)'
        BY <1>7, <2>2, <3>1, <3>2 DEF WaveInOrder
      <3> QED
        BY <1>2, <3>3, OwnStep
    <2> QED
      BY <1>9, <2>1, <2>2 DEF CountRemaining
  <1> QED
    BY <1>5, <1>6, <1>8, <1>9

\* Looking at listed runs, and persisting what they answered
LEMMA ChecksKeepWaves ==
  ASSUME OneSubmitter, ExtractionInv, WaveInv, NEW w \in Submitter,
         \/ CheckRun(w) \/ SubmitterFinishes(w)
         \/ SyncOutputRecord(w) /\ UNCHANGED extVars
  PROVE  WaveInv'
  <1>1. PICK kind \in Kind : kind = wave[w].kind
    BY WaveFields
  <1>2. WaveInOrder(w) /\ wave[w] \in WaveRow /\ wave[w].active \subseteq RunIds
    BY WaveFields DEF WaveInv
  <1>3. CASE SyncOutputRecord(w) /\ UNCHANGED extVars
    <2>1. UNCHANGED <<batches, runs, pc, held, plan, wave>>
      BY <1>3 DEF SyncOutputRecord, extVars
    <2> QED
      BY <2>1, SameRunsAreQuiet, QuietStep DEF WaveInv
  <1>4. CASE SubmitterFinishes(w)
    <2>1. /\ held[w] \in RunIds /\ pc[w] = "sync" /\ pc'[w] = "check"
          /\ UNCHANGED <<batches, extraction, calls, wave>>
          /\ \E status \in RunStatus \ {"running"} : SetStatus(held[w], status)
      BY <1>4, WaveFields, WaveMoved, FinalStatusIsAStatus
      DEF SubmitterFinishes, FinalizeExtractionRun, ExtractionInv, HeldIsARun, extVars
    <2>2. NothingNewRuns /\ held[w] \notin RunningOf(kind)'
      BY <2>1, EndingARunIsQuiet
    <2>3. RunningOf(kind)' \subseteq RunningOf(kind) \ {held[w]}
      BY <2>2 DEF NothingNewRuns
    <2>4. wave[w].pending \/ RunningOf(kind)' \subseteq wave[w].active
      BY <1>1, <1>2, <2>1, <2>3 DEF WaveInOrder
    <2>5. WaveInOrder(w)'
      BY <1>1, <2>1, <2>4 DEF WaveInOrder
    <2> QED
      BY <2>2, <2>5, OwnStep
  <1>5. CASE CheckRun(w)
    <2>1. PICK r \in wave[w].active :
            LET state == BatchOf(r).state
                Checked == wave' = [wave EXCEPT ![w].active = @ \ {r},
                                                ![w].pending = @ \/ state = "in_progress"]
            IN \/ /\ state = "in_progress"
                  /\ Checked
                  /\ UNCHANGED <<runs, pc, held, todo>>
               \/ /\ state = "failed"
                  /\ Checked
                  /\ SetStatus(r, "failed")
                  /\ UNCHANGED <<pc, held, todo>>
               \/ /\ state = "completed" /\ HasOutput(BatchOf(r))
                  /\ Checked
                  /\ Hold(w, r)
                  /\ todo' = [todo EXCEPT ![w] = Answered(BatchOf(r))]
                  /\ Goto(w, "sync")
                  /\ UNCHANGED runs
               \/ /\ state = "completed" /\ ~HasOutput(BatchOf(r))
                  /\ EndSubmitter(w)
                  /\ UNCHANGED <<runs, held, todo>>
      BY <1>5 DEF CheckRun
    <2>2. /\ UNCHANGED <<batches, extraction, calls, plan>> /\ pc[w] = "check"
          /\ r \in RunIds
      BY <1>2, <1>5, <2>1 DEF CheckRun, Kept
    <2>3. wave[w].pending \/ RunningOf(kind) \subseteq wave[w].active
      BY <1>1, <1>2, <2>2 DEF WaveInOrder
    <2> DEFINE Checked == wave' = [wave EXCEPT ![w].active = @ \ {r},
                                     ![w].pending = @ \/ BatchOf(r).state = "in_progress"]
    <2>4. ASSUME Checked
          PROVE  /\ wave'[w].kind = kind /\ wave'[w].active = wave[w].active \ {r}
                 /\ wave[w].pending => wave'[w].pending
                 /\ BatchOf(r).state = "in_progress" => wave'[w].pending
      BY <1>1, <1>2, <2>4 DEF ExtractionInv, WavesTyped, WaveRow
    <2>5. CASE BatchOf(r).state = "in_progress" /\ Checked /\ UNCHANGED <<runs, pc, held, todo>>
      <3>1. NothingNewRuns
        BY <2>2, <2>5, SameRunsAreQuiet
      <3>2. WaveInOrder(w)'
        BY <2>2, <2>4, <2>5 DEF WaveInOrder
      <3> QED
        BY <3>1, <3>2, OwnStep
    <2>6. CASE Checked /\ SetStatus(r, "failed") /\ UNCHANGED <<pc, held, todo>>
      <3>1. NothingNewRuns /\ r \notin RunningOf(kind)'
        BY <2>2, <2>6, EndingARunIsQuiet DEF RunStatus
      <3>2. RunningOf(kind)' \subseteq RunningOf(kind) \ {r}
        BY <3>1 DEF NothingNewRuns
      <3>3. (RunningOf(wave[w].kind))' = RunningOf(kind)'
        BY <2>4, <2>6 DEF RunningOf
      <3>4. WaveInOrder(w)'
        BY <2>2, <2>3, <2>4, <2>6, <3>2, <3>3 DEF WaveInOrder
      <3> QED
        BY <3>1, <3>4, OwnStep
    <2>7. CASE Checked /\ Hold(w, r) /\ Goto(w, "sync") /\ UNCHANGED runs
      <3>1. NothingNewRuns /\ RunningOf(kind)' = RunningOf(kind)
        BY <2>2, <2>7, SameRunsAreQuiet DEF RunningOf, RunIds
      <3>2. pc'[w] = "sync" /\ held'[w] = r
        BY <2>7, WaveMoved
      <3>3. (RunningOf(wave[w].kind))' = RunningOf(kind)'
        BY <2>4, <2>7 DEF RunningOf
      <3>4. WaveInOrder(w)'
        BY <2>3, <2>4, <2>7, <3>1, <3>2, <3>3 DEF WaveInOrder
      <3> QED
        BY <3>1, <3>4, OwnStep
    <2>8. CASE EndSubmitter(w) /\ UNCHANGED runs
      <3>1. NothingNewRuns
        BY <2>2, <2>8, SameRunsAreQuiet
      <3>2. WaveInOrder(w)'
        BY <2>8, WaveMoved DEF WaveInOrder
      <3> QED
        BY <3>1, <3>2, OwnStep
    <2> QED
      BY <2>1, <2>5, <2>6, <2>7, <2>8
  <1> QED
    BY <1>3, <1>4, <1>5

\* Selecting a wave, when nothing of its label is RUNNING
LEMMA SelectionsKeepWaves ==
  ASSUME OneSubmitter, ExtractionInv, WaveInv, NEW w \in Submitter,
         SelectWave(w) \/ SelectReviewBand(w)
  PROVE  WaveInv'
  <1>1. PICK kind \in Kind : kind = wave[w].kind
    BY WaveFields
  <1>2. /\ UNCHANGED <<batches, runs>> /\ pc[w] = "select"
    BY DEF SelectWave, SelectReviewBand, tables
  <1>3. NothingNewRuns /\ RunningOf(kind)' = RunningOf(kind)
    BY <1>2, SameRunsAreQuiet DEF RunningOf, RunIds
  <1>4. kind \in Waves => RunningOf(kind) = {}
    BY <1>1, <1>2 DEF WaveInv, WaveInOrder
  <1>5. ASSUME kind \notin Waves, NEW chunks, NEW phase, PlanChunks(w, chunks, phase)
        PROVE  WaveInOrder(w)'
    <2>1. pc'[w] = "submit" /\ wave'[w].kind = kind
      BY <1>1, <1>5, WaveFields, WaveMoved
      DEF PlanChunks, ExtractionInv, WavesTyped, WaveRow
    <2> QED
      BY <1>5, <2>1 DEF WaveInOrder
  <1>6. CASE SelectReviewBand(w)
    <2>1. kind \notin Waves
      BY <1>1, <1>6 DEF SelectReviewBand, Waves
    <2>2. \E chunks, phase : PlanChunks(w, chunks, phase)
      BY <1>6 DEF SelectReviewBand
    <2> QED
      BY <1>3, <1>5, <2>1, <2>2, OwnStep
  <1>7. CASE SelectWave(w)
    <2> DEFINE S == Newest(Selectable(kind), BatchSize * WaveSize)
               chunks == Chunked(S)
    <2>1. S \in SUBSET Episode
      BY SelectionsAreEpisodes
      DEF Newest, Selectable, Kind, Waves, NeverExtracted, ReviewBand, RerunBand
    <2> HIDE DEF S
    <2>2. /\ chunks \in Seq(SUBSET Episode)
          /\ \A i, j \in DOMAIN chunks : i # j => chunks[i] \cap chunks[j] = {}
      BY <2>1, ChunkedType, PiecesAreDisjoint
    <2> HIDE DEF chunks
    <2>3. CASE chunks # <<>> /\ PlanChunks(w, chunks, PhaseOf(kind))
      <3>1. CASE kind \in Waves
        <4>1. \A r \in RunningOf(kind)', i \in DOMAIN chunks :
                (BatchOf(r))'.episodes \cap chunks[i] = {}
          BY <1>3, <1>4, <3>1
        <4>2. WaveInOrder(w)'
          BY <1>1, <2>2, <2>3, <4>1, PlannedChunksAreDisjoint
        <4> QED
          BY <1>3, <4>2, OwnStep
      <3>2. CASE kind \notin Waves
        BY <1>3, <1>5, <2>3, <3>2, OwnStep
      <3> QED
        BY <3>1, <3>2
    <2>4. CASE EndSubmitter(w) \/ Goto(w, "list")
      <3>1. pc'[w] \in {"down", "list"}
        BY <2>4, WaveMoved
      <3>2. WaveInOrder(w)'
        BY <3>1 DEF WaveInOrder
      <3> QED
        BY <1>3, <3>2, OwnStep
    <2>5. \/ chunks # <<>> /\ PlanChunks(w, chunks, PhaseOf(kind))
          \/ EndSubmitter(w) \/ Goto(w, "list")
      BY <1>1, <1>7 DEF SelectWave, chunks, S
    <2> QED
      BY <2>3, <2>4, <2>5
  <1> QED
    BY <1>6, <1>7

\* Submitting a chunk
LEMMA SubmissionsKeepWaves ==
  ASSUME OneSubmitter, ExtractionInv, WaveInv, NEW w \in Submitter, SubmitChunk(w)
  PROVE  WaveInv'
  <1>1. PICK kind \in Kind : kind = wave[w].kind
    BY WaveFields
  <1>2. w \in Proc /\ SubmitBatch(w) /\ UNCHANGED wave
    BY WaveFields DEF SubmitChunk, extVars
  <1>3. /\ NothingNewRuns /\ UNCHANGED runs
        /\ plan'[w].episodes = plan[w].episodes /\ pc'[w] = "record" /\ pc[w] = "submit"
    BY <1>2, SubmitIsQuiet
  <1>4. kind \in Waves => DisjointChunks(w)
    BY <1>1, <1>3 DEF WaveInv, WaveInOrder
  <1>5. (RunningOf(wave[w].kind))' = RunningOf(kind)'
    BY <1>1, <1>2 DEF RunningOf
  <1>6. \A r \in RunningOf(kind)' :
          r \in RunningOf(kind) /\ (BatchOf(r))'.episodes = BatchOf(r).episodes
    BY <1>3 DEF NothingNewRuns
  <1>7. DisjointChunks(w) => DisjointChunks(w)'
    BY <1>1, <1>2, <1>3, <1>5, <1>6 DEF DisjointChunks
  <1>8. WaveInOrder(w)'
    BY <1>1, <1>2, <1>3, <1>4, <1>7 DEF WaveInOrder
  <1> QED
    BY <1>3, <1>8, OwnStep

\* Recording a chunk: it overlaps no RUNNING batch, nor what is left of the wave
LEMMA RecordsKeepWaves ==
  ASSUME OneSubmitter, ExtractionInv, WaveInv, NEW w \in Submitter, RecordChunk(w)
  PROVE  WaveInv'
  <1> DEFINE row == SubmittedRun(w)
  <1>1. PICK kind \in Kind : kind = wave[w].kind
    BY WaveFields
  <1>2. w \in Proc /\ plan[w] \in Plans /\ pc[w] = "record"
    BY WaveFields, UntouchedLocals DEF RecordChunk
  <1>3. row \in Run /\ row.label = LabelOfKind[kind] /\ row.batch = plan[w].batch
    BY <1>1, <1>2, SubmittersAreProcs, WaveFields
    DEF Run, RunStatus, Plans, SubmittedRun, NoRun
  <1>4. /\ row.phase = plan[w].phase /\ runs' = Append(runs, row)
        /\ UNCHANGED <<batches, extraction, calls>>
    BY DEF RecordChunk, SubmittedRun, Kept
  <1> HIDE DEF row
  <1>5. PICK n \in Nat :
          /\ RunIds' = RunIds \cup {n} /\ n \notin RunIds /\ runs'[n] = row
          /\ \A r \in RunIds : runs'[r] = runs[r]
    BY <1>2, <1>3, <1>4, RunIsRecorded
  <1>6. ASSUME NEW k \in Kind, k # kind
        PROVE  RunningOf(k)' \subseteq RunningOf(k)
    BY <1>3, <1>5, <1>6, ExtractionAssumption DEF RunningOf
  <1>7. RunningOf(kind)' \subseteq RunningOf(kind) \cup {n}
    BY <1>5 DEF RunningOf
  <1>8. \A k \in Kind : \A r \in RunningOf(k) : (BatchOf(r))'.episodes = BatchOf(r).episodes
    BY <1>4, <1>5 DEF RunningOf, BatchOf
  <1>9. (BatchOf(n))'.episodes = plan[w].episodes
    <2>1. batches[plan[w].batch].episodes = plan[w].episodes
      BY <1>2 DEF ExtractionInv, DraftExists
    <2> QED
      BY <1>3, <1>4, <1>5, <2>1 DEF BatchOf
  <1>10. kind \in Waves => DisjointChunks(w)
    BY <1>1, <1>2 DEF WaveInv, WaveInOrder
  <1>11. DisjointWaves'
    <2> SUFFICES ASSUME NEW k \in Waves, NEW r \in RunningOf(k)', NEW s \in RunningOf(k)', r # s
                 PROVE  (BatchOf(r))'.episodes \cap (BatchOf(s))'.episodes = {}
      BY DEF DisjointWaves
    <2>1. k \in Kind
      BY DEF Kind
    <2>2. CASE r \in RunningOf(k) /\ s \in RunningOf(k)
      BY <1>8, <2>1, <2>2 DEF WaveInv, DisjointWaves
    <2>3. ASSUME NEW q \in RunningOf(kind), k = kind
          PROVE  (BatchOf(q))'.episodes \cap (BatchOf(n))'.episodes = {}
      BY <1>1, <1>8, <1>9, <1>10, <2>3 DEF DisjointChunks
    <2> QED
      BY <1>6, <1>7, <2>1, <2>2, <2>3
  <1>12. WaveInOrder(w)'
    <2>1. CASE wave[w].chunks # <<>> /\ PlanChunks(w, wave[w].chunks, plan[w].phase)
      <3>1. PICK chunks \in Seq(SUBSET Episode) : chunks = wave[w].chunks
        BY WaveFields
      <3>2. CASE kind \in Waves
        <4>1. /\ \A r \in RunningOf(kind), i \in DOMAIN chunks :
                   BatchOf(r).episodes \cap chunks[i] = {}
              /\ \A i \in DOMAIN chunks : plan[w].episodes \cap chunks[i] = {}
              /\ \A i, j \in DOMAIN chunks : i # j => chunks[i] \cap chunks[j] = {}
          BY <1>1, <1>10, <3>1, <3>2 DEF DisjointChunks
        <4>2. \A r \in RunningOf(kind)', i \in DOMAIN chunks :
                (BatchOf(r))'.episodes \cap chunks[i] = {}
          BY <1>7, <1>8, <1>9, <4>1
        <4> QED
          BY <1>1, <2>1, <3>1, <4>1, <4>2, PlannedChunksAreDisjoint
      <3>3. CASE kind \notin Waves
        <4>1. pc'[w] = "submit" /\ wave'[w].kind = kind
          BY <1>1, <2>1, WaveFields, WaveMoved
          DEF PlanChunks, ExtractionInv, WavesTyped, WaveRow
        <4> QED
          BY <3>3, <4>1 DEF WaveInOrder
      <3> QED
        BY <3>2, <3>3
    <2>2. CASE EndSubmitter(w) \/ Goto(w, "list")
      <3>1. pc'[w] \in {"down", "list"}
        BY <2>2, WaveMoved
      <3> QED
        BY <3>1 DEF WaveInOrder
    <2> QED
      BY <2>1, <2>2 DEF RecordChunk
  <1> QED
    BY <1>11, <1>12 DEF OneSubmitter, WaveInv

\* A command that is killed submits nothing more
LEMMA KilledKeepsWaves ==
  ASSUME ExtractionInv, WaveInv, Killed
  PROVE  WaveInv'
  <1>1. CASE \E p \in Proc : /\ Crash(p)
                             /\ wave' = [w \in Submitter |-> IF w = p THEN NoWave ELSE wave[w]]
    <2>1. PICK p \in Proc :
            /\ Crash(p)
            /\ wave' = [w \in Submitter |-> IF w = p THEN NoWave ELSE wave[w]]
      BY <1>1
    <2>2. NothingNewRuns
      BY <2>1, SameRunsAreQuiet DEF Crash, tables
    <2>3. ASSUME NEW w \in Submitter
          PROVE  WaveInOrder(w)'
      <3>1. /\ pc \in [Proc -> SubmitterPc] /\ held \in [Proc -> Nat]
            /\ plan \in [Proc -> Plans] /\ w \in Proc
        BY WaveFields DEF ExtractionInv, LocalsTyped
      <3>2. CASE w = p
        <4>1. pc'[w] = "down"
          BY <2>1, <3>1, <3>2 DEF Crash, Goto
        <4> QED
          BY <4>1 DEF WaveInOrder
      <3>3. CASE w # p
        <4>1. /\ pc'[w] = pc[w] /\ held'[w] = held[w]
              /\ plan'[w] = plan[w] /\ wave'[w] = wave[w]
          BY <2>1, <3>1, <3>3 DEF Crash, Goto, Hold
        <4> QED
          BY <2>2, <4>1, QuietStep
      <3> QED
        BY <3>2, <3>3
    <2> QED
      BY <2>2, <2>3, QuietStep DEF WaveInv
  <1>2. CASE \E d \in Direct : Elsewhere
    BY <1>2, DirectsDisturbNoWave
  <1> QED
    BY <1>1, <1>2 DEF Killed

\* Initially nothing runs
LEMMA InitWaveInv == ExtractionInit => WaveInv
  <1> SUFFICES ASSUME ExtractionInit PROVE WaveInv
    OBVIOUS
  <1>1. RunIds = {}
    BY DEF ExtractionInit, Init, RunIds
  <1>2. \A w \in Submitter : pc[w] = "down"
    BY SubmittersAreProcs DEF ExtractionInit, Init
  <1> QED
    BY <1>1, <1>2 DEF WaveInv, DisjointWaves, RunningOf, WaveInOrder

\* Every step of any command keeps the waves apart
LEMMA NextWaveInv ==
  ASSUME OneSubmitter
  PROVE  ExtractionInv /\ WaveInv /\ [ExtractionNext]_allVars => WaveInv'
  <1> SUFFICES ASSUME ExtractionInv, WaveInv, [ExtractionNext]_allVars PROVE WaveInv'
    OBVIOUS
  <1>1. CASE UNCHANGED allVars
    <2>1. UNCHANGED <<batches, runs, pc, held, plan, wave>>
      BY <1>1 DEF allVars, vars, extVars
    <2> QED
      BY <2>1, SameRunsAreQuiet, QuietStep DEF WaveInv
  <1>2. CASE \E c \in Coordinator : (Start(c) \/ Advance(c)) /\ UNCHANGED extVars
    BY <1>2, CoordinatorsDisturbNoWave
  <1>3. CASE \E o \in Operator \ Submitter : OperatorOnly(o)
    BY <1>3, OperatorsDisturbNoWave
  <1>4. CASE \E w \in Submitter : SubmitterStep(w)
    <2>1. PICK w \in Submitter : SubmitterStep(w)
      BY <1>4
    <2>2. CASE \/ \E kind \in Kind : StartSubmitter(w, kind)
               \/ ListActiveRuns(w) \/ EndOfRound(w) \/ CountRemaining(w)
      BY <2>2, RoundsKeepWaves
    <2>3. CASE \/ CheckRun(w) \/ SubmitterFinishes(w)
               \/ SyncOutputRecord(w) /\ UNCHANGED extVars
      BY <2>3, ChecksKeepWaves
    <2>4. CASE SelectWave(w) \/ SelectReviewBand(w)
      BY <2>4, SelectionsKeepWaves
    <2>5. CASE SubmitChunk(w) \/ RecordChunk(w)
      BY <2>5, SubmissionsKeepWaves, RecordsKeepWaves
    <2> QED
      BY <2>1, <2>2, <2>3, <2>4, <2>5 DEF SubmitterStep
  <1>5. CASE \E d \in Direct : DirectStep(d)
    <2>1. Elsewhere
      BY <1>5, ZenonT(60) DEF DirectStep, StartDirect, SelectDirect, OpenDirectRun, CheckEpisode,
                  CallModel, FinalizeDirect, SelectDirectReview
    <2> QED
      BY <2>1, DirectsDisturbNoWave
  <1>6. CASE \E r \in RunIds : ServiceStep(runs[r].batch) /\ UNCHANGED extVars
    BY <1>6, ServiceDisturbsNoWave
  <1>7. CASE Killed
    BY <1>7, KilledKeepsWaves
  <1> QED
    BY <1>1, <1>2, <1>3, <1>4, <1>5, <1>6, <1>7 DEF ExtractionNext

\* A submitting command, alone of its kind but among any coordinators, operators
\* and direct commands, never has two batches RUNNING that ask for one episode:
\* however often it is killed within a wave, and however late it gets.
THEOREM WavesNeverOverlap ==
  ASSUME OneSubmitter
  PROVE  ExtractionSpec => []WavesDoNotOverlap
  <1>1. ExtractionSpec => []ExtractionInv
    BY ExtractionInvariant
  <1>2. WaveInv => WavesDoNotOverlap
    BY DEF WaveInv, DisjointWaves, WavesDoNotOverlap, RunningOf
  <1>3. ExtractionInit => WaveInv
    BY InitWaveInv
  <1>4. ExtractionInv /\ WaveInv /\ [ExtractionNext]_allVars => WaveInv'
    BY NextWaveInv
  <1> QED
    BY <1>1, <1>2, <1>3, <1>4, PTL DEF ExtractionSpec

=============================================================================
