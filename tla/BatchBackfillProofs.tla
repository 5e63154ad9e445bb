------------------------- MODULE BatchBackfillProofs -------------------------
(***************************************************************************)
(* Theorems of BatchBackfill: first for any number of coordinators,        *)
(* operators, labels, episodes and batches, then for a lone coordinator.   *)
(***************************************************************************)
EXTENDS BatchBackfill, FiniteSetTheorems, SequenceTheorems, WellFoundedInduction, TLAPS

----------------------------------------------------------------------------
(* Sequences of rows *)

\* What appending a row does to a table
LEMMA AppendRow ==
  ASSUME NEW S, NEW s \in Seq(S), NEW x \in S
  PROVE  /\ Append(s, x) \in Seq(S)
         /\ DOMAIN s = 1..Len(s)
         /\ Len(s) \in Nat
         /\ DOMAIN Append(s, x) = 1..(Len(s) + 1)
         /\ Len(Append(s, x)) = Len(s) + 1
         /\ \A i \in DOMAIN s : Append(s, x)[i] = s[i]
         /\ Append(s, x)[Len(s) + 1] = x
  BY AppendProperties, LenProperties

\* What updating a row does to a table
LEMMA UpdateRow ==
  ASSUME NEW S, NEW s \in Seq(S), NEW i \in DOMAIN s, NEW x \in S
  PROVE  /\ [s EXCEPT ![i] = x] \in Seq(S)
         /\ DOMAIN [s EXCEPT ![i] = x] = DOMAIN s
         /\ [s EXCEPT ![i] = x][i] = x
         /\ \A j \in DOMAIN s : j # i => [s EXCEPT ![i] = x][j] = s[j]
  BY ExceptSeq, LenProperties

----------------------------------------------------------------------------
(* Types *)

\* TypeOK, which is inductive, by its parts
TypeInv ==
  /\ Types
  /\ RunsHaveBatches
  /\ HeldIsARun
  /\ TodoIsAnswered
  /\ DraftExists

\* The initial state has its type
LEMMA InitTypeInv == Init => TypeInv
  <1> SUFFICES ASSUME Init PROVE TypeInv
    OBVIOUS
  <1> USE DEF Init
  <1>1. batches \in Seq(Batch) /\ runs \in Seq(Run) /\ RunIds = {}
    BY EmptySeq DEF RunIds
  <1>2. extraction \in [Phase -> [Episode -> Row]]
    BY DEF Row, Answer, NoRun
  <1>3. plan \in [Proc -> [phase : Phase, parent : Nat,
                           episodes : SUBSET Episode, batch : Nat]]
    BY DEF NoPlan, NoRun, Phase
  <1>4. Types
    BY <1>1, <1>2, <1>3 DEF Types, CoordinatorPc, Ended, NoRun
  <1>5. RunsHaveBatches /\ HeldIsARun /\ TodoIsAnswered /\ DraftExists
    BY <1>1 DEF RunsHaveBatches, HeldIsARun, TodoIsAnswered, DraftExists
  <1> QED
    BY <1>4, <1>5 DEF TypeInv

\* Selections are sets of episodes
LEMMA SelectionsAreEpisodes ==
  ASSUME NEW r
  PROVE  /\ SelectEpisodes \in SUBSET Episode
         /\ SelectSecondPassReviewEpisodes(r) \in SUBSET Episode
  BY DEF SelectEpisodes, SelectSecondPassReviewEpisodes, Newest

\* A lookup returns runs of the table
LEMMA LookupsAreRuns ==
  ASSUME NEW l, NEW m, NEW q
  PROVE  FindRunningRun(l, m, q) \subseteq RunIds
  BY DEF FindRunningRun

\* A lookup or submission plan keeps the types
LEMMA GetOrSubmitTypes ==
  ASSUME TypeInv, NEW c \in Coordinator, NEW phase \in Phase, NEW parent \in Nat,
         NEW episodes \in SUBSET Episode, NEW whenNone \in {"exhausted", "loop"},
         GetOrSubmit(c, phase, parent, episodes, whenNone)
  PROVE  TypeInv'
  <1> USE DEF TypeInv, GetOrSubmit, Goto, Hold, tables
  <1> DEFINE found == FindRunningRun(LabelOf[c], phase, parent)
  <1>0. c \in Proc /\ UNCHANGED <<batches, runs, extraction, faults, todo, passes, starts>>
    BY DEF Proc
  <1>1. found \subseteq RunIds /\ RunIds \subseteq Nat /\ NoRun \in Nat
    BY LookupsAreRuns, LenProperties DEF Types, RunIds, NoRun
  <1>2. PICK next \in CoordinatorPc, r \in Nat,
             q \in [phase : Phase, parent : Nat, episodes : SUBSET Episode, batch : Nat] :
          /\ pc' = [pc EXCEPT ![c] = next]
          /\ held' = [held EXCEPT ![c] = r]
          /\ plan' = [plan EXCEPT ![c] = q]
          /\ next \notin {"record", "sync", "review"}
          /\ next = "poll" => r \in RunIds
    <2>1. plan[c] \in [phase : Phase, parent : Nat, episodes : SUBSET Episode, batch : Nat]
      BY <1>0 DEF Types
    <2>2. plan = [plan EXCEPT ![c] = plan[c]]
      BY <1>0 DEF Types
    <2>3. CASE Resume(c, found)
      <3>1. PICK r \in found : held' = [held EXCEPT ![c] = r]
        BY <2>3 DEF Resume
      <3>2. pc' = [pc EXCEPT ![c] = "poll"] /\ plan' = [plan EXCEPT ![c] = plan[c]]
        BY <2>2, <2>3 DEF Resume
      <3>3. r \in Nat /\ r \in RunIds /\ "poll" \in CoordinatorPc
        BY <1>1 DEF CoordinatorPc
      <3> HIDE DEF found
      <3> QED
        BY <2>1, <3>1, <3>2, <3>3
    <2>4. CASE PlanBatch(c, phase, parent, episodes)
      <3> DEFINE q == [phase |-> phase, parent |-> parent, episodes |-> episodes, batch |-> 0]
      <3>1. q \in [phase : Phase, parent : Nat, episodes : SUBSET Episode, batch : Nat]
        OBVIOUS
      <3>2. /\ pc' = [pc EXCEPT ![c] = "submit"]
            /\ plan' = [plan EXCEPT ![c] = q]
            /\ held' = [held EXCEPT ![c] = NoRun]
        BY <2>4 DEF PlanBatch
      <3>3. "submit" \in CoordinatorPc
        BY DEF CoordinatorPc
      <3> HIDE DEF q, found
      <3> QED
        BY <3>1, <3>2, <3>3, <1>1
    <2>5. CASE NothingToSubmit(c, whenNone)
      <3>1. /\ pc' = [pc EXCEPT ![c] = whenNone]
            /\ plan' = [plan EXCEPT ![c] = plan[c]]
            /\ held' = [held EXCEPT ![c] = NoRun]
        BY <2>2, <2>5 DEF NothingToSubmit
      <3>2. whenNone \in CoordinatorPc
        BY DEF CoordinatorPc, Ended
      <3> HIDE DEF found
      <3> QED
        BY <2>1, <3>1, <3>2, <1>1
    <2> QED
      BY <2>3, <2>4, <2>5
  <1> HIDE DEF GetOrSubmit
  <1>3. Types'
    BY <1>0, <1>2 DEF Types
  <1>4. RunsHaveBatches'
    BY <1>0 DEF RunsHaveBatches, RunIds, BatchOf
  <1>5. HeldIsARun'
    BY <1>0, <1>2 DEF HeldIsARun, Types, RunIds
  <1>6. TodoIsAnswered'
    BY <1>0, <1>2 DEF TodoIsAnswered, Types, HeldBatch, BatchOf, Answered
  <1>7. DraftExists'
    BY <1>0, <1>2 DEF DraftExists, Types
  <1> QED
    BY <1>3, <1>4, <1>5, <1>6, <1>7

\* Steps that change locals only keep the types
LEMMA LocalStepTypes ==
  ASSUME TypeInv, NEW p \in Proc,
         \/ Start(p) \/ Crash(p) \/ FinishBatches(p)
         \/ PollCompleted(p) \/ PollWithoutOutput(p) \/ OperatorSync(p)
  PROVE  TypeInv'
  <1> USE DEF TypeInv, Goto, Hold, tables
  <1> USE DEF Start, Crash, FinishBatches, PollCompleted, PollWithoutOutput, OperatorSync
  <1>0. UNCHANGED tables
    OBVIOUS
  <1>1. RunIds \subseteq Nat
    BY LenProperties DEF Types, RunIds
  <1>2. NoPlan \in [phase : Phase, parent : Nat, episodes : SUBSET Episode, batch : Nat]
    BY DEF NoPlan, NoRun, Phase
  <1>3. ASSUME NEW r \in RunIds
        PROVE  Answered(BatchOf(r)) \subseteq Episode
    <2>1. BatchOf(r) \in Batch
      BY ElementOfSeq, LenProperties DEF RunsHaveBatches, Types, BatchOf
    <2> QED
      BY <2>1 DEF Answered, Batch
  <1>4. Types'
    <2>1. /\ batches' \in Seq(Batch) /\ runs' \in Seq(Run) /\ faults' \in Nat
          /\ extraction' \in [Phase -> [Episode -> Row]]
      BY <1>0 DEF Types
    <2>2. pc' \in [Proc -> CoordinatorPc]
      BY DEF Types, CoordinatorPc, Ended
    <2>3. held' \in [Proc -> Nat]
      BY <1>1, SMTT(60) DEF Types, NoRun
    <2>4. plan' \in [Proc -> [phase : Phase, parent : Nat,
                              episodes : SUBSET Episode, batch : Nat]]
      BY <1>2 DEF Types
    <2>5. todo' \in [Proc -> SUBSET Episode]
      <3>1. CASE PollCompleted(p)
        <4>1. Answered(HeldBatch(p)) \in SUBSET Episode
          BY <3>1, <1>3 DEF HeldIsARun, HeldBatch
        <4> QED
          BY <3>1, <4>1 DEF Types
      <3>2. CASE OperatorSync(p)
        <4>1. PICK r \in RunIds : todo' = [todo EXCEPT ![p] = Answered(BatchOf(r))]
          BY <3>2
        <4> QED
          BY <4>1, <1>3 DEF Types
      <3> QED
        BY <3>1, <3>2 DEF Types
    <2>6. passes' \in [Proc -> Nat] /\ starts' \in [Proc -> Nat]
      <3>1. CASE Start(p)
        BY <3>1 DEF Types
      <3>2. CASE OperatorSync(p)
        BY <3>2 DEF Types
      <3> QED
        BY <3>1, <3>2 DEF Types
    <2> QED
      BY <2>1, <2>2, <2>3, <2>4, <2>5, <2>6 DEF Types
  <1>5. RunsHaveBatches'
    BY <1>0 DEF RunsHaveBatches, RunIds, BatchOf
  <1>6. HeldIsARun'
    BY <1>0 DEF HeldIsARun, Types, RunIds, Ended
  <1>7. TodoIsAnswered'
    <2> SUFFICES ASSUME NEW q \in Proc, pc'[q] = "sync"
                 PROVE  /\ BatchOf(held'[q]).state = "completed"
                        /\ todo'[q] \subseteq Answered(BatchOf(held'[q]))
      BY <1>0 DEF TodoIsAnswered, HeldBatch, BatchOf, Answered
    <2>1. CASE q # p
      BY <2>1 DEF TodoIsAnswered, Types, HeldBatch
    <2>2. CASE q = p /\ PollCompleted(p)
      BY <2>2 DEF Types, HeldBatch
    <2>3. CASE q = p /\ OperatorSync(p)
      <3>1. PICK r \in RunIds : /\ BatchOf(r).state = "completed"
                                /\ held' = [held EXCEPT ![p] = r]
                                /\ todo' = [todo EXCEPT ![p] = Answered(BatchOf(r))]
        BY <2>3
      <3> QED
        BY <3>1, <2>3 DEF Types
    <2>4. CASE q = p /\ ~PollCompleted(p) /\ ~OperatorSync(p)
      BY <2>4 DEF Types, Ended
    <2> QED
      BY <2>1, <2>2, <2>3, <2>4
  <1>8. DraftExists'
    BY <1>0 DEF DraftExists, Types, Ended
  <1> QED
    BY <1>4, <1>5, <1>6, <1>7, <1>8

\* What setting a status does to the rows of ExtractionRun
LEMMA SetStatusEffect ==
  ASSUME TypeInv, NEW r \in RunIds, NEW status \in RunStatus, SetStatus(r, status)
  PROVE  /\ runs' \in Seq(Run)
         /\ RunIds' = RunIds
         /\ runs'[r].status = status
         /\ \A s \in RunIds : /\ runs'[s].batch = runs[s].batch
                              /\ runs'[s].phase = runs[s].phase
                              /\ runs'[s].label = runs[s].label
                              /\ runs'[s].parent = runs[s].parent
                              /\ s # r => runs'[s] = runs[s]
  <1>1. runs \in Seq(Run) /\ r \in DOMAIN runs /\ runs[r] \in Run
    BY ElementOfSeq, LenProperties DEF TypeInv, Types, RunIds
  <1> DEFINE row == [runs[r] EXCEPT !.status = status]
  <1>2. row \in Run /\ runs' = [runs EXCEPT ![r] = row]
    BY <1>1 DEF Run, SetStatus
  <1>3. /\ row.status = status /\ row.batch = runs[r].batch /\ row.phase = runs[r].phase
        /\ row.label = runs[r].label /\ row.parent = runs[r].parent
    BY <1>1 DEF Run
  <1> HIDE DEF row
  <1>4. /\ runs' \in Seq(Run) /\ DOMAIN runs' = DOMAIN runs /\ runs'[r] = row
        /\ \A s \in DOMAIN runs : s # r => runs'[s] = runs[s]
    BY <1>1, <1>2, UpdateRow
  <1> QED
    BY <1>3, <1>4 DEF RunIds

\* Runs and their batches are well formed
LEMMA RowsHaveTypes ==
  ASSUME TypeInv, NEW r \in RunIds
  PROVE  runs[r] \in Run /\ BatchOf(r) \in Batch
  <1>1. runs \in Seq(Run) /\ batches \in Seq(Batch)
    BY DEF TypeInv, Types
  <1>2. r \in DOMAIN runs /\ runs[r].batch \in DOMAIN batches
    BY DEF RunIds, TypeInv, RunsHaveBatches
  <1> QED
    BY <1>1, <1>2, ElementOfSeq, LenProperties DEF BatchOf

\* What recording a run does to the rows of ExtractionRun
LEMMA RecordEffect ==
  ASSUME TypeInv, NEW c \in Coordinator, RecordRun(c), NEW n, n = Len(runs) + 1
  PROVE  /\ runs' \in Seq(Run) /\ Len(runs') = n
         /\ RunIds' = RunIds \cup {n} /\ n \notin RunIds
         /\ \A r \in RunIds : runs'[r] = runs[r]
         /\ runs'[n].status = "running"
         /\ runs'[n].label = LabelOf[c]
         /\ runs'[n].phase = plan[c].phase
         /\ runs'[n].parent = plan[c].parent
         /\ runs'[n].batch = plan[c].batch
  <1> DEFINE row == [status |-> "running", label |-> LabelOf[c], phase |-> plan[c].phase,
                     parent |-> plan[c].parent, batch |-> plan[c].batch]
  <1>1. plan[c].phase \in Phase /\ plan[c].parent \in Nat /\ plan[c].batch \in Nat
    BY DEF TypeInv, Types, Proc
  <1>2. row \in Run
    BY <1>1, BackfillAssumption DEF Run, RunStatus
  <1>3. runs' = Append(runs, row) /\ runs \in Seq(Run)
    BY DEF RecordRun, TypeInv, Types
  <1>4. /\ row.status = "running" /\ row.label = LabelOf[c] /\ row.phase = plan[c].phase
        /\ row.parent = plan[c].parent /\ row.batch = plan[c].batch
    OBVIOUS
  <1> HIDE DEF row
  <1>5. /\ DOMAIN runs = 1..Len(runs) /\ Len(runs) \in Nat
        /\ DOMAIN runs' = 1..n /\ runs' \in Seq(Run) /\ Len(runs') = n
        /\ \A r \in DOMAIN runs : runs'[r] = runs[r]
        /\ runs'[n] = row
    BY <1>2, <1>3, AppendRow
  <1>6. DOMAIN runs' = DOMAIN runs \cup {n} /\ n \notin DOMAIN runs
    BY <1>5
  <1> QED
    BY <1>4, <1>5, <1>6 DEF RunIds

\* What persisting a line does to the rows of EpisodeGuestExtraction
LEMMA SyncEffect ==
  ASSUME TypeInv, NEW p \in Proc, SyncOutputRecord(p)
  PROVE  \E r \in RunIds, m \in Phase, e \in Episode :
           /\ r = held[p] /\ m = runs[r].phase
           /\ HeldBatch(p).state = "completed"
           /\ e \in HeldBatch(p).episodes
           /\ todo'[p] = todo[p] \ {e}
           /\ (Succeeded(m, e))' <=> HeldBatch(p).answer[e] \in Parsed
           /\ \A n \in Phase, f \in Episode :
                n # m \/ f # e => ((Succeeded(n, f))' <=> Succeeded(n, f))
  <1>1. pc[p] = "sync" /\ held[p] \in RunIds
    BY DEF SyncOutputRecord, TypeInv, HeldIsARun
  <1>2. PICK r \in RunIds, m \in Phase : r = held[p] /\ m = runs[r].phase
    BY <1>1, RowsHaveTypes DEF Run
  <1>3. PICK e \in todo[p] :
          /\ extraction' = [extraction EXCEPT ![m][e] = Persist(@, r, HeldBatch(p).answer[e])]
          /\ todo' = [todo EXCEPT ![p] = @ \ {e}]
    BY <1>2 DEF SyncOutputRecord
  <1>4. /\ HeldBatch(p).state = "completed" /\ todo'[p] = todo[p] \ {e}
        /\ e \in HeldBatch(p).episodes /\ e \in Episode
    BY <1>1, <1>3 DEF TypeInv, TodoIsAnswered, Types, Answered
  <1>5. extraction \in [Phase -> [Episode -> Row]]
    BY DEF TypeInv, Types
  <1> DEFINE row == Persist(extraction[m][e], r, HeldBatch(p).answer[e])
  <1>6. row.status = "succeeded" <=> HeldBatch(p).answer[e] \in Parsed
    <2>1. extraction[m][e] \in Row
      BY <1>4, <1>5
    <2>2. CASE HeldBatch(p).answer[e] \in Parsed
      BY <2>2 DEF Persist
    <2>3. CASE HeldBatch(p).answer[e] \notin Parsed
      BY <2>1, <2>3 DEF Persist, Row
    <2> QED
      BY <2>2, <2>3
  <1>7. /\ extraction'[m][e] = row
        /\ \A n \in Phase, f \in Episode :
             n # m \/ f # e => extraction'[n][f] = extraction[n][f]
    BY <1>3, <1>4, <1>5
  <1> HIDE DEF row
  <1>8. /\ (Succeeded(m, e))' <=> HeldBatch(p).answer[e] \in Parsed
        /\ \A n \in Phase, f \in Episode :
             n # m \/ f # e => ((Succeeded(n, f))' <=> Succeeded(n, f))
    BY <1>6, <1>7 DEF Succeeded
  <1> QED
    BY <1>2, <1>4, <1>8

\* The status a finished run gets is a status
LEMMA FinalStatusIsAStatus ==
  ASSUME NEW b PROVE FinalStatus(b) \in RunStatus \ {"running"}
  BY DEF FinalStatus, RunStatus

\* A step that changes run statuses only, with the locals of the process it ends
LEMMA StatusStepTypes ==
  ASSUME TypeInv, NEW p \in Proc, NEW r \in RunIds, NEW status \in RunStatus,
         SetStatus(r, status),
         NEW next \in Ended \cup {"loop", "review"},
         UNCHANGED <<faults, batches, extraction, plan, todo, starts>>,
         Goto(p, next),
         held' = held \/ (Hold(p, NoRun) /\ next # "review"),
         next = "review" => pc[p] = "sync",
         passes' \in [Proc -> Nat]
  PROVE  TypeInv'
  <1> USE DEF TypeInv, Goto, Hold
  <1>1. /\ runs' \in Seq(Run) /\ RunIds' = RunIds
        /\ \A s \in RunIds : /\ runs'[s].batch = runs[s].batch
                             /\ runs'[s].phase = runs[s].phase
    BY SetStatusEffect
  <1>2. held' \in [Proc -> Nat] /\ pc' \in [Proc -> CoordinatorPc]
    <2>1. held \in [Proc -> Nat] /\ pc \in [Proc -> CoordinatorPc] /\ NoRun \in Nat
      BY DEF Types, NoRun
    <2>2. next \in CoordinatorPc
      BY DEF CoordinatorPc
    <2>3. held' \in [Proc -> Nat]
      BY <2>1
    <2> QED
      BY <2>1, <2>2, <2>3
  <1>3. Types'
    BY <1>1, <1>2 DEF Types
  <1>4. RunsHaveBatches'
    BY <1>1 DEF RunsHaveBatches, BatchOf
  <1>5. HeldIsARun'
    BY <1>1 DEF HeldIsARun, Types, Ended
  <1>6. TodoIsAnswered'
    <2> SUFFICES ASSUME NEW q \in Proc, pc'[q] = "sync"
                 PROVE  /\ batches[runs'[held'[q]].batch].state = "completed"
                        /\ todo[q] \subseteq Answered(batches[runs'[held'[q]].batch])
      BY DEF TodoIsAnswered, HeldBatch, BatchOf, Answered
    <2>1. q # p /\ held'[q] = held[q] /\ pc[q] = "sync"
      BY DEF Types, Ended
    <2>2. held[q] \in RunIds
      BY <2>1 DEF HeldIsARun
    <2>3. batches[runs'[held'[q]].batch] = HeldBatch(q)
      BY <1>1, <2>1, <2>2 DEF HeldBatch, BatchOf
    <2> QED
      BY <2>1, <2>3 DEF TodoIsAnswered
  <1>7. DraftExists'
    BY DEF DraftExists, Types, Ended
  <1> QED
    BY <1>3, <1>4, <1>5, <1>6, <1>7

\* Ending a run keeps the types
LEMMA EndRunTypes ==
  ASSUME TypeInv, NEW p \in Proc,
         \/ PollFailed(p) \/ FinishFirstPass(p) \/ FinishSecondPass(p) \/ OperatorFinish(p)
  PROVE  TypeInv'
  <1>1. held[p] \in RunIds
    BY DEF TypeInv, HeldIsARun, PollFailed, FinishFirstPass, FinishSecondPass,
           OperatorFinish, FinalizeExtractionRun
  <1>2. passes \in [Proc -> Nat]
    BY DEF TypeInv, Types
  <1>3. CASE PollFailed(p)
    BY <1>1, <1>2, <1>3, StatusStepTypes DEF PollFailed, RunStatus, Ended, Hold
  <1>4. CASE FinishFirstPass(p)
    <2>1. passes' \in [Proc -> Nat]
      BY <1>2, <1>4 DEF FinishFirstPass
    <2>2. /\ SetStatus(held[p], FinalStatus(HeldBatch(p)))
          /\ Goto(p, "review")
          /\ UNCHANGED <<faults, batches, extraction, plan, todo, starts>>
          /\ held' = held
          /\ pc[p] = "sync"
      BY <1>4 DEF FinishFirstPass, FinalizeExtractionRun
    <2>3. FinalStatus(HeldBatch(p)) \in RunStatus
      BY FinalStatusIsAStatus
    <2> QED
      BY <1>1, <2>1, <2>2, <2>3, StatusStepTypes
  <1>5. CASE FinishSecondPass(p)
    BY <1>1, <1>2, <1>5, StatusStepTypes, FinalStatusIsAStatus
    DEF FinishSecondPass, FinalizeExtractionRun
  <1>6. CASE OperatorFinish(p)
    BY <1>1, <1>2, <1>6, StatusStepTypes, FinalStatusIsAStatus
    DEF OperatorFinish, FinalizeExtractionRun, Ended
  <1> QED
    BY <1>3, <1>4, <1>5, <1>6

\* The commands of an operator that set a status keep the types
LEMMA MarkTypes ==
  ASSUME TypeInv, NEW o \in Proc, OperatorMarkFailed(o) \/ OperatorMarkDuplicate(o)
  PROVE  TypeInv'
  <1> USE DEF TypeInv
  <1>1. PICK r \in RunIds : SetStatus(r, "failed")
    BY DEF OperatorMarkFailed, OperatorMarkDuplicate
  <1>2. UNCHANGED <<faults, batches, extraction, pc, held, plan, todo, passes>>
    BY DEF OperatorMarkFailed, OperatorMarkDuplicate, locals
  <1>3. starts' \in [Proc -> Nat]
    <2>1. starts' = starts \/ starts' = [starts EXCEPT ![o] = @ + 1]
      BY DEF OperatorMarkFailed, OperatorMarkDuplicate, locals
    <2>2. starts \in [Proc -> Nat]
      BY DEF Types
    <2> QED
      BY <2>1, <2>2
  <1>4. /\ runs' \in Seq(Run) /\ RunIds' = RunIds
        /\ \A s \in RunIds : /\ runs'[s].batch = runs[s].batch
                             /\ runs'[s].phase = runs[s].phase
    BY <1>1, SetStatusEffect DEF RunStatus
  <1>5. Types'
    BY <1>2, <1>3, <1>4 DEF Types
  <1>6. RunsHaveBatches' /\ HeldIsARun' /\ DraftExists'
    BY <1>2, <1>4 DEF RunsHaveBatches, BatchOf, HeldIsARun, DraftExists
  <1>7. TodoIsAnswered'
    BY <1>2, <1>4 DEF TodoIsAnswered, HeldBatch, BatchOf, Answered, HeldIsARun
  <1> QED
    BY <1>5, <1>6, <1>7

\* Persisting a line keeps the types
LEMMA SyncTypes ==
  ASSUME TypeInv, NEW p \in Proc, SyncOutputRecord(p)
  PROVE  TypeInv'
  <1> USE DEF TypeInv
  <1>1. PICK e \in todo[p] :
          /\ extraction' = [extraction EXCEPT ![runs[held[p]].phase][e] =
                              Persist(@, held[p], HeldBatch(p).answer[e])]
          /\ todo' = [todo EXCEPT ![p] = @ \ {e}]
    BY DEF SyncOutputRecord
  <1>2. UNCHANGED <<faults, batches, runs, pc, held, plan, passes, starts>>
    BY DEF SyncOutputRecord
  <1>3. held[p] \in RunIds /\ held[p] \in Nat
    BY DEF SyncOutputRecord, HeldIsARun, Types
  <1>4. runs[held[p]] \in Run /\ HeldBatch(p) \in Batch
    BY <1>3, ElementOfSeq, LenProperties
    DEF RunsHaveBatches, HeldBatch, BatchOf, Types, RunIds
  <1>5. e \in Episode
    BY DEF Types
  <1>6. /\ HeldBatch(p).answer[e] \in Answer
        /\ runs[held[p]].phase \in Phase
    BY <1>4, <1>5 DEF Batch, Run
  <1>7. extraction[runs[held[p]].phase][e] \in Row
    BY <1>5, <1>6 DEF Types
  <1>8. Persist(extraction[runs[held[p]].phase][e], held[p], HeldBatch(p).answer[e]) \in Row
    BY <1>3, <1>6, <1>7 DEF Persist, Row
  <1>9. extraction' \in [Phase -> [Episode -> Row]]
    BY <1>1, <1>5, <1>6, <1>8 DEF Types
  <1>10. todo' \in [Proc -> SUBSET Episode]
    BY <1>1 DEF Types
  <1>11. Types'
    BY <1>2, <1>9, <1>10 DEF Types
  <1>12. RunsHaveBatches' /\ HeldIsARun' /\ DraftExists'
    BY <1>2 DEF RunsHaveBatches, RunIds, BatchOf, HeldIsARun, DraftExists
  <1>13. TodoIsAnswered'
    <2>1. \A q \in Proc : todo'[q] \subseteq todo[q]
      BY <1>1 DEF Types
    <2> QED
      BY <1>2, <2>1 DEF TodoIsAnswered, HeldBatch, BatchOf, Answered
  <1> QED
    BY <1>11, <1>12, <1>13

\* A batch handed to the service keeps the types
LEMMA SubmitTypes ==
  ASSUME TypeInv, NEW c \in Proc, SubmitBatch(c)
  PROVE  TypeInv'
  <1> USE DEF TypeInv, Goto
  <1> DEFINE b == [state |-> "in_progress", phase |-> plan[c].phase,
                   episodes |-> plan[c].episodes, answer |-> NoAnswer]
             n == Len(batches) + 1
  <1>1. /\ batches' = Append(batches, b)
        /\ plan' = [plan EXCEPT ![c].batch = n]
        /\ pc' = [pc EXCEPT ![c] = "record"]
        /\ UNCHANGED <<faults, runs, extraction, held, todo, passes, starts>>
    BY DEF SubmitBatch
  <1>2. plan[c] \in [phase : Phase, parent : Nat, episodes : SUBSET Episode, batch : Nat]
    BY DEF Types
  <1>3. b \in Batch
    BY <1>2 DEF Batch, NoAnswer, Answer
  <1>4. b.phase = plan[c].phase /\ b.episodes = plan[c].episodes
    OBVIOUS
  <1> HIDE DEF b
  <1>5. /\ batches' \in Seq(Batch)
        /\ DOMAIN batches = 1..Len(batches)
        /\ Len(batches) \in Nat
        /\ DOMAIN batches' = 1..n
        /\ \A i \in DOMAIN batches : batches'[i] = batches[i]
        /\ batches'[n] = b
    BY <1>1, <1>3, AppendRow DEF Types
  <1>6. n \in DOMAIN batches' /\ n \in Nat /\ DOMAIN batches \subseteq DOMAIN batches'
    BY <1>5
  <1> HIDE DEF n
  <1>7. plan' \in [Proc -> [phase : Phase, parent : Nat,
                           episodes : SUBSET Episode, batch : Nat]]
    BY <1>1, <1>2, <1>6 DEF Types
  <1>8. pc' \in [Proc -> CoordinatorPc]
    BY <1>1 DEF Types, CoordinatorPc
  <1>9. Types'
    BY <1>1, <1>5, <1>7, <1>8 DEF Types
  <1>10. RunsHaveBatches'
    BY <1>1, <1>5, <1>6 DEF RunsHaveBatches, RunIds, BatchOf
  <1>11. HeldIsARun'
    BY <1>1 DEF HeldIsARun, RunIds, Types
  <1>12. TodoIsAnswered'
    <2> SUFFICES ASSUME NEW q \in Proc, pc'[q] = "sync"
                 PROVE  /\ batches'[runs[held[q]].batch].state = "completed"
                        /\ todo[q] \subseteq Answered(batches'[runs[held[q]].batch])
      <3> HIDE DEF TypeInv
      <3> QED
        BY <1>1 DEF TodoIsAnswered, HeldBatch, BatchOf
    <2>1. pc[q] = "sync"
      BY <1>1 DEF Types
    <2>2. batches'[runs[held[q]].batch] = HeldBatch(q)
      BY <2>1, <1>5 DEF HeldBatch, BatchOf, HeldIsARun, RunsHaveBatches
    <2> QED
      BY <2>1, <2>2 DEF TodoIsAnswered
  <1>13. DraftExists'
    <2> SUFFICES ASSUME NEW q \in Proc, pc'[q] = "record"
                 PROVE  /\ plan'[q].batch \in DOMAIN batches'
                        /\ batches'[plan'[q].batch].phase = plan'[q].phase
                        /\ batches'[plan'[q].batch].episodes = plan'[q].episodes
      BY DEF DraftExists
    <2>1. CASE q = c
      <3>1. plan'[c].batch = n /\ plan'[c].phase = plan[c].phase
                              /\ plan'[c].episodes = plan[c].episodes
        BY <1>1, <1>2 DEF Types
      <3> QED
        BY <2>1, <3>1, <1>4, <1>5, <1>6
    <2>2. CASE q # c
      <3>1. pc[q] = "record" /\ plan'[q] = plan[q]
        BY <2>2, <1>1 DEF Types
      <3> QED
        BY <3>1, <1>5, <1>6 DEF DraftExists
    <2> QED
      BY <2>1, <2>2
  <1> QED
    BY <1>9, <1>10, <1>11, <1>12, <1>13

\* The row of a submitted batch keeps the types
LEMMA RecordTypes ==
  ASSUME TypeInv, BackfillAssumption, NEW c \in Coordinator, RecordRun(c)
  PROVE  TypeInv'
  <1> USE DEF TypeInv, Goto, Hold
  <1> DEFINE row == [status |-> "running", label |-> LabelOf[c], phase |-> plan[c].phase,
                     parent |-> plan[c].parent, batch |-> plan[c].batch]
             n == Len(runs) + 1
  <1>1. /\ runs' = Append(runs, row)
        /\ held' = [held EXCEPT ![c] = n]
        /\ plan' = [plan EXCEPT ![c] = NoPlan]
        /\ pc' = [pc EXCEPT ![c] = "poll"]
        /\ UNCHANGED <<faults, batches, extraction, todo, passes, starts>>
        /\ pc[c] = "record"
    BY DEF RecordRun
  <1>2. c \in Proc /\ plan[c] \in [phase : Phase, parent : Nat,
                                   episodes : SUBSET Episode, batch : Nat]
    BY DEF Types, Proc
  <1>3. row \in Run
    BY <1>2 DEF Run, RunStatus, BackfillAssumption
  <1>4. row.batch \in DOMAIN batches /\ batches[row.batch].phase = row.phase
    BY <1>1, <1>2 DEF DraftExists
  <1> HIDE DEF row
  <1>5. /\ runs' \in Seq(Run)
        /\ RunIds = 1..Len(runs)
        /\ Len(runs) \in Nat
        /\ RunIds' = 1..n
        /\ \A r \in RunIds : runs'[r] = runs[r]
        /\ runs'[n] = row
    BY <1>1, <1>3, AppendRow DEF Types, RunIds
  <1>6. n \in RunIds' /\ n \in Nat /\ RunIds \subseteq RunIds' /\ RunIds' = RunIds \cup {n}
    BY <1>5
  <1> HIDE DEF n
  <1>7. NoPlan \in [phase : Phase, parent : Nat, episodes : SUBSET Episode, batch : Nat]
    BY DEF NoPlan, NoRun, Phase
  <1>8. Types'
    <2>1. held' \in [Proc -> Nat]
      BY <1>1, <1>6 DEF Types
    <2>2. pc' \in [Proc -> CoordinatorPc]
      BY <1>1 DEF Types, CoordinatorPc
    <2>3. plan' \in [Proc -> [phase : Phase, parent : Nat,
                             episodes : SUBSET Episode, batch : Nat]]
      BY <1>1, <1>7 DEF Types
    <2> QED
      BY <1>1, <1>5, <2>1, <2>2, <2>3 DEF Types
  <1>9. RunsHaveBatches'
    BY <1>1, <1>4, <1>5, <1>6 DEF RunsHaveBatches, BatchOf
  <1>10. HeldIsARun'
    BY <1>1, <1>2, <1>6 DEF HeldIsARun, Types
  <1>11. TodoIsAnswered'
    <2> SUFFICES ASSUME NEW q \in Proc, pc'[q] = "sync"
                 PROVE  /\ batches[runs'[held'[q]].batch].state = "completed"
                        /\ todo[q] \subseteq Answered(batches[runs'[held'[q]].batch])
      <3> HIDE DEF TypeInv
      <3> QED
        BY <1>1 DEF TodoIsAnswered, HeldBatch, BatchOf
    <2>1. pc[q] = "sync" /\ held'[q] = held[q]
      BY <1>1, <1>2 DEF Types
    <2>2. runs'[held'[q]] = runs[held[q]]
      BY <2>1, <1>5 DEF HeldIsARun
    <2> QED
      BY <2>1, <2>2 DEF TodoIsAnswered, HeldBatch, BatchOf
  <1>12. DraftExists'
    BY <1>1, <1>2 DEF DraftExists, Types
  <1> QED
    BY <1>8, <1>9, <1>10, <1>11, <1>12

\* What the service does to a batch keeps the types
LEMMA ServiceTypes ==
  ASSUME TypeInv, BackfillAssumption, NEW i \in DOMAIN batches, ServiceStep(i)
  PROVE  TypeInv'
  <1> USE DEF TypeInv
  <1>0. i \in DOMAIN batches /\ batches[i] \in Batch
    BY ElementOfSeq, LenProperties DEF Types
  <1>1. PICK b \in Batch : /\ batches' = [batches EXCEPT ![i] = b]
                           /\ b.phase = batches[i].phase
                           /\ b.episodes = batches[i].episodes
    <2>1. CASE BatchCompletes(i)
      <3>1. PICK f \in [Episode -> Answer] :
              batches' = [batches EXCEPT ![i].state = "completed", ![i].answer = f]
        BY <2>1 DEF BatchCompletes, AnswersOf
      <3> DEFINE b == [batches[i] EXCEPT !.state = "completed", !.answer = f]
      <3>2. b \in Batch /\ b.phase = batches[i].phase /\ b.episodes = batches[i].episodes
        BY <1>0, <3>1 DEF Batch
      <3>3. batches' = [batches EXCEPT ![i] = b]
        BY <1>0, <3>1 DEF Batch
      <3> HIDE DEF b
      <3> QED
        BY <3>2, <3>3
    <2>2. CASE BatchFails(i)
      <3> DEFINE b == [batches[i] EXCEPT !.state = "failed"]
      <3>2. b \in Batch /\ b.phase = batches[i].phase /\ b.episodes = batches[i].episodes
        BY <1>0 DEF Batch
      <3>3. batches' = [batches EXCEPT ![i] = b]
        BY <1>0, <2>2 DEF BatchFails
      <3> HIDE DEF b
      <3> QED
        BY <3>2, <3>3
    <2> QED
      BY <2>1, <2>2 DEF ServiceStep
  <1>2. batches[i].state = "in_progress" /\ UNCHANGED <<runs, extraction, locals>>
    BY DEF ServiceStep, BatchCompletes, BatchFails
  <1>3. faults' \in Nat
    <2>1. CASE BatchCompletes(i)
      <3>1. PICK f \in [Episode -> Answer] :
              faults' = faults + Cardinality({e \in batches[i].episodes : f[e] \notin Parsed})
        BY <2>1 DEF BatchCompletes, AnswersOf, Fault
      <3> DEFINE S == {e \in batches[i].episodes : f[e] \notin Parsed}
      <3>2. S \subseteq Episode
        BY <1>0 DEF Batch
      <3>3. IsFiniteSet(Episode)
        BY FS_Interval DEF Episode, BackfillAssumption
      <3>4. Cardinality(S) \in Nat
        BY <3>2, <3>3, FS_Subset, FS_CardinalityType
      <3> QED
        BY <3>1, <3>4 DEF Types
    <2>2. CASE BatchFails(i)
      BY <2>2 DEF BatchFails, Fault, Types
    <2> QED
      BY <2>1, <2>2 DEF ServiceStep
  <1>4. /\ batches' \in Seq(Batch)
        /\ DOMAIN batches' = DOMAIN batches
        /\ batches'[i] = b
        /\ \A j \in DOMAIN batches : j # i => batches'[j] = batches[j]
    BY <1>0, <1>1, UpdateRow DEF Types
  <1>5. \A j \in DOMAIN batches : /\ batches'[j].phase = batches[j].phase
                                  /\ batches'[j].episodes = batches[j].episodes
    BY <1>1, <1>4
  <1>6. Types'
    BY <1>2, <1>3, <1>4 DEF Types, locals
  <1>7. RunsHaveBatches'
    BY <1>2, <1>4, <1>5 DEF RunsHaveBatches, RunIds, BatchOf
  <1>8. HeldIsARun' /\ DraftExists'
    BY <1>2, <1>4, <1>5 DEF HeldIsARun, DraftExists, RunIds, locals
  <1>9. TodoIsAnswered'
    <2> SUFFICES ASSUME NEW q \in Proc, pc[q] = "sync"
                 PROVE  /\ batches'[runs[held[q]].batch].state = "completed"
                        /\ todo[q] \subseteq Answered(batches'[runs[held[q]].batch])
      BY <1>2 DEF TodoIsAnswered, HeldBatch, BatchOf, Answered, locals
    <2>1. held[q] \in RunIds /\ HeldBatch(q).state = "completed"
      BY DEF HeldIsARun, TodoIsAnswered
    <2>2. batches'[runs[held[q]].batch] = HeldBatch(q)
      BY <1>2, <1>4, <2>1 DEF RunsHaveBatches, HeldBatch, BatchOf
    <2> QED
      BY <2>2 DEF TodoIsAnswered
  <1> QED
    BY <1>6, <1>7, <1>8, <1>9

\* Every step keeps the types
LEMMA NextTypes ==
  ASSUME TypeInv, BackfillAssumption, [Next]_vars
  PROVE  TypeInv'
  <1>1. ASSUME NEW c \in Coordinator, CoordinatorStep(c)
        PROVE  TypeInv'
    <2>0. c \in Proc
      BY DEF Proc
    <2>1. CASE Start(c) \/ Crash(c) \/ FinishBatches(c) \/ PollCompleted(c) \/ PollWithoutOutput(c)
      BY <2>0, <2>1, LocalStepTypes
    <2>2. CASE GetOrSubmitFirstPass(c)
      BY <2>2, GetOrSubmitTypes, SelectionsAreEpisodes
      DEF GetOrSubmitFirstPass, Phase, NoRun
    <2>3. CASE GetOrSubmitSecondPass(c)
      <3>1. held[c] \in Nat
        BY <2>0 DEF TypeInv, Types
      <3> QED
        BY <2>3, <3>1, GetOrSubmitTypes, SelectionsAreEpisodes
        DEF GetOrSubmitSecondPass, Phase
    <2>4. CASE SubmitBatch(c)
      BY <2>0, <2>4, SubmitTypes
    <2>5. CASE RecordRun(c)
      BY <2>5, RecordTypes
    <2>6. CASE PollFailed(c) \/ FinishFirstPass(c) \/ FinishSecondPass(c)
      BY <2>0, <2>6, EndRunTypes
    <2>7. CASE SyncOutputRecord(c)
      BY <2>0, <2>7, SyncTypes
    <2> QED
      BY <1>1, <2>1, <2>2, <2>3, <2>4, <2>5, <2>6, <2>7 DEF CoordinatorStep, Advance
  <1>2. ASSUME NEW o \in Operator, OperatorStep(o)
        PROVE  TypeInv'
    <2>0. o \in Proc
      BY DEF Proc
    <2>1. CASE OperatorSync(o) \/ Crash(o)
      BY <2>0, <2>1, LocalStepTypes
    <2>2. CASE SyncOutputRecord(o)
      BY <2>0, <2>2, SyncTypes
    <2>3. CASE OperatorFinish(o)
      BY <2>0, <2>3, EndRunTypes
    <2>4. CASE OperatorMarkFailed(o) \/ OperatorMarkDuplicate(o)
      BY <2>0, <2>4, MarkTypes
    <2> QED
      BY <1>2, <2>1, <2>2, <2>3, <2>4 DEF OperatorStep
  <1>3. ASSUME NEW i \in DOMAIN batches, ServiceStep(i)
        PROVE  TypeInv'
    BY <1>3, ServiceTypes
  <1>4. CASE UNCHANGED vars
    BY <1>4 DEF vars, TypeInv, Types, RunsHaveBatches, RunIds, BatchOf, HeldIsARun,
                TodoIsAnswered, HeldBatch, Answered, DraftExists
  <1> QED
    BY <1>1, <1>2, <1>3, <1>4 DEF Next

\* Types and references: whatever the coordinators, the operators and the
\* service do, every table row and every local keeps its type, a run names an
\* existing batch of its own phase, and whoever polls, syncs or reviews holds a
\* run that exists.
THEOREM TypesAlways == Spec => []TypeInv
  <1>1. Init => TypeInv
    BY InitTypeInv
  <1>2. TypeInv /\ [Next]_vars => TypeInv'
    BY BackfillAssumption, NextTypes
  <1> QED
    BY <1>1, <1>2, PTL DEF Spec

\* TypeOK of the specification, for every value of the constants
THEOREM TypeCorrect == Spec => []TypeOK
  <1>1. TypeInv => TypeOK
    BY DEF TypeInv, TypeOK
  <1> QED
    BY <1>1, TypesAlways, PTL

\* Whatever a step changes of the runs, it appends one or sets the status of one,
\* and no step sets RUNNING.
LEMMA NextKeepsEnded ==
  ASSUME TypeInv, BackfillAssumption, [Next]_vars,
         NEW r \in RunIds, runs[r].status # "running"
  PROVE  runs'[r].status # "running"
  <1>1. ASSUME NEW s \in RunIds, NEW status \in RunStatus \ {"running"}, SetStatus(s, status)
        PROVE  runs'[r].status # "running"
    BY <1>1, SetStatusEffect
  <1>2. ASSUME NEW p \in Proc, \/ PollFailed(p) \/ FinishFirstPass(p) \/ FinishSecondPass(p)
                               \/ OperatorFinish(p)
        PROVE  runs'[r].status # "running"
    <2>1. held[p] \in RunIds
      BY <1>2 DEF TypeInv, HeldIsARun, PollFailed, FinishFirstPass, FinishSecondPass,
                  OperatorFinish, FinalizeExtractionRun
    <2>2. CASE PollFailed(p)
      BY <1>1, <2>1, <2>2 DEF PollFailed, RunStatus
    <2>3. CASE FinishFirstPass(p) \/ FinishSecondPass(p) \/ OperatorFinish(p)
      BY <1>1, <2>1, <2>3, FinalStatusIsAStatus
         DEF FinishFirstPass, FinishSecondPass, OperatorFinish, FinalizeExtractionRun
    <2> QED
      BY <1>2, <2>2, <2>3
  <1>3. ASSUME NEW o \in Operator, OperatorMarkFailed(o) \/ OperatorMarkDuplicate(o)
        PROVE  runs'[r].status # "running"
    BY <1>1, <1>3 DEF OperatorMarkFailed, OperatorMarkDuplicate, RunStatus
  <1>4. ASSUME NEW c \in Coordinator, RecordRun(c)
        PROVE  runs'[r].status # "running"
    <2>1. runs'[r] = runs[r]
      BY <1>4, RecordEffect
    <2> QED
      BY <2>1
  <1>5. CASE /\ ~\E p \in Proc : \/ PollFailed(p) \/ FinishFirstPass(p) \/ FinishSecondPass(p)
                                 \/ OperatorFinish(p)
             /\ ~\E o \in Operator : OperatorMarkFailed(o) \/ OperatorMarkDuplicate(o)
             /\ ~\E c \in Coordinator : RecordRun(c)
    <2>1. UNCHANGED runs
      BY <1>5 DEF Next, CoordinatorStep, OperatorStep, Advance, Start, Crash, FinishBatches,
         GetOrSubmitFirstPass, GetOrSubmitSecondPass, GetOrSubmit, SubmitBatch, PollCompleted,
         PollWithoutOutput, SyncOutputRecord, OperatorSync, ServiceStep, BatchCompletes,
         BatchFails, tables, vars, Proc
    <2> QED
      BY <2>1
  <1> QED
    BY <1>2, <1>3, <1>4, <1>5

\* Once ended, a run is never RUNNING again: neither a coordinator that
\* finalizes from a stale copy nor an operator who syncs or marks reopens it.
THEOREM EndedStaysEnded == Spec => EndedRunStaysEnded
  <1> DEFINE Stays == \A r \in RunIds : runs[r].status # "running" => runs'[r].status # "running"
  <1>1. TypeInv /\ [Next]_vars => [Stays]_vars
    BY BackfillAssumption, NextKeepsEnded
  <1> QED
    BY <1>1, TypesAlways, PTL DEF Spec, EndedRunStaysEnded

----------------------------------------------------------------------------
(* A lone coordinator: the deployment the weekly workflow makes, one job per *)
(* label and nobody at the manual commands.  It may crash between any two    *)
(* steps and be started again, any number of times.                          *)

\* One coordinator, no operator
Sole ==
  /\ Operator = {}
  /\ \A c, d \in Coordinator : c = d

----------------------------------------------------------------------------
(* Which runs there are, and what the coordinator is doing to them *)

IsRunning(r) == runs[r].status = "running"
FirstPasses == {r \in RunIds : runs[r].phase = "first_pass"}
SecondPasses == {r \in RunIds : runs[r].phase = "second_pass"}

\* Every run carries the label of the coordinator
LabelIsShared ==
  \A r \in RunIds, c \in Coordinator : runs[r].label = LabelOf[c]

\* At most one first pass is RUNNING
FirstPassIsAlone ==
  \A r, s \in FirstPasses : IsRunning(r) /\ IsRunning(s) => r = s

\* A first pass is reviewed once
ReviewedOnce ==
  \A r, s \in SecondPasses : runs[r].parent = runs[s].parent => r = s

\* A review follows a first pass that ended
ReviewFollows ==
  \A s \in SecondPasses : /\ runs[s].parent \in FirstPasses
                          /\ ~IsRunning(runs[s].parent)

\* A first pass that ended and was not reviewed
Unreviewed(r) ==
  /\ r \in FirstPasses
  /\ ~IsRunning(r)
  /\ \A s \in SecondPasses : runs[s].parent # r

\* What the lookup saw before a submission still holds when its run is recorded
PlanIsFree ==
  \A c \in Coordinator : pc[c] \in {"submit", "record"} =>
    /\ plan[c].phase = "first_pass" => \A r \in FirstPasses : ~IsRunning(r)
    /\ plan[c].phase = "second_pass" => Unreviewed(plan[c].parent)

\* A first pass is reviewed right after it ended
ReviewIsFree ==
  \A c \in Coordinator : pc[c] = "review" => Unreviewed(held[c])

RolesInv ==
  /\ LabelIsShared
  /\ FirstPassIsAlone
  /\ ReviewedOnce
  /\ ReviewFollows
  /\ PlanIsFree
  /\ ReviewIsFree
  /\ HeldRunIsRunning

----------------------------------------------------------------------------
(* Which results there are already when a run is synced *)

\* What the run has to extract was not there before it, and what is there of it
\* came from its own batch.
Fresh(r) ==
  \A e \in BatchOf(r).episodes :
    Succeeded(runs[r].phase, e) => /\ BatchOf(r).state = "completed"
                                   /\ BatchOf(r).answer[e] \in Parsed

FreshInv ==
  /\ \A r \in FirstPasses : IsRunning(r) => Fresh(r)
  /\ \A c \in Coordinator : pc[c] \in {"poll", "sync"} => Fresh(held[c])
  /\ \A c \in Coordinator : pc[c] \in {"submit", "record"} =>
       \A e \in plan[c].episodes : ~Succeeded(plan[c].phase, e)

\* The lines of the output file that are no longer to do are in the table
PersistedSoFar ==
  \A c \in Coordinator : pc[c] = "sync" =>
    \A e \in Answered(HeldBatch(c)) \ todo[c] :
      HeldBatch(c).answer[e] \in Parsed => Succeeded(runs[held[c]].phase, e)

SyncedInv ==
  /\ StatusFollowsBatch
  /\ PersistedSoFar
  /\ FinishedRunIsSynced

SoleInv == RolesInv /\ FreshInv /\ SyncedInv

\* What holds of the only coordinator holds of every coordinator
LEMMA OnlyOne ==
  ASSUME Sole, NEW c \in Coordinator
  PROVE  /\ \A d \in Coordinator : d = c
         /\ Proc = Coordinator
  BY DEF Sole, Proc

\* The initial state
LEMMA InitSole == Init => SoleInv
  <1> SUFFICES ASSUME Init PROVE SoleInv
    OBVIOUS
  <1>1. RunIds = {} /\ FirstPasses = {} /\ SecondPasses = {}
    BY DEF Init, RunIds, FirstPasses, SecondPasses
  <1>2. \A c \in Coordinator : pc[c] = "down"
    BY DEF Init, Proc
  <1>3. RolesInv
    BY <1>1, <1>2 DEF RolesInv, LabelIsShared, FirstPassIsAlone, ReviewedOnce, ReviewFollows,
                      PlanIsFree, ReviewIsFree, HeldRunIsRunning
  <1>4. FreshInv
    BY <1>1, <1>2 DEF FreshInv
  <1>5. SyncedInv
    BY <1>1, <1>2 DEF SyncedInv, StatusFollowsBatch, PersistedSoFar, FinishedRunIsSynced
  <1> QED
    BY <1>3, <1>4, <1>5 DEF SoleInv

\* Ended runs keep their status and their results while the batches of the runs
\* and the tables of the runs and of the extractions stay.
LEMMA SyncedFrame ==
  ASSUME TypeInv, SyncedInv, UNCHANGED <<runs, extraction>>,
         \A r \in RunIds : (BatchOf(r))' = BatchOf(r)
  PROVE  StatusFollowsBatch' /\ FinishedRunIsSynced'
  <1>1. RunIds' = RunIds
    BY DEF RunIds
  <1>2. StatusFollowsBatch'
    <2>1. \A r \in RunIds : (FinalStatus(BatchOf(r)))' = FinalStatus(BatchOf(r))
      BY DEF FinalStatus, Answered
    <2> QED
      BY <1>1, <2>1 DEF SyncedInv, StatusFollowsBatch
  <1>3. FinishedRunIsSynced'
    <2>1. \A r \in RunIds : (Answered(BatchOf(r)))' = Answered(BatchOf(r))
      BY DEF Answered
    <2> QED
      BY <1>1, <2>1 DEF SyncedInv, FinishedRunIsSynced, Succeeded
  <1> QED
    BY <1>2, <1>3

\* Steps that take the coordinator to a place where it holds nothing
LEMMA SoleIdle ==
  ASSUME Sole, TypeInv, SoleInv, NEW c \in Coordinator, UNCHANGED tables,
         pc'[c] \notin {"submit", "record", "poll", "sync", "review"}
  PROVE  SoleInv'
  <1>0. \A d \in Coordinator : d = c
    BY OnlyOne
  <1>1. UNCHANGED <<batches, runs, extraction>>
    BY DEF tables
  <1>2. /\ RunIds' = RunIds /\ FirstPasses' = FirstPasses /\ SecondPasses' = SecondPasses
        /\ \A r : (IsRunning(r))' = IsRunning(r) /\ (Fresh(r))' = Fresh(r)
    BY <1>1 DEF RunIds, FirstPasses, SecondPasses, IsRunning, Fresh, BatchOf, Succeeded
  <1>3. RolesInv'
    BY <1>0, <1>1, <1>2 DEF SoleInv, RolesInv, LabelIsShared, FirstPassIsAlone, ReviewedOnce,
       ReviewFollows, PlanIsFree, ReviewIsFree, HeldRunIsRunning
  <1>4. FreshInv'
    BY <1>0, <1>2 DEF SoleInv, FreshInv
  <1>5. SyncedInv'
    <2>1. StatusFollowsBatch'
      BY <1>1, SyncedFrame DEF SoleInv, BatchOf
    <2>2. PersistedSoFar'
      BY <1>0 DEF PersistedSoFar
    <2>3. FinishedRunIsSynced'
      BY <1>1, SyncedFrame DEF SoleInv, BatchOf
    <2> QED
      BY <2>1, <2>2, <2>3 DEF SyncedInv
  <1> QED
    BY <1>3, <1>4, <1>5 DEF SoleInv

\* Looking for a first pass: the run found is the only one RUNNING, and what is
\* selected instead was not extracted.
LEMMA SoleFirstPass ==
  ASSUME Sole, TypeInv, SoleInv, NEW c \in Coordinator, GetOrSubmitFirstPass(c)
  PROVE  SoleInv'
  <1> DEFINE found == FindRunningRun(LabelOf[c], "first_pass", NoRun)
  <1>0. (\A d \in Coordinator : d = c) /\ c \in Proc
    BY OnlyOne
  <1>1. UNCHANGED <<batches, runs, extraction>> /\ UNCHANGED tables
    BY DEF tables, GetOrSubmitFirstPass, GetOrSubmit
  <1>2. /\ RunIds' = RunIds /\ FirstPasses' = FirstPasses /\ SecondPasses' = SecondPasses
        /\ \A r : (IsRunning(r))' = IsRunning(r) /\ (Fresh(r))' = Fresh(r)
    BY <1>1 DEF RunIds, FirstPasses, SecondPasses, IsRunning, Fresh, BatchOf, Succeeded
  <1>3. found = {r \in FirstPasses : IsRunning(r)}
    BY DEF FindRunningRun, FirstPasses, IsRunning, SoleInv, RolesInv, LabelIsShared
  <1>4. \/ Resume(c, found)
        \/ found = {} /\ PlanBatch(c, "first_pass", NoRun, SelectEpisodes)
        \/ NothingToSubmit(c, "exhausted")
    BY DEF GetOrSubmitFirstPass, GetOrSubmit
  <1> HIDE DEF found
  <1>5. CASE NothingToSubmit(c, "exhausted")
    <2>1. pc'[c] = "exhausted"
      BY <1>0, <1>5 DEF NothingToSubmit, Goto, TypeInv, Types
    <2> QED
      BY <1>1, <2>1, SoleIdle
  <1>6. ASSUME \/ Resume(c, found)
               \/ found = {} /\ PlanBatch(c, "first_pass", NoRun, SelectEpisodes)
        PROVE  SoleInv'
    <2>1. \/ pc'[c] = "poll" /\ held'[c] \in found
          \/ /\ pc'[c] = "submit" /\ found = {}
             /\ plan'[c].phase = "first_pass" /\ plan'[c].episodes = SelectEpisodes
      <3>1. CASE Resume(c, found)
        BY <1>0, <3>1 DEF Resume, Goto, Hold, TypeInv, Types
      <3>2. CASE found = {} /\ PlanBatch(c, "first_pass", NoRun, SelectEpisodes)
        BY <1>0, <3>2 DEF PlanBatch, Goto, TypeInv, Types
      <3> QED
        BY <1>6, <3>1, <3>2
    <2>2. RolesInv'
      <3>1. PlanIsFree' /\ ReviewIsFree'
        BY <1>0, <1>2, <1>3, <2>1 DEF PlanIsFree, ReviewIsFree
      <3>2. HeldRunIsRunning'
        BY <1>0, <1>1, <1>3, <2>1 DEF HeldRunIsRunning, IsRunning
      <3> QED
        BY <1>1, <1>2, <3>1, <3>2 DEF SoleInv, RolesInv, LabelIsShared, FirstPassIsAlone,
           ReviewedOnce, ReviewFollows
    <2>3. FreshInv'
      <3>1. \A d \in Coordinator : pc'[d] \in {"poll", "sync"} => (Fresh(held[d]))'
        <4>1. ASSUME held'[c] \in found PROVE (Fresh(held[c]))'
          <5>1. Fresh(held'[c])
            BY <1>3, <4>1 DEF SoleInv, FreshInv
          <5> QED
            BY <1>1, <5>1 DEF Fresh, BatchOf, Succeeded
        <4> QED
          BY <1>0, <2>1, <4>1
      <3>2. \A e \in SelectEpisodes : ~Succeeded("first_pass", e)
        BY DEF SelectEpisodes, Newest
      <3>3. \A d \in Coordinator : pc'[d] \in {"submit", "record"} =>
              \A e \in plan'[d].episodes : ~(Succeeded(plan[d].phase, e))'
        BY <1>0, <1>1, <2>1, <3>2 DEF Succeeded
      <3> QED
        BY <1>2, <3>1, <3>3 DEF SoleInv, FreshInv
    <2>4. SyncedInv'
      <3>1. StatusFollowsBatch'
        BY <1>1, SyncedFrame DEF SoleInv, BatchOf
      <3>2. PersistedSoFar'
        BY <1>0, <2>1 DEF PersistedSoFar
      <3>3. FinishedRunIsSynced'
        BY <1>1, SyncedFrame DEF SoleInv, BatchOf
      <3> QED
        BY <3>1, <3>2, <3>3 DEF SyncedInv
    <2> QED
      BY <2>2, <2>3, <2>4 DEF SoleInv
  <1> QED
    BY <1>4, <1>5, <1>6

\* Looking for a second pass: there is none to resume, and what is selected was
\* not reviewed.
LEMMA SoleSecondPass ==
  ASSUME Sole, TypeInv, SoleInv, NEW c \in Coordinator, GetOrSubmitSecondPass(c)
  PROVE  SoleInv'
  <1> DEFINE found == FindRunningRun(LabelOf[c], "second_pass", held[c])
             chosen == SelectSecondPassReviewEpisodes(held[c])
  <1>0. (\A d \in Coordinator : d = c) /\ c \in Proc
    BY OnlyOne
  <1>1. UNCHANGED <<batches, runs, extraction>> /\ UNCHANGED tables
    BY DEF tables, GetOrSubmitSecondPass, GetOrSubmit
  <1>2. /\ RunIds' = RunIds /\ FirstPasses' = FirstPasses /\ SecondPasses' = SecondPasses
        /\ \A r : (IsRunning(r))' = IsRunning(r) /\ (Fresh(r))' = Fresh(r)
    BY <1>1 DEF RunIds, FirstPasses, SecondPasses, IsRunning, Fresh, BatchOf, Succeeded
  <1>3. Unreviewed(held[c])
    BY DEF GetOrSubmitSecondPass, SoleInv, RolesInv, ReviewIsFree
  <1>4. found = {}
    BY <1>3 DEF FindRunningRun, Unreviewed, SecondPasses
  <1>5. \/ PlanBatch(c, "second_pass", held[c], chosen)
        \/ NothingToSubmit(c, "loop")
    BY <1>4 DEF GetOrSubmitSecondPass, GetOrSubmit, Resume
  <1>6. \A e \in chosen : ~Succeeded("second_pass", e)
    BY DEF SelectSecondPassReviewEpisodes
  <1> HIDE DEF found, chosen
  <1>7. CASE NothingToSubmit(c, "loop")
    <2>1. pc'[c] = "loop"
      BY <1>0, <1>7 DEF NothingToSubmit, Goto, TypeInv, Types
    <2> QED
      BY <1>1, <2>1, SoleIdle
  <1>8. CASE PlanBatch(c, "second_pass", held[c], chosen)
    <2>1. /\ pc'[c] = "submit"
          /\ plan'[c].phase = "second_pass"
          /\ plan'[c].parent = held[c]
          /\ plan'[c].episodes = chosen
      BY <1>0, <1>8 DEF PlanBatch, Goto, TypeInv, Types
    <2>2. RolesInv'
      <3>1. (Unreviewed(plan[c].parent))'
        BY <1>1, <1>2, <1>3, <2>1 DEF Unreviewed, IsRunning
      <3>2. PlanIsFree' /\ ReviewIsFree' /\ HeldRunIsRunning'
        BY <1>0, <2>1, <3>1 DEF PlanIsFree, ReviewIsFree, HeldRunIsRunning
      <3> QED
        BY <1>1, <1>2, <3>2 DEF SoleInv, RolesInv, LabelIsShared, FirstPassIsAlone,
           ReviewedOnce, ReviewFollows
    <2>3. FreshInv'
      <3>1. \A d \in Coordinator : pc'[d] \in {"submit", "record"} =>
              \A e \in plan'[d].episodes : ~(Succeeded(plan[d].phase, e))'
        BY <1>0, <1>1, <1>6, <2>1 DEF Succeeded
      <3> QED
        BY <1>0, <1>2, <2>1, <3>1 DEF SoleInv, FreshInv
    <2>4. SyncedInv'
      <3>1. StatusFollowsBatch'
        BY <1>1, SyncedFrame DEF SoleInv, BatchOf
      <3>2. PersistedSoFar'
        BY <1>0, <2>1 DEF PersistedSoFar
      <3>3. FinishedRunIsSynced'
        BY <1>1, SyncedFrame DEF SoleInv, BatchOf
      <3> QED
        BY <3>1, <3>2, <3>3 DEF SyncedInv
    <2> QED
      BY <2>2, <2>3, <2>4 DEF SoleInv
  <1> QED
    BY <1>5, <1>7, <1>8

\* Creating the batch touches no run
LEMMA SoleSubmit ==
  ASSUME Sole, TypeInv, SoleInv, NEW c \in Coordinator, SubmitBatch(c)
  PROVE  SoleInv'
  <1>0. (\A d \in Coordinator : d = c) /\ c \in Proc
    BY OnlyOne
  <1>1. UNCHANGED <<runs, extraction>>
    BY DEF SubmitBatch
  <1>2. \A r \in RunIds : (BatchOf(r))' = BatchOf(r)
    <2> DEFINE b == [state |-> "in_progress", phase |-> plan[c].phase,
                     episodes |-> plan[c].episodes, answer |-> NoAnswer]
    <2>1. b \in Batch
      BY <1>0 DEF TypeInv, Types, Batch, NoAnswer, Answer
    <2>2. batches' = Append(batches, b) /\ batches \in Seq(Batch)
      BY DEF SubmitBatch, TypeInv, Types
    <2> HIDE DEF b
    <2>3. \A i \in DOMAIN batches : batches'[i] = batches[i]
      BY <2>1, <2>2, AppendRow
    <2> QED
      BY <1>1, <2>3 DEF BatchOf, TypeInv, RunsHaveBatches
  <1>3. /\ pc[c] = "submit" /\ pc'[c] = "record"
        /\ plan'[c].phase = plan[c].phase
        /\ plan'[c].parent = plan[c].parent
        /\ plan'[c].episodes = plan[c].episodes
    BY <1>0 DEF SubmitBatch, Goto, TypeInv, Types
  <1>4. /\ RunIds' = RunIds /\ FirstPasses' = FirstPasses /\ SecondPasses' = SecondPasses
        /\ \A r : (IsRunning(r))' = IsRunning(r)
        /\ \A r \in RunIds : (Fresh(r))' = Fresh(r)
    BY <1>1, <1>2 DEF RunIds, FirstPasses, SecondPasses, IsRunning, Fresh, Succeeded
  <1>5. RolesInv'
    <2>1. PlanIsFree'
      BY <1>0, <1>1, <1>3, <1>4 DEF SoleInv, RolesInv, PlanIsFree, Unreviewed
    <2>2. ReviewIsFree' /\ HeldRunIsRunning'
      BY <1>0, <1>3 DEF ReviewIsFree, HeldRunIsRunning
    <2> QED
      BY <1>1, <1>4, <2>1, <2>2 DEF SoleInv, RolesInv, LabelIsShared, FirstPassIsAlone,
         ReviewedOnce, ReviewFollows
  <1>6. FreshInv'
    <2>1. \A r \in FirstPasses : r \in RunIds
      BY DEF FirstPasses
    <2>2. \A d \in Coordinator : pc'[d] \in {"submit", "record"} =>
            \A e \in plan'[d].episodes : ~(Succeeded(plan[d].phase, e))'
      BY <1>0, <1>1, <1>3 DEF SoleInv, FreshInv, Succeeded
    <2> QED
      BY <1>0, <1>3, <1>4, <2>1, <2>2 DEF SoleInv, FreshInv
  <1>7. SyncedInv'
    <2>1. PersistedSoFar'
      BY <1>0, <1>3 DEF PersistedSoFar
    <2> QED
      BY <1>1, <1>2, <2>1, SyncedFrame DEF SoleInv, SyncedInv
  <1> QED
    BY <1>5, <1>6, <1>7 DEF SoleInv

\* The run that is recorded is what the plan said: alone, fresh and RUNNING
LEMMA SoleRecord ==
  ASSUME Sole, TypeInv, SoleInv, NEW c \in Coordinator, RecordRun(c)
  PROVE  SoleInv'
  <1> DEFINE q == plan[c]
  <1>n. PICK n \in Nat : n = Len(runs) + 1
    BY LenProperties DEF TypeInv, Types
  <1>0. (\A d \in Coordinator : d = c) /\ c \in Proc
    BY OnlyOne
  <1>1. UNCHANGED <<batches, extraction>> /\ pc[c] = "record" /\ pc'[c] = "poll" /\ held'[c] = n
    BY <1>0, <1>n DEF RecordRun, Goto, Hold, TypeInv, Types
  <1>2. /\ RunIds' = RunIds \cup {n} /\ n \notin RunIds
        /\ \A r \in RunIds : runs'[r] = runs[r]
        /\ runs'[n].status = "running"
        /\ runs'[n].label = LabelOf[c]
        /\ runs'[n].phase = q.phase
        /\ runs'[n].parent = q.parent
        /\ runs'[n].batch = q.batch
    BY <1>n, RecordEffect
  <1>3. \A r \in RunIds : /\ (IsRunning(r))' = IsRunning(r)
                          /\ (BatchOf(r))' = BatchOf(r)
                          /\ (Fresh(r))' = Fresh(r)
    BY <1>1, <1>2 DEF IsRunning, BatchOf, Fresh, Succeeded
  <1>4. q.phase \in Phase
    BY <1>0 DEF TypeInv, Types
  <1>5. (IsRunning(n))' /\ (Fresh(n))'
    <2>1. batches'[runs'[n].batch].episodes = q.episodes
      BY <1>0, <1>1, <1>2 DEF TypeInv, DraftExists
    <2>2. \A e \in q.episodes : ~Succeeded(q.phase, e)
      BY <1>1 DEF SoleInv, FreshInv
    <2> QED
      BY <1>1, <1>2, <2>1, <2>2 DEF IsRunning, Fresh, BatchOf, Succeeded
  <1> HIDE DEF q
  <1>6. RolesInv'
    <2>1. PlanIsFree' /\ ReviewIsFree'
      BY <1>0, <1>1 DEF PlanIsFree, ReviewIsFree
    <2>2. HeldRunIsRunning' /\ LabelIsShared'
      BY <1>0, <1>1, <1>2, <1>5 DEF SoleInv, RolesInv, HeldRunIsRunning, LabelIsShared, IsRunning
    <2>3. CASE q.phase = "first_pass"
      <3>1. FirstPasses' = FirstPasses \cup {n} /\ SecondPasses' = SecondPasses
        BY <1>2, <2>3 DEF FirstPasses, SecondPasses
      <3>2. \A r \in FirstPasses : ~IsRunning(r)
        BY <1>1, <2>3 DEF SoleInv, RolesInv, PlanIsFree, q
      <3>3. FirstPasses \subseteq RunIds /\ SecondPasses \subseteq RunIds
        BY DEF FirstPasses, SecondPasses
      <3>4. FirstPassIsAlone'
        BY <1>3, <3>1, <3>2, <3>3 DEF FirstPassIsAlone
      <3>5. ReviewedOnce' /\ ReviewFollows'
        BY <1>2, <1>3, <3>1, <3>3 DEF SoleInv, RolesInv, ReviewedOnce, ReviewFollows
      <3> QED
        BY <2>1, <2>2, <3>4, <3>5 DEF RolesInv
    <2>4. CASE q.phase = "second_pass"
      <3>1. FirstPasses' = FirstPasses /\ SecondPasses' = SecondPasses \cup {n}
        BY <1>2, <2>4 DEF FirstPasses, SecondPasses
      <3>2. Unreviewed(q.parent)
        BY <1>1, <2>4 DEF SoleInv, RolesInv, PlanIsFree, q
      <3>3. FirstPasses \subseteq RunIds /\ SecondPasses \subseteq RunIds
        BY DEF FirstPasses, SecondPasses
      <3>4. FirstPassIsAlone'
        BY <1>3, <3>1, <3>3 DEF SoleInv, RolesInv, FirstPassIsAlone
      <3>5. ReviewedOnce' /\ ReviewFollows'
        BY <1>2, <1>3, <3>1, <3>2, <3>3
           DEF SoleInv, RolesInv, ReviewedOnce, ReviewFollows, Unreviewed
      <3> QED
        BY <2>1, <2>2, <3>4, <3>5 DEF RolesInv
    <2> QED
      BY <1>4, <2>3, <2>4 DEF Phase
  <1>7. FreshInv'
    <2>1. \A r \in FirstPasses' : r = n \/ r \in FirstPasses
      BY <1>2 DEF FirstPasses
    <2>2. \A r \in FirstPasses : r \in RunIds
      BY DEF FirstPasses
    <2>3. \A r \in FirstPasses' : (IsRunning(r))' => (Fresh(r))'
      BY <1>3, <1>5, <2>1, <2>2 DEF SoleInv, FreshInv
    <2>4. (Fresh(held[c]))'
      BY <1>1, <1>5 DEF Fresh, BatchOf, Succeeded
    <2> QED
      BY <1>0, <1>1, <2>3, <2>4 DEF FreshInv
  <1>8. SyncedInv'
    <2>1. PersistedSoFar'
      BY <1>0, <1>1 DEF PersistedSoFar
    <2>2. StatusFollowsBatch'
      <3>1. \A r \in RunIds : (FinalStatus(BatchOf(r)))' = FinalStatus(BatchOf(r))
        BY <1>3 DEF FinalStatus, Answered
      <3> QED
        BY <1>2, <1>3, <1>5, <3>1 DEF SoleInv, SyncedInv, StatusFollowsBatch, IsRunning
    <2>3. FinishedRunIsSynced'
      <3>1. \A r \in RunIds : (Answered(BatchOf(r)))' = Answered(BatchOf(r))
        BY <1>3 DEF Answered
      <3> QED
        BY <1>1, <1>2, <1>3, <1>5, <3>1
           DEF SoleInv, SyncedInv, FinishedRunIsSynced, IsRunning, Succeeded
    <2> QED
      BY <2>1, <2>2, <2>3 DEF SyncedInv
  <1> QED
    BY <1>6, <1>7, <1>8 DEF SoleInv

\* The batch of the held run is complete: its lines are all to do
LEMMA SolePollCompleted ==
  ASSUME Sole, TypeInv, SoleInv, NEW c \in Coordinator, PollCompleted(c)
  PROVE  SoleInv'
  <1>0. (\A d \in Coordinator : d = c) /\ c \in Proc
    BY OnlyOne
  <1>1. UNCHANGED <<batches, runs, extraction, held>>
    BY DEF PollCompleted, tables
  <1>2. pc[c] = "poll" /\ pc'[c] = "sync" /\ todo'[c] = Answered(HeldBatch(c))
    BY <1>0 DEF PollCompleted, Goto, TypeInv, Types
  <1>3. /\ RunIds' = RunIds /\ FirstPasses' = FirstPasses /\ SecondPasses' = SecondPasses
        /\ \A r : /\ (IsRunning(r))' = IsRunning(r)
                  /\ (Fresh(r))' = Fresh(r)
                  /\ (BatchOf(r))' = BatchOf(r)
    BY <1>1 DEF RunIds, FirstPasses, SecondPasses, IsRunning, Fresh, BatchOf, Succeeded
  <1>4. RolesInv'
    <2>1. PlanIsFree' /\ ReviewIsFree' /\ HeldRunIsRunning'
      BY <1>0, <1>1, <1>2 DEF SoleInv, RolesInv, PlanIsFree, ReviewIsFree, HeldRunIsRunning
    <2> QED
      BY <1>1, <1>3, <2>1 DEF SoleInv, RolesInv, LabelIsShared, FirstPassIsAlone,
         ReviewedOnce, ReviewFollows
  <1>5. FreshInv'
    <2>1. (Fresh(held[c]))' = Fresh(held[c])
      BY <1>1 DEF Fresh, BatchOf, Succeeded
    <2> QED
      BY <1>0, <1>2, <1>3, <2>1 DEF SoleInv, FreshInv
  <1>6. SyncedInv'
    <2>1. (HeldBatch(c))' = HeldBatch(c)
      BY <1>1 DEF HeldBatch, BatchOf
    <2>2. PersistedSoFar'
      BY <1>0, <1>2, <2>1 DEF PersistedSoFar, Answered
    <2> QED
      BY <1>1, <1>3, <2>2, SyncedFrame DEF SoleInv, SyncedInv
  <1> QED
    BY <1>4, <1>5, <1>6 DEF SoleInv

\* One line persisted: nothing that succeeded is lost, and what is new came from
\* the batch of the held run.
LEMMA SoleSync ==
  ASSUME Sole, TypeInv, SoleInv, NEW c \in Coordinator, SyncOutputRecord(c)
  PROVE  /\ SoleInv'
         /\ \A m \in Phase, e \in Episode : Succeeded(m, e) => (Succeeded(m, e))'
  <1>0. (\A d \in Coordinator : d = c) /\ c \in Proc
    BY OnlyOne
  <1>h. PICK r \in RunIds, m \in Phase, e \in Episode :
          /\ r = held[c] /\ m = runs[r].phase
          /\ HeldBatch(c).state = "completed"
          /\ e \in HeldBatch(c).episodes
          /\ todo'[c] = todo[c] \ {e}
          /\ (Succeeded(m, e))' <=> HeldBatch(c).answer[e] \in Parsed
          /\ \A n \in Phase, f \in Episode :
               n # m \/ f # e => ((Succeeded(n, f))' <=> Succeeded(n, f))
    BY <1>0, SyncEffect
  <1> DEFINE a == HeldBatch(c).answer[e]
  <1>2. UNCHANGED <<batches, runs, pc, held>> /\ pc[c] = "sync"
    BY DEF SyncOutputRecord
  <1>3. HeldBatch(c).state = "completed" /\ e \in HeldBatch(c).episodes
    BY <1>h
  <1>4. todo'[c] = todo[c] \ {e}
    BY <1>h
  <1>5. /\ (Succeeded(m, e))' <=> a \in Parsed
        /\ \A n \in Phase, f \in Episode :
             n # m \/ f # e => ((Succeeded(n, f))' <=> Succeeded(n, f))
    BY <1>h
  <1>6. Fresh(r)
    BY <1>h, <1>2 DEF SoleInv, FreshInv
  <1>7. Succeeded(m, e) => a \in Parsed
    BY <1>h, <1>3, <1>6 DEF Fresh, HeldBatch
  <1>8. \A n \in Phase, f \in Episode : Succeeded(n, f) => (Succeeded(n, f))'
    BY <1>5, <1>7
  <1>9. /\ RunIds' = RunIds /\ FirstPasses' = FirstPasses /\ SecondPasses' = SecondPasses
        /\ \A q : (IsRunning(q))' = IsRunning(q) /\ (BatchOf(q))' = BatchOf(q)
    BY <1>2 DEF RunIds, FirstPasses, SecondPasses, IsRunning, BatchOf
  <1>10. FirstPasses \subseteq RunIds
    BY DEF FirstPasses
  <1>11. \A q \in RunIds : BatchOf(q).episodes \subseteq Episode /\ runs[q].phase \in Phase
    BY RowsHaveTypes DEF Batch, Run
  <1>12. (Fresh(r))'
    <2>1. ASSUME NEW f \in BatchOf(r).episodes, (Succeeded(m, f))'
          PROVE  BatchOf(r).state = "completed" /\ BatchOf(r).answer[f] \in Parsed
      <3>1. CASE f = e
        BY <1>h, <1>3, <1>5, <2>1, <3>1 DEF HeldBatch
      <3>2. CASE f # e
        BY <1>h, <1>5, <1>6, <1>11, <2>1, <3>2 DEF Fresh
      <3> QED
        BY <3>1, <3>2
    <2> QED
      BY <1>h, <1>2, <2>1 DEF Fresh, BatchOf, Succeeded
  <1> HIDE DEF a
  <1>13. RolesInv'
    <2>1. PlanIsFree' /\ ReviewIsFree' /\ HeldRunIsRunning'
      BY <1>0, <1>2 DEF SoleInv, RolesInv, PlanIsFree, ReviewIsFree, HeldRunIsRunning
    <2> QED
      BY <1>2, <1>9, <2>1 DEF SoleInv, RolesInv, LabelIsShared, FirstPassIsAlone,
         ReviewedOnce, ReviewFollows
  <1>14. FreshInv'
    <2>1. ASSUME NEW q \in FirstPasses, IsRunning(q) PROVE (Fresh(q))'
      <3>1. Fresh(q) /\ q \in RunIds /\ runs[q].phase = "first_pass"
        BY <2>1 DEF SoleInv, FreshInv, FirstPasses
      <3>2. CASE m = "first_pass"
        <4>1. r \in FirstPasses /\ IsRunning(r)
          BY <1>h, <1>2, <3>2
             DEF SoleInv, RolesInv, HeldRunIsRunning, FirstPasses, IsRunning
        <4>2. q = r
          BY <2>1, <4>1 DEF SoleInv, RolesInv, FirstPassIsAlone
        <4> QED
          BY <1>2, <1>12, <4>2 DEF Fresh, BatchOf, Succeeded
      <3>3. CASE m # "first_pass"
        BY <1>2, <1>5, <1>9, <1>11, <3>1, <3>3 DEF Fresh
      <3> QED
        BY <3>2, <3>3
    <2>2. (Fresh(held[c]))'
      BY <1>h, <1>2, <1>12 DEF Fresh, BatchOf, Succeeded
    <2> QED
      BY <1>0, <1>2, <1>9, <2>1, <2>2 DEF FreshInv
  <1>15. SyncedInv'
    <2>1. PersistedSoFar'
      <3>1. (HeldBatch(c))' = HeldBatch(c) /\ Answered(HeldBatch(c)) \subseteq Episode
        BY <1>h, <1>2, <1>11 DEF HeldBatch, BatchOf, Answered
      <3>2. ASSUME NEW f \in Answered(HeldBatch(c)) \ todo'[c],
                   HeldBatch(c).answer[f] \in Parsed
            PROVE  (Succeeded(m, f))'
        <4>1. CASE f = e
          BY <1>5, <3>2, <4>1 DEF a
        <4>2. CASE f # e
          <5>1. Succeeded(m, f)
            BY <1>h, <1>2, <1>4, <3>2, <4>2 DEF SoleInv, SyncedInv, PersistedSoFar
          <5> QED
            BY <1>h, <1>8, <3>1, <3>2, <5>1
        <4> QED
          BY <4>1, <4>2
      <3> QED
        BY <1>h, <1>0, <1>2, <3>1, <3>2 DEF PersistedSoFar, Succeeded, Answered
    <2>2. StatusFollowsBatch'
      <3>1. \A q \in RunIds : (FinalStatus(BatchOf(q)))' = FinalStatus(BatchOf(q))
        BY <1>9 DEF FinalStatus, Answered
      <3> QED
        BY <1>2, <1>9, <3>1 DEF SoleInv, SyncedInv, StatusFollowsBatch
    <2>3. FinishedRunIsSynced'
      <3>1. \A q \in RunIds : /\ (Answered(BatchOf(q)))' = Answered(BatchOf(q))
                              /\ Answered(BatchOf(q)) \subseteq Episode
        BY <1>9, <1>11 DEF Answered
      <3> QED
        BY <1>2, <1>8, <1>9, <1>11, <3>1
           DEF SoleInv, SyncedInv, FinishedRunIsSynced, Succeeded
    <2> QED
      BY <2>1, <2>2, <2>3 DEF SyncedInv
  <1> QED
    BY <1>8, <1>13, <1>14, <1>15 DEF SoleInv

\* Ending the held run: a first pass goes on to its review, which nothing can
\* have followed yet; the status is what the batch stands for.
LEMMA SoleClose ==
  ASSUME Sole, TypeInv, SoleInv, NEW c \in Coordinator,
         pc[c] \in {"poll", "sync"},
         NEW r \in RunIds, r = held[c],
         NEW status \in RunStatus \ {"running"}, SetStatus(r, status),
         UNCHANGED <<batches, extraction>>,
         NEW next \in {"stopped", "loop", "review"}, pc'[c] = next,
         next = "review" => runs[r].phase = "first_pass" /\ held'[c] = r,
         \/ BatchOf(r).state = "failed" /\ status = "failed"
         \/ /\ BatchOf(r).state = "completed" /\ status = FinalStatus(BatchOf(r))
            /\ pc[c] = "sync" /\ todo[c] = {}
  PROVE  SoleInv'
  <1>0. (\A d \in Coordinator : d = c) /\ c \in Proc
    BY OnlyOne
  <1>1. /\ RunIds' = RunIds
        /\ runs'[r].status = status
        /\ \A s \in RunIds : /\ runs'[s].batch = runs[s].batch
                             /\ runs'[s].phase = runs[s].phase
                             /\ runs'[s].label = runs[s].label
                             /\ runs'[s].parent = runs[s].parent
                             /\ s # r => runs'[s] = runs[s]
    BY SetStatusEffect
  <1>2. /\ FirstPasses' = FirstPasses /\ SecondPasses' = SecondPasses
        /\ FirstPasses \subseteq RunIds /\ SecondPasses \subseteq RunIds
    BY <1>1 DEF FirstPasses, SecondPasses
  <1>3. /\ IsRunning(r) /\ ~(IsRunning(r))'
        /\ \A s \in RunIds : s # r => (IsRunning(s))' = IsRunning(s)
    BY <1>1 DEF IsRunning, SoleInv, RolesInv, HeldRunIsRunning
  <1>4. \A s \in RunIds : /\ (BatchOf(s))' = BatchOf(s)
                          /\ (Fresh(s))' = Fresh(s)
                          /\ (FinalStatus(BatchOf(s)))' = FinalStatus(BatchOf(s))
                          /\ (Answered(BatchOf(s)))' = Answered(BatchOf(s))
    <2>1. \A s \in RunIds : (BatchOf(s))' = BatchOf(s)
      BY <1>1 DEF BatchOf
    <2> QED
      BY <1>1, <2>1 DEF Fresh, Succeeded, FinalStatus, Answered
  <1>5. RolesInv'
    <2>1. ReviewFollows'
      BY <1>1, <1>2, <1>3 DEF SoleInv, RolesInv, ReviewFollows
    <2>2. ReviewIsFree'
      <3>1. ASSUME next = "review" PROVE (Unreviewed(r))'
        <4>1. r \in FirstPasses
          BY <3>1 DEF FirstPasses
        <4>2. \A s \in SecondPasses : runs[s].parent # r
          BY <1>3 DEF SoleInv, RolesInv, ReviewFollows
        <4> QED
          BY <1>1, <1>2, <1>3, <4>1, <4>2 DEF Unreviewed
      <3>2. next = "review" => (Unreviewed(held[c]))'
        BY <3>1 DEF Unreviewed
      <3> QED
        BY <1>0, <3>2 DEF ReviewIsFree
    <2>3. PlanIsFree' /\ HeldRunIsRunning'
      BY <1>0 DEF PlanIsFree, HeldRunIsRunning
    <2>4. LabelIsShared' /\ FirstPassIsAlone' /\ ReviewedOnce'
      BY <1>1, <1>2, <1>3 DEF SoleInv, RolesInv, LabelIsShared, FirstPassIsAlone, ReviewedOnce
    <2> QED
      BY <2>1, <2>2, <2>3, <2>4 DEF RolesInv
  <1>6. FreshInv'
    BY <1>0, <1>2, <1>3, <1>4 DEF SoleInv, FreshInv
  <1>7. SyncedInv'
    <2>1. PersistedSoFar'
      BY <1>0 DEF PersistedSoFar
    <2>2. StatusFollowsBatch'
      <3>1. ASSUME NEW s \in RunIds
            PROVE  \/ runs'[s].status = "running"
                   \/ BatchOf(s).state = "failed" /\ runs'[s].status = "failed"
                   \/ /\ BatchOf(s).state = "completed"
                      /\ runs'[s].status = FinalStatus(BatchOf(s))
        <4>1. CASE s = r
          BY <1>1, <4>1
        <4>2. CASE s # r
          BY <1>1, <4>2 DEF SoleInv, SyncedInv, StatusFollowsBatch
        <4> QED
          BY <4>1, <4>2
      <3> QED
        BY <1>1, <1>4, <3>1 DEF StatusFollowsBatch
    <2>3. FinishedRunIsSynced'
      <3>1. ASSUME NEW s \in RunIds, runs'[s].status \in {"succeeded", "partial"},
                   NEW e \in Answered(BatchOf(s)), BatchOf(s).answer[e] \in Parsed
            PROVE  Succeeded(runs[s].phase, e)
        <4>1. CASE s = r
          BY <1>1, <3>1, <4>1 DEF SoleInv, SyncedInv, PersistedSoFar, HeldBatch
        <4>2. CASE s # r
          BY <1>1, <3>1, <4>2 DEF SoleInv, SyncedInv, FinishedRunIsSynced
        <4> QED
          BY <4>1, <4>2
      <3> QED
        BY <1>1, <1>4, <3>1 DEF FinishedRunIsSynced, Succeeded
    <2> QED
      BY <2>1, <2>2, <2>3 DEF SyncedInv
  <1> QED
    BY <1>5, <1>6, <1>7 DEF SoleInv

\* The steps that end a run
LEMMA SoleEnd ==
  ASSUME Sole, TypeInv, SoleInv, NEW c \in Coordinator,
         PollFailed(c) \/ FinishFirstPass(c) \/ FinishSecondPass(c)
  PROVE  SoleInv'
  <1>0. c \in Proc /\ held[c] \in RunIds /\ pc[c] \in {"poll", "sync"}
    BY OnlyOne DEF TypeInv, HeldIsARun, PollFailed, FinishFirstPass, FinishSecondPass,
                   FinalizeExtractionRun
  <1>1. pc \in [Proc -> CoordinatorPc] /\ held \in [Proc -> Nat]
    BY DEF TypeInv, Types
  <1>2. CASE PollFailed(c)
    <2>1. /\ SetStatus(held[c], "failed") /\ UNCHANGED <<batches, extraction>>
          /\ pc'[c] = "stopped" /\ BatchOf(held[c]).state = "failed"
      BY <1>0, <1>1, <1>2 DEF PollFailed, Goto, HeldBatch
    <2>2. "failed" \in RunStatus \ {"running"}
      BY DEF RunStatus
    <2> QED
      BY <1>0, <2>1, <2>2, SoleClose
  <1>3. ASSUME NEW next \in {"review", "loop"}, FinalizeExtractionRun(c, next),
               next = "review" => runs[held[c]].phase = "first_pass" /\ held' = held
        PROVE  SoleInv'
    <2> DEFINE status == FinalStatus(HeldBatch(c))
    <2>1. /\ pc[c] = "sync" /\ todo[c] = {} /\ SetStatus(held[c], status)
          /\ UNCHANGED <<batches, extraction>> /\ pc'[c] = next
      BY <1>0, <1>1, <1>3 DEF FinalizeExtractionRun, SyncedEverything, Goto
    <2>2. status \in RunStatus \ {"running"}
      BY FinalStatusIsAStatus
    <2>3. BatchOf(held[c]).state = "completed" /\ status = FinalStatus(BatchOf(held[c]))
      BY <1>0, <2>1 DEF TypeInv, TodoIsAnswered, HeldBatch
    <2> HIDE DEF status
    <2> QED
      BY <1>0, <1>3, <2>1, <2>2, <2>3, SoleClose
  <1>4. CASE FinishFirstPass(c)
    BY <1>3, <1>4 DEF FinishFirstPass
  <1>5. CASE FinishSecondPass(c)
    BY <1>3, <1>5 DEF FinishSecondPass
  <1> QED
    BY <1>2, <1>4, <1>5

\* What a step of the service does: one batch that was in progress ends
LEMMA ServiceEffect ==
  ASSUME TypeInv, NEW i \in DOMAIN batches, ServiceStep(i)
  PROVE  /\ UNCHANGED <<runs, extraction, locals>>
         /\ batches[i].state = "in_progress"
         /\ batches'[i].episodes = batches[i].episodes
         /\ \A j \in DOMAIN batches : j # i => batches'[j] = batches[j]
  <1>1. batches \in Seq(Batch) /\ batches[i] \in Batch
    BY ElementOfSeq, LenProperties DEF TypeInv, Types
  <1>2. CASE BatchCompletes(i)
    BY <1>1, <1>2 DEF BatchCompletes, Batch
  <1>3. CASE BatchFails(i)
    BY <1>1, <1>3 DEF BatchFails, Batch
  <1> QED
    BY <1>2, <1>3 DEF ServiceStep

\* A batch that ends belongs to no run that ended, and to none whose results
\* are being written.
LEMMA SoleService ==
  ASSUME Sole, TypeInv, SoleInv, NEW i \in DOMAIN batches, ServiceStep(i)
  PROVE  SoleInv'
  <1>1. /\ UNCHANGED <<runs, extraction, pc, held, plan, todo>>
        /\ batches[i].state = "in_progress"
        /\ batches'[i].episodes = batches[i].episodes
        /\ \A j \in DOMAIN batches : j # i => batches'[j] = batches[j]
    BY ServiceEffect DEF locals
  <1>2. /\ RunIds' = RunIds /\ FirstPasses' = FirstPasses /\ SecondPasses' = SecondPasses
        /\ \A r : (IsRunning(r))' = IsRunning(r)
        /\ FirstPasses \subseteq RunIds
    BY <1>1 DEF RunIds, FirstPasses, SecondPasses, IsRunning
  <1>3. \A r \in RunIds : /\ runs[r].batch \in DOMAIN batches
                          /\ runs[r].batch = i => BatchOf(r).state = "in_progress"
                          /\ runs[r].batch # i => (BatchOf(r))' = BatchOf(r)
                          /\ (BatchOf(r).episodes)' = BatchOf(r).episodes
    BY <1>1 DEF TypeInv, RunsHaveBatches, BatchOf
  <1>4. RolesInv'
    <2>1. PlanIsFree' /\ ReviewIsFree'
      BY <1>1, <1>2 DEF SoleInv, RolesInv, PlanIsFree, ReviewIsFree, Unreviewed
    <2> QED
      BY <1>1, <1>2, <2>1 DEF SoleInv, RolesInv, LabelIsShared, FirstPassIsAlone,
         ReviewedOnce, ReviewFollows, HeldRunIsRunning
  <1>5. \A r \in RunIds : Fresh(r) => (Fresh(r))'
    BY <1>1, <1>3 DEF Fresh, Succeeded
  <1>6. FreshInv'
    <2>1. \A c \in Coordinator : pc[c] \in {"poll", "sync"} => (Fresh(held[c]))'
      <3> SUFFICES ASSUME NEW c \in Coordinator, pc[c] \in {"poll", "sync"}
                   PROVE  (Fresh(held[c]))'
        OBVIOUS
      <3>1. held[c] \in RunIds /\ Fresh(held[c])
        BY DEF TypeInv, HeldIsARun, SoleInv, FreshInv, Proc
      <3>2. PICK r \in RunIds : r = held[c]
        BY <3>1
      <3>3. (Fresh(r))'
        BY <1>5, <3>1, <3>2
      <3> QED
        BY <1>1, <3>2, <3>3 DEF Fresh, BatchOf, Succeeded
    <2>2. \A c \in Coordinator : pc'[c] \in {"submit", "record"} =>
            \A e \in plan'[c].episodes : ~(Succeeded(plan[c].phase, e))'
      BY <1>1 DEF SoleInv, FreshInv, Succeeded
    <2> QED
      BY <1>1, <1>2, <1>5, <2>1, <2>2 DEF SoleInv, FreshInv
  <1>7. \A r \in RunIds :
          runs[r].batch # i => /\ (FinalStatus(BatchOf(r)))' = FinalStatus(BatchOf(r))
                               /\ (Answered(BatchOf(r)))' = Answered(BatchOf(r))
    BY <1>3 DEF FinalStatus, Answered
  <1>8. \A r \in RunIds : ~IsRunning(r) => runs[r].batch # i
    BY <1>3 DEF IsRunning, SoleInv, SyncedInv, StatusFollowsBatch
  <1>9. SyncedInv'
    <2>1. PersistedSoFar'
      <3> SUFFICES ASSUME NEW c \in Coordinator, pc[c] = "sync"
                   PROVE  \A e \in Answered((HeldBatch(c))') \ todo[c] :
                            (HeldBatch(c).answer[e])' \in Parsed
                              => (Succeeded(runs[held[c]].phase, e))'
        BY <1>1 DEF PersistedSoFar, Answered
      <3>1. held[c] \in RunIds /\ HeldBatch(c).state = "completed"
        BY DEF TypeInv, HeldIsARun, TodoIsAnswered, Proc
      <3>2. (HeldBatch(c))' = HeldBatch(c)
        BY <1>1, <3>1 DEF HeldBatch, BatchOf, TypeInv, RunsHaveBatches
      <3> QED
        BY <1>1, <3>2 DEF SoleInv, SyncedInv, PersistedSoFar, Succeeded
    <2>2. StatusFollowsBatch'
      BY <1>1, <1>2, <1>3, <1>7, <1>8
         DEF SoleInv, SyncedInv, StatusFollowsBatch, IsRunning
    <2>3. FinishedRunIsSynced'
      BY <1>1, <1>2, <1>3, <1>7, <1>8
         DEF SoleInv, SyncedInv, FinishedRunIsSynced, IsRunning, Succeeded
    <2> QED
      BY <2>1, <2>2, <2>3 DEF SyncedInv
  <1> QED
    BY <1>4, <1>6, <1>9 DEF SoleInv

\* Every step of a lone coordinator and of the service keeps the invariant
LEMMA SoleNext ==
  ASSUME Sole, TypeInv, SoleInv, [Next]_vars
  PROVE  SoleInv'
  <1>1. ASSUME NEW c \in Coordinator, CoordinatorStep(c)
        PROVE  SoleInv'
    <2>0. c \in Proc /\ pc \in [Proc -> CoordinatorPc]
      BY OnlyOne DEF TypeInv, Types
    <2>1. CASE Start(c) \/ Crash(c) \/ FinishBatches(c) \/ PollWithoutOutput(c)
      <3>1. UNCHANGED tables /\ pc'[c] \in {"loop", "down", "finished"}
        BY <2>0, <2>1 DEF Start, Crash, FinishBatches, PollWithoutOutput, Goto
      <3> QED
        BY <3>1, SoleIdle
    <2>2. CASE PollFailed(c) \/ FinishFirstPass(c) \/ FinishSecondPass(c)
      BY <2>2, SoleEnd
    <2>3. CASE \/ GetOrSubmitFirstPass(c) \/ GetOrSubmitSecondPass(c) \/ SubmitBatch(c)
               \/ RecordRun(c) \/ PollCompleted(c) \/ SyncOutputRecord(c)
      BY <2>3, SoleFirstPass, SoleSecondPass, SoleSubmit, SoleRecord, SolePollCompleted, SoleSync
    <2> QED
      BY <1>1, <2>1, <2>2, <2>3 DEF CoordinatorStep, Advance
  <1>2. ASSUME NEW i \in DOMAIN batches, ServiceStep(i)
        PROVE  SoleInv'
    BY <1>2, SoleService
  <1>3. CASE UNCHANGED vars
    <2>1. UNCHANGED <<batches, runs, extraction, pc, held, plan, todo>>
      BY <1>3 DEF vars
    <2>2. RolesInv'
      BY <2>1 DEF SoleInv, RolesInv, LabelIsShared, FirstPassIsAlone, ReviewedOnce, ReviewFollows,
         PlanIsFree, ReviewIsFree, HeldRunIsRunning, Unreviewed, FirstPasses, SecondPasses,
         IsRunning, RunIds
    <2>3. FreshInv'
      BY <2>1 DEF SoleInv, FreshInv, Fresh, FirstPasses, IsRunning, RunIds, BatchOf, Succeeded
    <2>4. SyncedInv'
      <3>1. StatusFollowsBatch' /\ FinishedRunIsSynced'
        BY <2>1, SyncedFrame DEF SoleInv, SyncedInv, BatchOf
      <3>2. PersistedSoFar'
        BY <2>1 DEF SoleInv, SyncedInv, PersistedSoFar, HeldBatch, BatchOf, Answered, Succeeded
      <3> QED
        BY <3>1, <3>2 DEF SyncedInv
    <2> QED
      BY <2>2, <2>3, <2>4 DEF SoleInv
  <1> QED
    BY <1>1, <1>2, <1>3 DEF Next, Sole

----------------------------------------------------------------------------
(* What a lone coordinator guarantees *)

\* A lone coordinator: the reviews, the runs it holds, the results they have and
\* the plans it makes fit together in every reachable state.
THEOREM SoleAlways ==
  ASSUME Sole PROVE Spec => [](TypeInv /\ SoleInv)
  <1>1. Init => TypeInv /\ SoleInv
    BY InitTypeInv, InitSole
  <1>2. TypeInv /\ SoleInv /\ [Next]_vars => (TypeInv /\ SoleInv)'
    BY BackfillAssumption, NextTypes, SoleNext
  <1> QED
    BY <1>1, <1>2, PTL DEF Spec

\* A lone coordinator never has two RUNNING first passes, nor two RUNNING second
\* passes of one first pass, however often it crashes: what was recorded is
\* resumed (get_or_submit_first_pass_run, get_or_submit_second_pass_run).
THEOREM SoleRunsOnce ==
  ASSUME Sole PROVE Spec => []OneRunningRunPerPass
  <1>1. TypeInv /\ SoleInv => OneRunningRunPerPass
    <2> SUFFICES ASSUME TypeInv, SoleInv, NEW r \in RunIds, NEW s \in RunIds,
                        IsRunning(r), IsRunning(s),
                        runs[r].phase = runs[s].phase, runs[r].parent = runs[s].parent
                 PROVE  r = s
      BY DEF OneRunningRunPerPass, IsRunning
    <2>1. runs[r].phase \in Phase
      BY RowsHaveTypes DEF Run
    <2>2. CASE runs[r].phase = "first_pass"
      BY <2>2 DEF SoleInv, RolesInv, FirstPassIsAlone, FirstPasses
    <2>3. CASE runs[r].phase = "second_pass"
      BY <2>3 DEF SoleInv, RolesInv, ReviewedOnce, SecondPasses
    <2> QED
      BY <2>1, <2>2, <2>3 DEF Phase
  <1> QED
    BY <1>1, SoleAlways, PTL

\* The run that a lone coordinator polls or syncs is still RUNNING in the table,
\* so the copy wait_and_sync_run keeps over its sleeps is not stale.
THEOREM SoleHoldsRunning ==
  ASSUME Sole PROVE Spec => []HeldRunIsRunning
  <1>1. TypeInv /\ SoleInv => HeldRunIsRunning
    BY DEF SoleInv, RolesInv
  <1> QED
    BY <1>1, SoleAlways, PTL

\* The status that finalize_extraction_run and mark_failed leave behind is the
\* one the run's batch stands for.
THEOREM SoleStatusFollowsBatch ==
  ASSUME Sole PROVE Spec => []StatusFollowsBatch
  <1>1. TypeInv /\ SoleInv => StatusFollowsBatch
    BY DEF SoleInv, SyncedInv
  <1> QED
    BY <1>1, SoleAlways, PTL

\* A run that a lone coordinator reports SUCCEEDED or PARTIAL has every parsed
\* line in the table, wherever the command crashed on the way there.
THEOREM SoleFinishesSynced ==
  ASSUME Sole PROVE Spec => []FinishedRunIsSynced
  <1>1. TypeInv /\ SoleInv => FinishedRunIsSynced
    BY DEF SoleInv, SyncedInv
  <1> QED
    BY <1>1, SoleAlways, PTL

\* What has been extracted and paid for stays extracted: a lone coordinator
\* never lets persist_failed_extraction overwrite a success.
THEOREM SoleKeepsSuccess ==
  ASSUME Sole PROVE Spec => SuccessIsKept
  <1> DEFINE Kept == \A m \in Phase, e \in Episode : Succeeded(m, e) => Succeeded(m, e)'
  <1>1. TypeInv /\ SoleInv /\ [Next]_vars => [Kept]_vars
    <2> SUFFICES ASSUME TypeInv, SoleInv, [Next]_vars PROVE Kept
      OBVIOUS
    <2>1. CASE \E c \in Coordinator : SyncOutputRecord(c)
      BY <2>1, SoleSync
    <2>2. CASE ~\E c \in Coordinator : SyncOutputRecord(c)
      <3>1. UNCHANGED extraction
        BY <2>2 DEF Next, CoordinatorStep, Advance, Start, Crash, FinishBatches, GetOrSubmitFirstPass,
           GetOrSubmitSecondPass, GetOrSubmit, SubmitBatch, RecordRun, PollCompleted,
           PollWithoutOutput, PollFailed, FinishFirstPass, FinishSecondPass,
           FinalizeExtractionRun, ServiceStep, BatchCompletes, BatchFails, Sole, tables, vars
      <3> QED
        BY <3>1 DEF Succeeded
    <2> QED
      BY <2>1, <2>2
  <1> QED
    BY <1>1, SoleAlways, PTL DEF Spec, SuccessIsKept

----------------------------------------------------------------------------
(* Nothing left to extract *)

\* A set of naturals has a least member
LEMMA LeastNatural ==
  ASSUME NEW S \in SUBSET Nat, S # {}
  PROVE  \E n \in S : \A m \in S : n <= m
  <1> DEFINE R == OpToRel(<, Nat)
  <1>1. IsWellFoundedOn(R, Nat)
    BY NatLessThanWellFounded
  <1>2. \A m, n \in Nat : m < n => <<m, n>> \in R
    BY DEF OpToRel
  <1> HIDE DEF R
  <1>3. PICK n \in S : \A m \in S : ~ (<<m, n>> \in R)
    BY <1>1, WFMin
  <1>4. \A m \in S : ~ (m < n)
    BY <1>2, <1>3, Zenon
  <1> QED
    BY <1>4

\* A batch is empty only when there is no candidate for it
LEMMA NewestOfNothing ==
  ASSUME NEW S \in SUBSET Episode, NEW n \in Nat \ {0}, Newest(S, n) = {},
         NumEpisodes \in Nat
  PROVE  S = {}
  <1>1. SUFFICES ASSUME S # {} PROVE FALSE
    OBVIOUS
  <1>2. S \in SUBSET Nat
    BY DEF Episode
  <1>3. PICK e \in S : \A d \in S : e <= d
    BY <1>1, <1>2, LeastNatural
  <1>4. {d \in S : d < e} = {}
    <2>1. \A d \in S : d \in Nat /\ e \in Nat /\ e <= d
      BY <1>2, <1>3
    <2>2. \A d \in S : ~(d < e)
      BY <2>1
    <2> QED
      BY <2>2
  <1>5. Cardinality({d \in S : d < e}) < n
    BY <1>4, FS_EmptySet
  <1> QED
    BY <1>5 DEF Newest

\* What a coordinator finds when it stops for want of episodes
LEMMA ExhaustedFinds ==
  ASSUME Sole, TypeInv, NEW c \in Coordinator, GetOrSubmitFirstPass(c), pc'[c] = "exhausted"
  PROVE  /\ FindRunningRun(LabelOf[c], "first_pass", NoRun) = {}
         /\ \A e \in Episode : \E m \in Phase : Succeeded(m, e)
         /\ UNCHANGED <<runs, extraction>>
  <1> DEFINE found == FindRunningRun(LabelOf[c], "first_pass", NoRun)
             left == {e \in Episode : /\ ~Succeeded("first_pass", e)
                                      /\ NewEpisodesOnly => ~Succeeded("second_pass", e)}
  <1>0. pc \in [Proc -> CoordinatorPc] /\ c \in Proc
    BY OnlyOne DEF TypeInv, Types
  <1>1. UNCHANGED <<runs, extraction>>
    BY DEF GetOrSubmitFirstPass, GetOrSubmit, tables
  <1>2. found = {} /\ SelectEpisodes = {}
    <2>1. ~Resume(c, found) /\ ~PlanBatch(c, "first_pass", NoRun, SelectEpisodes)
      BY <1>0 DEF Resume, PlanBatch, Goto
    <2> QED
      BY <2>1 DEF GetOrSubmitFirstPass, GetOrSubmit
  <1>3. SelectEpisodes = Newest(left, BatchSize)
    BY DEF SelectEpisodes
  <1> HIDE DEF left
  <1>4. left \in SUBSET Episode
    BY DEF left
  <1>5. left = {}
    BY <1>2, <1>3, <1>4, NewestOfNothing, BackfillAssumption
  <1>6. \A e \in Episode : Succeeded("first_pass", e) \/ Succeeded("second_pass", e)
    BY <1>5 DEF left
  <1>7. \A e \in Episode : \E m \in Phase : Succeeded(m, e)
    BY <1>6 DEF Phase
  <1> QED
    BY <1>1, <1>2, <1>7

\* "No remaining first-pass episodes" is true when a lone coordinator prints it and
\* stays true: every episode of the catalog was extracted, and no first pass of the
\* label is still RUNNING
THEOREM SoleExtractsAll ==
  ASSUME Sole PROVE Spec => []ExhaustedMeansExtracted
  <1>1. Init => ExhaustedMeansExtracted
    BY DEF Init, ExhaustedMeansExtracted, Proc
  <1>2. TypeInv /\ ExhaustedMeansExtracted /\ [Next]_vars => ExhaustedMeansExtracted'
    <2> SUFFICES ASSUME TypeInv, ExhaustedMeansExtracted, [Next]_vars,
                        NEW c \in Coordinator, pc'[c] = "exhausted"
                 PROVE  /\ \A e \in Episode : \E m \in Phase : (Succeeded(m, e))'
                        /\ (FindRunningRun(LabelOf[c], "first_pass", NoRun))' = {}
      BY DEF ExhaustedMeansExtracted
    <2>0. /\ pc \in [Proc -> CoordinatorPc] /\ c \in Proc
          /\ \A d \in Coordinator : d = c
      BY OnlyOne DEF TypeInv, Types
    <2>1. CASE GetOrSubmitFirstPass(c)
      BY <2>1, ExhaustedFinds DEF Succeeded, FindRunningRun, RunIds
    <2>2. CASE ~GetOrSubmitFirstPass(c)
      <3>1. ~CoordinatorStep(c)
        <4>1. SUFFICES ASSUME CoordinatorStep(c) PROVE FALSE
          OBVIOUS
        <4>2. CASE \/ Start(c) \/ Crash(c) \/ FinishBatches(c) \/ GetOrSubmitSecondPass(c)
                   \/ SubmitBatch(c) \/ RecordRun(c)
          BY <2>0, <4>2 DEF Start, Crash, FinishBatches, GetOrSubmitSecondPass, GetOrSubmit, Resume,
             PlanBatch, NothingToSubmit, SubmitBatch, RecordRun, Goto
        <4>3. CASE \/ PollCompleted(c) \/ PollWithoutOutput(c) \/ PollFailed(c)
                   \/ SyncOutputRecord(c) \/ FinishFirstPass(c) \/ FinishSecondPass(c)
          BY <2>0, <4>3 DEF PollCompleted, PollWithoutOutput, PollFailed, SyncOutputRecord,
             FinishFirstPass, FinishSecondPass, FinalizeExtractionRun, Goto
        <4> QED
          BY <2>2, <4>1, <4>2, <4>3 DEF CoordinatorStep, Advance
      <3>2. UNCHANGED <<runs, extraction, pc>>
        BY <2>0, <3>1 DEF Next, Sole, ServiceStep, BatchCompletes, BatchFails, locals, vars
      <3> QED
        BY <3>2 DEF ExhaustedMeansExtracted, Succeeded, FindRunningRun, RunIds
    <2> QED
      BY <2>1, <2>2
  <1> QED
    BY <1>1, <1>2, SoleAlways, PTL DEF Spec

----------------------------------------------------------------------------
(* A lone coordinator implements the ledger *)

\* What the ledger sees is the runs and the results
LEMMA LedgerIdle ==
  ASSUME UNCHANGED <<runs, extraction>> PROVE UNCHANGED Ledger!ledger
  BY DEF Ledger!ledger, EndedRuns, RunIds, Results, Succeeded

\* Recording a run opens it
LEMMA RecordOpens ==
  ASSUME TypeInv, NEW c \in Coordinator, RecordRun(c) PROVE Ledger!Open
  <1>1. PICK n \in Nat : n = Len(runs) + 1
    BY LenProperties DEF TypeInv, Types
  <1>2. /\ Len(runs') = n /\ RunIds' = RunIds \cup {n} /\ n \notin RunIds
        /\ \A r \in RunIds : runs'[r] = runs[r]
        /\ runs'[n].status = "running"
    BY <1>1, RecordEffect
  <1>3. Len(runs') = Len(runs) + 1
    BY <1>1, <1>2
  <1>4. EndedRuns' = EndedRuns
    BY <1>2 DEF EndedRuns
  <1>5. Results' = Results
    BY DEF RecordRun, Results, Succeeded
  <1> QED
    BY <1>3, <1>4, <1>5 DEF Ledger!Open

\* Persisting a line adds a result or nothing
LEMMA SyncExtracts ==
  ASSUME Sole, TypeInv, SoleInv, NEW c \in Coordinator, SyncOutputRecord(c)
  PROVE  Ledger!Extract \/ UNCHANGED Ledger!ledger
  <1>0. c \in Proc
    BY OnlyOne
  <1>1. PICK r \in RunIds, m \in Phase, e \in Episode :
          /\ r = held[c]
          /\ \A n \in Phase, f \in Episode :
               n # m \/ f # e => ((Succeeded(n, f))' <=> Succeeded(n, f))
    BY <1>0, SyncEffect
  <1>2. \A n \in Phase, f \in Episode : Succeeded(n, f) => (Succeeded(n, f))'
    BY SoleSync
  <1>3. UNCHANGED runs /\ pc[c] = "sync"
    BY DEF SyncOutputRecord
  <1>4. r \in (1..Len(runs)) \ EndedRuns
    <2>1. r \in 1..Len(runs)
      BY LenProperties DEF TypeInv, Types, RunIds
    <2> QED
      BY <1>1, <1>3, <2>1 DEF EndedRuns, SoleInv, RolesInv, HeldRunIsRunning
  <1>5. CASE (Succeeded(m, e))'
    <2>1. ASSUME NEW n \in Phase, NEW f \in Episode
          PROVE  (Succeeded(n, f))' <=> (Succeeded(n, f) \/ <<n, f>> = <<m, e>>)
      BY <1>1, <1>2, <1>5
    <2>2. Results' = Results \cup {<<m, e>>}
      BY <2>1 DEF Results
    <2>3. EndedRuns' = EndedRuns
      BY <1>3 DEF EndedRuns, RunIds
    <2> QED
      BY <1>3, <1>4, <2>2, <2>3 DEF Ledger!Extract, Ledger!OpenRuns
  <1>6. CASE ~(Succeeded(m, e))'
    <2>1. \A n \in Phase, f \in Episode : ((Succeeded(n, f))' <=> Succeeded(n, f))
      BY <1>1, <1>2, <1>6
    <2>2. Results' = Results
      BY <2>1 DEF Results
    <2> QED
      BY <1>3, <2>2 DEF Ledger!ledger, EndedRuns, RunIds
  <1> QED
    BY <1>5, <1>6

\* Ending the held run closes it
LEMMA EndCloses ==
  ASSUME Sole, TypeInv, SoleInv, NEW c \in Coordinator,
         PollFailed(c) \/ FinishFirstPass(c) \/ FinishSecondPass(c)
  PROVE  Ledger!Close
  <1>1. /\ held[c] \in RunIds /\ UNCHANGED extraction
        /\ \E status \in RunStatus \ {"running"} : SetStatus(held[c], status)
    <2>1. held[c] \in RunIds
      BY DEF TypeInv, HeldIsARun, Proc, PollFailed, FinishFirstPass, FinishSecondPass,
             FinalizeExtractionRun
    <2>2. CASE PollFailed(c)
      BY <2>1, <2>2 DEF PollFailed, RunStatus
    <2>3. CASE FinishFirstPass(c) \/ FinishSecondPass(c)
      BY <2>1, <2>3, FinalStatusIsAStatus
         DEF FinishFirstPass, FinishSecondPass, FinalizeExtractionRun
    <2> QED
      BY <2>2, <2>3
  <1>2. PICK r \in RunIds, status \in RunStatus \ {"running"} :
          r = held[c] /\ SetStatus(r, status)
    BY <1>1
  <1>3. /\ runs' \in Seq(Run) /\ RunIds' = RunIds
        /\ runs'[r].status = status
        /\ \A s \in RunIds : s # r => runs'[s] = runs[s]
    BY <1>2, SetStatusEffect
  <1>4. runs[r].status = "running"
    BY <1>2 DEF SoleInv, RolesInv, HeldRunIsRunning, PollFailed, FinishFirstPass,
                FinishSecondPass, FinalizeExtractionRun
  <1>5. EndedRuns' = EndedRuns \cup {r}
    BY <1>2, <1>3 DEF EndedRuns
  <1>6. Len(runs') = Len(runs) /\ r \in 1..Len(runs)
    BY <1>3, LenProperties DEF TypeInv, Types, RunIds
  <1>7. Results' = Results
    BY <1>1 DEF Results, Succeeded
  <1>8. r \in Ledger!OpenRuns
    BY <1>4, <1>6 DEF Ledger!OpenRuns, EndedRuns
  <1> QED
    BY <1>5, <1>6, <1>7, <1>8 DEF Ledger!Close

\* Every step of a lone coordinator and of the service is a step of the ledger
\* or none.
LEMMA LedgerStep ==
  ASSUME Sole, TypeInv, SoleInv, [Next]_vars PROVE [Ledger!Next]_(Ledger!ledger)
  <1>1. ASSUME NEW c \in Coordinator, RecordRun(c) PROVE Ledger!Next
    BY <1>1, RecordOpens DEF Ledger!Next
  <1>2. ASSUME NEW c \in Coordinator, SyncOutputRecord(c) PROVE [Ledger!Next]_(Ledger!ledger)
    BY <1>2, SyncExtracts DEF Ledger!Next
  <1>3. ASSUME NEW c \in Coordinator,
               PollFailed(c) \/ FinishFirstPass(c) \/ FinishSecondPass(c)
        PROVE  Ledger!Next
    BY <1>3, EndCloses DEF Ledger!Next
  <1>4. CASE /\ ~\E c \in Coordinator : RecordRun(c) \/ SyncOutputRecord(c)
             /\ ~\E c \in Coordinator : PollFailed(c) \/ FinishFirstPass(c) \/ FinishSecondPass(c)
    <2>1. UNCHANGED <<runs, extraction>>
      BY <1>4 DEF Next, CoordinatorStep, Advance, Start, Crash, FinishBatches,
         GetOrSubmitFirstPass, GetOrSubmitSecondPass, GetOrSubmit, SubmitBatch, PollCompleted,
         PollWithoutOutput, ServiceStep, BatchCompletes, BatchFails, Sole, tables, vars
    <2> QED
      BY <2>1, LedgerIdle
  <1> QED
    BY <1>1, <1>2, <1>3, <1>4

\* A lone coordinator implements the ledger: whatever crashes and restarts lie
\* between them, runs open and close once, and results only accumulate, in the
\* name of a run that is open.
THEOREM SoleImplementsLedger ==
  ASSUME Sole PROVE Spec => ImplementsLedger
  <1>1. Init => Ledger!Init
    BY DEF Init, Ledger!Init, EndedRuns, RunIds, Results, Succeeded
  <1>2. TypeInv /\ SoleInv /\ [Next]_vars => [Ledger!Next]_(Ledger!ledger)
    BY LedgerStep
  <1> QED
    BY <1>1, <1>2, SoleAlways, PTL DEF Spec, ImplementsLedger, Ledger!Spec
=============================================================================
