-------------------------- MODULE BatchWritesProofs --------------------------
(***************************************************************************)
(* Proofs about module BatchWrites, for any batches and plans, any number   *)
(* of checkpoints and faults, and any limits.                               *)
(***************************************************************************)
EXTENDS BatchWrites, WellFoundedInduction, TLAPS

-----------------------------------------------------------------------------
(* Types                                                                   *)

AllItems == UNION {Items(b) : b \in Batches}
ItemStates == {"pending", "begun", "interrupted", "started", "settled", "committed", "failed"}

Phases == WritePhases \cup {"ready", "done"}
RowType ==
    [phase : Phases, facts : BOOLEAN, intent : Nat, jobs : Seq(Nat), started : SUBSET Nat,
     finished : SUBSET Nat, pending : SUBSET AllItems, committed : SUBSET AllItems,
     deferred : SUBSET AllItems, grouped : BOOLEAN, merged : BOOLEAN, failures : Nat]

JobType == [items : UNION {[S -> ItemStates] : S \in SUBSET AllItems}, checkpoint : Nat \ {0}]

CheckpointType ==
    [by : Nat, batch : Nat, file : BOOLEAN, pruned : BOOLEAN, session : Nat]

\* Places of the lane in a step of a batch, and between its steps.
BatchPlaces == WritePhases \cup {"created", "recorded", "dispatch", "ran", "grouped", "deleted"}
FreePlaces == {"off", "look", "ending", "marking"}

Stops == {"none", "recovery", "session", "policy", "halted", "capability", "idle", "complete",
          "partial"}

LaneType == [at : BatchPlaces \cup FreePlaces, batch : Nat, stop : Stops, since : Nat]

Types ==
    /\ approval \in Plans
    /\ rows \in [Batches -> RowType]
    /\ jobs \in Seq(JobType)
    /\ checkpoints \in Seq(CheckpointType)
    /\ groups \in [Batches -> {"none", "partial", "complete"}]
    /\ notes = [b \in Batches |-> notes[b]]
    /\ effects = [b \in Batches |-> effects[b]]
    /\ \A b \in Batches : effects[b] \in [NotesOf(b) -> {0, 1}]
    /\ session \in Nat
    /\ lane \in LaneType
    /\ finished \in Seq(Batches)

-----------------------------------------------------------------------------
(* What is known of a batch                                                *)

HasRun(b) == rows[b].jobs # <<>>
LastJob(b) == jobs[Last(rows[b].jobs)]
JobIn(b, states) == {i \in DOMAIN LastJob(b).items : LastJob(b).items[i] \in states}

Retried == {"begun", "interrupted"}
Untried == Retried \cup {"pending"}
Unknown == {"started", "settled"}

\* The items that may still be written, and those of which nobody has read
\* whether they were.
Live(b) ==
    IF ~ HasRun(b) THEN Items(b)
    ELSE IF rows[b].intent # None THEN rows[b].pending
    ELSE JobIn(b, Untried)
Unsettled(b) == IF HasRun(b) /\ rows[b].intent = None THEN JobIn(b, Unknown) ELSE {}

\* The last job of a batch is one of the store, with items of the batch.
JobFits(b) ==
    /\ rows[b].phase \in {"ready", "approved"} => ~ HasRun(b)
    /\ rows[b].pending \cup rows[b].committed \cup rows[b].deferred \subseteq Items(b)
    /\ HasRun(b) =>
        /\ Last(rows[b].jobs) \in DOMAIN jobs
        /\ LastJob(b).checkpoint \in DOMAIN checkpoints
        /\ DOMAIN LastJob(b).items \subseteq Items(b)
        /\ \A i, j \in JobIn(b, Retried) : i = j

\* What may still be written was not, and what is deferred was not and will not be.
ItemsFit(b) ==
    /\ \A i \in Live(b) : effects[b][i] = 0
    /\ HasRun(b) => \A i \in JobIn(b, {"failed"}) : effects[b][i] = 0
    /\ \A i \in rows[b].deferred :
         effects[b][i] = 0 /\ (i \in Live(b) \cup Unsettled(b) => i \notin notes[b])

\* The split group, and what has to be there for a phase to be reached.
PhaseFits(b) ==
    /\ b \in Grouped => effects[b][Unit] = (IF groups[b] = "complete" THEN 1 ELSE 0)
    /\ rows[b].grouped => groups[b] = "complete"
    /\ rows[b].phase \in {"verifying", "merging", "done"} /\ b \in Grouped => rows[b].grouped
    /\ rows[b].merged => Duplicate \notin notes[b]
    /\ rows[b].phase \in {"merging", "done"} =>
           \A i \in Items(b) \ rows[b].deferred : effects[b][i] = 1
    /\ rows[b].phase = "done" /\ b \in Merging =>
           rows[b].merged /\ Items(b) \cap rows[b].deferred = {}

BatchFits(b) == JobFits(b) /\ ItemsFit(b) /\ PhaseFits(b)

\* Two batches run no job in common.
JobsApart ==
    \A b, c \in Batches : HasRun(b) /\ HasRun(c) /\ b # c => Last(rows[b].jobs) # Last(rows[c].jobs)

\* Only what is recorded for a batch that is done loses its file.
FilesFit ==
    /\ \A k \in DOMAIN checkpoints :
         checkpoints[k].batch \notin ToSet(finished) => checkpoints[k].file
    /\ \A b \in Batches : b \in ToSet(finished) => rows[b].phase = "done"
    /\ \A b \in Batches : rows[b].intent =< Len(checkpoints) + 1

-----------------------------------------------------------------------------
(* What the lane knows at each place                                       *)

NewestJob == jobs[Len(jobs)]

\* A job that was created and is not the batch's yet.
CreatedFits ==
    lane.at \in {"created", "recorded"} =>
        /\ Row.phase \in {"approved", "applying"}
        /\ jobs # <<>>
        /\ DOMAIN NewestJob.items \subseteq Live(Batch)
        /\ \A i \in DOMAIN NewestJob.items : NewestJob.items[i] = "pending"
        /\ \A c \in Batches : HasRun(c) => Last(rows[c].jobs) # Len(jobs)
        /\ NewestJob.checkpoint \in DOMAIN checkpoints

\* Nothing of unknown outcome is run over.
RunFits ==
    lane.at \in {"dispatch", "ran"} =>
        /\ Row.phase = "applying" /\ Row.intent = None /\ HasRun(Batch)
        /\ JobIn(Batch, {"begun", "settled"}) = {}
        /\ At("dispatch") => JobIn(Batch, {"started"}) = {}
        /\ At("ran") /\ lane.stop \in {"idle", "policy"} =>
               JobIn(Batch, {"started", "interrupted"}) = {}

LaneFits ==
    /\ lane.at \notin FreePlaces => Batch \in Batches
    /\ lane.at \in WritePhases => Row.phase = lane.at
    /\ CreatedFits /\ RunFits
    /\ At("grouped") => /\ Row.phase = "applying" /\ Batch \in Grouped
                        /\ lane.stop = "complete" => groups[Batch] = "complete"
    /\ At("deleted") => Row.phase = "merging"

IInv ==
    /\ Types
    /\ \A b \in Batches : BatchFits(b)
    /\ JobsApart /\ FilesFit /\ LaneFits

USE WritesAssumption

-----------------------------------------------------------------------------
(* Lemmas on the types                                                     *)

\* No item of a job is the source of the batch's group or its duplicate.
LEMMA Apart ==
    ASSUME IInv, NEW b \in Batches
    PROVE  b # None /\ Unit \notin Items(b) /\ Duplicate \notin Items(b) /\ Items(b) \subseteq NotesOf(b)
           /\ (b \in Grouped => Unit \in NotesOf(b)) /\ Items(b) \subseteq AllItems
BY DEF IInv, Types, Items, NotesOf, None, AllItems

LEMMA LastOfAppend ==
    ASSUME NEW S, NEW s \in Seq(S), NEW x \in S
    PROVE  /\ Append(s, x) \in Seq(S) /\ Append(s, x) # <<>>
           /\ Len(Append(s, x)) = Len(s) + 1
           /\ Last(Append(s, x)) = x
           /\ \A k \in DOMAIN s : k \in DOMAIN Append(s, x) /\ Append(s, x)[k] = s[k]
           /\ \A k \in DOMAIN Append(s, x) : k \in DOMAIN s \/ (k = Len(s) + 1 /\ Append(s, x)[k] = x)
           /\ ToSet(Append(s, x)) = ToSet(s) \cup {x}
<1>1. DEFINE t == Append(s, x)
<1>2. t \in Seq(S) /\ Len(t) = Len(s) + 1 /\ DOMAIN t = 1..(Len(s) + 1) /\ DOMAIN s = 1..Len(s)
  OBVIOUS
<1>3. \A k \in 1..Len(s) : t[k] = s[k]
  OBVIOUS
<1>4. t[Len(s) + 1] = x
  OBVIOUS
<1>5. t # <<>> /\ Len(s) \in Nat
  OBVIOUS
<1>. HIDE DEF t
<1>6. Last(t) = x
  BY <1>2, <1>4 DEF Last
<1>7. ToSet(t) = ToSet(s) \cup {x}
  BY <1>2, <1>3, <1>4, <1>5 DEF ToSet
<1>8. /\ \A k \in DOMAIN s : k \in DOMAIN t /\ t[k] = s[k]
      /\ \A k \in DOMAIN t : k \in DOMAIN s \/ (k = Len(s) + 1 /\ t[k] = x)
  BY <1>2, <1>3, <1>4, <1>5
<1>. QED
  BY <1>2, <1>5, <1>6, <1>7, <1>8 DEF t

LEMMA SeqExcept ==
    ASSUME NEW S, NEW s \in Seq(S), NEW n \in DOMAIN s, NEW x \in S
    PROVE  /\ [s EXCEPT ![n] = x] \in Seq(S) /\ DOMAIN [s EXCEPT ![n] = x] = DOMAIN s
           /\ [s EXCEPT ![n] = x][n] = x
           /\ \A k \in DOMAIN s \ {n} : [s EXCEPT ![n] = x][k] = s[k]
OBVIOUS

\* The items of a job.
LEMMA JobItems ==
    ASSUME NEW j \in JobType
    PROVE  /\ j.items \in [DOMAIN j.items -> ItemStates] /\ DOMAIN j.items \subseteq AllItems
           /\ j.checkpoint \in Nat \ {0}
           /\ \A f \in [DOMAIN j.items -> ItemStates] : [j EXCEPT !.items = f] \in JobType
<1>1. PICK S \in SUBSET AllItems : j.items \in [S -> ItemStates]
  BY DEF JobType
<1>2. S = DOMAIN j.items
  BY <1>1
<1>3. \A f \in [S -> ItemStates] : f \in UNION {[T -> ItemStates] : T \in SUBSET AllItems}
  OBVIOUS
<1>. QED
  BY <1>1, <1>2, <1>3 DEF JobType

\* The last job of a batch, as far as its row is well formed.
LEMMA LastJobs ==
    ASSUME IInv, NEW b \in Batches, HasRun(b)
    PROVE  /\ Last(rows[b].jobs) \in DOMAIN jobs /\ DOMAIN jobs = 1..Len(jobs) /\ Len(jobs) \in Nat
           /\ LastJob(b) \in JobType
           /\ LastJob(b).items \in [DOMAIN LastJob(b).items -> ItemStates]
           /\ DOMAIN LastJob(b).items \subseteq Items(b)
           /\ LastJob(b).checkpoint \in DOMAIN checkpoints
<1>1. /\ Last(rows[b].jobs) \in DOMAIN jobs /\ DOMAIN LastJob(b).items \subseteq Items(b)
      /\ LastJob(b).checkpoint \in DOMAIN checkpoints
  BY DEF IInv, BatchFits, JobFits
<1>2. jobs \in Seq(JobType)
  BY DEF IInv, Types
<1>3. DOMAIN jobs = 1..Len(jobs) /\ Len(jobs) \in Nat
  BY <1>2
<1>4. LastJob(b) \in JobType
  BY <1>1, <1>2, <1>3 DEF LastJob
<1>. QED
  BY <1>1, <1>3, <1>4, JobItems

-----------------------------------------------------------------------------
(* What a step does not touch                                              *)

\* No checkpoint is dropped.
CheckpointsKept == DOMAIN checkpoints \subseteq DOMAIN checkpoints'

\* None is recorded, either.
SteadyCheckpoints ==
    \A k \in DOMAIN checkpoints :
        k \in DOMAIN checkpoints' /\ checkpoints'[k].batch = checkpoints[k].batch

JobKept(c) ==
    HasRun(c) => /\ Last(rows[c].jobs) \in DOMAIN jobs'
                 /\ jobs'[Last(rows[c].jobs)] = jobs[Last(rows[c].jobs)]

LEMMA Kept ==
    ASSUME IInv, NEW c \in Batches, UNCHANGED approval, CheckpointsKept, JobKept(c),
           rows'[c] = rows[c], effects'[c] = effects[c], groups'[c] = groups[c],
           notes'[c] \subseteq notes[c]
    PROVE  BatchFits(c)'
<1>1. BatchFits(c) /\ c # None
  BY Apart DEF IInv
<1>2. Items(c)' = Items(c) /\ (c \in Grouped)' = (c \in Grouped) /\ (c \in Merging)' = (c \in Merging)
  BY DEF Items, Grouped, Merging
<1>3. HasRun(c)' = HasRun(c)
  BY DEF HasRun
<1>4. HasRun(c) => LastJob(c)' = LastJob(c)
  BY DEF JobKept, LastJob
<1>5. HasRun(c) => \A s : JobIn(c, s)' = JobIn(c, s)
  BY <1>4 DEF JobIn
<1>6. Live(c)' = Live(c) /\ Unsettled(c)' = Unsettled(c)
  BY <1>2, <1>3, <1>5 DEF Live, Unsettled
<1>7. JobFits(c)'
  BY <1>1, <1>2, <1>3, <1>4, <1>5 DEF BatchFits, JobFits, JobKept, CheckpointsKept
<1>8. ItemsFit(c)'
  BY <1>1, <1>3, <1>5, <1>6 DEF BatchFits, ItemsFit
<1>9. PhaseFits(c)'
  BY <1>1, <1>2 DEF BatchFits, PhaseFits
<1>. QED
  BY <1>7, <1>8, <1>9 DEF BatchFits

\* Between the steps of batches the lane knows nothing.
LEMMA FreeLane ==
    ASSUME lane'.at \in FreePlaces
    PROVE  LaneFits'
BY DEF LaneFits, CreatedFits, RunFits, FreePlaces, WritePhases, At

\* What is approved does not change, nor what depends on it alone.
LEMMA SameTypes ==
    ASSUME UNCHANGED approval
    PROVE  /\ AllItems' = AllItems /\ RowType' = RowType /\ JobType' = JobType
           /\ \A b \in Batches : Items(b)' = Items(b) /\ NotesOf(b)' = NotesOf(b)
           /\ Grouped' = Grouped /\ Merging' = Merging
<1>1. Grouped' = Grouped /\ Merging' = Merging
  BY DEF Grouped, Merging
<1>2. \A b \in Batches : Items(b)' = Items(b) /\ NotesOf(b)' = NotesOf(b)
  BY <1>1 DEF NotesOf, Items
<1>3. AllItems' = AllItems
  BY <1>2 DEF AllItems
<1>. QED
  BY <1>1, <1>2, <1>3 DEF RowType, JobType

\* No row moves, and no job.
LEMMA WorldMoves ==
    ASSUME IInv, UNCHANGED <<approval, rows, jobs, groups, effects, finished>>,
           session' \in Nat, lane' \in LaneType, LaneFits',
           notes' = [c \in Batches |-> notes'[c]],
           \A c \in Batches : notes'[c] \subseteq notes[c],
           checkpoints' \in Seq(CheckpointType), CheckpointsKept,
           Len(checkpoints) =< Len(checkpoints'),
           \A k \in DOMAIN checkpoints' :
              checkpoints'[k].batch \notin ToSet(finished) => checkpoints'[k].file
    PROVE  IInv'
<1>1. \A c \in Batches : JobKept(c)
  BY LastJobs DEF JobKept
<1>2. \A c \in Batches : BatchFits(c)'
  BY <1>1, Kept
<1>3. Types'
  BY SameTypes DEF IInv, Types
<1>4. JobsApart'
  BY DEF IInv, JobsApart, HasRun
<1>5. rows \in [Batches -> RowType] /\ checkpoints \in Seq(CheckpointType) /\ FilesFit
  BY DEF IInv, Types
<1>6. Len(checkpoints) \in Nat /\ Len(checkpoints') \in Nat
  BY <1>5
<1>7. \A c \in Batches : rows[c].intent \in Nat /\ rows[c].intent =< Len(checkpoints) + 1
  BY <1>5 DEF RowType, FilesFit
<1>8. \A c \in Batches : rows[c].intent =< Len(checkpoints') + 1
  BY <1>6, <1>7
<1>9. FilesFit'
  BY <1>5, <1>8 DEF FilesFit
<1>. QED
  BY <1>2, <1>3, <1>4, <1>9 DEF IInv

\* Only the lane moves.
LEMMA LaneMoves ==
    ASSUME IInv, UNCHANGED <<approval, rows, jobs, checkpoints, groups, notes, effects, finished>>,
           session' \in Nat, lane' \in LaneType, LaneFits'
    PROVE  IInv'
<1>1. Types /\ FilesFit
  BY DEF IInv
<1>2. CheckpointsKept /\ checkpoints' \in Seq(CheckpointType)
  BY <1>1 DEF CheckpointsKept, Types
<1>3. Len(checkpoints) =< Len(checkpoints')
  BY <1>1 DEF Types
<1>4. notes' = [c \in Batches |-> notes'[c]]
  BY <1>1 DEF Types
<1>5. \A k \in DOMAIN checkpoints' :
         checkpoints'[k].batch \notin ToSet(finished) => checkpoints'[k].file
  BY <1>1 DEF FilesFit
<1>. QED
  BY <1>2, <1>3, <1>4, <1>5, WorldMoves

\* What the lane knows, as long as the step is not its own.
LEMMA LaneStays ==
    ASSUME IInv, UNCHANGED <<approval, jobs, lane, groups>>,
           DOMAIN checkpoints \subseteq DOMAIN checkpoints',
           \A c \in Batches : \/ rows'[c] = rows[c]
                              \/ /\ rows[c].phase = "ready" /\ ~ HasRun(c)
                                 /\ rows'[c].jobs = rows[c].jobs
    PROVE  lane' \in LaneType /\ LaneFits'
<1>1. lane \in LaneType /\ LaneFits
  BY DEF IInv, Types
<1>2. CASE lane.at \in FreePlaces
  BY <1>1, <1>2, FreeLane
<1>3. CASE lane.at \notin FreePlaces
  <2>1. Batch \in Batches /\ Row.phase \in WritePhases
    BY <1>1, <1>3 DEF LaneFits, CreatedFits, RunFits, LaneType, BatchPlaces, WritePhases, At
  <2>2. rows'[Batch] = rows[Batch] /\ Batch' = Batch
    BY <2>1 DEF WritePhases, Row, Batch
  <2>3. Row' = Row /\ HasRun(Batch)' = HasRun(Batch) /\ LastJob(Batch)' = LastJob(Batch)
    BY <2>2 DEF Row, Batch, HasRun, LastJob
  <2>4. Live(Batch)' = Live(Batch) /\ \A s : JobIn(Batch, s)' = JobIn(Batch, s)
    <3>1. \A s : JobIn(Batch, s)' = JobIn(Batch, s)
      BY <2>2, <2>3 DEF JobIn
    <3>2. Items(Batch)' = Items(Batch)
      BY <2>1, <2>2, SameTypes DEF Items
    <3>. QED
      BY <2>2, <2>3, <3>1, <3>2 DEF Live
  <2>5. \A c \in Batches : HasRun(c)' = HasRun(c) /\ (HasRun(c) => rows'[c].jobs = rows[c].jobs)
    BY DEF HasRun
  <2>6. CreatedFits'
    BY <1>1, <2>2, <2>3, <2>4, <2>5 DEF LaneFits, CreatedFits, NewestJob, At
  <2>7. RunFits'
    BY <1>1, <2>2, <2>3, <2>4 DEF LaneFits, RunFits, At
  <2>8. Grouped' = Grouped
    BY SameTypes
  <2>. QED
    BY <1>1, <2>2, <2>3, <2>6, <2>7, <2>8 DEF LaneFits, At
<1>. QED
  BY <1>2, <1>3

-----------------------------------------------------------------------------
(* A step of one batch                                                     *)

LEMMA BatchMoves ==
    ASSUME IInv, NEW b \in Batches, rows[b].phase # "done",
           NEW r \in RowType, rows' = [rows EXCEPT ![b] = r], r.intent =< Len(checkpoints') + 1,
           UNCHANGED approval,
           jobs' \in Seq(JobType), \A c \in Batches \ {b} : JobKept(c),
           r.jobs # <<>> => \/ HasRun(b) /\ Last(r.jobs) = Last(rows[b].jobs)
                            \/ \A c \in Batches : HasRun(c) => Last(rows[c].jobs) # Last(r.jobs),
           checkpoints' \in Seq(CheckpointType), CheckpointsKept,
           Len(checkpoints) =< Len(checkpoints'),
           \A k \in DOMAIN checkpoints' :
              checkpoints'[k].batch \notin ToSet(finished) => checkpoints'[k].file,
           groups' \in [Batches -> {"none", "partial", "complete"}],
           notes' = [c \in Batches |-> notes'[c]], effects' = [c \in Batches |-> effects'[c]],
           effects'[b] \in [NotesOf(b) -> {0, 1}],
           \A c \in Batches \ {b} :
              groups'[c] = groups[c] /\ effects'[c] = effects[c] /\ notes'[c] \subseteq notes[c],
           session' \in Nat, lane' \in LaneType, LaneFits',
           finished' = finished \/ (finished' = Append(finished, b) /\ r.phase = "done"),
           BatchFits(b)'
    PROVE  IInv'
<1>1. /\ rows \in [Batches -> RowType] /\ finished \in Seq(Batches) /\ approval \in Plans
      /\ checkpoints \in Seq(CheckpointType)
      /\ \A c \in Batches : effects[c] \in [NotesOf(c) -> {0, 1}]
  BY DEF IInv, Types
<1>2. /\ rows' \in [Batches -> RowType] /\ rows'[b] = r
      /\ \A c \in Batches \ {b} : rows'[c] = rows[c]
  BY <1>1
<1>3. \A c \in Batches : BatchFits(c)'
  <2>1. \A c \in Batches \ {b} : BatchFits(c)'
    BY <1>2, Kept
  <2>. QED
    BY <2>1
<1>4. /\ finished' \in Seq(Batches)
      /\ ToSet(finished') \subseteq ToSet(finished) \cup {b}
      /\ ToSet(finished) \subseteq ToSet(finished')
      /\ b \in ToSet(finished') => b \in ToSet(finished) \/ r.phase = "done"
  <2>1. CASE finished' = finished
    BY <1>1, <2>1
  <2>2. CASE finished' = Append(finished, b) /\ r.phase = "done"
    <3>1. Append(finished, b) \in Seq(Batches)
      BY <1>1
    <3>2. ToSet(Append(finished, b)) = ToSet(finished) \cup {b}
      BY <1>1, LastOfAppend
    <3>. QED
      BY <2>2, <3>1, <3>2
  <2>. QED
    BY <2>1, <2>2
<1>5. \A c \in Batches : effects'[c] \in [NotesOf(c)' -> {0, 1}]
  BY <1>1, SameTypes, ZenonT(60)
<1>6. Types'
  BY <1>1, <1>2, <1>4, <1>5, SameTypes DEF Types
<1>7. JobsApart'
  BY <1>2 DEF IInv, JobsApart, HasRun
<1>8. Len(checkpoints) \in Nat /\ Len(checkpoints') \in Nat
  BY <1>1
<1>9. FilesFit
  BY DEF IInv
<1>10. \A c \in Batches : c \in ToSet(finished') => rows'[c].phase = "done"
  BY <1>2, <1>4, <1>9 DEF FilesFit
<1>11. \A c \in Batches : rows'[c].intent =< Len(checkpoints') + 1
  <2>1. \A c \in Batches : rows[c].intent \in Nat /\ rows[c].intent =< Len(checkpoints) + 1
    BY <1>1, <1>9 DEF RowType, FilesFit
  <2>. QED
    BY <1>2, <1>8, <2>1
<1>12. FilesFit'
  BY <1>4, <1>10, <1>11 DEF FilesFit
<1>. QED
  BY <1>3, <1>6, <1>7, <1>12 DEF IInv

\* Only the row, and the lane, move.
LEMMA RowMoves ==
    ASSUME IInv, NEW b \in Batches, rows[b].phase # "done",
           NEW r \in RowType, rows' = [rows EXCEPT ![b] = r], r.intent =< Len(checkpoints) + 1,
           UNCHANGED <<approval, jobs, checkpoints, groups, notes, effects, session>>,
           r.jobs = rows[b].jobs, lane' \in LaneType, LaneFits',
           finished' = finished \/ (finished' = Append(finished, b) /\ r.phase = "done"),
           JobFits(b)', ItemsFit(b)', PhaseFits(b)'
    PROVE  IInv'
<1>1. Types /\ FilesFit
  BY DEF IInv
<1>2. /\ jobs' \in Seq(JobType) /\ checkpoints' \in Seq(CheckpointType)
      /\ groups' \in [Batches -> {"none", "partial", "complete"}]
      /\ notes' = [c \in Batches |-> notes'[c]] /\ effects' = [c \in Batches |-> effects'[c]]
      /\ effects'[b] \in [NotesOf(b) -> {0, 1}]
      /\ session' \in Nat
  BY <1>1 DEF Types
<1>3. CheckpointsKept /\ \A c \in Batches : JobKept(c)
  BY LastJobs DEF CheckpointsKept, JobKept
<1>4. Len(checkpoints) =< Len(checkpoints')
  BY <1>1 DEF Types
<1>5. r.jobs # <<>> => HasRun(b) /\ Last(r.jobs) = Last(rows[b].jobs)
  BY DEF HasRun
<1>6. BatchFits(b)'
  BY DEF BatchFits
<1>7. \A k \in DOMAIN checkpoints' :
         checkpoints'[k].batch \notin ToSet(finished) => checkpoints'[k].file
  BY <1>1 DEF FilesFit
<1>. QED
  BY <1>2, <1>3, <1>4, <1>5, <1>6, <1>7, BatchMoves

\* A row whose jobs and items stay as they are.
LEMMA ItemsStay ==
    ASSUME IInv, NEW b \in Batches, NEW r, rows'[b] = r,
           UNCHANGED approval, effects'[b] = effects[b], notes'[b] \subseteq notes[b],
           CheckpointsKept, JobKept(b),
           r.jobs = rows[b].jobs, r.pending = rows[b].pending, r.committed = rows[b].committed,
           r.deferred = rows[b].deferred,
           r.intent = rows[b].intent \/ ~ HasRun(b),
           r.phase \in {"ready", "approved"} => ~ HasRun(b)
    PROVE  JobFits(b)' /\ ItemsFit(b)'
<1>1. JobFits(b) /\ ItemsFit(b)
  BY DEF IInv, BatchFits
<1>2. Items(b)' = Items(b) /\ HasRun(b)' = HasRun(b)
  BY SameTypes DEF HasRun
<1>3. HasRun(b) => LastJob(b)' = LastJob(b)
  BY DEF JobKept, LastJob
<1>4. HasRun(b) => \A s : JobIn(b, s)' = JobIn(b, s)
  BY <1>3 DEF JobIn
<1>5. Live(b)' = Live(b) /\ Unsettled(b)' = Unsettled(b)
  BY <1>2, <1>4 DEF Live, Unsettled
<1>6. JobFits(b)'
  BY <1>1, <1>2, <1>3, <1>4 DEF JobFits, JobKept, CheckpointsKept
<1>7. ItemsFit(b)'
  BY <1>1, <1>2, <1>4, <1>5 DEF ItemsFit
<1>. QED
  BY <1>6, <1>7

-----------------------------------------------------------------------------
(* Saving a row                                                            *)

\* The same row but for its count of failures.
Alike(r, s) ==
    /\ r.phase = s.phase /\ r.facts = s.facts /\ r.intent = s.intent /\ r.jobs = s.jobs
    /\ r.started = s.started /\ r.finished = s.finished /\ r.pending = s.pending
    /\ r.committed = s.committed /\ r.deferred = s.deferred
    /\ r.grouped = s.grouped /\ r.merged = s.merged

LEMMA OffLane ==
    ASSUME NEW at \in FreePlaces, lane' = [Off EXCEPT !.at = at]
    PROVE  lane' \in LaneType /\ lane'.at = at /\ LaneFits'
<1>1. PICK o \in LaneType : o = Off
  BY DEF Off, LaneType, FreePlaces, Stops
<1>2. lane' = [o EXCEPT !.at = at]
  BY <1>1
<1>3. lane' \in LaneType /\ lane'.at = at
  BY <1>2 DEF LaneType
<1>. QED
  BY <1>3, FreeLane

LEMMA SavedRow ==
    ASSUME IInv, NEW b \in Batches, b = Batch, NEW row \in RowType, Saved(row)
    PROVE  /\ \E r \in RowType : rows' = [rows EXCEPT ![b] = r] /\ rows'[b] = r /\ Alike(r, row)
           /\ lane' \in LaneType /\ LaneFits' /\ lane'.at \in FreePlaces
<1>1. PICK r : r = [row EXCEPT !.failures = 0]
  OBVIOUS
<1>2. r \in RowType /\ Alike(r, row)
  BY <1>1 DEF RowType, Alike
<1>3. rows' = [rows EXCEPT ![b] = r]
  BY <1>1 DEF Saved
<1>4. rows'[b] = r
  BY <1>3 DEF IInv, Types
<1>5. "look" \in FreePlaces
  BY DEF FreePlaces
<1>. QED
  BY <1>2, <1>3, <1>4, <1>5, OffLane DEF Saved

\* A step that fails counts its failure, and nothing else.
LEMMA FailedRow ==
    ASSUME IInv, NEW b \in Batches, b = Batch, Failed
    PROVE  /\ \E r \in RowType : rows' = [rows EXCEPT ![b] = r] /\ rows'[b] = r /\ Alike(r, rows[b])
           /\ lane' \in LaneType /\ LaneFits' /\ lane'.at \in FreePlaces
<1>1. rows \in [Batches -> RowType]
  BY DEF IInv, Types
<1>2. PICK x \in RowType : x = rows[b]
  BY <1>1
<1>3. Min({x.failures + 1, MaxStepFailures}) \in Nat
  <2>1. PICK m \in Nat : m = x.failures + 1
    BY DEF RowType
  <2>2. \E y \in {m, MaxStepFailures} : \A z \in {m, MaxStepFailures} : y =< z
    <3>1. m =< MaxStepFailures \/ MaxStepFailures =< m
      BY <2>1
    <3>. QED
      BY <2>1, <3>1
  <2>3. PICK S : S = {m, MaxStepFailures}
    OBVIOUS
  <2>4. Min(S) \in S
    BY <2>2, <2>3 DEF Min
  <2>. QED
    BY <2>1, <2>3, <2>4
<1>4. PICK n \in Nat : n = Min({x.failures + 1, MaxStepFailures})
  BY <1>3
<1>5. PICK r : r = [x EXCEPT !.failures = n]
  OBVIOUS
<1>6. r \in RowType /\ Alike(r, x)
  BY <1>5 DEF RowType, Alike
<1>7. rows' = [rows EXCEPT ![b] = r]
  BY <1>1, <1>2, <1>4, <1>5 DEF Failed
<1>8. rows'[b] = r
  BY <1>1, <1>7
<1>9. {"look", "ending"} \subseteq FreePlaces
  BY DEF FreePlaces
<1>10. lane' = [Off EXCEPT !.at = "ending"] \/ lane' = [Off EXCEPT !.at = "look"]
  BY DEF Failed
<1>11. lane' \in LaneType /\ LaneFits' /\ lane'.at \in FreePlaces
  BY <1>9, <1>10, OffLane
<1>. QED
  BY <1>2, <1>6, <1>7, <1>8, <1>11
-----------------------------------------------------------------------------
(* Steps of the lane alone, and of the world                               *)

LEMMA MinIn ==
    ASSUME NEW S \in SUBSET Nat, S # {}
    PROVE  Min(S) \in S /\ \A y \in S : Min(S) =< y
<1>. DEFINE Less == {ss \in Nat \X Nat : ss[1] < ss[2]}
<1>1. PICK x \in S : \A y \in S : <<y, x>> \notin Less
  <2>1. Less = OpToRel(<, Nat)
    BY Zenon DEF OpToRel
  <2>2. IsWellFoundedOn(Less, Nat)
    BY <2>1, NatLessThanWellFounded
  <2>. HIDE DEF Less
  <2>. QED
    BY <2>2, WFMin
<1>2. \A y \in S : y < x => <<y, x>> \in Less
  OBVIOUS
<1>3. \A y \in S : ~ y < x
  <2>. HIDE DEF Less
  <2>. QED
    BY <1>1, <1>2
<1>4. \E i \in S : \A j \in S : i =< j
  BY <1>3
<1>. QED
  BY <1>4, Zenon DEF Min

LEMMA GoLane ==
    ASSUME IInv, NEW at \in BatchPlaces \cup FreePlaces, Goto(at)
    PROVE  /\ lane' \in LaneType /\ lane'.at = at /\ lane'.batch = lane.batch
           /\ lane'.stop = lane.stop /\ lane'.since = lane.since
BY DEF IInv, Types, LaneType, Goto

LEMMA FreeSteps ==
    ASSUME IInv,
           \/ TickStart \/ TickEnd \/ TickOver \/ Resume
           \/ JobUnavailable \/ RunUnavailable \/ GroupUnavailable \/ Halted \/ RefuseMerge
    PROVE  IInv' /\ lane'.at \in FreePlaces
<1>1. /\ UNCHANGED <<approval, rows, jobs, checkpoints, groups, notes, effects, finished>>
      /\ session' = session
  BY DEF TickStart, TickEnd, TickOver, Resume, JobUnavailable, RunUnavailable,
         GroupUnavailable, Halted, RefuseMerge, Waiting, Pause, world
<1>2. {"off", "look", "ending"} \subseteq FreePlaces
  BY DEF FreePlaces
<1>3. lane' \in LaneType /\ LaneFits' /\ lane'.at \in FreePlaces
  <2>1. CASE Goto("look") \/ Goto("ending")
    BY <1>2, <2>1, GoLane, FreeLane
  <2>2. CASE lane' = [Off EXCEPT !.at = "look"] \/ lane' = [Off EXCEPT !.at = "ending"]
    BY <1>2, <2>2, OffLane
  <2>3. CASE lane' = Off
    <3>1. lane' \in LaneType /\ lane'.at = "off"
      BY <2>3 DEF Off, LaneType, FreePlaces, Stops
    <3>. QED
      BY <1>2, <3>1, FreeLane
  <2>4. CASE UNCHANGED lane /\ At("off")
    BY <1>2, <2>4, FreeLane DEF At, IInv, Types
  <2>. QED
    BY <2>1, <2>2, <2>3, <2>4
       DEF TickStart, TickEnd, TickOver, Resume, JobUnavailable, RunUnavailable,
           GroupUnavailable, Halted, RefuseMerge, Waiting, Pause
<1>4. session' \in Nat
  BY <1>1 DEF IInv, Types
<1>. QED
  BY <1>1, <1>3, <1>4, LaneMoves

\* The oldest batch in a writing phase is taken up where its row says it is.
LEMMA LookStep ==
    ASSUME IInv, Look
    PROVE  IInv'
<1>1. /\ UNCHANGED <<approval, rows, jobs, checkpoints, groups, notes, effects, finished>>
      /\ session' \in Nat
  BY DEF Look, world, IInv, Types
<1>2. PICK S : S = {b \in Batches : rows[b].phase \in WritePhases}
  OBVIOUS
<1>3. S # {} /\ lane' = [Off EXCEPT !.at = rows[Min(S)].phase, !.batch = Min(S)]
  BY <1>2 DEF Look
<1>4. PICK b \in Batches : b = Min(S) /\ rows[b].phase \in WritePhases
  <2>1. S \subseteq Nat
    BY <1>2
  <2>2. Min(S) \in S
    BY <1>3, <2>1, MinIn
  <2>. QED
    BY <1>2, <2>2
<1>5. PICK o \in LaneType : o = Off
  BY DEF Off, LaneType, FreePlaces, Stops
<1>6. lane' = [o EXCEPT !.at = rows[b].phase, !.batch = b]
  BY <1>3, <1>4, <1>5
<1>7. lane' \in LaneType /\ lane'.at = rows[b].phase /\ lane'.batch = b
  BY <1>4, <1>6 DEF LaneType, BatchPlaces
<1>8. LaneFits'
  BY <1>1, <1>4, <1>7 DEF LaneFits, CreatedFits, RunFits, WritePhases, Row, Batch, At
<1>. QED
  BY <1>1, <1>7, <1>8, LaneMoves

\* A run ends, and says why.
LEMMA StopSteps ==
    ASSUME IInv, SessionEnded \/ Halt \/ RunIdle
    PROVE  IInv' /\ lane.at = "dispatch" /\ lane'.at = "ran" /\ lane'.batch = lane.batch
<1>1. /\ UNCHANGED <<approval, rows, jobs, checkpoints, groups, notes, effects, finished>>
      /\ session' \in Nat
  BY DEF SessionEnded, Halt, RunIdle, world, IInv, Types
<1>2. PICK why \in {"session", "capability", "idle"} :
        Stop(why) /\ (why = "idle" => Eligible = {})
  BY DEF SessionEnded, Halt, RunIdle
<1>3. lane \in LaneType
  BY DEF IInv, Types
<1>4. /\ lane' \in LaneType /\ lane'.at = "ran" /\ lane'.batch = lane.batch /\ lane'.stop = why
  BY <1>2, <1>3 DEF Stop, LaneType, BatchPlaces, Stops
<1>5. At("dispatch")
  BY DEF SessionEnded, Halt, RunIdle
<1>6. /\ Batch \in Batches /\ Row.phase = "applying" /\ Row.intent = None /\ HasRun(Batch)
      /\ JobIn(Batch, {"begun", "settled"}) = {} /\ JobIn(Batch, {"started"}) = {}
  BY <1>5 DEF IInv, LaneFits, RunFits, At, FreePlaces
<1>7. Eligible = {} => JobIn(Batch, {"interrupted"}) = {}
  BY DEF Eligible, In, Job, JobId, Row, Batch, JobIn, LastJob
<1>8. why = "idle" => JobIn(Batch, {"started", "interrupted"}) = {}
  BY <1>2, <1>6, <1>7 DEF JobIn
<1>9. Batch' = Batch /\ Row' = Row /\ HasRun(Batch)' = HasRun(Batch)
      /\ \A s : JobIn(Batch, s)' = JobIn(Batch, s)
  BY <1>1, <1>4 DEF Batch, Row, HasRun, JobIn, LastJob
<1>10. RunFits'
  BY <1>2, <1>4, <1>6, <1>8, <1>9 DEF RunFits, At
<1>11. LaneFits'
  BY <1>4, <1>6, <1>9, <1>10 DEF LaneFits, CreatedFits, FreePlaces, WritePhases, At
<1>. QED
  BY <1>1, <1>4, <1>5, <1>11, LaneMoves DEF At

\* Anki restarts, and its user deletes notes and takes backups.
LEMMA WorldSteps ==
    ASSUME IInv, Restart \/ Backup \/ (\E b \in Batches : DeleteNote(b))
    PROVE  IInv' /\ SteadyCheckpoints
<1>1. UNCHANGED <<approval, rows, jobs, groups, effects, finished, lane>>
  BY DEF Restart, Backup, DeleteNote, world
<1>2. Types /\ FilesFit
  BY DEF IInv
<1>3. session' \in Nat
  BY <1>2 DEF Types, Restart, Backup, DeleteNote, world
<1>4. /\ notes' = [c \in Batches |-> notes'[c]]
      /\ \A c \in Batches : notes'[c] \subseteq notes[c]
  <2>1. CASE \E b \in Batches : DeleteNote(b)
    <3>1. PICK b \in Batches : \E i : notes' = [notes EXCEPT ![b] = @ \ {i}]
      BY <2>1 DEF DeleteNote
    <3>. QED
      BY <1>2, <3>1 DEF Types
  <2>2. CASE UNCHANGED notes
    BY <1>2, <2>2 DEF Types
  <2>. QED
    BY <2>1, <2>2 DEF Restart, Backup, world
<1>5. /\ checkpoints' \in Seq(CheckpointType) /\ Len(checkpoints) =< Len(checkpoints')
      /\ DOMAIN checkpoints \subseteq DOMAIN checkpoints'
      /\ \A k \in DOMAIN checkpoints : checkpoints'[k].batch = checkpoints[k].batch
      /\ \A k \in DOMAIN checkpoints' :
           checkpoints'[k].batch \notin ToSet(finished) => checkpoints'[k].file
  <2>1. CASE UNCHANGED checkpoints
    BY <1>2, <2>1 DEF Types, FilesFit
  <2>2. CASE Backup
    <3>1. PICK new : new = Checkpoint(None)
      OBVIOUS
    <3>2. new \in CheckpointType /\ new.file
      BY <1>2, <3>1 DEF Checkpoint, CheckpointType, Types, None
    <3>3. checkpoints \in Seq(CheckpointType) /\ checkpoints' = Append(checkpoints, new)
      BY <1>2, <2>2, <3>1 DEF Types, Backup
    <3>4. /\ checkpoints' \in Seq(CheckpointType) /\ Len(checkpoints') = Len(checkpoints) + 1
          /\ \A k \in DOMAIN checkpoints :
               k \in DOMAIN checkpoints' /\ checkpoints'[k] = checkpoints[k]
          /\ \A k \in DOMAIN checkpoints' : k \in DOMAIN checkpoints \/ checkpoints'[k] = new
      BY <3>2, <3>3, LastOfAppend
    <3>5. Len(checkpoints) \in Nat
      BY <3>3
    <3>. QED
      BY <1>2, <3>2, <3>4, <3>5 DEF FilesFit
  <2>. QED
    BY <2>1, <2>2 DEF Restart, DeleteNote
<1>6. lane' \in LaneType /\ LaneFits'
  BY <1>1, <1>5, LaneStays
<1>7. CheckpointsKept
  BY <1>5 DEF CheckpointsKept
<1>8. SteadyCheckpoints
  BY <1>5 DEF SteadyCheckpoints
<1>. QED
  BY <1>1, <1>3, <1>4, <1>5, <1>6, <1>7, <1>8, WorldMoves

\* Retention takes the file, and then marks the checkpoint: of batches that are done.
LEMMA RetentionSteps ==
    ASSUME IInv, RemoveFile \/ MarkPruned
    PROVE  IInv' /\ SteadyCheckpoints /\ lane'.at \in FreePlaces
<1>1. UNCHANGED <<approval, rows, jobs, groups, notes, effects, finished>> /\ session' \in Nat
  BY DEF RemoveFile, MarkPruned, world, IInv, Types
<1>2. Types /\ FilesFit /\ checkpoints \in Seq(CheckpointType)
  BY DEF IInv, Types
<1>3. DOMAIN checkpoints = 1..Len(checkpoints) /\ Len(checkpoints) \in Nat
  BY <1>2
<1>4. {"ending", "marking"} \subseteq FreePlaces
  BY DEF FreePlaces
<1>5. lane' \in LaneType /\ LaneFits' /\ lane'.at \in FreePlaces
  BY <1>4, GoLane, FreeLane DEF RemoveFile, MarkPruned
<1>6. notes' = [c \in Batches |-> notes'[c]]
  BY <1>1, <1>2 DEF Types
<1>7. /\ checkpoints' \in Seq(CheckpointType) /\ Len(checkpoints') = Len(checkpoints)
      /\ \A k \in DOMAIN checkpoints :
           /\ checkpoints'[k].batch = checkpoints[k].batch
           /\ checkpoints'[k].file = checkpoints[k].file \/ checkpoints[k].batch \in ToSet(finished)
  <2>1. CASE RemoveFile
    <3>1. PICK S : S = Prunable
      OBVIOUS
    <3>2. S # {} /\ S \subseteq Nat
      BY <1>3, <2>1, <3>1 DEF RemoveFile, Prunable
    <3>3. PICK m \in DOMAIN checkpoints : m = Min(S) /\ checkpoints[m].batch \in ToSet(finished)
      BY <3>1, <3>2, MinIn DEF Prunable, Surplus
    <3>4. PICK c \in CheckpointType : c = checkpoints[m]
      BY <1>2, <1>3
    <3>5. PICK d : d = [c EXCEPT !.file = FALSE]
      OBVIOUS
    <3>6. d \in CheckpointType /\ d.batch = c.batch
      BY <3>5 DEF CheckpointType
    <3>7. checkpoints' = [checkpoints EXCEPT ![m] = d]
      BY <1>2, <2>1, <3>1, <3>3, <3>4, <3>5 DEF RemoveFile
    <3>. QED
      BY <1>2, <1>3, <3>3, <3>4, <3>6, <3>7
  <2>2. CASE MarkPruned
    <3>1. PICK m : m = Min(Prunable)
      OBVIOUS
    <3>2. checkpoints' = [checkpoints EXCEPT ![m].pruned = TRUE]
      BY <2>2, <3>1 DEF MarkPruned
    <3>3. CASE m \in DOMAIN checkpoints
      <4>1. PICK c \in CheckpointType : c = checkpoints[m]
        BY <1>2, <1>3, <3>3
      <4>2. PICK d : d = [c EXCEPT !.pruned = TRUE]
        OBVIOUS
      <4>3. d \in CheckpointType /\ d.batch = c.batch /\ d.file = c.file
        BY <4>2 DEF CheckpointType
      <4>4. checkpoints' = [checkpoints EXCEPT ![m] = d]
        BY <1>2, <3>2, <3>3, <4>1, <4>2
      <4>. QED
        BY <1>2, <1>3, <3>3, <4>1, <4>3, <4>4
    <3>4. CASE m \notin DOMAIN checkpoints
      <4>1. checkpoints' = checkpoints
        BY <1>2, <3>2, <3>4
      <4>. QED
        BY <1>2, <4>1
    <3>. QED
      BY <3>3, <3>4
  <2>. QED
    BY <2>1, <2>2
<1>8. DOMAIN checkpoints' = DOMAIN checkpoints
  BY <1>2, <1>3, <1>7
<1>9. CheckpointsKept
  BY <1>7, <1>8 DEF CheckpointsKept
<1>10. \A k \in DOMAIN checkpoints' :
         checkpoints'[k].batch \notin ToSet(finished) => checkpoints'[k].file
  BY <1>2, <1>7, <1>8 DEF FilesFit
<1>11. Len(checkpoints) =< Len(checkpoints')
  BY <1>3, <1>7
<1>12. SteadyCheckpoints
  BY <1>7, <1>8 DEF SteadyCheckpoints
<1>. QED
  BY <1>1, <1>5, <1>6, <1>7, <1>9, <1>10, <1>11, <1>12, WorldMoves
-----------------------------------------------------------------------------
(* Steps that save a row and leave its items as they are                   *)

\* What PhaseFits says of a row that is about to be saved.
MayBe(b, r) ==
    /\ r.grouped => groups[b] = "complete"
    /\ r.phase \in {"verifying", "merging", "done"} /\ b \in Grouped => r.grouped
    /\ r.merged => Duplicate \notin notes[b]
    /\ r.phase \in {"merging", "done"} => \A i \in Items(b) \ r.deferred : effects[b][i] = 1
    /\ r.phase = "done" /\ b \in Merging => r.merged /\ Items(b) \cap r.deferred = {}

LEMMA MayBeFits ==
    ASSUME IInv, NEW b \in Batches, NEW r, rows'[b] = r, MayBe(b, r),
           UNCHANGED <<approval, groups, notes, effects>>
    PROVE  PhaseFits(b)'
<1>1. PhaseFits(b)
  BY DEF IInv, BatchFits
<1>2. Items(b)' = Items(b) /\ Grouped' = Grouped /\ Merging' = Merging
  BY SameTypes
<1>. QED
  BY <1>1, <1>2 DEF PhaseFits, MayBe

LEMMA SavedMoves ==
    ASSUME IInv, NEW b \in Batches, b = Batch, rows[b].phase # "done",
           NEW row \in RowType, Saved(row), MayBe(b, row), row.intent =< Len(checkpoints) + 1,
           row.jobs = rows[b].jobs, row.pending = rows[b].pending,
           row.committed = rows[b].committed, row.deferred = rows[b].deferred,
           row.intent = rows[b].intent \/ ~ HasRun(b),
           row.phase \in {"ready", "approved"} => ~ HasRun(b),
           UNCHANGED <<approval, jobs, checkpoints, groups, notes, effects, session>>,
           finished' = finished \/ (finished' = Append(finished, b) /\ row.phase = "done")
    PROVE  IInv'
<1>1. PICK r \in RowType : rows' = [rows EXCEPT ![b] = r] /\ rows'[b] = r /\ Alike(r, row)
  BY SavedRow
<1>2. lane' \in LaneType /\ LaneFits'
  BY SavedRow
<1>3. MayBe(b, r)
  BY <1>1 DEF MayBe, Alike
<1>4. PhaseFits(b)'
  BY <1>1, <1>3, MayBeFits
<1>5. CheckpointsKept /\ JobKept(b)
  BY LastJobs DEF CheckpointsKept, JobKept
<1>6. JobFits(b)' /\ ItemsFit(b)'
  <2>1. /\ r.jobs = rows[b].jobs /\ r.pending = rows[b].pending
        /\ r.committed = rows[b].committed /\ r.deferred = rows[b].deferred
        /\ r.intent = rows[b].intent \/ ~ HasRun(b)
        /\ r.phase \in {"ready", "approved"} => ~ HasRun(b)
    BY <1>1 DEF Alike
  <2>2. rows'[b] = r
    BY <1>1
  <2>. QED
    BY <1>5, <2>1, <2>2, ItemsStay
<1>7. r.intent =< Len(checkpoints) + 1 /\ r.jobs = rows[b].jobs /\ r.phase = row.phase
  BY <1>1 DEF Alike
<1>. QED
  BY <1>1, <1>2, <1>4, <1>6, <1>7, RowMoves

\* The batch is in a writing phase and the row has the type of rows.
LEMMA AtBatch ==
    ASSUME IInv, lane.at \in WritePhases \cup {"deleted", "grouped"}
    PROVE  /\ Batch \in Batches /\ Row \in RowType /\ Row.phase \in WritePhases
           /\ lane.at \in WritePhases => Row.phase = lane.at
           /\ BatchFits(Batch) /\ Row = rows[Batch]
           /\ Row.intent =< Len(checkpoints) + 1 /\ Len(checkpoints) \in Nat
<1>1. Batch \in Batches
  BY DEF IInv, LaneFits, FreePlaces, WritePhases
<1>2. Row \in RowType /\ Row = rows[Batch] /\ Len(checkpoints) \in Nat
  BY <1>1 DEF IInv, Types, Row, Batch
<1>3. Row.phase \in WritePhases /\ (lane.at \in WritePhases => Row.phase = lane.at)
  BY DEF IInv, LaneFits, At, WritePhases
<1>. QED
  BY <1>1, <1>2, <1>3 DEF IInv, FilesFit

\* The notes that are to be written are looked for; the others are deferred.
LEMMA ReadFactsStep ==
    ASSUME IInv, ReadFacts
    PROVE  IInv'
<1>1. /\ At("approved")
      /\ UNCHANGED <<approval, jobs, checkpoints, groups, notes, effects, session, finished>>
  BY DEF ReadFacts, world
<1>2. lane.at = "approved" /\ lane.at \in WritePhases
  BY <1>1 DEF At, WritePhases
<1>3. PICK b \in Batches : b = Batch
  BY <1>2, AtBatch
<1>4. PICK x \in RowType : x = Row /\ x = rows[b] /\ x.phase = "approved"
  BY <1>2, <1>3, AtBatch
<1>5. BatchFits(b) /\ x.intent =< Len(checkpoints) + 1 /\ ~ HasRun(b)
  BY <1>2, <1>3, <1>4, AtBatch DEF BatchFits, JobFits
<1>6. PICK facts \in BOOLEAN :
        Saved([x EXCEPT !.facts = facts, !.deferred = Items(b) \ notes[b]])
  <2>1. PICK facts \in BOOLEAN : facts = ((NotesOf(b) \ {Duplicate}) \cap notes[b] # {})
    OBVIOUS
  <2>. QED
    BY <1>3, <1>4, <2>1 DEF ReadFacts
<1>7. PICK row : row = [x EXCEPT !.facts = facts, !.deferred = Items(b) \ notes[b]] /\ Saved(row)
  BY <1>6
<1>8. Items(b) \subseteq AllItems
  BY Apart
<1>9. /\ row \in RowType /\ row.phase = "approved" /\ row.deferred = Items(b) \ notes[b]
      /\ row.jobs = x.jobs /\ row.intent = x.intent /\ row.pending = x.pending
      /\ row.committed = x.committed /\ row.grouped = x.grouped /\ row.merged = x.merged
  BY <1>4, <1>8, <1>7 DEF RowType
<1>10. PICK r \in RowType : rows' = [rows EXCEPT ![b] = r] /\ rows'[b] = r /\ Alike(r, row)
  BY <1>3, <1>7, <1>9, SavedRow
<1>11. lane' \in LaneType /\ LaneFits'
  BY <1>3, <1>7, <1>9, SavedRow
<1>12. MayBe(b, r)
  BY <1>4, <1>5, <1>9, <1>10 DEF MayBe, Alike, BatchFits, PhaseFits
<1>13. PhaseFits(b)'
  BY <1>1, <1>10, <1>12, MayBeFits
<1>14. /\ r.jobs = <<>> /\ r.deferred = Items(b) \ notes[b]
       /\ r.pending = x.pending /\ r.committed = x.committed /\ r.intent = x.intent
       /\ r.phase = "approved"
  BY <1>4, <1>5, <1>9, <1>10 DEF Alike, HasRun
<1>15. Items(b)' = Items(b) /\ ~ HasRun(b)' /\ ~ HasRun(b)
  BY <1>1, <1>5, <1>10, <1>14, SameTypes DEF HasRun
<1>16. JobFits(b)'
  BY <1>4, <1>5, <1>10, <1>14, <1>15 DEF BatchFits, JobFits
<1>17. ItemsFit(b)'
  <2>1. Live(b) = Items(b) /\ Live(b)' = Items(b) /\ Unsettled(b)' = {}
    BY <1>15 DEF Live, Unsettled
  <2>2. \A i \in Items(b) : effects[b][i] = 0
    BY <1>5, <2>1 DEF BatchFits, ItemsFit
  <2>. QED
    BY <1>1, <1>10, <1>14, <1>15, <2>1, <2>2 DEF ItemsFit
<1>18. r.jobs = rows[b].jobs /\ r.intent =< Len(checkpoints) + 1 /\ rows[b].phase # "done"
  BY <1>4, <1>5, <1>14 DEF HasRun
<1>. QED
  BY <1>1, <1>10, <1>11, <1>13, <1>16, <1>17, <1>18, RowMoves
\* A pause saves nothing.
LEMMA PauseMoves ==
    ASSUME IInv, NEW code, Pause(code),
           UNCHANGED <<approval, jobs, checkpoints, groups, notes, effects, session, finished>>
    PROVE  IInv'
<1>1. UNCHANGED rows /\ lane' = [Off EXCEPT !.at = "ending"] /\ session' \in Nat
  BY DEF Pause, IInv, Types
<1>2. "ending" \in FreePlaces
  BY DEF FreePlaces
<1>. QED
  BY <1>1, <1>2, OffLane, LaneMoves

LEMMA ApprovedSteps ==
    ASSUME IInv, GroupsOnly \/ RecordIntent
    PROVE  IInv'
<1>1. /\ lane.at = "approved" /\ lane.at \in WritePhases
      /\ UNCHANGED <<approval, jobs, checkpoints, groups, notes, effects, session, finished>>
  BY DEF GroupsOnly, RecordIntent, world, At, WritePhases
<1>2. PICK b \in Batches : b = Batch
  BY <1>1, AtBatch
<1>3. PICK x \in RowType : x = Row /\ x = rows[b] /\ x.phase = "approved"
  BY <1>1, <1>2, AtBatch
<1>4. /\ BatchFits(b) /\ x.intent =< Len(checkpoints) + 1 /\ ~ HasRun(b)
      /\ Len(checkpoints) \in Nat
  BY <1>1, <1>2, <1>3, AtBatch DEF BatchFits, JobFits
<1>5. \E row \in RowType :
        /\ Saved(row) /\ row.phase \in {"approved", "applying"}
        /\ row.intent =< Len(checkpoints) + 1
        /\ row.jobs = x.jobs /\ row.pending = x.pending /\ row.committed = x.committed
        /\ row.deferred = x.deferred /\ row.grouped = x.grouped /\ row.merged = x.merged
  <2>1. CASE GroupsOnly
    <3>1. PICK row : row = [x EXCEPT !.phase = "applying"] /\ Saved(row)
      BY <1>3, <2>1 DEF GroupsOnly
    <3>2. "applying" \in Phases
      BY DEF Phases, WritePhases
    <3>3. /\ row \in RowType /\ row.phase = "applying" /\ row.intent = x.intent
          /\ row.jobs = x.jobs /\ row.pending = x.pending /\ row.committed = x.committed
          /\ row.deferred = x.deferred /\ row.grouped = x.grouped /\ row.merged = x.merged
      BY <3>1, <3>2 DEF RowType
    <3>. QED
      BY <1>4, <3>1, <3>3
  <2>2. CASE RecordIntent
    <3>1. PICK now \in Nat : now = Len(checkpoints) + 1
      BY <1>4
    <3>2. PICK row : row = [x EXCEPT !.intent = now] /\ Saved(row)
      BY <1>3, <2>2, <3>1 DEF RecordIntent, Now
    <3>. QED
      BY <1>3, <1>4, <3>1, <3>2, SMTT(60) DEF RowType
  <2>. QED
    BY <2>1, <2>2
<1>6. PICK row \in RowType :
        /\ Saved(row) /\ row.phase \in {"approved", "applying"}
        /\ row.intent =< Len(checkpoints) + 1
        /\ row.jobs = x.jobs /\ row.pending = x.pending /\ row.committed = x.committed
        /\ row.deferred = x.deferred /\ row.grouped = x.grouped /\ row.merged = x.merged
  BY <1>5
<1>7. MayBe(b, row)
  BY <1>3, <1>4, <1>6 DEF MayBe, BatchFits, PhaseFits
<1>. QED
  BY <1>1, <1>2, <1>3, <1>4, <1>6, <1>7, SavedMoves

\* The end of the writing, the verification and the merge.
LEMMA ClosingSteps ==
    ASSUME IInv, AppliesOver \/ Verify \/ SaveMerged \/ MergeOver
    PROVE  IInv'
<1>1. /\ lane.at \in WritePhases \cup {"deleted", "grouped"}
      /\ UNCHANGED <<approval, jobs, checkpoints, groups, notes, effects, session>>
  BY DEF AppliesOver, Verify, SaveMerged, MergeOver, JobsOver, world, At, WritePhases
<1>2. PICK b \in Batches : b = Batch
  BY <1>1, AtBatch
<1>3. PICK x \in RowType : x = Row /\ x = rows[b] /\ x.phase \in WritePhases
  BY <1>1, <1>2, AtBatch
<1>4. /\ BatchFits(b) /\ x.intent =< Len(checkpoints) + 1
      /\ effects[b] \in [NotesOf(b) -> {0, 1}] /\ Items(b) \subseteq NotesOf(b)
  BY <1>1, <1>2, <1>3, AtBatch, Apart DEF IInv, Types
<1>5. {"verifying", "merging", "done"} \subseteq Phases
  BY DEF Phases, WritePhases
<1>6. ASSUME NEW row \in RowType, Saved(row), MayBe(b, row),
             row.phase \in {"verifying", "merging", "done"}, row.intent = x.intent,
             row.jobs = x.jobs, row.pending = x.pending, row.committed = x.committed,
             row.deferred = x.deferred,
             finished' = finished \/ (finished' = Append(finished, b) /\ row.phase = "done")
      PROVE  IInv'
  <2>1. rows[b].phase # "done"
    BY <1>3 DEF WritePhases
  <2>. QED
    BY <1>1, <1>2, <1>3, <1>4, <1>6, <2>1, SavedMoves
<1>7. CASE AppliesOver
  <2>1. PICK row : row = [x EXCEPT !.phase = "verifying"] /\ Saved(row)
    BY <1>3, <1>7 DEF AppliesOver
  <2>2. /\ row \in RowType /\ row.phase = "verifying" /\ row.intent = x.intent
        /\ row.jobs = x.jobs /\ row.pending = x.pending /\ row.committed = x.committed
        /\ row.deferred = x.deferred /\ row.grouped = x.grouped /\ row.merged = x.merged
    BY <1>5, <2>1 DEF RowType
  <2>3. UNCHANGED finished /\ (b \in Grouped => x.grouped)
    BY <1>2, <1>3, <1>7 DEF AppliesOver
  <2>4. MayBe(b, row)
    BY <1>3, <1>4, <2>2, <2>3 DEF MayBe, BatchFits, PhaseFits
  <2>. QED
    BY <1>6, <2>1, <2>2, <2>3, <2>4
<1>8. CASE Verify
  <2>1. x.phase = "verifying"
    BY <1>1, <1>3, <1>8, AtBatch DEF Verify, At, WritePhases
  <2>2. Verified => \A i \in Items(b) \ x.deferred : effects[b][i] = 1
    BY <1>2, <1>3, <1>4 DEF Verified
  <2>3. CASE ~ Verified
    BY <1>1, <1>8, <2>3, PauseMoves DEF Verify
  <2>4. CASE Verified /\ b \in Merging
    <3>1. PICK row : row = [x EXCEPT !.phase = "merging"] /\ Saved(row)
      BY <1>2, <1>3, <1>8, <2>4 DEF Verify
    <3>2. /\ row \in RowType /\ row.phase = "merging" /\ row.intent = x.intent
          /\ row.jobs = x.jobs /\ row.pending = x.pending /\ row.committed = x.committed
          /\ row.deferred = x.deferred /\ row.grouped = x.grouped /\ row.merged = x.merged
      BY <1>5, <3>1 DEF RowType
    <3>3. MayBe(b, row)
      BY <1>3, <1>4, <2>1, <2>2, <2>4, <3>2 DEF MayBe, BatchFits, PhaseFits
    <3>4. UNCHANGED finished
      BY <1>2, <1>8, <2>4 DEF Verify
    <3>. QED
      BY <1>6, <3>1, <3>2, <3>3, <3>4
  <2>5. CASE Verified /\ b \notin Merging
    <3>1. PICK row :
            /\ row = [x EXCEPT !.phase = "done"] /\ Saved(row)
            /\ finished' = Append(finished, b)
      BY <1>2, <1>3, <1>8, <2>5 DEF Verify, Done
    <3>2. /\ row \in RowType /\ row.phase = "done" /\ row.intent = x.intent
          /\ row.jobs = x.jobs /\ row.pending = x.pending /\ row.committed = x.committed
          /\ row.deferred = x.deferred /\ row.grouped = x.grouped /\ row.merged = x.merged
      BY <1>5, <3>1 DEF RowType
    <3>3. MayBe(b, row)
      BY <1>3, <1>4, <2>1, <2>2, <2>5, <3>2 DEF MayBe, BatchFits, PhaseFits
    <3>. QED
      BY <1>6, <3>1, <3>2, <3>3
  <2>. QED
    BY <2>3, <2>4, <2>5
<1>9. CASE SaveMerged
  <2>1. x.phase = "merging" /\ UNCHANGED finished
    BY <1>3, <1>9 DEF SaveMerged, IInv, LaneFits, At
  <2>2. CASE Duplicate \in notes[b]
    BY <1>1, <1>2, <1>9, <2>1, <2>2, PauseMoves DEF SaveMerged
  <2>3. CASE Duplicate \notin notes[b]
    <3>1. PICK row : row = [x EXCEPT !.merged = TRUE] /\ Saved(row)
      BY <1>2, <1>3, <1>9, <2>3 DEF SaveMerged
    <3>2. /\ row \in RowType /\ row.phase = "merging" /\ row.intent = x.intent
          /\ row.jobs = x.jobs /\ row.pending = x.pending /\ row.committed = x.committed
          /\ row.deferred = x.deferred /\ row.grouped = x.grouped /\ row.merged
      BY <2>1, <3>1 DEF RowType
    <3>3. MayBe(b, row)
      BY <1>3, <1>4, <2>1, <2>3, <3>2 DEF MayBe, BatchFits, PhaseFits
    <3>. QED
      BY <1>6, <2>1, <3>1, <3>2, <3>3
  <2>. QED
    BY <2>2, <2>3
<1>10. CASE MergeOver
  <2>1. x.phase = "merging" /\ x.merged /\ Items(b) \cap x.deferred = {}
    BY <1>1, <1>2, <1>3, <1>10, AtBatch DEF MergeOver, SurvivorApplied, At, WritePhases
  <2>2. PICK row :
          /\ row = [x EXCEPT !.phase = "done"] /\ Saved(row)
          /\ finished' = Append(finished, b)
    BY <1>2, <1>3, <1>10 DEF MergeOver, Done
  <2>3. /\ row \in RowType /\ row.phase = "done" /\ row.intent = x.intent
        /\ row.jobs = x.jobs /\ row.pending = x.pending /\ row.committed = x.committed
        /\ row.deferred = x.deferred /\ row.grouped = x.grouped /\ row.merged = x.merged
    BY <1>5, <2>2 DEF RowType
  <2>4. MayBe(b, row)
    BY <1>3, <1>4, <2>1, <2>3 DEF MayBe, BatchFits, PhaseFits
  <2>. QED
    BY <1>6, <2>2, <2>3, <2>4
<1>. QED
  BY <1>7, <1>8, <1>9, <1>10

\* A batch is approved while the lane works on another one.
LEMMA ApproveStep ==
    ASSUME IInv, NEW b \in Batches, Approve(b)
    PROVE  IInv'
<1>1. UNCHANGED <<approval, jobs, checkpoints, groups, notes, effects, session, lane, finished>>
  BY DEF Approve, world
<1>2. PICK x \in RowType : x = rows[b] /\ x.phase = "ready"
  BY DEF Approve, IInv, Types
<1>3. BatchFits(b) /\ ~ HasRun(b) /\ x.intent =< Len(checkpoints) + 1
  BY <1>2 DEF IInv, BatchFits, JobFits, FilesFit
<1>4. PICK r : r = [x EXCEPT !.phase = "approved"]
  OBVIOUS
<1>5. "approved" \in Phases
  BY DEF Phases, WritePhases
<1>6. /\ r \in RowType /\ r.phase = "approved" /\ r.intent = x.intent
      /\ r.jobs = x.jobs /\ r.pending = x.pending /\ r.committed = x.committed
      /\ r.deferred = x.deferred /\ r.grouped = x.grouped /\ r.merged = x.merged
  BY <1>4, <1>5 DEF RowType
<1>7. rows' = [rows EXCEPT ![b] = r] /\ rows \in [Batches -> RowType]
  BY <1>2, <1>4 DEF Approve, IInv, Types
<1>8. rows'[b] = r /\ \A c \in Batches \ {b} : rows'[c] = rows[c]
  BY <1>7
<1>9. lane' \in LaneType /\ LaneFits'
  BY <1>1, <1>2, <1>3, <1>6, <1>8, LaneStays
<1>10. MayBe(b, r)
  BY <1>2, <1>3, <1>6 DEF MayBe, BatchFits, PhaseFits
<1>11. PhaseFits(b)'
  BY <1>1, <1>8, <1>10, MayBeFits
<1>12. CheckpointsKept /\ JobKept(b) /\ notes'[b] \subseteq notes[b]
  BY <1>1, LastJobs DEF CheckpointsKept, JobKept
<1>13. JobFits(b)' /\ ItemsFit(b)'
  BY <1>1, <1>2, <1>3, <1>6, <1>8, <1>12, ItemsStay
<1>. QED
  BY <1>1, <1>2, <1>3, <1>6, <1>7, <1>9, <1>11, <1>13, RowMoves
-----------------------------------------------------------------------------
(* The deletion of the duplicate, and the checkpoints of a batch           *)

\* A place of the lane that says nothing but the phase of the row.
LEMMA PlaceFits ==
    ASSUME NEW b \in Batches, lane'.at \in {"deleted", "grouped"}, lane'.batch = b,
           lane'.at = "deleted" => rows'[b].phase = "merging",
           lane'.at = "grouped" => /\ rows'[b].phase = "applying" /\ b \in Grouped'
                                   /\ lane'.stop = "complete" => groups'[b] = "complete"
    PROVE  LaneFits'
BY DEF LaneFits, CreatedFits, RunFits, WritePhases, FreePlaces, At, Row, Batch

\* The delete is sent; the note may be gone before the command says so.
LEMMA DeleteStep ==
    ASSUME IInv, DeleteMerged
    PROVE  IInv'
<1>1. /\ lane.at = "merging" /\ lane.at \in WritePhases
      /\ UNCHANGED <<approval, jobs, checkpoints, groups, effects, session, finished>>
  BY DEF DeleteMerged, world, At, WritePhases
<1>2. Batch \in Batches /\ Row.phase = "merging" /\ Row = rows[Batch]
  BY <1>1, AtBatch
<1>3. Types /\ FilesFit /\ session' \in Nat
  BY <1>1 DEF IInv, Types
<1>4. /\ UNCHANGED rows /\ lane' \in LaneType /\ LaneFits'
      /\ notes' = [c \in Batches |-> notes'[c]]
      /\ \A c \in Batches : notes'[c] \subseteq notes[c]
  <2>1. CASE notes' = [notes EXCEPT ![Batch] = @ \ {Duplicate}] /\ Goto("deleted") /\ UNCHANGED rows
    <3>1. "deleted" \in BatchPlaces
      BY DEF BatchPlaces
    <3>2. lane' \in LaneType /\ lane'.at = "deleted" /\ lane'.batch = lane.batch
      BY <2>1, <3>1, GoLane
    <3>3. LaneFits'
      BY <1>2, <2>1, <3>2, PlaceFits DEF Batch
    <3>4. /\ notes' = [c \in Batches |-> notes'[c]]
          /\ \A c \in Batches : notes'[c] \subseteq notes[c]
      BY <1>2, <1>3, <2>1 DEF Types
    <3>. QED
      BY <2>1, <3>2, <3>3, <3>4
  <2>2. CASE (Waiting \/ Pause("merge")) /\ UNCHANGED notes
    <3>1. lane' = [Off EXCEPT !.at = "look"] \/ lane' = [Off EXCEPT !.at = "ending"]
      BY <2>2 DEF Waiting, Pause
    <3>2. {"look", "ending"} \subseteq FreePlaces
      BY DEF FreePlaces
    <3>3. lane' \in LaneType /\ LaneFits'
      BY <3>1, <3>2, OffLane
    <3>4. UNCHANGED rows
      BY <2>2 DEF Waiting, Pause
    <3>. QED
      BY <1>3, <2>2, <3>3, <3>4 DEF Types
  <2>. QED
    BY <2>1, <2>2 DEF DeleteMerged
<1>5. CheckpointsKept /\ checkpoints' \in Seq(CheckpointType) /\ Len(checkpoints) =< Len(checkpoints')
  BY <1>1, <1>3 DEF CheckpointsKept, Types
<1>6. \A k \in DOMAIN checkpoints' :
         checkpoints'[k].batch \notin ToSet(finished) => checkpoints'[k].file
  BY <1>1, <1>3 DEF FilesFit
<1>. QED
  BY <1>1, <1>3, <1>4, <1>5, <1>6, WorldMoves

\* Recording checkpoints for a batch that is not done, when they are listed.
LEMMA AttributedKeeps ==
    ASSUME IInv, NEW b \in Batches, rows[b].phase # "done", NEW since \in Nat,
           checkpoints' = Attributed(b, since) \/ UNCHANGED checkpoints
    PROVE  /\ checkpoints' \in Seq(CheckpointType) /\ CheckpointsKept
           /\ Len(checkpoints') = Len(checkpoints) /\ DOMAIN checkpoints' = DOMAIN checkpoints
           /\ \A k \in DOMAIN checkpoints :
                \/ checkpoints'[k].batch = checkpoints[k].batch
                \/ k >= since /\ checkpoints[k].batch = None /\ checkpoints'[k].batch = b
           /\ \A k \in DOMAIN checkpoints' :
                checkpoints'[k].batch \notin ToSet(finished) => checkpoints'[k].file
<1>1. checkpoints \in Seq(CheckpointType) /\ FilesFit /\ b \in Nat
  BY DEF IInv, Types
<1>2. DOMAIN checkpoints = 1..Len(checkpoints) /\ Len(checkpoints) \in Nat
  BY <1>1
<1>3. \A k \in DOMAIN checkpoints : checkpoints[k] \in CheckpointType
  BY <1>1
<1>4. DOMAIN checkpoints' = DOMAIN checkpoints
  BY DEF Attributed
<1>5. ASSUME NEW k \in DOMAIN checkpoints
      PROVE  /\ checkpoints'[k] \in CheckpointType /\ checkpoints'[k].file = checkpoints[k].file
             /\ \/ checkpoints'[k].batch = checkpoints[k].batch
                \/ k >= since /\ checkpoints[k].batch = None /\ checkpoints'[k].batch = b
  <2>1. PICK c \in CheckpointType : c = checkpoints[k]
    BY <1>3
  <2>2. PICK d : d = [c EXCEPT !.batch = b]
    OBVIOUS
  <2>3. d \in CheckpointType /\ d.batch = b /\ d.file = c.file
    BY <1>1, <2>2 DEF CheckpointType
  <2>4. checkpoints'[k] = c \/ (k >= since /\ c.batch = None /\ checkpoints'[k] = d)
    BY <2>1, <2>2 DEF Attributed
  <2>. QED
    BY <2>1, <2>3, <2>4
<1>6. checkpoints' = [k \in 1..Len(checkpoints) |-> checkpoints'[k]]
  BY <1>1, <1>2 DEF Attributed
<1>7. checkpoints' \in Seq(CheckpointType) /\ Len(checkpoints') = Len(checkpoints)
  BY <1>2, <1>5, <1>6
<1>8. CheckpointsKept
  BY <1>4 DEF CheckpointsKept
<1>9. None \notin ToSet(finished)
  BY Apart DEF IInv, Types, ToSet, None
<1>10. \A k \in DOMAIN checkpoints' :
         checkpoints'[k].batch \notin ToSet(finished) => checkpoints'[k].file
  <2>1. ASSUME NEW k \in DOMAIN checkpoints, checkpoints'[k].batch \notin ToSet(finished)
        PROVE  checkpoints[k].batch \notin ToSet(finished)
    BY <1>5, <1>9, <2>1
  <2>. QED
    BY <1>1, <1>4, <1>5, <2>1 DEF FilesFit
<1>. QED
  BY <1>4, <1>5, <1>7, <1>8, <1>10

\* A job was created for the batch the lane works on.
LEMMA AtJob ==
    ASSUME IInv, lane.at \in {"created", "recorded"}
    PROVE  /\ Batch \in Batches /\ Row \in RowType /\ Row = rows[Batch]
           /\ Row.phase \in {"approved", "applying"} /\ BatchFits(Batch)
           /\ DOMAIN jobs = 1..Len(jobs) /\ Len(jobs) \in Nat \ {0}
           /\ NewestJob \in JobType /\ NewestJob.checkpoint \in DOMAIN checkpoints
           /\ DOMAIN NewestJob.items \subseteq Live(Batch)
           /\ \A i \in DOMAIN NewestJob.items : NewestJob.items[i] = "pending"
           /\ \A c \in Batches : HasRun(c) => Last(rows[c].jobs) # Len(jobs)
<1>1. Batch \in Batches
  BY DEF IInv, LaneFits, FreePlaces
<1>2. CreatedFits
  BY DEF IInv, LaneFits
<1>3. jobs \in Seq(JobType) /\ rows \in [Batches -> RowType] /\ BatchFits(Batch)
  BY <1>1 DEF IInv, Types
<1>4. jobs # <<>>
  BY <1>2 DEF CreatedFits
<1>5. DOMAIN jobs = 1..Len(jobs) /\ Len(jobs) \in Nat \ {0}
  BY <1>3, <1>4
<1>6. NewestJob \in JobType
  BY <1>3, <1>5 DEF NewestJob
<1>7. Row = rows[Batch]
  BY DEF Row, Batch
<1>. QED
  BY <1>1, <1>2, <1>3, <1>5, <1>6, <1>7 DEF CreatedFits, At

\* The checkpoint of the new job becomes the batch's before the job does.
LEMMA RecordCheckpointsStep ==
    ASSUME IInv, RecordCheckpoints
    PROVE  IInv'
<1>1. /\ lane.at = "created" /\ Goto("recorded") /\ session' = session
      /\ UNCHANGED <<approval, rows, jobs, groups, notes, effects, finished>>
  BY DEF RecordCheckpoints, world, At
<1>2. Types /\ session' \in Nat
  BY <1>1 DEF IInv, Types
<1>3. PICK b \in Batches : b = Batch
  BY <1>1, AtJob
<1>4. PICK x \in RowType : x = Row /\ x = rows[b] /\ x.phase \in {"approved", "applying"}
  BY <1>1, <1>3, AtJob
<1>5. PICK since \in Nat : since = x.intent
  BY DEF RowType
<1>6. /\ checkpoints' \in Seq(CheckpointType) /\ CheckpointsKept
      /\ Len(checkpoints') = Len(checkpoints) /\ DOMAIN checkpoints' = DOMAIN checkpoints
      /\ \A k \in DOMAIN checkpoints' :
           checkpoints'[k].batch \notin ToSet(finished) => checkpoints'[k].file
  <2>1. rows[b].phase # "done" /\ (checkpoints' = Attributed(b, since) \/ UNCHANGED checkpoints)
    BY <1>3, <1>4, <1>5 DEF RecordCheckpoints
  <2>. QED
    BY <2>1, AttributedKeeps
<1>7. "recorded" \in BatchPlaces
  BY DEF BatchPlaces
<1>8. lane' \in LaneType /\ lane'.at = "recorded" /\ lane'.batch = lane.batch
  BY <1>1, <1>7, GoLane
<1>9. LaneFits'
  <2>1. Batch' = Batch /\ Row' = Row /\ NewestJob' = NewestJob
    BY <1>1, <1>8 DEF Batch, Row, NewestJob
  <2>2. Live(Batch)' = Live(Batch)
    BY <1>1, <2>1, SameTypes, AtJob DEF Live, HasRun, JobIn, LastJob
  <2>3. \A c \in Batches : HasRun(c)' = HasRun(c)
    BY <1>1 DEF HasRun
  <2>4. CreatedFits'
    BY <1>1, <1>6, <1>8, <2>1, <2>2, <2>3, AtJob DEF CreatedFits, At
  <2>. QED
    BY <1>1, <1>8, <2>1, <2>4, AtJob DEF LaneFits, RunFits, At, FreePlaces, WritePhases
<1>10. notes' = [c \in Batches |-> notes'[c]] /\ \A c \in Batches : notes'[c] \subseteq notes[c]
  BY <1>1, <1>2 DEF Types
<1>11. Len(checkpoints) =< Len(checkpoints')
  BY <1>2, <1>6 DEF Types
<1>. QED
  BY <1>1, <1>2, <1>6, <1>8, <1>9, <1>10, <1>11, WorldMoves
LEMMA LiveIn ==
    ASSUME IInv, NEW b \in Batches
    PROVE  Live(b) \subseteq Items(b) /\ Unsettled(b) \subseteq Items(b)
<1>1. JobFits(b)
  BY DEF IInv, BatchFits
<1>2. HasRun(b) => \A s : JobIn(b, s) \subseteq Items(b)
  BY <1>1 DEF JobFits, JobIn
<1>. QED
  BY <1>1, <1>2 DEF Live, Unsettled, JobFits

\* The new job becomes the batch's last: it holds what may still be written, at most.
LEMMA SaveJobStep ==
    ASSUME IInv, SaveJob
    PROVE  IInv'
<1>1. /\ lane.at = "recorded"
      /\ UNCHANGED <<approval, jobs, checkpoints, groups, notes, effects, session, finished>>
  BY DEF SaveJob, world, At
<1>2. Types /\ FilesFit /\ JobsApart
  BY DEF IInv
<1>3. PICK b \in Batches : b = Batch
  BY <1>1, AtJob
<1>4. PICK x \in RowType : x = Row /\ x = rows[b] /\ x.phase \in {"approved", "applying"}
  BY <1>1, <1>3, AtJob
<1>5. PICK n \in DOMAIN jobs : n = Len(jobs) /\ n \in Nat /\ jobs[n] = NewestJob
  BY <1>1, AtJob DEF NewestJob
<1>6. PICK js \in Seq(Nat) : js = Append(x.jobs, n) /\ js # <<>> /\ Last(js) = n
  <2>1. x.jobs \in Seq(Nat)
    BY DEF RowType
  <2>2. /\ Append(x.jobs, n) \in Seq(Nat) /\ Append(x.jobs, n) # <<>>
        /\ Last(Append(x.jobs, n)) = n
    BY <1>5, <2>1, LastOfAppend
  <2>. QED
    BY <2>2
<1>7. PICK row : row = [x EXCEPT !.jobs = js, !.intent = None, !.phase = "applying"] /\ Saved(row)
  BY <1>4, <1>5, <1>6 DEF SaveJob
<1>8. /\ row \in RowType /\ row.jobs = js /\ row.intent = None /\ row.phase = "applying"
      /\ row.pending = x.pending /\ row.committed = x.committed /\ row.deferred = x.deferred
      /\ row.grouped = x.grouped /\ row.merged = x.merged
  BY <1>6, <1>7 DEF RowType, Phases, WritePhases, None
<1>9. PICK r \in RowType : rows' = [rows EXCEPT ![b] = r] /\ rows'[b] = r /\ Alike(r, row)
  BY <1>3, <1>7, <1>8, SavedRow
<1>10. lane' \in LaneType /\ LaneFits'
  BY <1>3, <1>7, <1>8, SavedRow
<1>11. /\ r.jobs = js /\ r.intent = None /\ r.phase = "applying"
       /\ r.pending = x.pending /\ r.committed = x.committed /\ r.deferred = x.deferred
       /\ r.grouped = x.grouped /\ r.merged = x.merged
  BY <1>8, <1>9 DEF Alike
<1>12. /\ HasRun(b)' /\ LastJob(b)' = NewestJob /\ rows'[b].intent = None
       /\ Last(rows'[b].jobs) = n
  BY <1>1, <1>5, <1>6, <1>9, <1>11 DEF HasRun, LastJob
<1>13. /\ NewestJob.checkpoint \in DOMAIN checkpoints
       /\ DOMAIN NewestJob.items \subseteq Live(b) /\ Live(b) \subseteq Items(b)
       /\ \A i \in DOMAIN NewestJob.items : NewestJob.items[i] = "pending"
  BY <1>1, <1>3, AtJob, LiveIn
<1>14. BatchFits(b) /\ Items(b)' = Items(b)
  BY <1>1, SameTypes DEF IInv
<1>15. /\ \A s : "pending" \notin s => JobIn(b, s)' = {}
       /\ JobIn(b, Untried)' \subseteq Live(b)
  BY <1>12, <1>13 DEF JobIn
<1>16. Live(b)' \subseteq Live(b) /\ Unsettled(b)' = {}
  BY <1>12, <1>15 DEF Live, Unsettled, Unknown
<1>17. JobFits(b)'
  <2>1. JobIn(b, Retried)' = {}
    BY <1>15 DEF Retried
  <2>. QED
    BY <1>1, <1>4, <1>5, <1>9, <1>11, <1>12, <1>13, <1>14, <2>1 DEF BatchFits, JobFits
<1>18. ItemsFit(b)'
  <2>1. JobIn(b, {"failed"})' = {}
    BY <1>15
  <2>. QED
    BY <1>1, <1>4, <1>9, <1>11, <1>14, <1>16, <2>1 DEF BatchFits, ItemsFit
<1>19. MayBe(b, r)
  BY <1>4, <1>11, <1>14 DEF MayBe, BatchFits, PhaseFits
<1>20. PhaseFits(b)'
  BY <1>1, <1>9, <1>19, MayBeFits
<1>21. BatchFits(b)'
  BY <1>17, <1>18, <1>20 DEF BatchFits
<1>22. CheckpointsKept /\ \A c \in Batches : JobKept(c)
  BY <1>1, LastJobs DEF CheckpointsKept, JobKept
<1>23. \A c \in Batches : HasRun(c) => Last(rows[c].jobs) # Last(r.jobs)
  BY <1>1, <1>5, <1>6, <1>11, AtJob
<1>24. /\ jobs' \in Seq(JobType) /\ checkpoints' \in Seq(CheckpointType)
       /\ groups' \in [Batches -> {"none", "partial", "complete"}]
       /\ notes' = [c \in Batches |-> notes'[c]] /\ effects' = [c \in Batches |-> effects'[c]]
       /\ effects'[b] \in [NotesOf(b) -> {0, 1}]
       /\ session' \in Nat
  BY <1>1, <1>2 DEF Types
<1>25. Len(checkpoints) =< Len(checkpoints') /\ r.intent =< Len(checkpoints') + 1
  BY <1>1, <1>2, <1>11 DEF Types, None
<1>26. \A k \in DOMAIN checkpoints' :
          checkpoints'[k].batch \notin ToSet(finished) => checkpoints'[k].file
  BY <1>1, <1>2 DEF FilesFit
<1>27. rows[b].phase # "done"
  BY <1>4
<1>. QED
  BY <1>1, <1>9, <1>10, <1>21, <1>22, <1>23, <1>24, <1>25, <1>26, <1>27, BatchMoves
-----------------------------------------------------------------------------
(* A new checkpoint, and a new job                                         *)

LEMMA TakenKeeps ==
    ASSUME IInv, NEW by \in Nat, checkpoints' = Append(checkpoints, Checkpoint(by))
    PROVE  /\ checkpoints' \in Seq(CheckpointType) /\ CheckpointsKept /\ SteadyCheckpoints
           /\ Len(checkpoints) =< Len(checkpoints')
           /\ DOMAIN checkpoints \subseteq DOMAIN checkpoints'
           /\ Now \in DOMAIN checkpoints' /\ Now \in Nat \ {0} /\ checkpoints'[Now].batch = None
           /\ \A k \in DOMAIN checkpoints' :
                checkpoints'[k].batch \notin ToSet(finished) => checkpoints'[k].file
<1>1. checkpoints \in Seq(CheckpointType) /\ FilesFit /\ session \in Nat
  BY DEF IInv, Types
<1>2. PICK new : new = Checkpoint(by)
  OBVIOUS
<1>3. new \in CheckpointType /\ new.file /\ new.batch = None
  BY <1>1, <1>2 DEF Checkpoint, CheckpointType, None
<1>4. /\ checkpoints' \in Seq(CheckpointType) /\ Len(checkpoints') = Len(checkpoints) + 1
      /\ \A k \in DOMAIN checkpoints : k \in DOMAIN checkpoints' /\ checkpoints'[k] = checkpoints[k]
      /\ \A k \in DOMAIN checkpoints' :
           k \in DOMAIN checkpoints \/ (k = Len(checkpoints) + 1 /\ checkpoints'[k] = new)
  BY <1>1, <1>2, <1>3, LastOfAppend
<1>5. /\ Len(checkpoints) \in Nat /\ DOMAIN checkpoints = 1..Len(checkpoints)
      /\ DOMAIN checkpoints' = 1..(Len(checkpoints) + 1)
  BY <1>1, <1>4
<1>6. Now \in DOMAIN checkpoints' /\ Now \in Nat \ {0} /\ Now \notin DOMAIN checkpoints
  BY <1>5 DEF Now
<1>7. checkpoints'[Now].batch = None
  BY <1>3, <1>4, <1>6
<1>8. CheckpointsKept
  BY <1>4 DEF CheckpointsKept
<1>9. \A k \in DOMAIN checkpoints' :
         checkpoints'[k].batch \notin ToSet(finished) => checkpoints'[k].file
  BY <1>1, <1>3, <1>4 DEF FilesFit
<1>10. SteadyCheckpoints
  BY <1>4 DEF SteadyCheckpoints
<1>. QED
  BY <1>4, <1>5, <1>6, <1>7, <1>8, <1>9, <1>10

\* A step that changes nothing of its batch but the count of failures, while a
\* checkpoint is taken and a job may be created.
LEMMA TakenMoves ==
    ASSUME IInv, NEW b \in Batches, rows[b].phase # "done",
           NEW r \in RowType, rows' = [rows EXCEPT ![b] = r], rows'[b] = r, Alike(r, rows[b]),
           NEW by \in Nat, checkpoints' = Append(checkpoints, Checkpoint(by)),
           jobs' \in Seq(JobType), \A c \in Batches : JobKept(c),
           UNCHANGED <<approval, groups, notes, effects, session, finished>>,
           lane' \in LaneType, LaneFits'
    PROVE  IInv'
<1>1. /\ checkpoints' \in Seq(CheckpointType) /\ CheckpointsKept
      /\ Len(checkpoints) =< Len(checkpoints')
      /\ \A k \in DOMAIN checkpoints' :
           checkpoints'[k].batch \notin ToSet(finished) => checkpoints'[k].file
  BY TakenKeeps
<1>2. Types /\ FilesFit /\ BatchFits(b)
  BY DEF IInv
<1>3. /\ groups' \in [Batches -> {"none", "partial", "complete"}]
      /\ notes' = [c \in Batches |-> notes'[c]] /\ effects' = [c \in Batches |-> effects'[c]]
      /\ effects'[b] \in [NotesOf(b) -> {0, 1}]
      /\ session' \in Nat
  BY <1>2 DEF Types
<1>4. MayBe(b, r)
  BY <1>2 DEF MayBe, Alike, BatchFits, PhaseFits
<1>5. PhaseFits(b)'
  BY <1>4, MayBeFits
<1>6. r.phase \in {"ready", "approved"} => ~ HasRun(b)
  BY <1>2 DEF Alike, BatchFits, JobFits
<1>7. JobFits(b)' /\ ItemsFit(b)'
  BY <1>1, <1>6, ItemsStay DEF Alike
<1>8. BatchFits(b)'
  BY <1>5, <1>7 DEF BatchFits
<1>9. r.jobs # <<>> => HasRun(b) /\ Last(r.jobs) = Last(rows[b].jobs)
  BY DEF Alike, HasRun
<1>10. r.intent =< Len(checkpoints') + 1
  <2>1. /\ r.intent \in Nat /\ r.intent =< Len(checkpoints) + 1
        /\ Len(checkpoints) \in Nat /\ Len(checkpoints') \in Nat
    BY <1>1, <1>2 DEF Types, FilesFit, Alike, RowType
  <2>. QED
    BY <1>1, <2>1
<1>. QED
  BY <1>1, <1>3, <1>8, <1>9, <1>10, BatchMoves

LEMMA WantedLive ==
    ASSUME IInv, WantsJob
    PROVE  /\ Batch \in Batches /\ Wanted \subseteq Live(Batch)
           /\ Row.phase \in {"approved", "applying"}
<1>1. lane.at \in WritePhases /\ lane.at \in {"approved", "applying"}
  BY DEF WantsJob, At, WritePhases
<1>2. Batch \in Batches /\ Row = rows[Batch] /\ Row.phase = lane.at /\ BatchFits(Batch)
  BY <1>1, AtBatch
<1>3. Row.phase = "approved" => ~ HasRun(Batch)
  BY <1>2 DEF BatchFits, JobFits
<1>4. Row.pending \subseteq Items(Batch)
  BY <1>2 DEF BatchFits, JobFits
<1>5. lane.at = "applying" => Row.intent # None
  BY DEF WantsJob, At
<1>6. Wanted \subseteq Live(Batch)
  BY <1>1, <1>2, <1>3, <1>4, <1>5 DEF Wanted, Live, At
<1>. QED
  BY <1>1, <1>2, <1>6

\* The command takes its checkpoint first; killed or failed between the two, it
\* leaves the checkpoint alone, or a job that no batch holds.
LEMMA CreateJobStep ==
    ASSUME IInv, CreateJob
    PROVE  IInv'
<1>1. /\ WantsJob /\ checkpoints' = Append(checkpoints, Checkpoint(Batch))
      /\ UNCHANGED <<approval, groups, notes, effects, session, finished>>
  BY DEF CreateJob, world
<1>2. PICK b \in Batches : b = Batch /\ Row = rows[b] /\ rows[b].phase \in {"approved", "applying"}
  BY <1>1, WantedLive DEF Row, Batch
<1>3. b \in Nat /\ rows[b].phase # "done"
  BY <1>2
<1>4. /\ checkpoints' \in Seq(CheckpointType) /\ DOMAIN checkpoints \subseteq DOMAIN checkpoints'
      /\ Now \in DOMAIN checkpoints' /\ Now \in Nat \ {0} /\ checkpoints'[Now].batch = None
  BY <1>1, <1>2, <1>3, TakenKeeps
<1>5. Types
  BY DEF IInv
<1>6. CASE UNCHANGED jobs /\ Failed
  <2>1. PICK r \in RowType : rows' = [rows EXCEPT ![b] = r] /\ rows'[b] = r /\ Alike(r, rows[b])
    BY <1>2, <1>6, FailedRow
  <2>2. lane' \in LaneType /\ LaneFits'
    BY <1>2, <1>6, FailedRow
  <2>3. jobs' \in Seq(JobType) /\ \A c \in Batches : JobKept(c)
    BY <1>5, <1>6, LastJobs DEF JobKept, Types
  <2>. QED
    BY <1>1, <1>2, <1>3, <2>1, <2>2, <2>3, TakenMoves
<1>7. CASE jobs' = Append(jobs, NewJob) /\ Goto("created") /\ UNCHANGED rows
  <2>1. PICK new : new = NewJob
    OBVIOUS
  <2>2. Wanted \subseteq Live(b) /\ Wanted \subseteq AllItems
    BY <1>1, <1>2, WantedLive, LiveIn, Apart
  <2>3. PICK f \in [Wanted -> ItemStates] : f = [i \in Wanted |-> "pending"]
    BY DEF ItemStates
  <2>4. new = [items |-> f, checkpoint |-> Now]
    BY <2>1, <2>3 DEF NewJob, Now
  <2>5. new \in JobType
    <3>1. PICK S \in SUBSET AllItems : S = Wanted
      BY <2>2
    <3>2. f \in UNION {[T -> ItemStates] : T \in SUBSET AllItems}
      BY <2>3, <3>1
    <3>. QED
      BY <1>4, <2>4, <3>2 DEF JobType
  <2>6. /\ DOMAIN new.items = Wanted /\ \A i \in Wanted : new.items[i] = "pending"
        /\ new.checkpoint = Now
    BY <2>3, <2>4
  <2>7. jobs \in Seq(JobType) /\ rows \in [Batches -> RowType]
    BY <1>5 DEF Types
  <2>8. /\ jobs' \in Seq(JobType) /\ Len(jobs') = Len(jobs) + 1 /\ jobs' # <<>>
        /\ \A k \in DOMAIN jobs : k \in DOMAIN jobs' /\ jobs'[k] = jobs[k]
        /\ Last(jobs') = new
    BY <1>7, <2>1, <2>5, <2>7, LastOfAppend
  <2>9. jobs'[Len(jobs')] = new
    BY <2>8 DEF Last
  <2>10. \A c \in Batches : JobKept(c)
    BY <2>8, LastJobs DEF JobKept
  <2>11. "created" \in BatchPlaces
    BY DEF BatchPlaces
  <2>12. lane' \in LaneType /\ lane'.at = "created" /\ lane'.batch = lane.batch
    BY <1>7, <2>11, GoLane
  <2>13. PICK x \in RowType : x = rows[b]
    BY <2>7
  <2>14. rows' = [rows EXCEPT ![b] = x] /\ rows'[b] = x /\ Alike(x, rows[b])
    BY <1>7, <2>7, <2>13 DEF Alike
  <2>15. LaneFits'
    <3>1. Batch' = b /\ Row' = x /\ NewestJob' = new
      BY <1>2, <1>7, <2>9, <2>12, <2>13 DEF Batch, Row, NewestJob
    <3>2. \A c \in Batches : HasRun(c)' = HasRun(c)
      BY <1>7 DEF HasRun
    <3>3. Live(b)' = Live(b)
      <4>1. HasRun(b) => LastJob(b)' = LastJob(b)
        BY <1>7, <2>10 DEF JobKept, LastJob
      <4>2. Items(b)' = Items(b)
        BY <1>1, SameTypes
      <4>. QED
        BY <1>7, <3>2, <4>1, <4>2 DEF Live, JobIn
    <3>4. \A c \in Batches : HasRun(c) => Last(rows[c].jobs) # Len(jobs')
      <4>1. \A c \in Batches : HasRun(c) => Last(rows[c].jobs) \in 1..Len(jobs)
        BY LastJobs
      <4>2. Len(jobs) \in Nat
        BY <2>7
      <4>3. PICK n \in Nat : n = Len(jobs)
        BY <4>2
      <4>4. Len(jobs') = n + 1
        BY <2>8, <4>3
      <4>5. \A k \in 1..n : k # n + 1
        OBVIOUS
      <4>. QED
        BY <4>1, <4>3, <4>4, <4>5
    <3>5. x.phase \in {"approved", "applying"}
      BY <1>2, <2>13
    <3>6. /\ DOMAIN new.items \subseteq Live(b)'
          /\ \A i \in DOMAIN new.items : new.items[i] = "pending"
          /\ new.checkpoint \in DOMAIN checkpoints'
      BY <1>4, <2>2, <2>6, <3>3
    <3>7. Live(Batch)' = Live(b)'
      BY <3>1, <2>12, <1>2 DEF Batch, Live, HasRun, Items, JobIn, LastJob
    <3>8. CreatedFits'
      BY <1>7, <2>8, <2>12, <3>1, <3>2, <3>4, <3>5, <3>6, <3>7 DEF CreatedFits, At
    <3>. QED
      BY <2>12, <3>1, <3>8 DEF LaneFits, RunFits, At, FreePlaces, WritePhases
  <2>. QED
    BY <1>1, <1>2, <1>3, <2>8, <2>10, <2>12, <2>14, <2>15, TakenMoves
<1>. QED
  BY <1>6, <1>7 DEF CreateJob
-----------------------------------------------------------------------------
(* A run of a job                                                          *)

\* What ItemsFit and JobFits say of the items of a job that runs.
Sound(b, f, e) ==
    /\ \A i \in DOMAIN f : f[i] \in Untried \cup {"failed"} => e[i] = 0
    /\ \A i \in rows[b].deferred :
         e[i] = 0 /\ (i \in DOMAIN f /\ f[i] \in Untried \cup Unknown => i \notin notes[b])
    /\ \A i, j \in DOMAIN f : f[i] \in Retried /\ f[j] \in Retried => i = j

Runs(b) == HasRun(b) /\ rows[b].intent = None /\ rows[b].phase = "applying"

LEMMA SoundJob ==
    ASSUME IInv, NEW b \in Batches, Runs(b)
    PROVE  Sound(b, LastJob(b).items, effects[b])
<1>1. BatchFits(b)
  BY DEF IInv
<1>2. Live(b) = JobIn(b, Untried) /\ Unsettled(b) = JobIn(b, Unknown)
  BY DEF Live, Unsettled, Runs
<1>3. \A i \in DOMAIN LastJob(b).items :
         LastJob(b).items[i] \in Untried \cup {"failed"} => effects[b][i] = 0
  BY <1>1, <1>2 DEF BatchFits, ItemsFit, JobIn, Runs
<1>4. \A i \in rows[b].deferred :
         /\ effects[b][i] = 0
         /\ i \in DOMAIN LastJob(b).items /\ LastJob(b).items[i] \in Untried \cup Unknown
              => i \notin notes[b]
  BY <1>1, <1>2 DEF BatchFits, ItemsFit, JobIn
<1>5. \A i, j \in JobIn(b, Retried) : i = j
  BY <1>1 DEF BatchFits, JobFits, Runs
<1>. QED
  BY <1>3, <1>4, <1>5 DEF Sound, JobIn

\* The items of the running job change, and the notes they were written to.
LEMMA JobMoves ==
    ASSUME IInv, NEW b \in Batches, Runs(b),
           NEW f \in [DOMAIN LastJob(b).items -> ItemStates],
           jobs' = [jobs EXCEPT ![Last(rows[b].jobs)].items = f],
           NEW e \in [NotesOf(b) -> {0, 1}], effects' = [effects EXCEPT ![b] = e],
           b \in Grouped => e[Unit] = effects[b][Unit],
           Sound(b, f, e),
           NEW r \in RowType, rows' = [rows EXCEPT ![b] = r], rows'[b] = r,
           r.jobs = rows[b].jobs, r.intent = None, r.phase = "applying",
           r.pending = rows[b].pending, r.committed = rows[b].committed,
           r.deferred = rows[b].deferred, r.grouped = rows[b].grouped, r.merged = rows[b].merged,
           UNCHANGED <<approval, checkpoints, groups, notes, session, finished>>,
           lane' \in LaneType, LaneFits'
    PROVE  IInv'
<1>1. Types /\ FilesFit /\ JobsApart /\ BatchFits(b)
  BY DEF IInv
<1>2. PICK n \in DOMAIN jobs : n = Last(rows[b].jobs) /\ jobs[n] = LastJob(b)
  BY LastJobs DEF Runs, LastJob
<1>3. PICK old \in JobType : old = LastJob(b)
  BY LastJobs DEF Runs
<1>4. PICK new : new = [old EXCEPT !.items = f]
  OBVIOUS
<1>5. new \in JobType
  BY <1>3, <1>4, JobItems
<1>6. new.items = f /\ new.checkpoint = old.checkpoint
  <2>1. PICK S \in SUBSET AllItems, c \in Nat \ {0} : old.items \in [S -> ItemStates] /\ c = old.checkpoint
    BY DEF JobType
  <2>. QED
    BY <1>4 DEF JobType
<1>7. jobs' = [jobs EXCEPT ![n] = new] /\ jobs \in Seq(JobType)
  BY <1>1, <1>2, <1>3, <1>4 DEF Types
<1>8. /\ jobs' \in Seq(JobType) /\ DOMAIN jobs' = DOMAIN jobs /\ jobs'[n] = new
      /\ \A k \in DOMAIN jobs \ {n} : jobs'[k] = jobs[k]
  <2>1. n \in DOMAIN jobs /\ new \in JobType /\ jobs \in Seq(JobType)
    BY <1>5, <1>7
  <2>2. /\ [jobs EXCEPT ![n] = new] \in Seq(JobType)
        /\ DOMAIN [jobs EXCEPT ![n] = new] = DOMAIN jobs
        /\ [jobs EXCEPT ![n] = new][n] = new
        /\ \A k \in DOMAIN jobs \ {n} : [jobs EXCEPT ![n] = new][k] = jobs[k]
    BY <2>1, SeqExcept, Zenon
  <2>. QED
    BY <1>7, <2>2, Zenon
<1>9. \A c \in Batches \ {b} : JobKept(c)
  BY <1>1, <1>2, <1>8, LastJobs DEF JobKept, JobsApart, Runs
<1>10. HasRun(b)' /\ LastJob(b)' = new /\ Last(rows'[b].jobs) = n
  BY <1>2, <1>8 DEF HasRun, LastJob, Runs
<1>11. Items(b)' = Items(b) /\ NotesOf(b)' = NotesOf(b)
       /\ (b \in Grouped)' = (b \in Grouped) /\ (b \in Merging)' = (b \in Merging)
  BY SameTypes
<1>12. /\ \A c \in Batches : c # b => effects'[c] = effects[c]
       /\ effects'[b] = e /\ effects' = [c \in Batches |-> effects'[c]]
  BY <1>1 DEF Types
<1>13. DOMAIN f = DOMAIN old.items /\ DOMAIN f \subseteq Items(b)
  BY <1>1, <1>3 DEF BatchFits, JobFits, Runs
<1>14. /\ \A s : JobIn(b, s)' = {i \in DOMAIN f : f[i] \in s}
       /\ Live(b)' = {i \in DOMAIN f : f[i] \in Untried}
       /\ Unsettled(b)' = {i \in DOMAIN f : f[i] \in Unknown}
  <2>1. \A s : JobIn(b, s)' = {i \in DOMAIN f : f[i] \in s}
    BY <1>6, <1>10 DEF JobIn
  <2>2. rows'[b].intent = None
    OBVIOUS
  <2>. QED
    BY <1>10, <2>1, <2>2 DEF Live, Unsettled, Untried, Retried, Unknown
<1>15. JobFits(b)'
  <2>1. \A i, j \in JobIn(b, Retried)' : i = j
    BY <1>14 DEF Sound, Retried
  <2>2. n \in DOMAIN jobs' /\ LastJob(b)'.checkpoint \in DOMAIN checkpoints
    BY <1>1, <1>3, <1>6, <1>8, <1>10 DEF BatchFits, JobFits, Runs
  <2>3. DOMAIN LastJob(b)'.items \subseteq Items(b)
    BY <1>6, <1>10, <1>13
  <2>. QED
    BY <1>1, <1>10, <1>11, <2>1, <2>2, <2>3 DEF BatchFits, JobFits
<1>16. ItemsFit(b)'
  <2>1. \A i \in DOMAIN f : f[i] \in Untried \cup {"failed"} => effects'[b][i] = 0
    BY <1>12 DEF Sound
  <2>2. \A i \in rows'[b].deferred :
          effects'[b][i] = 0 /\ (i \in Live(b)' \cup Unsettled(b)' => i \notin notes'[b])
    BY <1>12, <1>14 DEF Sound
  <2>. QED
    BY <1>14, <2>1, <2>2 DEF ItemsFit
<1>17. PhaseFits(b)'
  BY <1>1, <1>11, <1>12 DEF BatchFits, PhaseFits
<1>18. BatchFits(b)'
  BY <1>15, <1>16, <1>17 DEF BatchFits
<1>19. /\ checkpoints' \in Seq(CheckpointType)
       /\ groups' \in [Batches -> {"none", "partial", "complete"}]
       /\ notes' = [c \in Batches |-> notes'[c]]
       /\ session' \in Nat
  BY <1>1 DEF Types
<1>20. CheckpointsKept
  BY DEF CheckpointsKept
<1>21. Len(checkpoints) =< Len(checkpoints') /\ r.intent =< Len(checkpoints') + 1
  BY <1>1 DEF Types, None
<1>22. \A k \in DOMAIN checkpoints' :
          checkpoints'[k].batch \notin ToSet(finished) => checkpoints'[k].file
  BY <1>1 DEF FilesFit
<1>23. rows[b].phase # "done" /\ HasRun(b) /\ Last(r.jobs) = Last(rows[b].jobs)
  BY DEF Runs
<1>. QED
  BY <1>8, <1>9, <1>12, <1>18, <1>19, <1>20, <1>21, <1>22, <1>23, BatchMoves

LEMMA NewItems ==
    ASSUME IInv, NEW b \in Batches, Runs(b),
           NEW f \in [DOMAIN LastJob(b).items -> ItemStates],
           jobs' = [jobs EXCEPT ![Last(rows[b].jobs)].items = f], rows'[b].jobs = rows[b].jobs
    PROVE  HasRun(b)' /\ \A s : JobIn(b, s)' = {i \in DOMAIN f : f[i] \in s}
<1>1. PICK n \in DOMAIN jobs : n = Last(rows[b].jobs) /\ jobs[n] = LastJob(b)
  BY LastJobs DEF Runs, LastJob
<1>2. PICK j \in JobType : j = jobs[n]
  BY <1>1, LastJobs DEF Runs
<1>3. jobs'[n] = [j EXCEPT !.items = f]
  BY <1>1, <1>2 DEF IInv, Types
<1>4. jobs'[n].items = f
  BY <1>2, <1>3 DEF JobType
<1>5. LastJob(b)'.items = f
  BY <1>1, <1>4 DEF LastJob
<1>. QED
  BY <1>5 DEF JobIn, HasRun, Runs

\* The lane goes on with the run, or with what it ended with.
LEMMA RunLane ==
    ASSUME NEW b \in Batches, lane'.batch = b, lane'.at \in {"dispatch", "ran"},
           HasRun(b)', rows'[b].phase = "applying", rows'[b].intent = None,
           JobIn(b, {"begun", "settled"})' = {},
           lane'.at = "dispatch" => JobIn(b, {"started"})' = {},
           lane'.at = "ran" /\ lane'.stop \in {"idle", "policy"} =>
               JobIn(b, {"started", "interrupted"})' = {}
    PROVE  LaneFits'
<1>1. Batch' = b /\ Row' = rows'[b]
  BY DEF Batch, Row
<1>2. \A s : JobIn(Batch, s)' = JobIn(b, s)'
  BY <1>1 DEF JobIn, LastJob
<1>3. HasRun(Batch)'
  BY <1>1 DEF HasRun
<1>. QED
  BY <1>1, <1>2, <1>3 DEF LaneFits, CreatedFits, RunFits, At, WritePhases
\* The job of the lane is the last one of its batch.
LEMMA JobIs ==
    /\ Row = rows[Batch] /\ JobId = Last(rows[Batch].jobs) /\ Job = LastJob(Batch)
    /\ \A s : In(s) = JobIn(Batch, s)
BY DEF Row, Batch, JobId, Job, LastJob, In, JobIn

LEMMA AtRun ==
    ASSUME IInv, HasJob \/ lane.at \in {"dispatch", "ran"}
    PROVE  /\ Batch \in Batches /\ Row \in RowType /\ Runs(Batch)
           /\ lane.at \in {"dispatch", "ran"} => JobIn(Batch, {"begun", "settled"}) = {}
           /\ lane.at = "dispatch" => JobIn(Batch, {"started"}) = {}
           /\ lane.at = "ran" /\ lane.stop \in {"idle", "policy"} =>
                  JobIn(Batch, {"started", "interrupted"}) = {}
<1>1. Row = rows[Batch]
  BY JobIs
<1>2. CASE HasJob
  <2>1. lane.at = "applying" /\ lane.at \in WritePhases
    BY <1>2 DEF HasJob, At, WritePhases
  <2>. QED
    BY <1>1, <1>2, <2>1, AtBatch DEF HasJob, HasRun, Runs
<1>3. CASE lane.at \in {"dispatch", "ran"}
  <2>1. Batch \in Batches /\ RunFits
    BY <1>3 DEF IInv, LaneFits, FreePlaces
  <2>2. Row \in RowType
    BY <1>1, <2>1 DEF IInv, Types
  <2>. QED
    BY <1>1, <1>3, <2>1, <2>2 DEF RunFits, Runs, At
<1>. QED
  BY <1>2, <1>3

\* A run accounts for what was started before it takes up what is left.
LEMMA RunJobStep ==
    ASSUME IInv, RunJob
    PROVE  IInv'
<1>1. /\ HasJob
      /\ UNCHANGED <<approval, rows, checkpoints, groups, notes, effects, session, finished>>
  BY DEF RunJob, world
<1>2. PICK b \in Batches : b = Batch /\ Runs(b)
  BY <1>1, AtRun
<1>3. /\ JobId = Last(rows[b].jobs) /\ Job = LastJob(b) /\ \A s : In(s) = JobIn(b, s)
      /\ Row = rows[b]
  BY <1>2, JobIs
<1>4. Types /\ lane \in LaneType
  BY DEF IInv, Types
<1>5. PICK x \in RowType : x = rows[b]
  BY <1>4 DEF Types
<1>6. PICK known : /\ known \subseteq JobIn(b, {"started", "settled"})
                   /\ JobIn(b, {"settled"}) \subseteq known
                   /\ jobs' = [jobs EXCEPT ![JobId].items =
                         [i \in DOMAIN @ |-> IF @[i] = "begun" THEN "interrupted"
                                             ELSE IF i \notin known THEN @[i] ELSE Outcome(i)]]
                   /\ IF JobIn(b, {"started"}) \subseteq known
                      THEN Goto("dispatch") ELSE Stop("recovery")
  BY <1>3 DEF RunJob
<1>7. PICK old \in [DOMAIN LastJob(b).items -> ItemStates] : old = LastJob(b).items
  BY <1>2, LastJobs DEF Runs
<1>8. PICK e \in [NotesOf(b) -> {0, 1}] : e = effects[b]
  BY <1>4 DEF Types
<1>9. \A i \in DOMAIN old : Outcome(i) = IF e[i] = 1 THEN "committed" ELSE "failed"
  <2>1. DOMAIN old \subseteq NotesOf(b)
    BY <1>2, <1>7, LastJobs, Apart DEF Runs
  <2>. QED
    BY <1>2, <1>8, <2>1 DEF Outcome
<1>10. PICK f : f = [i \in DOMAIN old |-> IF old[i] = "begun" THEN "interrupted"
                                          ELSE IF i \notin known THEN old[i] ELSE Outcome(i)]
  OBVIOUS
<1>11. f \in [DOMAIN LastJob(b).items -> ItemStates] /\ DOMAIN f = DOMAIN old
  BY <1>7, <1>9, <1>10 DEF ItemStates
<1>12. \A i \in DOMAIN f :
          \/ old[i] = "begun" /\ f[i] = "interrupted"
          \/ i \notin known /\ f[i] = old[i] /\ old[i] # "begun"
          \/ i \in known /\ f[i] = IF e[i] = 1 THEN "committed" ELSE "failed"
  BY <1>9, <1>10, <1>11
<1>13. \A s : JobIn(b, s) = {i \in DOMAIN old : old[i] \in s}
  BY <1>7 DEF JobIn
<1>14. jobs' = [jobs EXCEPT ![Last(rows[b].jobs)].items = f]
  <2>1. JobId \in DOMAIN jobs /\ jobs[JobId].items = old
    BY <1>2, <1>3, <1>7, LastJobs DEF Runs, LastJob
  <2>. QED
    BY <1>3, <1>4, <1>6, <1>10, <2>1 DEF Types
<1>15. Sound(b, f, e)
  <2>1. Sound(b, old, e)
    BY <1>2, <1>7, <1>8, SoundJob
  <2>2. \A i \in known : i \in DOMAIN old /\ e[i] \in {0, 1}
    <3>1. DOMAIN old \subseteq NotesOf(b)
      BY <1>2, <1>7, LastJobs, Apart DEF Runs
    <3>. QED
      BY <1>6, <1>13, <3>1
  <2>3. \A i \in DOMAIN f : f[i] \in Untried \cup {"failed"} => e[i] = 0
    BY <1>11, <1>12, <2>1, <2>2 DEF Sound, Untried, Retried
  <2>4. \A i \in rows[b].deferred :
          e[i] = 0 /\ (i \in DOMAIN f /\ f[i] \in Untried \cup Unknown => i \notin notes[b])
    BY <1>11, <1>12, <2>1 DEF Sound, Untried, Retried, Unknown
  <2>5. \A i, j \in DOMAIN f : f[i] \in Retried /\ f[j] \in Retried => i = j
    BY <1>11, <1>12, <2>1 DEF Sound, Retried
  <2>. QED
    BY <2>3, <2>4, <2>5 DEF Sound
<1>16. /\ lane' \in LaneType /\ lane'.batch = b
       /\ \/ lane'.at = "dispatch" /\ JobIn(b, {"started"}) \subseteq known
          \/ lane'.at = "ran" /\ lane'.stop = "recovery"
  BY <1>2, <1>4, <1>6, GoLane DEF Stop, LaneType, BatchPlaces, Stops, Batch
<1>17. HasRun(b)' /\ \A s : JobIn(b, s)' = {i \in DOMAIN f : f[i] \in s}
  BY <1>1, <1>2, <1>11, <1>14, NewItems
<1>18. LaneFits'
  <2>1. \A s : JobIn(b, s)' = {i \in DOMAIN f : f[i] \in s}
    BY <1>17
  <2>2. JobIn(b, {"begun", "settled"})' = {}
    BY <1>6, <1>11, <1>12, <1>13, <2>1
  <2>3. lane'.at = "dispatch" => JobIn(b, {"started"})' = {}
    BY <1>11, <1>12, <1>13, <1>16, <2>1
  <2>. QED
    BY <1>1, <1>2, <1>16, <1>17, <2>2, <2>3, RunLane DEF Runs
<1>19. rows' = [rows EXCEPT ![b] = x] /\ rows'[b] = x
  BY <1>1, <1>4, <1>5 DEF Types
<1>20. effects' = [effects EXCEPT ![b] = e]
  BY <1>1, <1>4, <1>8 DEF Types
<1>. QED
  BY <1>1, <1>2, <1>5, <1>8, <1>11, <1>14, <1>15, <1>16, <1>18, <1>19, <1>20, JobMoves DEF Runs
\* One item that is eligible changes: refused, written, or left in the middle.
LEMMA SetMoves ==
    ASSUME IInv, lane.at = "dispatch", NEW b \in Batches, b = Batch,
           NEW i \in Eligible, NEW s \in {"begun", "started", "committed", "failed"},
           NEW n \in {0, 1}, n = 1 => i \in notes[b] /\ s \in {"started", "committed"},
           SetItem(i, s), effects' = [effects EXCEPT ![b][i] = @ + n],
           UNCHANGED <<approval, rows, checkpoints, groups, notes, session, finished>>,
           \/ lane' = Off
           \/ lane' = lane /\ s \in {"committed", "failed"}
           \/ Stop("recovery") /\ s = "started"
           \/ s = "failed" /\ Stop("policy")
           \/ s = "failed" /\ Stop("halted")
    PROVE  IInv'
<1>1. /\ Runs(b) /\ JobIn(b, {"begun", "settled"}) = {} /\ JobIn(b, {"started"}) = {}
      /\ JobId = Last(rows[b].jobs) /\ \A t : In(t) = JobIn(b, t)
  BY AtRun, JobIs
<1>2. Types /\ lane \in LaneType
  BY DEF IInv, Types
<1>3. PICK x \in RowType : x = rows[b]
  BY <1>2 DEF Types
<1>4. PICK old \in [DOMAIN LastJob(b).items -> ItemStates] : old = LastJob(b).items
  BY <1>1, LastJobs DEF Runs
<1>5. \A t : JobIn(b, t) = {k \in DOMAIN old : old[k] \in t}
  BY <1>4 DEF JobIn
<1>6. Sound(b, old, effects[b])
  BY <1>1, <1>4, SoundJob
<1>7. /\ i \in DOMAIN old /\ old[i] \in {"pending", "interrupted"}
      /\ \A k \in DOMAIN old : k # i => old[k] # "interrupted"
  <2>1. i \in DOMAIN old /\ old[i] \in {"pending", "interrupted"}
    BY <1>1, <1>5 DEF Eligible
  <2>2. ASSUME NEW k \in DOMAIN old, k # i, old[k] = "interrupted"
        PROVE  FALSE
    <3>1. old[i] = "interrupted"
      BY <1>1, <1>5, <2>2 DEF Eligible
    <3>. QED
      BY <1>6, <2>1, <2>2, <3>1 DEF Sound, Retried
  <2>. QED
    BY <2>1, <2>2
<1>8. \A k \in DOMAIN old : old[k] \notin {"begun", "settled", "started"}
  <2>1. /\ {k \in DOMAIN old : old[k] \in {"begun", "settled"}} = {}
        /\ {k \in DOMAIN old : old[k] \in {"started"}} = {}
    BY <1>1, <1>5
  <2>. QED
    BY <2>1
<1>9. DOMAIN old \subseteq NotesOf(b) /\ DOMAIN old \subseteq Items(b) /\ Unit \notin Items(b)
  BY <1>1, <1>4, LastJobs, Apart DEF Runs
<1>10. PICK e0 \in [NotesOf(b) -> {0, 1}] : e0 = effects[b]
  BY <1>2 DEF Types
<1>11. e0[i] = 0
  BY <1>6, <1>7, <1>10 DEF Sound, Untried, Retried
<1>12. PICK e : e = [e0 EXCEPT ![i] = n]
  OBVIOUS
<1>13. /\ e \in [NotesOf(b) -> {0, 1}] /\ e[i] = n
       /\ \A k \in NotesOf(b) : k # i => e[k] = e0[k]
  BY <1>7, <1>9, <1>12
<1>14. effects' = [effects EXCEPT ![b] = e]
  <2>1. effects[b][i] + n = n
    BY <1>10, <1>11
  <2>2. effects' = [effects EXCEPT ![b] = [effects[b] EXCEPT ![i] = n]]
    BY <1>2, <2>1 DEF Types
  <2>. QED
    BY <1>10, <1>12, <2>2
<1>15. b \in Grouped => e[Unit] = effects[b][Unit]
  BY <1>7, <1>9, <1>10, <1>13, Apart
<1>16. PICK f : f = [old EXCEPT ![i] = s]
  OBVIOUS
<1>17. /\ f \in [DOMAIN LastJob(b).items -> ItemStates] /\ DOMAIN f = DOMAIN old /\ f[i] = s
       /\ \A k \in DOMAIN old : k # i => f[k] = old[k]
  BY <1>4, <1>7, <1>16 DEF ItemStates
<1>18. jobs' = [jobs EXCEPT ![Last(rows[b].jobs)].items = f]
  <2>1. JobId \in DOMAIN jobs /\ jobs[JobId].items = old
    BY <1>1, <1>4, LastJobs DEF Runs, LastJob
  <2>. QED
    BY <1>1, <1>2, <1>16, <2>1 DEF SetItem, Types
<1>19. Sound(b, f, e)
  <2>1. \A k \in DOMAIN f : f[k] \in Untried \cup {"failed"} => e[k] = 0
    BY <1>6, <1>9, <1>10, <1>13, <1>17 DEF Sound, Untried, Retried
  <2>2. ASSUME NEW k \in rows[b].deferred
        PROVE  e[k] = 0 /\ (k \in DOMAIN f /\ f[k] \in Untried \cup Unknown => k \notin notes[b])
    <3>1. k \in NotesOf(b)
      BY Apart DEF IInv, BatchFits, JobFits
    <3>2. CASE k # i
      BY <1>6, <1>10, <1>13, <1>17, <3>1, <3>2 DEF Sound
    <3>3. CASE k = i
      <4>1. i \notin notes[b]
        BY <1>6, <1>7, <3>3 DEF Sound, Untried, Retried
      <4>. QED
        BY <1>13, <3>3, <4>1
    <3>. QED
      BY <3>2, <3>3
  <2>3. \A k, l \in DOMAIN f : f[k] \in Retried /\ f[l] \in Retried => k = l
    BY <1>7, <1>8, <1>17 DEF Retried
  <2>. QED
    BY <2>1, <2>2, <2>3 DEF Sound
<1>20. HasRun(b)' /\ \A t : JobIn(b, t)' = {k \in DOMAIN f : f[k] \in t}
  BY <1>1, <1>17, <1>18, NewItems
<1>21. lane' \in LaneType /\ LaneFits'
  <2>1. CASE lane' = Off
    <3>1. lane' \in LaneType /\ lane'.at \in FreePlaces
      BY <2>1 DEF Off, LaneType, FreePlaces, Stops
    <3>. QED
      BY <3>1, FreeLane
  <2>2. CASE \/ lane' = lane /\ s \in {"committed", "failed"}
             \/ Stop("recovery") /\ s = "started"
             \/ s = "failed" /\ Stop("policy")
             \/ s = "failed" /\ Stop("halted")
    <3>1. /\ lane' \in LaneType /\ lane'.batch = b
          /\ \/ lane'.at = "dispatch" /\ s # "started"
             \/ lane'.at = "ran" /\ lane'.stop = "recovery"
             \/ lane'.at = "ran" /\ s = "failed"
      BY <1>2, <2>2 DEF Stop, LaneType, BatchPlaces, Stops, Batch
    <3>2. s # "begun"
      BY <2>2
    <3>3. JobIn(b, {"begun", "settled"})' = {}
      BY <1>8, <1>17, <1>20, <3>2
    <3>4. s # "started" => JobIn(b, {"started"})' = {}
      BY <1>8, <1>17, <1>20
    <3>5. s = "failed" => JobIn(b, {"started", "interrupted"})' = {}
      BY <1>7, <1>8, <1>17, <1>20
    <3>. QED
      BY <1>1, <1>20, <3>1, <3>3, <3>4, <3>5, RunLane DEF Runs
  <2>. QED
    BY <2>1, <2>2
<1>22. rows' = [rows EXCEPT ![b] = x] /\ rows'[b] = x
  BY <1>2, <1>3 DEF Types
<1>. QED
  BY <1>1, <1>3, <1>13, <1>14, <1>15, <1>17, <1>18, <1>19, <1>21, <1>22, JobMoves, ZenonT(120) DEF Runs

\* Nothing was written: the number of effects is what it was.
LEMMA NoEffect ==
    ASSUME IInv, NEW b \in Batches, NEW i \in NotesOf(b), UNCHANGED effects
    PROVE  effects' = [effects EXCEPT ![b][i] = @ + 0]
<1>1. PICK e \in [NotesOf(b) -> {0, 1}] : e = effects[b]
  BY DEF IInv, Types
<1>2. e = [e EXCEPT ![i] = @ + 0]
  BY <1>1
<1>. QED
  BY <1>1, <1>2 DEF IInv, Types

LEMMA DispatchStep ==
    ASSUME IInv, Dispatch
    PROVE  IInv'
<1>1. /\ lane.at = "dispatch"
      /\ UNCHANGED <<approval, rows, checkpoints, groups, notes, session, finished>>
  BY DEF Dispatch, At
<1>2. PICK b \in Batches : b = Batch /\ Runs(b)
  BY <1>1, AtRun
<1>3. \A i \in Eligible : i \in NotesOf(b)
  <2>1. \A s : In(s) = JobIn(b, s)
    BY <1>2, JobIs
  <2>2. DOMAIN LastJob(b).items \subseteq NotesOf(b)
    BY <1>2, LastJobs, Apart DEF Runs
  <2>. QED
    BY <2>1, <2>2 DEF Eligible, JobIn
<1>4. PICK i \in Eligible :
         \/ /\ i \in notes[b]
            /\ SetItem(i, "committed") /\ effects' = [effects EXCEPT ![b][i] = @ + 1]
            /\ UNCHANGED lane
         \/ /\ SetItem(i, "failed") /\ UNCHANGED effects
            /\ UNCHANGED lane \/ Stop("policy") \/ Stop("halted")
         \/ Interrupted(i) /\ Stop("recovery")
  BY <1>2 DEF Dispatch
<1>5. CASE /\ i \in notes[b] /\ UNCHANGED lane
           /\ SetItem(i, "committed") /\ effects' = [effects EXCEPT ![b][i] = @ + 1]
  BY <1>1, <1>2, <1>5, SetMoves
<1>6. CASE /\ SetItem(i, "failed") /\ UNCHANGED effects
           /\ UNCHANGED lane \/ Stop("policy") \/ Stop("halted")
  <2>1. PICK n \in {0, 1} : n = 0 /\ effects' = [effects EXCEPT ![b][i] = @ + n]
    BY <1>3, <1>6, NoEffect
  <2>2. PICK s \in {"begun", "started", "committed", "failed"} : s = "failed" /\ SetItem(i, s)
    BY <1>6
  <2>3. UNCHANGED lane \/ Stop("policy") \/ Stop("halted")
    BY <1>6
  <2>4. n # 1
    BY <2>1
  <2>. QED
    BY <1>1, <1>2, <2>1, <2>2, <2>3, <2>4, SetMoves
<1>7. CASE Interrupted(i) /\ Stop("recovery")
  <2>1. PICK n \in {0, 1} :
          /\ SetItem(i, "started") /\ effects' = [effects EXCEPT ![b][i] = @ + n]
          /\ n = 1 => i \in notes[b]
    BY <1>2, <1>7 DEF Interrupted
  <2>. QED
    BY <1>1, <1>2, <1>7, <2>1, SetMoves
<1>. QED
  BY <1>4, <1>5, <1>6, <1>7

\* The tick is killed: while an item is written, or between two commands.
LEMMA KillStep ==
    ASSUME IInv, Kill
    PROVE  IInv'
<1>1. /\ lane' = Off
      /\ UNCHANGED <<approval, rows, checkpoints, groups, notes, session, finished>>
  BY DEF Kill
<1>2. lane' \in LaneType /\ LaneFits' /\ session' \in Nat
  <2>1. lane' \in LaneType /\ lane'.at \in FreePlaces
    BY <1>1 DEF Off, LaneType, FreePlaces, Stops
  <2>. QED
    BY <1>1, <2>1, FreeLane DEF IInv, Types
<1>3. CASE UNCHANGED <<jobs, effects>>
  BY <1>1, <1>2, <1>3, LaneMoves
<1>4. CASE At("dispatch") /\ \E i \in Eligible :
             Interrupted(i) \/ (SetItem(i, "begun") /\ UNCHANGED effects)
  <2>1. lane.at = "dispatch"
    BY <1>4 DEF At
  <2>2. PICK b \in Batches : b = Batch /\ Runs(b)
    BY <2>1, AtRun
  <2>3. PICK i \in Eligible : Interrupted(i) \/ (SetItem(i, "begun") /\ UNCHANGED effects)
    BY <1>4
  <2>4. CASE Interrupted(i)
    <3>1. PICK n \in {0, 1} :
            /\ SetItem(i, "started") /\ effects' = [effects EXCEPT ![b][i] = @ + n]
            /\ n = 1 => i \in notes[b]
      BY <2>2, <2>4 DEF Interrupted
    <3>. QED
      BY <1>1, <2>1, <2>2, <3>1, SetMoves
  <2>5. CASE SetItem(i, "begun") /\ UNCHANGED effects
    <3>1. i \in NotesOf(b)
      <4>1. \A s : In(s) = JobIn(b, s)
        BY <2>2, JobIs
      <4>2. DOMAIN LastJob(b).items \subseteq NotesOf(b)
        BY <2>2, LastJobs, Apart DEF Runs
      <4>. QED
        BY <2>3, <4>1, <4>2 DEF Eligible, JobIn
    <3>2. PICK n \in {0, 1} : n = 0 /\ effects' = [effects EXCEPT ![b][i] = @ + n]
      BY <2>5, <3>1, NoEffect
    <3>3. PICK s \in {"begun", "started", "committed", "failed"} : s = "begun" /\ SetItem(i, s)
      BY <2>5
    <3>4. n # 1
      BY <3>2
    <3>. QED
      BY <1>1, <2>1, <2>2, <3>2, <3>3, <3>4, SetMoves
  <2>. QED
    BY <2>3, <2>4, <2>5
<1>. QED
  BY <1>3, <1>4 DEF Kill
-----------------------------------------------------------------------------
(* What the batch makes of a run                                           *)

\* A step that fails, and takes no checkpoint.
LEMMA FailedMoves ==
    ASSUME IInv, NEW b \in Batches, b = Batch, rows[b].phase # "done", Failed,
           UNCHANGED <<approval, jobs, checkpoints, groups, notes, effects, session, finished>>
    PROVE  IInv'
<1>1. PICK r \in RowType : rows' = [rows EXCEPT ![b] = r] /\ rows'[b] = r /\ Alike(r, rows[b])
  BY FailedRow
<1>2. lane' \in LaneType /\ LaneFits'
  BY FailedRow
<1>3. BatchFits(b) /\ FilesFit
  BY DEF IInv
<1>4. MayBe(b, r)
  BY <1>1, <1>3 DEF MayBe, Alike, BatchFits, PhaseFits
<1>5. PhaseFits(b)'
  BY <1>1, <1>4, MayBeFits
<1>6. CheckpointsKept /\ JobKept(b)
  BY LastJobs DEF CheckpointsKept, JobKept
<1>7. r.phase \in {"ready", "approved"} => ~ HasRun(b)
  BY <1>1, <1>3 DEF Alike, BatchFits, JobFits
<1>8. JobFits(b)' /\ ItemsFit(b)'
  <2>1. rows'[b] = r
    BY <1>1
  <2>. QED
    BY <1>1, <1>6, <1>7, <2>1, ItemsStay DEF Alike
<1>9. r.intent =< Len(checkpoints) + 1 /\ r.jobs = rows[b].jobs
  BY <1>1, <1>3 DEF Alike, FilesFit
<1>. QED
  BY <1>1, <1>2, <1>5, <1>8, <1>9, RowMoves

\* The journals that are pending are settled, all of them, or nothing is saved.
LEMMA ReconcileStep ==
    ASSUME IInv, Reconcile
    PROVE  IInv'
<1>1. /\ lane.at = "ran"
      /\ UNCHANGED <<approval, checkpoints, groups, notes, effects, session, finished>>
  BY DEF Reconcile, world, At
<1>2. PICK b \in Batches : b = Batch /\ Runs(b)
  BY <1>1, AtRun
<1>3. /\ JobId = Last(rows[b].jobs) /\ \A s : In(s) = JobIn(b, s) /\ Row = rows[b]
  BY <1>2, JobIs
<1>4. Types
  BY DEF IInv
<1>5. PICK x \in RowType : x = rows[b]
  BY <1>4 DEF Types
<1>6. CASE UNCHANGED jobs /\ Waiting
  <2>1. UNCHANGED rows /\ lane' = [Off EXCEPT !.at = "look"] /\ "look" \in FreePlaces
    BY <1>6 DEF Waiting, FreePlaces
  <2>2. session' \in Nat
    BY <1>1, <1>4 DEF Types
  <2>. QED
    BY <1>1, <1>6, <2>1, <2>2, OffLane, LaneMoves
<1>7. CASE UNCHANGED jobs /\ Pause("unknown_outcome")
  BY <1>1, <1>7, PauseMoves
<1>8. CASE UNCHANGED jobs /\ Failed
  BY <1>1, <1>2, <1>8, FailedMoves DEF Runs
<1>9. CASE /\ Saved(Started)
           /\ jobs' = [jobs EXCEPT ![JobId].items =
                         [i \in DOMAIN @ |-> IF @[i] = "started" THEN "settled" ELSE @[i]]]
  <2>1. PICK n \in DOMAIN jobs : n = Last(rows[b].jobs) /\ jobs[n] = LastJob(b)
    BY <1>2, LastJobs DEF Runs, LastJob
  <2>2. n = Last(rows[b].jobs) /\ jobs[n] = LastJob(b) /\ n \in Nat
    BY <1>4, <2>1 DEF Types
  <2>3. PICK row : row = [x EXCEPT !.started = x.started \cup {n}] /\ Saved(row)
    BY <1>3, <1>5, <1>9, <2>2 DEF Started
  <2>4. /\ row \in RowType /\ row.jobs = x.jobs /\ row.intent = x.intent /\ row.phase = x.phase
        /\ row.pending = x.pending /\ row.committed = x.committed
        /\ row.deferred = x.deferred /\ row.grouped = x.grouped /\ row.merged = x.merged
    BY <2>2, <2>3 DEF RowType
  <2>5. PICK r \in RowType : rows' = [rows EXCEPT ![b] = r] /\ rows'[b] = r /\ Alike(r, row)
    BY <1>2, <2>3, <2>4, SavedRow
  <2>6. lane' \in LaneType /\ LaneFits'
    BY <1>2, <2>3, <2>4, SavedRow
  <2>7. /\ r.jobs = rows[b].jobs /\ r.intent = None /\ r.phase = "applying"
        /\ r.pending = rows[b].pending /\ r.committed = rows[b].committed
        /\ r.deferred = rows[b].deferred /\ r.grouped = rows[b].grouped
        /\ r.merged = rows[b].merged
    BY <1>2, <1>5, <2>4, <2>5 DEF Alike, Runs
  <2>8. PICK old \in [DOMAIN LastJob(b).items -> ItemStates] : old = LastJob(b).items
    BY <1>2, LastJobs DEF Runs
  <2>9. PICK f : f = [i \in DOMAIN old |-> IF old[i] = "started" THEN "settled" ELSE old[i]]
    OBVIOUS
  <2>10. f \in [DOMAIN LastJob(b).items -> ItemStates] /\ DOMAIN f = DOMAIN old
    BY <2>8, <2>9 DEF ItemStates
  <2>11. jobs' = [jobs EXCEPT ![Last(rows[b].jobs)].items = f]
    BY <1>3, <1>4, <1>9, <2>2, <2>8, <2>9 DEF Types
  <2>12. PICK e \in [NotesOf(b) -> {0, 1}] : e = effects[b]
    BY <1>4 DEF Types
  <2>13. effects' = [effects EXCEPT ![b] = e]
    BY <1>1, <1>4, <2>12 DEF Types
  <2>14. Sound(b, f, e)
    <3>1. Sound(b, old, e)
      BY <1>2, <2>8, <2>12, SoundJob
    <3>2. \A i \in DOMAIN f : \/ f[i] = old[i]
                              \/ f[i] = "settled" /\ old[i] = "started"
      BY <2>9, <2>10
    <3>. QED
      BY <2>10, <3>1, <3>2 DEF Sound, Untried, Retried, Unknown
  <2>. QED
    BY <1>1, <1>2, <2>5, <2>6, <2>7, <2>10, <2>11, <2>12, <2>13, <2>14, JobMoves
<1>. QED
  BY <1>6, <1>7, <1>8, <1>9 DEF Reconcile

\* The outcomes are read: what was not written now never will be, and what is left
\* over is what a next job may hold.
LEMMA ReadMoves ==
    ASSUME IInv, lane.at = "ran", NEW b \in Batches, b = Batch,
           JobIn(b, {"started"}) = {},
           NEW row \in RowType, Saved(row), row.jobs = rows[b].jobs, row.phase = "applying",
           row.committed \subseteq Items(b), row.pending \subseteq Items(b),
           rows[b].deferred \subseteq row.deferred,
           row.deferred \subseteq rows[b].deferred \cup JobIn(b, {"failed", "interrupted"}),
           row.grouped = rows[b].grouped, row.merged = rows[b].merged,
           row.intent =< Len(checkpoints) + 1,
           \/ row.intent # None /\ row.pending = JobIn(b, {"pending"})
           \/ row.intent = None /\ JobIn(b, {"interrupted"}) = {},
           UNCHANGED <<approval, jobs, checkpoints, groups, notes, effects, session, finished>>
    PROVE  IInv'
<1>1. Runs(b) /\ JobIn(b, {"begun", "settled"}) = {}
  BY AtRun
<1>2. BatchFits(b)
  BY DEF IInv
<1>3. PICK r \in RowType : rows' = [rows EXCEPT ![b] = r] /\ rows'[b] = r /\ Alike(r, row)
  BY SavedRow
<1>4. lane' \in LaneType /\ LaneFits'
  BY SavedRow
<1>5. /\ r.jobs = rows[b].jobs /\ r.phase = "applying"
      /\ r.committed \subseteq Items(b) /\ r.pending \subseteq Items(b)
      /\ rows[b].deferred \subseteq r.deferred
      /\ r.deferred \subseteq rows[b].deferred \cup JobIn(b, {"failed", "interrupted"})
      /\ r.grouped = rows[b].grouped /\ r.merged = rows[b].merged
      /\ r.intent = row.intent /\ r.pending = row.pending
  BY <1>3 DEF Alike
<1>6. PICK old \in [DOMAIN LastJob(b).items -> ItemStates] : old = LastJob(b).items
  BY <1>1, LastJobs DEF Runs
<1>7. \A s : JobIn(b, s) = {i \in DOMAIN old : old[i] \in s}
  BY <1>6 DEF JobIn
<1>8. Sound(b, old, effects[b])
  BY <1>1, <1>6, SoundJob
<1>9. HasRun(b)' /\ LastJob(b)' = LastJob(b) /\ Items(b)' = Items(b)
  BY <1>1, <1>3, <1>5, SameTypes DEF HasRun, LastJob, Runs
<1>10. \A s : JobIn(b, s)' = {i \in DOMAIN old : old[i] \in s}
  BY <1>6, <1>9 DEF JobIn
<1>11. rows'[b].intent = row.intent /\ rows'[b].pending = row.pending
  BY <1>3, <1>5
<1>12. \A i \in Live(b)' : i \in DOMAIN old /\ old[i] \in Untried
  BY <1>7, <1>9, <1>10, <1>11 DEF Live, Untried
<1>13. \A i \in Live(b)' \cup Unsettled(b)' :
          i \in DOMAIN old /\ old[i] \in Untried \cup Unknown /\ old[i] \notin {"failed", "interrupted"}
  <2>1. CASE row.intent # None /\ row.pending = JobIn(b, {"pending"})
    <3>1. Live(b)' = JobIn(b, {"pending"}) /\ Unsettled(b)' = {}
      BY <1>9, <1>11, <2>1 DEF Live, Unsettled
    <3>. QED
      BY <1>7, <3>1 DEF Untried
  <2>2. CASE row.intent = None /\ JobIn(b, {"interrupted"}) = {}
    <3>1. /\ Live(b)' = {i \in DOMAIN old : old[i] \in Untried}
          /\ Unsettled(b)' = {i \in DOMAIN old : old[i] \in Unknown}
      BY <1>9, <1>10, <1>11, <2>2 DEF Live, Unsettled, Untried, Retried, Unknown
    <3>2. {i \in DOMAIN old : old[i] \in {"interrupted"}} = {}
      BY <1>7, <2>2
    <3>. QED
      BY <3>1, <3>2 DEF Untried, Retried, Unknown
  <2>. QED
    BY <2>1, <2>2
<1>14. JobFits(b)'
  <2>1. JobIn(b, {"failed", "interrupted"}) \subseteq Items(b)
    BY <1>1, <1>2 DEF BatchFits, JobFits, JobIn, Runs
  <2>2. r.pending \cup r.committed \cup r.deferred \subseteq Items(b)
    BY <1>2, <1>5, <2>1 DEF BatchFits, JobFits
  <2>3. \A i, j \in JobIn(b, Retried)' : i = j
    BY <1>8, <1>10 DEF Sound, Retried
  <2>4. Last(rows'[b].jobs) \in DOMAIN jobs
    BY <1>1, <1>3, <1>5, LastJobs DEF Runs
  <2>5. LastJob(b).checkpoint \in DOMAIN checkpoints /\ DOMAIN LastJob(b).items \subseteq Items(b)
    BY <1>1, LastJobs DEF Runs
  <2>. QED
    BY <1>3, <1>5, <1>9, <2>2, <2>3, <2>4, <2>5 DEF JobFits
<1>15. ItemsFit(b)'
  <2>1. \A i \in JobIn(b, {"failed", "interrupted"}) : effects[b][i] = 0
    BY <1>7, <1>8 DEF Sound, Untried, Retried
  <2>2. \A i \in rows'[b].deferred :
          effects[b][i] = 0 /\ (i \in Live(b)' \cup Unsettled(b)' => i \notin notes[b])
    BY <1>3, <1>5, <1>7, <1>8, <1>13, <2>1 DEF Sound
  <2>3. \A i \in Live(b)' : effects[b][i] = 0
    BY <1>8, <1>12 DEF Sound
  <2>4. \A i \in JobIn(b, {"failed"})' : effects[b][i] = 0
    BY <1>8, <1>10 DEF Sound
  <2>. QED
    BY <2>2, <2>3, <2>4 DEF ItemsFit
<1>16. MayBe(b, r)
  BY <1>2, <1>5 DEF MayBe, BatchFits, PhaseFits
<1>17. PhaseFits(b)'
  BY <1>3, <1>16, MayBeFits
<1>18. r.intent =< Len(checkpoints) + 1 /\ rows[b].phase # "done"
  BY <1>1, <1>5 DEF Runs
<1>. QED
  BY <1>3, <1>4, <1>5, <1>14, <1>15, <1>17, <1>18, RowMoves
LEMMA ReadSteps ==
    ASSUME IInv, FollowUp \/ Continue
    PROVE  IInv'
<1>1. /\ lane.at = "ran"
      /\ UNCHANGED <<approval, jobs, checkpoints, groups, notes, effects, session, finished>>
  BY DEF FollowUp, Continue, world, At
<1>2. PICK b \in Batches : b = Batch /\ Runs(b)
  BY <1>1, AtRun
<1>3. JobId = Last(rows[b].jobs) /\ Row = rows[b] /\ \A s : In(s) = JobIn(b, s)
  BY <1>2, JobIs
<1>4. Types /\ JobFits(b)
  BY DEF IInv, BatchFits
<1>5. PICK x \in RowType : x = rows[b]
  BY <1>4 DEF Types
<1>6. JobId \in Nat
  <2>1. JobId \in DOMAIN jobs
    BY <1>2, <1>3, LastJobs DEF Runs
  <2>. QED
    BY <1>4, <2>1 DEF Types
<1>7. \A s : JobIn(b, s) \subseteq Items(b)
  BY <1>2, <1>4 DEF JobFits, JobIn, Runs
<1>8. /\ Items(b) \subseteq AllItems
      /\ x.committed \subseteq Items(b) /\ x.deferred \subseteq Items(b) /\ x.pending \subseteq Items(b)
  BY <1>4, <1>5, Apart DEF JobFits
<1>9. PICK started \in SUBSET Nat : started = x.started \cup {JobId}
  BY <1>6 DEF RowType
<1>10. Started = [x EXCEPT !.started = started]
  BY <1>3, <1>5, <1>9 DEF Started
<1>11. PICK unread : unread = [x EXCEPT !.started = started]
  OBVIOUS
<1>12. /\ unread \in RowType /\ unread.jobs = x.jobs /\ unread.phase = x.phase
       /\ unread.committed = x.committed /\ unread.deferred = x.deferred
       /\ unread.pending = x.pending /\ unread.grouped = x.grouped /\ unread.merged = x.merged
       /\ unread.intent = x.intent
  BY <1>11 DEF RowType
<1>13. PICK committed \in SUBSET AllItems :
        committed = x.committed \cup JobIn(b, {"committed"}) /\ committed \subseteq Items(b)
  BY <1>7, <1>8
<1>14. PICK deferred \in SUBSET AllItems :
         /\ deferred = x.deferred \cup JobIn(b, {"failed", "interrupted"})
         /\ deferred \subseteq Items(b)
  BY <1>7, <1>8
<1>15. PICK full : full = [unread EXCEPT !.committed = committed, !.deferred = deferred]
  OBVIOUS
<1>16. /\ full \in RowType /\ full.jobs = x.jobs /\ full.phase = x.phase
       /\ full.committed = committed /\ full.deferred = deferred
       /\ full.pending = x.pending /\ full.grouped = x.grouped /\ full.merged = x.merged
       /\ full.intent = x.intent
  BY <1>12, <1>15 DEF RowType
<1>17. Read(TRUE) = full /\ Read(FALSE) = unread
  BY <1>3, <1>10, <1>11, <1>12, <1>13, <1>14, <1>15 DEF Read
<1>18. ASSUME NEW listed \in BOOLEAN
       PROVE  \E read \in RowType :
                /\ Read(listed) = read
                /\ read.jobs = x.jobs /\ read.phase = x.phase /\ read.intent = x.intent
                /\ read.grouped = x.grouped /\ read.merged = x.merged
                /\ read.pending = x.pending
                /\ read.committed \subseteq Items(b) /\ x.deferred \subseteq read.deferred
                /\ read.deferred \subseteq x.deferred \cup JobIn(b, {"failed", "interrupted"})
  BY <1>8, <1>12, <1>13, <1>14, <1>16, <1>17
<1>19. JobIn(b, {"started"}) = {}
  BY <1>1, <1>3 DEF FollowUp, Continue
<1>20. Len(checkpoints) \in Nat
  BY <1>4 DEF Types
<1>21. CASE FollowUp
  <2>1. PICK pending \in SUBSET AllItems : pending = JobIn(b, {"pending"}) /\ pending \subseteq Items(b)
    BY <1>7, <1>8
  <2>2. PICK now \in Nat : now = Now /\ now # None /\ now =< Len(checkpoints) + 1
    BY <1>20 DEF Now, None
  <2>3. PICK row : row = [full EXCEPT !.pending = pending, !.intent = now] /\ Saved(row)
    BY <1>3, <1>17, <1>21, <2>1, <2>2 DEF FollowUp, Pending
  <2>4. /\ row \in RowType /\ row.jobs = x.jobs /\ row.phase = x.phase
        /\ row.committed = committed /\ row.deferred = deferred /\ row.pending = pending
        /\ row.grouped = x.grouped /\ row.merged = x.merged /\ row.intent = now
    BY <1>16, <2>1, <2>2, <2>3 DEF RowType
  <2>. QED
    BY <1>1, <1>2, <1>5, <1>13, <1>14, <1>19, <2>1, <2>2, <2>3, <2>4, ReadMoves DEF Runs
<1>22. CASE Continue
  <2>1. JobIn(b, {"interrupted"}) = {}
    <3>1. lane.stop \in {"idle", "policy"}
      BY <1>22 DEF Continue
    <3>2. JobIn(b, {"started", "interrupted"}) = {}
      BY <1>1, <1>2, <3>1, AtRun
    <3>. QED
      BY <3>2 DEF JobIn
  <2>2. x.intent = None /\ None =< Len(checkpoints) + 1
    BY <1>2, <1>5, <1>20 DEF Runs, None
  <2>3. PICK listed \in BOOLEAN :
          \/ Saved(Read(listed))
          \/ Saved([Read(listed) EXCEPT !.finished = @ \cup {JobId}, !.pending = {}])
    BY <1>22 DEF Continue
  <2>4. PICK read \in RowType :
          /\ Read(listed) = read
          /\ read.jobs = x.jobs /\ read.phase = x.phase /\ read.intent = x.intent
          /\ read.grouped = x.grouped /\ read.merged = x.merged /\ read.pending = x.pending
          /\ read.committed \subseteq Items(b) /\ x.deferred \subseteq read.deferred
          /\ read.deferred \subseteq x.deferred \cup JobIn(b, {"failed", "interrupted"})
    BY <1>18
  <2>5. CASE Saved(read)
    BY <1>1, <1>2, <1>5, <1>8, <1>19, <2>1, <2>2, <2>4, <2>5, ReadMoves DEF Runs
  <2>6. CASE Saved([read EXCEPT !.finished = read.finished \cup {JobId}, !.pending = {}])
    <3>1. PICK over \in SUBSET Nat : over = read.finished \cup {JobId}
      BY <1>6 DEF RowType
    <3>2. PICK row : row = [read EXCEPT !.finished = over, !.pending = {}] /\ Saved(row)
      BY <2>6, <3>1
    <3>3. /\ row \in RowType /\ row.jobs = x.jobs /\ row.phase = x.phase
          /\ row.committed = read.committed /\ row.deferred = read.deferred /\ row.pending = {}
          /\ row.grouped = x.grouped /\ row.merged = x.merged /\ row.intent = None
      BY <2>2, <2>4, <3>1, <3>2 DEF RowType
    <3>4. /\ row.jobs = rows[b].jobs /\ row.phase = "applying"
          /\ row.committed \subseteq Items(b) /\ row.pending \subseteq Items(b)
          /\ rows[b].deferred \subseteq row.deferred
          /\ row.deferred \subseteq rows[b].deferred \cup JobIn(b, {"failed", "interrupted"})
          /\ row.grouped = rows[b].grouped /\ row.merged = rows[b].merged
      BY <1>2, <1>5, <2>4, <3>3 DEF Runs
    <3>5. row.intent =< Len(checkpoints) + 1
      BY <2>2, <3>3
    <3>6. lane.at = "ran" /\ b = Batch
          /\ UNCHANGED <<approval, jobs, checkpoints, groups, notes, effects, session, finished>>
      BY <1>1, <1>2
    <3>. QED
      BY <1>19, <2>1, <3>2, <3>3, <3>4, <3>5, <3>6, ReadMoves
  <2>. QED
    BY <2>3, <2>4, <2>5, <2>6
<1>. QED
  BY <1>21, <1>22
-----------------------------------------------------------------------------
(* The split group                                                         *)

\* The group is written as far as it was not, and the lane knows how far it came.
LEMMA GroupMoves ==
    ASSUME IInv, lane.at = "applying", NEW b \in Batches, b = Batch, b \in Grouped,
           ~ rows[b].grouped, checkpoints' = Append(checkpoints, Checkpoint(b)),
           NEW g \in {"partial", "complete"}, groups' = [groups EXCEPT ![b] = g],
           NEW e \in [NotesOf(b) -> {0, 1}], effects' = [effects EXCEPT ![b] = e],
           e[Unit] = (IF g = "complete" THEN 1 ELSE 0),
           \A i \in Items(b) : e[i] = effects[b][i],
           lane' = [lane EXCEPT !.at = "grouped", !.stop = g, !.since = Now],
           UNCHANGED <<approval, rows, jobs, notes, session, finished>>
    PROVE  IInv'
<1>1. Types /\ BatchFits(b) /\ FilesFit
  BY DEF IInv
<1>2. PICK x \in RowType : x = rows[b] /\ x.phase = "applying"
  BY AtBatch DEF WritePhases
<1>3. b \in Nat
  OBVIOUS
<1>4. /\ checkpoints' \in Seq(CheckpointType) /\ CheckpointsKept
      /\ Len(checkpoints) =< Len(checkpoints') /\ Now \in Nat \ {0}
      /\ \A k \in DOMAIN checkpoints' :
           checkpoints'[k].batch \notin ToSet(finished) => checkpoints'[k].file
  BY <1>3, TakenKeeps
<1>5. /\ groups' \in [Batches -> {"none", "partial", "complete"}] /\ groups'[b] = g
      /\ effects' = [c \in Batches |-> effects'[c]] /\ effects'[b] = e
      /\ \A c \in Batches \ {b} : groups'[c] = groups[c] /\ effects'[c] = effects[c]
  BY <1>1 DEF Types
<1>6. lane' \in LaneType /\ lane'.at = "grouped" /\ lane'.batch = b /\ lane'.stop = g
  BY <1>1, <1>4 DEF Types, LaneType, BatchPlaces, Stops, Batch
<1>7. Items(b)' = Items(b) /\ Grouped' = Grouped /\ Merging' = Merging
  BY SameTypes
<1>8. LaneFits'
  BY <1>2, <1>5, <1>6, <1>7, PlaceFits
<1>9. \A c \in Batches : JobKept(c)
  BY LastJobs DEF JobKept
<1>10. HasRun(b)' = HasRun(b) /\ (HasRun(b) => LastJob(b)' = LastJob(b))
  BY <1>9 DEF HasRun, JobKept, LastJob
<1>11. HasRun(b) => \A s : JobIn(b, s)' = JobIn(b, s)
  BY <1>10 DEF JobIn
<1>12. Live(b)' = Live(b) /\ Unsettled(b)' = Unsettled(b)
  BY <1>7, <1>10, <1>11 DEF Live, Unsettled
<1>13. JobFits(b)'
  BY <1>1, <1>4, <1>7, <1>10, <1>11 DEF BatchFits, JobFits, CheckpointsKept
<1>14. ItemsFit(b)'
  <2>1. HasRun(b) => JobIn(b, {"failed"}) \subseteq Items(b)
    BY <1>1 DEF BatchFits, JobFits, JobIn
  <2>2. Live(b) \subseteq Items(b) /\ rows[b].deferred \subseteq Items(b)
    BY <1>1, LiveIn DEF BatchFits, JobFits
  <2>3. \A i \in Items(b) : effects'[b][i] = effects[b][i]
    BY <1>5
  <2>. QED
    BY <1>1, <1>10, <1>11, <1>12, <2>1, <2>2, <2>3 DEF BatchFits, ItemsFit
<1>15. PhaseFits(b)'
  BY <1>1, <1>2, <1>5, <1>7 DEF BatchFits, PhaseFits
<1>16. BatchFits(b)'
  BY <1>13, <1>14, <1>15 DEF BatchFits
<1>17. rows' = [rows EXCEPT ![b] = x] /\ rows[b].phase # "done"
  BY <1>1, <1>2 DEF Types
<1>18. x.intent =< Len(checkpoints') + 1
  <2>1. /\ x.intent \in Nat /\ x.intent =< Len(checkpoints) + 1
        /\ Len(checkpoints) \in Nat /\ Len(checkpoints') \in Nat
    BY <1>1, <1>2, <1>4 DEF Types, FilesFit, RowType
  <2>. QED
    BY <1>4, <2>1
<1>19. x.jobs # <<>> => HasRun(b) /\ Last(x.jobs) = Last(rows[b].jobs)
  BY <1>2 DEF HasRun
<1>20. jobs' \in Seq(JobType) /\ notes' = [c \in Batches |-> notes'[c]] /\ session' \in Nat
  BY <1>1 DEF Types
<1>. QED
  BY <1>4, <1>5, <1>6, <1>8, <1>9, <1>16, <1>17, <1>18, <1>19, <1>20, BatchMoves

LEMMA ApplyGroupStep ==
    ASSUME IInv, ApplyGroup
    PROVE  IInv'
<1>1. /\ lane.at = "applying" /\ lane.at \in WritePhases
      /\ UNCHANGED <<approval, jobs, notes, session, finished>>
  BY DEF ApplyGroup, JobsOver, At, WritePhases
<1>2. PICK b \in Batches : b = Batch /\ rows[b] = Row /\ Row.phase = "applying"
  BY <1>1, AtBatch
<1>3. /\ b \in Grouped /\ ~ rows[b].grouped
      /\ checkpoints' = Append(checkpoints, Checkpoint(b)) /\ b \in Nat
  BY <1>2 DEF ApplyGroup
<1>4. Types /\ BatchFits(b)
  BY DEF IInv
<1>5. PICK e \in [NotesOf(b) -> {0, 1}] : e = effects[b]
  BY <1>4 DEF Types
<1>6. /\ Unit \in NotesOf(b) /\ Unit \notin Items(b) /\ Items(b) \subseteq NotesOf(b)
      /\ e[Unit] = IF groups[b] = "complete" THEN 1 ELSE 0
  BY <1>3, <1>4, <1>5, Apart DEF BatchFits, PhaseFits
<1>7. CASE /\ groups' = [groups EXCEPT ![b] = "complete"]
           /\ effects' = [effects EXCEPT ![b][Unit] = IF groups[b] = "complete" THEN @ ELSE @ + 1]
           /\ lane' = [lane EXCEPT !.at = "grouped", !.stop = "complete", !.since = Now]
           /\ UNCHANGED rows
  <2>1. PICK d : d = [e EXCEPT ![Unit] = 1]
    OBVIOUS
  <2>2. /\ d \in [NotesOf(b) -> {0, 1}] /\ d[Unit] = 1
        /\ \A i \in Items(b) : d[i] = effects[b][i]
    BY <1>5, <1>6, <2>1
  <2>3. (IF groups[b] = "complete" THEN effects[b][Unit] ELSE effects[b][Unit] + 1) = 1
    BY <1>5, <1>6
  <2>4. effects' = [effects EXCEPT ![b] = [effects[b] EXCEPT ![Unit] = 1]]
    BY <1>4, <1>7, <2>3 DEF Types
  <2>5. effects' = [effects EXCEPT ![b] = d]
    BY <1>5, <2>1, <2>4
  <2>6. PICK g \in {"partial", "complete"} : g = "complete"
    OBVIOUS
  <2>. QED
    BY <1>1, <1>2, <1>3, <1>7, <2>2, <2>5, <2>6, GroupMoves, ZenonT(60)
<1>8. CASE /\ groups[b] # "complete" /\ groups' = [groups EXCEPT ![b] = "partial"]
           /\ lane' = [lane EXCEPT !.at = "grouped", !.stop = "partial", !.since = Now]
           /\ UNCHANGED <<rows, effects>>
  <2>1. effects' = [effects EXCEPT ![b] = e] /\ e[Unit] = 0
    BY <1>4, <1>5, <1>6, <1>8 DEF Types
  <2>2. PICK g \in {"partial", "complete"} : g = "partial"
    OBVIOUS
  <2>. QED
    BY <1>1, <1>2, <1>3, <1>5, <1>8, <2>1, <2>2, GroupMoves
<1>9. CASE Failed /\ UNCHANGED <<groups, effects>>
  <2>1. PICK r \in RowType : rows' = [rows EXCEPT ![b] = r] /\ rows'[b] = r /\ Alike(r, rows[b])
    BY <1>2, <1>9, FailedRow
  <2>2. lane' \in LaneType /\ LaneFits'
    BY <1>2, <1>9, FailedRow
  <2>3. jobs' \in Seq(JobType) /\ \A c \in Batches : JobKept(c)
    BY <1>1, <1>4, LastJobs DEF JobKept, Types
  <2>4. rows[b].phase # "done"
    BY <1>2
  <2>. QED
    BY <1>1, <1>3, <1>9, <2>1, <2>2, <2>3, <2>4, TakenMoves
<1>. QED
  BY <1>2, <1>7, <1>8, <1>9 DEF ApplyGroup

\* The checkpoints of the group are recorded, and whether it is complete.
LEMMA RecordGroupStep ==
    ASSUME IInv, RecordGroup
    PROVE  IInv'
<1>1. /\ lane.at = "grouped" /\ UNCHANGED <<approval, jobs, groups, notes, effects, session, finished>>
  BY DEF RecordGroup, world, At
<1>2. PICK b \in Batches : b = Batch /\ rows[b] = Row
  BY <1>1, AtBatch
<1>3. PICK x \in RowType : x = rows[b] /\ x.phase = "applying" /\ b \in Grouped
                           /\ (lane.stop = "complete" => groups[b] = "complete")
  BY <1>1, <1>2, AtBatch DEF IInv, LaneFits, At
<1>4. Types /\ BatchFits(b) /\ FilesFit
  BY DEF IInv
<1>5. PICK since \in Nat : since = lane.since
  BY <1>4 DEF Types, LaneType
<1>6. /\ checkpoints' \in Seq(CheckpointType) /\ CheckpointsKept
      /\ Len(checkpoints') = Len(checkpoints)
      /\ \A k \in DOMAIN checkpoints' :
           checkpoints'[k].batch \notin ToSet(finished) => checkpoints'[k].file
  <2>1. rows[b].phase # "done" /\ (checkpoints' = Attributed(b, since) \/ UNCHANGED checkpoints)
    BY <1>2, <1>3, <1>5 DEF RecordGroup
  <2>. QED
    BY <2>1, AttributedKeeps
<1>7. Len(checkpoints) \in Nat /\ Len(checkpoints) =< Len(checkpoints')
  BY <1>4, <1>6 DEF Types
<1>8. /\ jobs' \in Seq(JobType) /\ groups' \in [Batches -> {"none", "partial", "complete"}]
      /\ notes' = [c \in Batches |-> notes'[c]] /\ effects' = [c \in Batches |-> effects'[c]]
      /\ effects'[b] \in [NotesOf(b) -> {0, 1}] /\ session' \in Nat
      /\ \A c \in Batches : notes'[c] \subseteq notes[c]
  BY <1>1, <1>4 DEF Types
<1>9. CASE lane.stop = "complete"
  <2>1. PICK row : row = [x EXCEPT !.grouped = TRUE] /\ Saved(row)
    BY <1>2, <1>3, <1>9 DEF RecordGroup
  <2>2. /\ row \in RowType /\ row.jobs = x.jobs /\ row.intent = x.intent /\ row.phase = x.phase
        /\ row.pending = x.pending /\ row.committed = x.committed
        /\ row.deferred = x.deferred /\ row.merged = x.merged
    BY <2>1 DEF RowType
  <2>3. PICK r \in RowType : rows' = [rows EXCEPT ![b] = r] /\ rows'[b] = r /\ Alike(r, row)
    BY <1>2, <2>1, <2>2, SavedRow
  <2>4. lane' \in LaneType /\ LaneFits'
    BY <1>2, <2>1, <2>2, SavedRow
  <2>5. /\ r.jobs = rows[b].jobs /\ r.intent = rows[b].intent /\ r.phase = "applying"
        /\ r.pending = rows[b].pending /\ r.committed = rows[b].committed
        /\ r.deferred = rows[b].deferred /\ r.merged = rows[b].merged
    BY <1>3, <2>2, <2>3 DEF Alike
  <2>6. MayBe(b, r)
    BY <1>3, <1>4, <1>9, <2>5 DEF MayBe, BatchFits, PhaseFits
  <2>7. PhaseFits(b)'
    BY <1>1, <2>3, <2>6, MayBeFits
  <2>8. \A c \in Batches : JobKept(c)
    BY <1>1, LastJobs DEF JobKept
  <2>9. JobFits(b)' /\ ItemsFit(b)'
    <3>1. rows'[b] = r
      BY <2>3
    <3>. QED
      BY <1>1, <1>6, <1>8, <2>5, <2>8, <3>1, ItemsStay
  <2>10. BatchFits(b)'
    BY <2>7, <2>9 DEF BatchFits
  <2>11. r.intent =< Len(checkpoints') + 1 /\ rows[b].phase # "done"
    BY <1>3, <1>4, <1>6, <2>5 DEF FilesFit
  <2>12. r.jobs # <<>> => HasRun(b) /\ Last(r.jobs) = Last(rows[b].jobs)
    BY <2>5 DEF HasRun
  <2>. QED
    BY <1>1, <1>6, <1>7, <1>8, <2>3, <2>4, <2>8, <2>10, <2>11, <2>12, BatchMoves
<1>10. CASE lane.stop # "complete"
  <2>1. UNCHANGED rows /\ lane' = [Off EXCEPT !.at = "ending"] /\ "ending" \in FreePlaces
    BY <1>10 DEF RecordGroup, Pause, FreePlaces
  <2>. QED
    BY <1>1, <1>6, <1>7, <1>8, <2>1, OffLane, WorldMoves
<1>. QED
  BY <1>9, <1>10
-----------------------------------------------------------------------------
(* The invariant                                                           *)

LEMMA Initially == Init => IInv
<1>. SUFFICES ASSUME Init PROVE IInv
  OBVIOUS
<1>1. PICK x : x = NewRow
  OBVIOUS
<1>2. /\ x \in RowType /\ x.phase = "ready" /\ x.intent = None /\ x.jobs = <<>>
      /\ x.pending = {} /\ x.committed = {} /\ x.deferred = {} /\ ~ x.grouped /\ ~ x.merged
  BY <1>1 DEF NewRow, RowType, Phases, None
<1>3. \A b \in Batches : rows[b] = x
  BY <1>1 DEF Init
<1>4. lane.at = "off" /\ lane \in LaneType
  BY DEF Init, Off, LaneType, FreePlaces, Stops
<1>5. approval \in Plans /\ checkpoints = <<>> /\ jobs = <<>> /\ finished = <<>> /\ session = 1
  BY DEF Init
<1>6. \A b \in Batches :
         /\ groups[b] = "none" /\ notes[b] = NotesOf(b)
         /\ effects[b] = [i \in NotesOf(b) |-> 0]
  BY DEF Init
<1>7. Types
  <2>1. rows = [b \in Batches |-> x]
    BY <1>1 DEF Init
  <2>2. rows \in [Batches -> RowType]
    BY <1>2, <2>1
  <2>3. groups \in [Batches -> {"none", "partial", "complete"}]
    BY DEF Init
  <2>4. /\ notes = [b \in Batches |-> notes[b]] /\ effects = [b \in Batches |-> effects[b]]
        /\ \A b \in Batches : effects[b] \in [NotesOf(b) -> {0, 1}]
    <3>1. notes = [b \in Batches |-> NotesOf(b)]
      BY DEF Init
    <3>2. effects = [b \in Batches |-> [i \in NotesOf(b) |-> 0]]
      BY DEF Init
    <3>. QED
      BY <3>1, <3>2
  <2>5. jobs \in Seq(JobType) /\ checkpoints \in Seq(CheckpointType) /\ finished \in Seq(Batches)
    BY <1>5
  <2>. QED
    BY <1>4, <1>5, <2>2, <2>3, <2>4, <2>5 DEF Types
<1>8. \A b \in Batches : BatchFits(b)
  <2>. SUFFICES ASSUME NEW b \in Batches PROVE BatchFits(b)
    OBVIOUS
  <2>1. rows[b] = x /\ ~ HasRun(b)
    BY <1>2, <1>3 DEF HasRun
  <2>2. Items(b) \subseteq NotesOf(b) /\ (b \in Grouped => Unit \in NotesOf(b))
    BY DEF NotesOf
  <2>3. JobFits(b)
    BY <1>2, <2>1 DEF JobFits
  <2>4. ItemsFit(b)
    BY <1>2, <1>6, <2>1, <2>2, ZenonT(60) DEF ItemsFit, Live, Unsettled
  <2>5. PhaseFits(b)
    BY <1>2, <1>6, <2>1, <2>2, ZenonT(60) DEF PhaseFits
  <2>. QED
    BY <2>1, <2>3, <2>4, <2>5 DEF BatchFits
<1>9. JobsApart
  BY <1>2, <1>3 DEF JobsApart, HasRun
<1>10. FilesFit
  <2>1. ToSet(finished) = {} /\ DOMAIN checkpoints = {} /\ Len(checkpoints) = 0
    BY <1>5 DEF ToSet
  <2>2. \A b \in Batches : rows[b].intent =< Len(checkpoints) + 1
    BY <1>2, <1>3, <2>1 DEF None
  <2>. QED
    BY <2>1, <2>2 DEF FilesFit
<1>11. LaneFits
  BY <1>4 DEF LaneFits, CreatedFits, RunFits, FreePlaces, WritePhases, At
<1>. QED
  BY <1>7, <1>8, <1>9, <1>10, <1>11 DEF IInv

LEMMA Inductive ==
    ASSUME IInv, [Next]_vars
    PROVE  IInv'
<1>1. CASE UNCHANGED vars
  <2>1. UNCHANGED <<approval, rows, jobs, checkpoints, groups, notes, effects, session, lane,
                    finished>>
    BY <1>1 DEF vars
  <2>2. Types'
    <3>1. RowType' = RowType /\ JobType' = JobType
      BY <2>1, SameTypes
    <3>2. \A b \in Batches : effects'[b] \in [NotesOf(b)' -> {0, 1}]
      BY <2>1, SameTypes DEF IInv, Types
    <3>. QED
      BY <2>1, <3>1, <3>2 DEF IInv, Types
  <2>3. \A b \in Batches : BatchFits(b)'
    <3>1. ASSUME NEW b \in Batches
          PROVE  /\ JobFits(b)' <=> JobFits(b)
                 /\ ItemsFit(b)' <=> ItemsFit(b)
                 /\ PhaseFits(b)' <=> PhaseFits(b)
      BY <2>1 DEF JobFits, ItemsFit, PhaseFits, Live, Unsettled, JobIn, LastJob,
                  HasRun, Items, Grouped, Merging
    <3>. QED
      BY <3>1 DEF IInv, BatchFits
  <2>4. JobsApart' /\ FilesFit'
    BY <2>1 DEF IInv, JobsApart, FilesFit, HasRun
  <2>5. LaneFits'
    <3>1. /\ CreatedFits' <=> CreatedFits
          /\ RunFits' <=> RunFits
      BY <2>1 DEF CreatedFits, RunFits, NewestJob, JobIn, LastJob, HasRun, Live, Items, Row,
                  Batch, At
    <3>. QED
      BY <2>1, <3>1 DEF IInv, LaneFits, Row, Batch, At, Grouped
  <2>. QED
    BY <2>2, <2>3, <2>4, <2>5 DEF IInv
<1>2. CASE TickStart \/ TickEnd \/ TickOver \/ Resume \/ JobUnavailable \/ RunUnavailable
           \/ GroupUnavailable \/ Halted \/ RefuseMerge
  BY <1>2, FreeSteps
<1>3. CASE Look
  BY <1>3, LookStep
<1>4. CASE SessionEnded \/ Halt \/ RunIdle
  BY <1>4, StopSteps
<1>5. CASE Restart \/ Backup \/ (\E b \in Batches : DeleteNote(b))
  BY <1>5, WorldSteps
<1>6. CASE \E b \in Batches : Approve(b)
  BY <1>6, ApproveStep
<1>7. CASE RemoveFile \/ MarkPruned
  BY <1>7, RetentionSteps
<1>8. CASE ReadFacts
  BY <1>8, ReadFactsStep
<1>9. CASE GroupsOnly \/ RecordIntent
  BY <1>9, ApprovedSteps
<1>10. CASE CreateJob
  BY <1>10, CreateJobStep
<1>11. CASE RecordCheckpoints
  BY <1>11, RecordCheckpointsStep
<1>12. CASE SaveJob
  BY <1>12, SaveJobStep
<1>13. CASE RunJob
  BY <1>13, RunJobStep
<1>14. CASE Dispatch
  BY <1>14, DispatchStep
<1>15. CASE Kill
  BY <1>15, KillStep
<1>16. CASE Reconcile
  BY <1>16, ReconcileStep
<1>17. CASE FollowUp \/ Continue
  BY <1>17, ReadSteps
<1>18. CASE ApplyGroup
  BY <1>18, ApplyGroupStep
<1>19. CASE RecordGroup
  BY <1>19, RecordGroupStep
<1>20. CASE AppliesOver \/ Verify \/ SaveMerged \/ MergeOver
  BY <1>20, ClosingSteps
<1>21. CASE DeleteMerged
  BY <1>21, DeleteStep
<1>. QED
  BY <1>1, <1>2, <1>3, <1>4, <1>5, <1>6, <1>7, <1>8, <1>9, <1>10, <1>11, <1>12, <1>13, <1>14,
     <1>15, <1>16, <1>17, <1>18, <1>19, <1>20, <1>21 DEF Next, Write

\* What may still be written was not written before, by whatever job; what is deferred
\* never will be; and only what is recorded for a batch that is done loses its file.
THEOREM Invariant == Spec => []IInv
<1>1. Init => IInv
  BY Initially
<1>2. IInv /\ [Next]_vars => IInv'
  BY Inductive
<1>. QED
  BY <1>1, <1>2, PTL DEF Spec

\* Over all jobs of a batch, those of killed ticks and the follow-ups included, no note
\* is written twice, and no split group either (create_apply_job, applying).
THEOREM OnceEach == Spec => []WrittenOnce
<1>1. IInv => WrittenOnce
  <2>. SUFFICES ASSUME IInv, NEW b \in Batches, NEW i \in NotesOf(b) PROVE effects[b][i] =< 1
    BY DEF WrittenOnce
  <2>1. effects[b] \in [NotesOf(b) -> {0, 1}]
    BY DEF IInv, Types
  <2>2. effects[b][i] \in {0, 1}
    BY <2>1
  <2>. QED
    BY <2>2
<1>. QED
  BY <1>1, Invariant, PTL

\* A batch that is done has every approved note written or deferred, never both; its
\* group is complete, and its duplicate is gone only after the survivor was applied
\* (applying, verifying, merging).
THEOREM DoneMeansComplete == Spec => []DoneIsComplete
<1>1. IInv => DoneIsComplete
  <2>. SUFFICES ASSUME IInv, NEW b \in Batches, rows[b].phase = "done"
                PROVE  /\ \A i \in Items(b) : (effects[b][i] = 1) # (i \in rows[b].deferred)
                       /\ b \in Grouped => groups[b] = "complete"
                       /\ b \in Merging => /\ Duplicate \notin notes[b]
                                           /\ \A i \in Items(b) : effects[b][i] = 1
    BY DEF DoneIsComplete
  <2>1. BatchFits(b)
    BY DEF IInv
  <2>2. \A i \in Items(b) \ rows[b].deferred : effects[b][i] = 1
    BY <2>1 DEF BatchFits, PhaseFits
  <2>3. \A i \in rows[b].deferred : effects[b][i] = 0
    BY <2>1 DEF BatchFits, ItemsFit
  <2>4. \A i \in Items(b) : (effects[b][i] = 1) # (i \in rows[b].deferred)
    <3>1. ASSUME NEW i \in Items(b), i \in rows[b].deferred
          PROVE  effects[b][i] # 1
      BY <2>3, <3>1
    <3>. QED
      BY <2>2, <3>1, Zenon
  <2>5. b \in Grouped => groups[b] = "complete"
    BY <2>1 DEF BatchFits, PhaseFits
  <2>6. b \in Merging => Duplicate \notin notes[b] /\ Items(b) \cap rows[b].deferred = {}
    BY <2>1 DEF BatchFits, PhaseFits
  <2>. QED
    BY <2>2, <2>4, <2>5, <2>6
<1>. QED
  BY <1>1, Invariant, PTL

-----------------------------------------------------------------------------
(* Whose checkpoints are recorded                                          *)
(*                                                                         *)
(* A batch may have a job whose checkpoint nobody recorded, when the list   *)
(* of the backups could not be read.  Another batch would record it as its  *)
(* own; it does not, because the lane works on the oldest batch first.      *)

\* A batch with a job that may still run.
Unfinished(b) == HasRun(b) /\ rows[b].phase # "done"

IntentFits == \A b \in Batches : rows[b].intent # None => rows[b].phase \in {"approved", "applying"}

\* While the lane works on a batch, the older ones have nothing to record or to run.
OldestFirst ==
    lane.at \notin FreePlaces =>
        \A b \in Batches : b < Batch => rows[b].intent = None /\ ~ Unfinished(b)

\* The intent of an older batch is younger than the jobs of the others.
IntentAfter ==
    \A b, c \in Batches :
        c < b /\ Unfinished(b) /\ rows[c].intent # None => LastJob(b).checkpoint < rows[c].intent

\* So is the split group that is being written.
GroupAfter ==
    At("grouped") => \A b \in Batches : HasRun(b) => LastJob(b).checkpoint < lane.since

\* The checkpoint of a last job is the batch's own, or nobody's.
Own(k, b) == checkpoints[k].batch \in {None, b}
KeepsCheckpoint == \A b \in Batches : Unfinished(b) => Own(LastJob(b).checkpoint, b)
KeepsNewest ==
    lane.at \in {"created", "recorded"} => /\ Row.intent # None
                                           /\ Own(NewestJob.checkpoint, Batch)
                                           /\ At("created") => Own(NewestJob.checkpoint, None)

Order ==
    IntentFits /\ OldestFirst /\ IntentAfter /\ GroupAfter /\ KeepsCheckpoint /\ KeepsNewest

\* A step that changes no intent and no job of a batch, and records no checkpoint.
SteadyRow(b) ==
    /\ rows'[b].jobs = rows[b].jobs /\ rows'[b].intent = rows[b].intent
    /\ rows[b].phase = "done" => rows'[b].phase = "done"
    /\ rows[b].intent # None => rows'[b].phase \in {"approved", "applying"}
SteadyJobs == \A j \in DOMAIN jobs : j \in DOMAIN jobs' /\ jobs'[j].checkpoint = jobs[j].checkpoint

\* The lane goes on with its batch, to a place that has nothing to record, or leaves it.
LaneGoes ==
    \/ lane'.at \in FreePlaces
    \/ /\ lane.at \notin FreePlaces /\ lane'.batch = lane.batch
       /\ lane'.at \notin {"created", "recorded", "grouped"}

\* The last job of a batch stays the last, with its checkpoint.
LEMMA SameJob ==
    ASSUME IInv, NEW b \in Batches, rows'[b].jobs = rows[b].jobs, SteadyJobs
    PROVE  /\ HasRun(b)' = HasRun(b)
           /\ HasRun(b) => LastJob(b)'.checkpoint = LastJob(b).checkpoint
                           /\ LastJob(b).checkpoint \in DOMAIN checkpoints
BY LastJobs DEF HasRun, LastJob, SteadyJobs

\* What such a step keeps, whatever becomes of the lane.
LEMMA SteadyRows ==
    ASSUME IInv, Order, \A b \in Batches : SteadyRow(b), SteadyJobs
    PROVE  /\ \A b \in Batches : Unfinished(b)' => Unfinished(b)
           /\ IntentFits' /\ IntentAfter'
           /\ SteadyCheckpoints => KeepsCheckpoint'
           /\ (\A b \in Batches :
                 Unfinished(b) => checkpoints'[LastJob(b).checkpoint].batch \in {None, b})
                  => KeepsCheckpoint'
<1>1. \A b \in Batches :
         /\ HasRun(b)' = HasRun(b)
         /\ HasRun(b) => LastJob(b)'.checkpoint = LastJob(b).checkpoint
                         /\ LastJob(b).checkpoint \in DOMAIN checkpoints
  BY SameJob DEF SteadyRow
<1>2. \A b \in Batches : Unfinished(b)' => Unfinished(b)
  BY <1>1 DEF Unfinished, SteadyRow
<1>3. IntentFits'
  BY DEF Order, IntentFits, SteadyRow
<1>4. IntentAfter'
  BY <1>1, <1>2 DEF Order, IntentAfter, SteadyRow, Unfinished
<1>5. SteadyCheckpoints => KeepsCheckpoint'
  BY <1>1, <1>2 DEF Order, KeepsCheckpoint, Own, SteadyCheckpoints, Unfinished
<1>6. (\A b \in Batches :
         Unfinished(b) => checkpoints'[LastJob(b).checkpoint].batch \in {None, b})
          => KeepsCheckpoint'
  BY <1>1, <1>2 DEF KeepsCheckpoint, Own, Unfinished
<1>. QED
  BY <1>2, <1>3, <1>4, <1>5, <1>6

LEMMA OrderGoes ==
    ASSUME IInv, Order, \A b \in Batches : SteadyRow(b), SteadyJobs, SteadyCheckpoints, LaneGoes
    PROVE  Order'
<1>1. /\ \A b \in Batches : Unfinished(b)' => Unfinished(b)
      /\ IntentFits' /\ IntentAfter' /\ KeepsCheckpoint'
  BY SteadyRows
<1>2. OldestFirst'
  BY <1>1 DEF Order, OldestFirst, SteadyRow, LaneGoes, Batch
<1>3. GroupAfter' /\ KeepsNewest'
  BY DEF LaneGoes, GroupAfter, KeepsNewest, At, FreePlaces
<1>. QED
  BY <1>1, <1>2, <1>3 DEF Order

\* The lane stays where it is, as no job is created meanwhile.
LEMMA OrderStays ==
    ASSUME IInv, Order, \A b \in Batches : SteadyRow(b), UNCHANGED <<jobs, lane>>, SteadyCheckpoints
    PROVE  Order'
<1>1. SteadyJobs
  BY DEF SteadyJobs
<1>2. /\ \A b \in Batches : Unfinished(b)' => Unfinished(b)
      /\ IntentFits' /\ IntentAfter' /\ KeepsCheckpoint'
  BY <1>1, SteadyRows
<1>3. OldestFirst'
  BY <1>2 DEF Order, OldestFirst, SteadyRow, Batch
<1>4. GroupAfter'
  BY <1>1, SameJob DEF Order, GroupAfter, SteadyRow, At
<1>5. KeepsNewest'
  <2>. SUFFICES ASSUME lane.at \in {"created", "recorded"} PROVE KeepsNewest'
    BY DEF KeepsNewest
  <2>1. Batch \in Batches /\ NewestJob.checkpoint \in DOMAIN checkpoints
    BY AtJob
  <2>2. Batch' = Batch /\ NewestJob' = NewestJob /\ Row'.intent = Row.intent
    BY <2>1 DEF Batch, NewestJob, Row, SteadyRow
  <2>. QED
    BY <2>1, <2>2 DEF Order, KeepsNewest, Own, SteadyCheckpoints, At
<1>. QED
  BY <1>2, <1>3, <1>4, <1>5 DEF Order

LEMMA RowsStay ==
    ASSUME Order, UNCHANGED rows
    PROVE  \A b \in Batches : SteadyRow(b)
BY DEF SteadyRow, Order, IntentFits

\* The items of a job change, not its checkpoint.
LEMMA ItemsOnly ==
    ASSUME IInv, NEW n \in DOMAIN jobs, NEW f, jobs' = [jobs EXCEPT ![n].items = f]
    PROVE  SteadyJobs
<1>1. jobs \in Seq(JobType)
  BY DEF IInv, Types
<1>2. PICK S \in SUBSET AllItems, old \in JobType : old = jobs[n] /\ old.items \in [S -> ItemStates]
  <2>1. jobs[n] \in JobType
    BY <1>1
  <2>. QED
    BY <2>1, JobItems
<1>3. PICK new : new = [old EXCEPT !.items = f]
  OBVIOUS
<1>4. new.checkpoint = old.checkpoint
  BY <1>3 DEF JobType
<1>5. jobs' = [jobs EXCEPT ![n] = new]
  BY <1>1, <1>2, <1>3
<1>. QED
  BY <1>1, <1>2, <1>4, <1>5 DEF SteadyJobs

\* Steps that save no row.
LEMMA QuietOrder ==
    ASSUME IInv, Order,
           \/ TickStart \/ TickEnd \/ TickOver \/ Resume
           \/ JobUnavailable \/ RunUnavailable \/ GroupUnavailable \/ Halted \/ RefuseMerge
           \/ SessionEnded \/ Halt \/ RunIdle \/ RemoveFile \/ MarkPruned \/ DeleteMerged
    PROVE  Order'
<1>1. UNCHANGED <<rows, jobs>>
  BY DEF TickStart, TickEnd, TickOver, Resume, JobUnavailable, RunUnavailable, GroupUnavailable,
         Halted, RefuseMerge, SessionEnded, Halt, RunIdle, RemoveFile, MarkPruned, DeleteMerged,
         Waiting, Pause
<1>2. (\A b \in Batches : SteadyRow(b)) /\ SteadyJobs
  BY <1>1, RowsStay DEF SteadyJobs
<1>3. SteadyCheckpoints /\ LaneGoes
  <2>1. CASE RemoveFile \/ MarkPruned
    BY <2>1, RetentionSteps DEF LaneGoes
  <2>2. CASE \/ TickStart \/ TickEnd \/ TickOver \/ Resume \/ JobUnavailable \/ RunUnavailable
             \/ GroupUnavailable \/ Halted \/ RefuseMerge
    <3>1. UNCHANGED checkpoints
      BY <2>2 DEF TickStart, TickEnd, TickOver, Resume, JobUnavailable, RunUnavailable,
                  GroupUnavailable, Halted, RefuseMerge
    <3>. QED
      BY <2>2, <3>1, FreeSteps DEF LaneGoes, SteadyCheckpoints
  <2>3. CASE SessionEnded \/ Halt \/ RunIdle
    <3>1. UNCHANGED checkpoints
      BY <2>3 DEF SessionEnded, Halt, RunIdle
    <3>2. lane.at = "dispatch" /\ lane'.at = "ran" /\ lane'.batch = lane.batch
      BY <2>3, StopSteps
    <3>. QED
      BY <3>1, <3>2 DEF LaneGoes, SteadyCheckpoints, FreePlaces
  <2>4. CASE DeleteMerged
    <3>1. UNCHANGED checkpoints /\ lane.at = "merging"
      BY <2>4 DEF DeleteMerged, At
    <3>2. "deleted" \in BatchPlaces /\ {"look", "ending"} \subseteq FreePlaces
      BY DEF BatchPlaces, FreePlaces
    <3>3. CASE Goto("deleted")
      <4>1. lane'.at = "deleted" /\ lane'.batch = lane.batch
        BY <3>2, <3>3, GoLane
      <4>. QED
        BY <3>1, <4>1 DEF LaneGoes, SteadyCheckpoints, FreePlaces
    <3>4. CASE Waiting \/ Pause("merge")
      <4>1. lane'.at \in FreePlaces
        BY <3>2, <3>4, OffLane DEF Waiting, Pause
      <4>. QED
        BY <3>1, <4>1 DEF LaneGoes, SteadyCheckpoints
    <3>. QED
      BY <2>4, <3>3, <3>4 DEF DeleteMerged
  <2>. QED
    BY <2>1, <2>2, <2>3, <2>4
<1>. QED
  BY <1>2, <1>3, OrderGoes

\* The world around the tick.
LEMMA WorldOrder ==
    ASSUME IInv, Order,
           Restart \/ Backup \/ (\E b \in Batches : DeleteNote(b)) \/ (\E b \in Batches : Approve(b))
    PROVE  Order'
<1>1. UNCHANGED <<jobs, lane>>
  BY DEF Restart, Backup, DeleteNote, Approve
<1>2. CASE Restart \/ Backup \/ (\E b \in Batches : DeleteNote(b))
  <2>1. UNCHANGED rows
    BY <1>2 DEF Restart, Backup, DeleteNote
  <2>. QED
    BY <1>1, <1>2, <2>1, RowsStay, WorldSteps, OrderStays
<1>3. ASSUME NEW b \in Batches, Approve(b)
      PROVE  Order'
  <2>1. PICK x \in RowType : x = rows[b] /\ x.phase = "ready"
    BY <1>3 DEF Approve, IInv, Types
  <2>2. PICK r : r = [x EXCEPT !.phase = "approved"]
    OBVIOUS
  <2>3. r.jobs = x.jobs /\ r.intent = x.intent /\ r.phase = "approved"
    BY <2>2 DEF RowType
  <2>4. rows' = [rows EXCEPT ![b] = r] /\ rows \in [Batches -> RowType]
    BY <1>3, <2>1, <2>2 DEF Approve, IInv, Types
  <2>5. \A c \in Batches : SteadyRow(c)
    BY <2>1, <2>3, <2>4 DEF SteadyRow, Order, IntentFits
  <2>6. SteadyCheckpoints
    BY <1>3 DEF Approve, SteadyCheckpoints
  <2>. QED
    BY <1>1, <2>5, <2>6, OrderStays
<1>. QED
  BY <1>2, <1>3

\* Steps of a running job.
LEMMA RunOrder ==
    ASSUME IInv, Order, RunJob \/ Dispatch \/ Kill
    PROVE  Order'
<1>1. UNCHANGED <<rows, checkpoints>>
  BY DEF RunJob, Dispatch, Kill
<1>2. lane \in LaneType
  BY DEF IInv, Types
<1>3. ASSUME HasJob \/ lane.at = "dispatch"
      PROVE  JobId \in DOMAIN jobs
  BY <1>3, AtRun, LastJobs, JobIs DEF Runs
<1>4. ASSUME lane.at = "dispatch", NEW i, NEW st, SetItem(i, st)
      PROVE  SteadyJobs
  <2>1. JobId \in DOMAIN jobs
    BY <1>3, <1>4
  <2>2. PICK f : jobs' = [jobs EXCEPT ![JobId].items = f]
    BY <1>4 DEF SetItem
  <2>. QED
    BY <2>1, <2>2, ItemsOnly
<1>5. SteadyJobs
  <2>1. CASE UNCHANGED jobs
    BY <2>1 DEF SteadyJobs
  <2>2. CASE RunJob
    <3>1. PICK f : jobs' = [jobs EXCEPT ![JobId].items = f]
      BY <2>2 DEF RunJob
    <3>2. JobId \in DOMAIN jobs
      BY <1>3, <2>2 DEF RunJob
    <3>. QED
      BY <3>1, <3>2, ItemsOnly
  <2>3. CASE Dispatch
    BY <1>4, <2>3 DEF Dispatch, Interrupted, At
  <2>4. CASE Kill
    BY <1>4, <2>1, <2>4 DEF Kill, Interrupted, At
  <2>. QED
    BY <2>2, <2>3, <2>4
<1>6. LaneGoes
  <2>1. CASE RunJob
    <3>1. lane.at = "applying" /\ (Goto("dispatch") \/ Stop("recovery"))
      BY <2>1 DEF RunJob, HasJob, At
    <3>2. lane'.at \in {"dispatch", "ran"} /\ lane'.batch = lane.batch
      BY <1>2, <3>1 DEF Goto, Stop, LaneType
    <3>. QED
      BY <3>1, <3>2 DEF LaneGoes, FreePlaces
  <2>2. CASE Dispatch
    <3>1. /\ lane.at = "dispatch"
          /\ UNCHANGED lane \/ (\E why \in {"policy", "halted", "recovery"} : Stop(why))
      BY <2>2 DEF Dispatch, At
    <3>2. lane'.at \in {"dispatch", "ran"} /\ lane'.batch = lane.batch
      BY <1>2, <3>1 DEF Stop, LaneType
    <3>. QED
      BY <3>1, <3>2 DEF LaneGoes, FreePlaces
  <2>3. CASE Kill
    <3>1. lane'.at = "off"
      BY <2>3 DEF Kill, Off
    <3>. QED
      BY <3>1 DEF LaneGoes, FreePlaces
  <2>. QED
    BY <2>1, <2>2, <2>3
<1>7. SteadyCheckpoints
  BY <1>1 DEF SteadyCheckpoints
<1>. QED
  BY <1>1, <1>5, <1>6, <1>7, RowsStay, OrderGoes

\* One row is saved, with its intent and its jobs, while the lane leaves the batch.
LEMMA SaveOrder ==
    ASSUME IInv, Order, NEW b \in Batches, rows[b].phase # "done", NEW r,
           rows' = [rows EXCEPT ![b] = r], r.jobs = rows[b].jobs, r.intent = rows[b].intent,
           r.phase = rows[b].phase \/ r.phase = "applying" \/ rows[b].intent = None,
           SteadyJobs, SteadyCheckpoints, lane'.at \in FreePlaces
    PROVE  Order'
<1>1. rows \in [Batches -> RowType]
  BY DEF IInv, Types
<1>2. \A c \in Batches : SteadyRow(c)
  BY <1>1 DEF SteadyRow, Order, IntentFits
<1>. QED
  BY <1>2, OrderGoes DEF LaneGoes

\* A command failed, after it took a checkpoint or before.
LEMMA FailedOrder ==
    ASSUME IInv, Order, NEW b \in Batches, b = Batch, rows[b].phase # "done", Failed,
           UNCHANGED jobs, SteadyCheckpoints
    PROVE  Order'
<1>1. PICK r \in RowType : rows' = [rows EXCEPT ![b] = r] /\ Alike(r, rows[b])
  BY FailedRow
<1>2. lane'.at \in FreePlaces
  BY FailedRow
<1>3. SteadyJobs
  BY DEF SteadyJobs
<1>. QED
  BY <1>1, <1>2, <1>3, SaveOrder DEF Alike

LEMMA LookAgain ==
    ASSUME NEW row, Saved(row)
    PROVE  lane'.at \in FreePlaces
BY OffLane DEF Saved, FreePlaces

\* Steps that save a row with the jobs it has, and have no checkpoint to record.
LEMMA SavedOrder ==
    ASSUME IInv, Order,
           ReadFacts \/ GroupsOnly \/ AppliesOver \/ Verify \/ SaveMerged \/ MergeOver \/ Continue
    PROVE  Order'
<1>1. /\ UNCHANGED <<jobs, checkpoints>>
      /\ lane.at \in WritePhases \cup {"deleted", "ran"}
  BY DEF ReadFacts, GroupsOnly, AppliesOver, Verify, SaveMerged, MergeOver, Continue, JobsOver,
         At, WritePhases
<1>2. SteadyJobs /\ SteadyCheckpoints
  BY <1>1 DEF SteadyJobs, SteadyCheckpoints
<1>3. PICK b \in Batches : b = Batch /\ Row = rows[b] /\ rows[b].phase \in WritePhases
  <2>1. CASE lane.at = "ran"
    BY <2>1, AtRun, JobIs DEF Runs, WritePhases
  <2>. QED
    BY <1>1, <2>1, AtBatch
<1>4. PICK x \in RowType : x = rows[b]
  BY DEF IInv, Types
<1>5. rows[b].phase # "done"
  BY <1>3 DEF WritePhases
<1>6. ASSUME NEW code, Pause(code)
      PROVE  Order'
  <2>1. UNCHANGED rows /\ lane'.at \in FreePlaces
    BY <1>6, OffLane DEF Pause, FreePlaces
  <2>. QED
    BY <1>2, <2>1, RowsStay, OrderGoes DEF LaneGoes
<1>7. ASSUME NEW r, rows' = [rows EXCEPT ![b] = r], r.jobs = x.jobs, r.intent = x.intent,
             r.phase = x.phase \/ r.phase = "applying" \/ x.intent = None,
             lane'.at \in FreePlaces
      PROVE  Order'
  BY <1>2, <1>4, <1>5, <1>7, SaveOrder
<1>8. CASE ReadFacts
  <2>1. PICK facts, deferred :
          Saved([x EXCEPT !.facts = facts, !.deferred = deferred])
    BY <1>3, <1>4, <1>8 DEF ReadFacts
  <2>2. PICK r : r = [x EXCEPT !.facts = facts, !.deferred = deferred, !.failures = 0]
    OBVIOUS
  <2>3. r.jobs = x.jobs /\ r.intent = x.intent /\ r.phase = x.phase
    BY <2>2 DEF RowType
  <2>4. rows' = [rows EXCEPT ![b] = r]
    BY <1>3, <2>1, <2>2 DEF Saved
  <2>. QED
    BY <1>7, <2>1, <2>3, <2>4, LookAgain
<1>9. ASSUME NEW phase, Saved([x EXCEPT !.phase = phase]), phase = "applying" \/ x.intent = None
      PROVE  Order'
  <2>1. PICK r : r = [x EXCEPT !.phase = phase, !.failures = 0]
    OBVIOUS
  <2>2. r.jobs = x.jobs /\ r.intent = x.intent /\ r.phase = phase
    BY <2>1 DEF RowType
  <2>3. rows' = [rows EXCEPT ![b] = r]
    BY <1>3, <1>9, <2>1 DEF Saved
  <2>. QED
    BY <1>7, <1>9, <2>2, <2>3, LookAgain
<1>10. CASE GroupsOnly
  BY <1>3, <1>4, <1>9, <1>10 DEF GroupsOnly
<1>11. CASE AppliesOver
  BY <1>3, <1>4, <1>9, <1>11 DEF AppliesOver, JobsOver
<1>12. x.phase \in {"verifying", "merging"} => x.intent = None
  BY <1>3, <1>4 DEF Order, IntentFits
<1>13. CASE Verify
  <2>1. x.intent = None
    BY <1>1, <1>3, <1>4, <1>12, <1>13, AtBatch DEF Verify, At, WritePhases
  <2>. QED
    BY <1>3, <1>4, <1>6, <1>9, <1>13, <2>1 DEF Verify, Done
<1>14. CASE MergeOver
  <2>1. x.intent = None
    BY <1>1, <1>3, <1>4, <1>12, <1>14, AtBatch DEF MergeOver, At, WritePhases
  <2>. QED
    BY <1>3, <1>4, <1>9, <1>14, <2>1 DEF MergeOver, Done
<1>15. CASE SaveMerged
  <2>1. CASE Pause("merge")
    BY <1>6, <2>1
  <2>2. CASE Saved([x EXCEPT !.merged = TRUE])
    <3>1. PICK r : r = [x EXCEPT !.merged = TRUE, !.failures = 0]
      OBVIOUS
    <3>2. r.jobs = x.jobs /\ r.intent = x.intent /\ r.phase = x.phase
      BY <3>1 DEF RowType
    <3>3. rows' = [rows EXCEPT ![b] = r]
      BY <1>3, <2>2, <3>1 DEF Saved
    <3>. QED
      BY <1>7, <2>2, <3>2, <3>3, LookAgain
  <2>. QED
    BY <1>3, <1>4, <1>15, <2>1, <2>2 DEF SaveMerged
<1>16. CASE Continue
  <2>1. PICK listed \in BOOLEAN :
          \/ Saved(Read(listed))
          \/ Saved([Read(listed) EXCEPT !.finished = @ \cup {JobId}, !.pending = {}])
    BY <1>16 DEF Continue
  <2>2. ASSUME NEW full \in BOOLEAN
        PROVE  \E started, committed, deferred :
                 Read(full) = [x EXCEPT !.started = started, !.committed = committed,
                                        !.deferred = deferred]
    <3>1. PICK started : Started = [x EXCEPT !.started = started]
      BY <1>3, <1>4 DEF Started
    <3>2. PICK y : y = [x EXCEPT !.started = started]
      OBVIOUS
    <3>3. CASE full
      <4>1. PICK committed, deferred : Read(full) = [y EXCEPT !.committed = committed, !.deferred = deferred]
        BY <3>1, <3>2, <3>3 DEF Read
      <4>. QED
        BY <3>2, <4>1
    <3>4. CASE ~ full
      <4>1. PICK committed, deferred : committed = x.committed /\ deferred = x.deferred
        OBVIOUS
      <4>2. y = [x EXCEPT !.started = started, !.committed = committed, !.deferred = deferred]
        BY <3>2, <4>1 DEF RowType
      <4>. QED
        BY <3>1, <3>2, <3>4, <4>2 DEF Read
    <3>. QED
      BY <3>3, <3>4
  <2>3. PICK started, committed, deferred :
          Read(listed) = [x EXCEPT !.started = started, !.committed = committed,
                                   !.deferred = deferred]
    BY <2>2
  <2>4. PICK y : y = [x EXCEPT !.started = started, !.committed = committed, !.deferred = deferred]
    OBVIOUS
  <2>5. CASE Saved(Read(listed))
    <3>1. PICK r : r = [y EXCEPT !.failures = 0]
      OBVIOUS
    <3>2. r.jobs = x.jobs /\ r.intent = x.intent /\ r.phase = x.phase
      BY <2>4, <3>1 DEF RowType
    <3>3. rows' = [rows EXCEPT ![b] = r]
      BY <1>3, <2>3, <2>4, <2>5, <3>1 DEF Saved
    <3>. QED
      BY <1>7, <2>5, <3>2, <3>3, LookAgain
  <2>6. CASE Saved([Read(listed) EXCEPT !.finished = @ \cup {JobId}, !.pending = {}])
    <3>1. PICK over : Saved([y EXCEPT !.finished = over, !.pending = {}])
      BY <2>3, <2>4, <2>6
    <3>2. PICK r : r = [y EXCEPT !.finished = over, !.pending = {}, !.failures = 0]
      OBVIOUS
    <3>3. r.jobs = x.jobs /\ r.intent = x.intent /\ r.phase = x.phase
      BY <2>4, <3>2 DEF RowType
    <3>4. rows' = [rows EXCEPT ![b] = r]
      BY <1>3, <3>1, <3>2 DEF Saved
    <3>. QED
      BY <1>7, <3>1, <3>3, <3>4, LookAgain
  <2>. QED
    BY <2>1, <2>5, <2>6
<1>. QED
  BY <1>8, <1>10, <1>11, <1>13, <1>14, <1>15, <1>16

\* An intent is younger than every checkpoint there is.
LEMMA NewIntent ==
    ASSUME IInv, Order, NEW b \in Batches, rows[b].phase # "done",
           NEW r, rows' = [rows EXCEPT ![b] = r], r.jobs = rows[b].jobs, r.intent = Now, r.phase \in {"approved", "applying"},
           UNCHANGED <<jobs, checkpoints>>, lane'.at \in FreePlaces
    PROVE  Order'
<1>1. rows \in [Batches -> RowType] /\ checkpoints \in Seq(CheckpointType)
  BY DEF IInv, Types
<1>2. rows'[b] = r /\ \A c \in Batches \ {b} : rows'[c] = rows[c]
  BY <1>1
<1>3. SteadyJobs
  BY DEF SteadyJobs
<1>4. \A c \in Batches :
         /\ HasRun(c)' = HasRun(c)
         /\ HasRun(c) => LastJob(c)'.checkpoint = LastJob(c).checkpoint
                         /\ LastJob(c).checkpoint \in DOMAIN checkpoints
  BY <1>2, <1>3, SameJob
<1>5. \A c \in Batches : HasRun(c) => LastJob(c).checkpoint < Now
  <2>1. \A k \in DOMAIN checkpoints : k < Now
    BY <1>1 DEF Now
  <2>. QED
    BY <1>4, <2>1
<1>6. IntentFits'
  BY <1>2 DEF Order, IntentFits
<1>7. IntentAfter'
  <2>. SUFFICES ASSUME NEW d \in Batches, NEW c \in Batches, c < d, Unfinished(d)',
                       rows'[c].intent # None
                PROVE  LastJob(d)'.checkpoint < rows'[c].intent
    BY DEF IntentAfter
  <2>1. HasRun(d) /\ LastJob(d)'.checkpoint = LastJob(d).checkpoint
    BY <1>4 DEF Unfinished
  <2>2. CASE c = b
    BY <1>2, <1>5, <2>1, <2>2
  <2>3. CASE c # b
    <3>1. rows'[c].intent = rows[c].intent
      BY <1>2, <2>3
    <3>2. Unfinished(d)
      BY <1>2, <2>1 DEF Unfinished
    <3>. QED
      BY <2>1, <3>1, <3>2 DEF Order, IntentAfter
  <2>. QED
    BY <2>2, <2>3
<1>8. KeepsCheckpoint'
  BY <1>2, <1>4 DEF Order, KeepsCheckpoint, Own, Unfinished
<1>9. OldestFirst' /\ GroupAfter' /\ KeepsNewest'
  BY DEF OldestFirst, GroupAfter, KeepsNewest, At, FreePlaces
<1>. QED
  BY <1>6, <1>7, <1>8, <1>9 DEF Order

LEMMA IntentOrder ==
    ASSUME IInv, Order, RecordIntent \/ FollowUp
    PROVE  Order'
<1>1. UNCHANGED <<jobs, checkpoints>>
  BY DEF RecordIntent, FollowUp
<1>2. CASE RecordIntent
  <2>1. lane.at = "approved" /\ lane.at \in WritePhases
    BY <1>2 DEF RecordIntent, At, WritePhases
  <2>2. PICK b \in Batches : b = Batch /\ Row = rows[b] /\ rows[b].phase = "approved"
    BY <2>1, AtBatch
  <2>3. PICK x \in RowType : x = rows[b]
    BY DEF IInv, Types
  <2>4. PICK now : now = Now /\ Saved([x EXCEPT !.intent = now])
    BY <1>2, <2>2, <2>3 DEF RecordIntent
  <2>5. PICK r : r = [x EXCEPT !.intent = now, !.failures = 0]
    OBVIOUS
  <2>6. r.jobs = x.jobs /\ r.intent = now /\ r.phase = x.phase
    BY <2>5 DEF RowType
  <2>7. rows' = [rows EXCEPT ![b] = r]
    BY <2>2, <2>4, <2>5 DEF Saved
  <2>8. lane'.at \in FreePlaces
    BY <2>4, LookAgain
  <2>. QED
    BY <1>1, <2>2, <2>3, <2>4, <2>6, <2>7, <2>8, NewIntent
<1>3. CASE FollowUp
  <2>1. lane.at = "ran"
    BY <1>3 DEF FollowUp, At
  <2>2. PICK b \in Batches : b = Batch /\ Row = rows[b] /\ rows[b].phase = "applying"
    BY <2>1, AtRun, JobIs DEF Runs
  <2>3. PICK x \in RowType : x = rows[b]
    BY DEF IInv, Types
  <2>4. PICK now : now = Now /\ Saved([Read(TRUE) EXCEPT !.pending = Pending(TRUE), !.intent = now])
    BY <1>3 DEF FollowUp
  <2>5. PICK started : Started = [x EXCEPT !.started = started]
    BY <2>2, <2>3 DEF Started
  <2>6. PICK y : y = [x EXCEPT !.started = started]
    OBVIOUS
  <2>7. PICK committed, deferred :
          Read(TRUE) = [y EXCEPT !.committed = committed, !.deferred = deferred]
    BY <2>5, <2>6 DEF Read
  <2>8. PICK z : z = [y EXCEPT !.committed = committed, !.deferred = deferred]
    OBVIOUS
  <2>9. PICK pending : Saved([z EXCEPT !.pending = pending, !.intent = now])
    BY <2>4, <2>7, <2>8
  <2>10. PICK r : r = [z EXCEPT !.pending = pending, !.intent = now, !.failures = 0]
    OBVIOUS
  <2>11. r.jobs = x.jobs /\ r.intent = now /\ r.phase = x.phase
    BY <2>6, <2>8, <2>10 DEF RowType
  <2>12. rows' = [rows EXCEPT ![b] = r]
    BY <2>2, <2>9, <2>10 DEF Saved
  <2>13. lane'.at \in FreePlaces
    BY <2>9, LookAgain
  <2>. QED
    BY <1>1, <2>2, <2>3, <2>4, <2>11, <2>12, <2>13, NewIntent
<1>. QED
  BY <1>2, <1>3

\* The oldest batch in a writing phase: the older ones are done, or never ran.
LEMMA LookOrder ==
    ASSUME IInv, Order, Look
    PROVE  Order'
<1>1. UNCHANGED <<rows, jobs, checkpoints>>
  BY DEF Look
<1>2. (\A b \in Batches : SteadyRow(b)) /\ SteadyJobs /\ SteadyCheckpoints
  BY <1>1, RowsStay DEF SteadyJobs, SteadyCheckpoints
<1>3. /\ \A b \in Batches : Unfinished(b)' => Unfinished(b)
      /\ IntentFits' /\ IntentAfter' /\ KeepsCheckpoint'
  BY <1>2, SteadyRows
<1>4. PICK S : S = {b \in Batches : rows[b].phase \in WritePhases}
  OBVIOUS
<1>5. S # {} /\ lane' = [Off EXCEPT !.at = rows[Min(S)].phase, !.batch = Min(S)]
  BY <1>4 DEF Look
<1>6. PICK m \in S : m = Min(S) /\ \A y \in S : m =< y
  <2>1. S \in SUBSET Nat
    BY <1>4
  <2>2. Min(S) \in S /\ \A y \in S : Min(S) =< y
    BY <1>5, <2>1, MinIn
  <2>. QED
    BY <2>2
<1>7. PICK o \in LaneType : o = Off
  BY DEF Off, LaneType, FreePlaces, Stops
<1>8. lane' = [o EXCEPT !.at = rows[m].phase, !.batch = m]
  BY <1>5, <1>6, <1>7
<1>9. lane'.at \in WritePhases /\ lane'.batch = m
  BY <1>4, <1>6, <1>8 DEF LaneType
<1>10. ASSUME NEW b \in Batches, b < m
       PROVE  rows[b].intent = None /\ ~ Unfinished(b)
  <2>1. b \notin S
    BY <1>4, <1>6, <1>10
  <2>2. rows[b].phase \in {"ready", "done"}
    BY <1>4, <2>1 DEF IInv, Types, RowType, Phases
  <2>3. rows[b].phase = "ready" => ~ HasRun(b)
    BY DEF IInv, BatchFits, JobFits
  <2>. QED
    BY <2>2, <2>3 DEF Order, IntentFits, Unfinished
<1>11. OldestFirst'
  BY <1>1, <1>3, <1>9, <1>10 DEF OldestFirst, Batch
<1>12. GroupAfter' /\ KeepsNewest'
  BY <1>9 DEF GroupAfter, KeepsNewest, At, WritePhases
<1>. QED
  BY <1>3, <1>11, <1>12 DEF Order

\* A new checkpoint, and a new job that is nobody's yet.
LEMMA CreateOrder ==
    ASSUME IInv, Order, CreateJob
    PROVE  Order'
<1>1. /\ WantsJob /\ Row.intent # None /\ lane.at \in WritePhases
      /\ checkpoints' = Append(checkpoints, Checkpoint(Batch))
  BY DEF CreateJob, WantsJob, At, WritePhases
<1>2. PICK b \in Batches : b = Batch /\ Row = rows[b] /\ rows[b].phase # "done"
  BY <1>1, AtBatch DEF WritePhases
<1>3. SteadyCheckpoints /\ checkpoints'[Now].batch = None
  BY <1>1, <1>2, TakenKeeps
<1>4. CASE UNCHANGED jobs /\ Failed
  BY <1>2, <1>3, <1>4, FailedOrder
<1>5. CASE jobs' = Append(jobs, NewJob) /\ Goto("created") /\ UNCHANGED rows
  <2>1. PICK new : new = NewJob /\ new.checkpoint = Now
    <3>1. PICK items, now : items = [i \in Wanted |-> "pending"] /\ now = Now
      OBVIOUS
    <3>2. NewJob = [items |-> items, checkpoint |-> now]
      BY <3>1 DEF NewJob, Now
    <3>3. NewJob.checkpoint = now
      BY <3>2
    <3>. QED
      BY <3>1, <3>3
  <2>2. jobs \in Seq(JobType)
    BY DEF IInv, Types
  <2>3. /\ \A j \in DOMAIN jobs : j \in DOMAIN jobs' /\ jobs'[j] = jobs[j]
        /\ jobs'[Len(jobs')] = new
    BY <1>5, <2>1, <2>2
  <2>4. (\A c \in Batches : SteadyRow(c)) /\ SteadyJobs
    BY <1>5, <2>3, RowsStay DEF SteadyJobs
  <2>5. /\ \A c \in Batches : Unfinished(c)' => Unfinished(c)
        /\ IntentFits' /\ IntentAfter' /\ KeepsCheckpoint'
    BY <1>3, <2>4, SteadyRows
  <2>6. "created" \in BatchPlaces /\ lane.at \notin FreePlaces
    BY <1>1 DEF BatchPlaces, FreePlaces, WritePhases
  <2>7. lane'.at = "created" /\ lane'.batch = lane.batch
    BY <1>5, <2>6, GoLane
  <2>8. OldestFirst'
    BY <1>5, <2>5, <2>6, <2>7 DEF Order, OldestFirst, Batch
  <2>9. Row' = Row /\ NewestJob'.checkpoint = Now
    BY <1>5, <2>1, <2>3, <2>7 DEF Row, NewestJob
  <2>10. GroupAfter' /\ KeepsNewest'
    BY <1>1, <1>3, <2>7, <2>9 DEF GroupAfter, KeepsNewest, Own, At
  <2>. QED
    BY <2>5, <2>8, <2>10 DEF Order
<1>. QED
  BY <1>4, <1>5 DEF CreateJob

\* The older batches have no job that may run, and the jobs of the younger ones
\* have their checkpoints from before the intent: none of them is recorded here.
LEMMA RecordOrder ==
    ASSUME IInv, Order, RecordCheckpoints
    PROVE  Order'
<1>1. lane.at = "created" /\ Goto("recorded") /\ UNCHANGED <<rows, jobs>>
  BY DEF RecordCheckpoints, At
<1>2. PICK b \in Batches : b = Batch /\ Row = rows[b] /\ rows[b].phase # "done"
  BY <1>1, AtJob
<1>3. PICK since \in Nat : since = rows[b].intent /\ since # None
  <2>1. rows[b].intent # None
    BY <1>1, <1>2 DEF Order, KeepsNewest
  <2>. QED
    BY <2>1 DEF IInv, Types, RowType
<1>4. checkpoints' = Attributed(b, since) \/ UNCHANGED checkpoints
  BY <1>2, <1>3 DEF RecordCheckpoints
<1>5. \A k \in DOMAIN checkpoints :
         \/ checkpoints'[k].batch = checkpoints[k].batch
         \/ k >= since /\ checkpoints[k].batch = None /\ checkpoints'[k].batch = b
  BY <1>2, <1>4, AttributedKeeps
<1>6. (\A c \in Batches : SteadyRow(c)) /\ SteadyJobs
  BY <1>1, RowsStay DEF SteadyJobs
<1>7. ASSUME NEW c \in Batches, Unfinished(c)
      PROVE  checkpoints'[LastJob(c).checkpoint].batch \in {None, c}
  <2>1. PICK k \in DOMAIN checkpoints : k = LastJob(c).checkpoint /\ k \in Nat
    BY <1>7, LastJobs DEF Unfinished, IInv, Types
  <2>2. checkpoints[k].batch \in {None, c}
    BY <1>7, <2>1 DEF Order, KeepsCheckpoint, Own
  <2>3. CASE c = b
    BY <1>5, <2>1, <2>2, <2>3
  <2>4. CASE c # b
    <3>1. lane.at \notin FreePlaces
      BY <1>1 DEF FreePlaces
    <3>2. ~ c < b
      BY <1>2, <1>7, <3>1 DEF Order, OldestFirst
    <3>3. b < c
      BY <2>4, <3>2
    <3>4. k < since
      BY <1>3, <1>7, <2>1, <3>3 DEF Order, IntentAfter
    <3>5. ~ k >= since
      BY <2>1, <3>4
    <3>. QED
      BY <1>5, <2>1, <2>2, <3>5
  <2>. QED
    BY <2>3, <2>4
<1>8. /\ \A c \in Batches : Unfinished(c)' => Unfinished(c)
      /\ IntentFits' /\ IntentAfter' /\ KeepsCheckpoint'
  BY <1>6, <1>7, SteadyRows
<1>9. "recorded" \in BatchPlaces /\ lane.at \notin FreePlaces
  BY <1>1 DEF BatchPlaces, FreePlaces
<1>10. lane'.at = "recorded" /\ lane'.batch = lane.batch
  BY <1>1, <1>9, GoLane
<1>11. OldestFirst'
  BY <1>1, <1>8, <1>9, <1>10 DEF Order, OldestFirst, Batch
<1>12. KeepsNewest'
  <2>1. PICK k \in DOMAIN checkpoints : k = NewestJob.checkpoint /\ checkpoints[k].batch = None
    BY <1>1, AtJob DEF Order, KeepsNewest, Own, At
  <2>2. checkpoints'[k].batch \in {None, b}
    BY <1>5, <2>1
  <2>3. Row' = Row /\ Batch' = b /\ NewestJob' = NewestJob
    BY <1>1, <1>2, <1>10 DEF Row, Batch, NewestJob
  <2>. QED
    BY <1>2, <1>3, <1>10, <2>1, <2>2, <2>3 DEF KeepsNewest, Own, At
<1>13. GroupAfter'
  BY <1>10 DEF GroupAfter, At
<1>. QED
  BY <1>8, <1>11, <1>12, <1>13 DEF Order

\* The new job becomes the batch's last; no older batch has an intent.
LEMMA SaveJobOrder ==
    ASSUME IInv, Order, SaveJob
    PROVE  Order'
<1>1. lane.at = "recorded" /\ UNCHANGED <<jobs, checkpoints>>
  BY DEF SaveJob, At
<1>2. PICK b \in Batches : b = Batch /\ Row = rows[b]
  BY <1>1, AtJob
<1>3. PICK x \in RowType : x = rows[b]
  BY DEF IInv, Types
<1>4. PICK n \in Nat : n = Len(jobs) /\ jobs[n] = NewestJob
  BY <1>1, AtJob DEF NewestJob
<1>5. PICK js : js = Append(x.jobs, n) /\ Last(js) = n
  <2>1. x.jobs \in Seq(Nat)
    BY DEF RowType
  <2>2. Last(Append(x.jobs, n)) = n
    BY <2>1, LastOfAppend
  <2>. QED
    BY <2>2
<1>6. Saved([x EXCEPT !.jobs = js, !.intent = None, !.phase = "applying"])
  BY <1>2, <1>3, <1>4, <1>5 DEF SaveJob
<1>7. PICK r : r = [x EXCEPT !.jobs = js, !.intent = None, !.phase = "applying", !.failures = 0]
  OBVIOUS
<1>8. r.jobs = js /\ r.intent = None /\ r.phase = "applying"
  BY <1>7 DEF RowType
<1>9. /\ rows'[b] = r /\ \A c \in Batches \ {b} : rows'[c] = rows[c]
  BY <1>2, <1>6, <1>7 DEF Saved, IInv, Types
<1>10. lane'.at \in FreePlaces
  BY <1>6, LookAgain
<1>11. LastJob(b)' = NewestJob
  BY <1>1, <1>4, <1>5, <1>8, <1>9 DEF LastJob
<1>12. \A c \in Batches \ {b} : /\ Unfinished(c)' <=> Unfinished(c)
                                /\ LastJob(c)' = LastJob(c)
  BY <1>1, <1>9 DEF Unfinished, HasRun, LastJob
<1>13. IntentFits'
  BY <1>8, <1>9 DEF Order, IntentFits
<1>14. \A c \in Batches : c < b => rows[c].intent = None
  BY <1>1, <1>2 DEF Order, OldestFirst, FreePlaces
<1>15. IntentAfter'
  <2>. SUFFICES ASSUME NEW d \in Batches, NEW c \in Batches, c < d, Unfinished(d)',
                       rows'[c].intent # None
                PROVE  LastJob(d)'.checkpoint < rows'[c].intent
    BY DEF IntentAfter
  <2>1. c # b /\ rows'[c].intent = rows[c].intent
    BY <1>8, <1>9
  <2>2. d # b
    BY <1>14, <2>1
  <2>. QED
    BY <1>12, <2>1, <2>2 DEF Order, IntentAfter
<1>16. KeepsCheckpoint'
  <2>1. Own(NewestJob.checkpoint, b)
    BY <1>1, <1>2 DEF Order, KeepsNewest
  <2>. QED
    BY <1>1, <1>11, <1>12, <2>1 DEF Order, KeepsCheckpoint, Own
<1>17. OldestFirst' /\ GroupAfter' /\ KeepsNewest'
  BY <1>10 DEF OldestFirst, GroupAfter, KeepsNewest, At, FreePlaces
<1>. QED
  BY <1>13, <1>15, <1>16, <1>17 DEF Order

\* The command of a group takes its checkpoint after the ones of all jobs.
LEMMA GroupOrder ==
    ASSUME IInv, Order, ApplyGroup
    PROVE  Order'
<1>1. /\ lane.at = "applying" /\ lane.at \in WritePhases /\ UNCHANGED jobs
      /\ checkpoints' = Append(checkpoints, Checkpoint(Batch))
  BY DEF ApplyGroup, JobsOver, At, WritePhases
<1>2. PICK b \in Batches : b = Batch /\ rows[b].phase # "done"
  BY <1>1, AtBatch DEF WritePhases
<1>3. SteadyCheckpoints /\ SteadyJobs
  BY <1>1, <1>2, TakenKeeps DEF SteadyJobs
<1>4. CASE Failed
  BY <1>1, <1>2, <1>3, <1>4, FailedOrder
<1>5. CASE /\ UNCHANGED rows
           /\ \E stop \in Stops : lane' = [lane EXCEPT !.at = "grouped", !.stop = stop, !.since = Now]
  <2>1. \A c \in Batches : SteadyRow(c)
    BY <1>5, RowsStay
  <2>2. /\ \A c \in Batches : Unfinished(c)' => Unfinished(c)
        /\ IntentFits' /\ IntentAfter' /\ KeepsCheckpoint'
    BY <1>3, <2>1, SteadyRows
  <2>3. lane'.at = "grouped" /\ lane'.batch = lane.batch /\ lane'.since = Now
    BY <1>5 DEF IInv, Types, LaneType
  <2>4. OldestFirst'
    BY <1>1, <1>5, <2>2, <2>3 DEF Order, OldestFirst, Batch, FreePlaces
  <2>5. GroupAfter'
    <3>1. \A k \in DOMAIN checkpoints : k < Now
      BY DEF IInv, Types, Now
    <3>2. \A c \in Batches :
             /\ HasRun(c)' = HasRun(c)
             /\ HasRun(c) => LastJob(c)'.checkpoint = LastJob(c).checkpoint
                             /\ LastJob(c).checkpoint \in DOMAIN checkpoints
      BY <1>3, <1>5, SameJob
    <3>. QED
      BY <2>3, <3>1, <3>2 DEF GroupAfter
  <2>6. KeepsNewest'
    BY <2>3 DEF KeepsNewest
  <2>. QED
    BY <2>2, <2>4, <2>5, <2>6 DEF Order
<1>6. {"complete", "partial"} \subseteq Stops
  BY DEF Stops
<1>. QED
  BY <1>4, <1>5, <1>6 DEF ApplyGroup

\* Only the checkpoints of the group are recorded, and those of no job.
LEMMA RecordGroupOrder ==
    ASSUME IInv, Order, RecordGroup
    PROVE  Order'
<1>1. lane.at = "grouped" /\ UNCHANGED jobs
  BY DEF RecordGroup, At
<1>2. PICK b \in Batches : b = Batch /\ Row = rows[b] /\ rows[b].phase # "done"
  BY <1>1, AtBatch DEF WritePhases
<1>3. PICK x \in RowType : x = rows[b]
  BY DEF IInv, Types
<1>4. PICK since \in Nat : since = lane.since
  BY DEF IInv, Types, LaneType
<1>5. checkpoints' = Attributed(b, since) \/ UNCHANGED checkpoints
  BY <1>2, <1>4 DEF RecordGroup
<1>6. \A k \in DOMAIN checkpoints :
         \/ checkpoints'[k].batch = checkpoints[k].batch
         \/ k >= since /\ checkpoints[k].batch = None /\ checkpoints'[k].batch = b
  BY <1>2, <1>5, AttributedKeeps
<1>7. ASSUME NEW c \in Batches, Unfinished(c)
      PROVE  checkpoints'[LastJob(c).checkpoint].batch \in {None, c}
  <2>1. PICK k \in DOMAIN checkpoints : k = LastJob(c).checkpoint /\ k \in Nat
    BY <1>7, LastJobs DEF Unfinished, IInv, Types
  <2>2. checkpoints[k].batch \in {None, c}
    BY <1>7, <2>1 DEF Order, KeepsCheckpoint, Own
  <2>3. k < since
    BY <1>1, <1>4, <1>7, <2>1 DEF Order, GroupAfter, Unfinished, At
  <2>4. ~ k >= since
    BY <2>1, <2>3
  <2>. QED
    BY <1>6, <2>1, <2>2, <2>4
<1>8. SteadyJobs
  BY <1>1 DEF SteadyJobs
<1>9. (\A c \in Batches : SteadyRow(c)) /\ lane'.at \in FreePlaces
  <2>1. CASE Pause("split")
    BY <2>1, RowsStay, OffLane DEF Pause, FreePlaces
  <2>2. CASE Saved([x EXCEPT !.grouped = TRUE])
    <3>1. PICK r : r = [x EXCEPT !.grouped = TRUE, !.failures = 0]
      OBVIOUS
    <3>2. r.jobs = x.jobs /\ r.intent = x.intent /\ r.phase = x.phase
      BY <3>1 DEF RowType
    <3>3. /\ rows'[b] = r /\ \A c \in Batches \ {b} : rows'[c] = rows[c]
      BY <1>2, <2>2, <3>1 DEF Saved, IInv, Types
    <3>. QED
      BY <1>3, <2>2, <3>2, <3>3, LookAgain DEF SteadyRow, Order, IntentFits
  <2>. QED
    BY <1>2, <1>3, <2>1, <2>2 DEF RecordGroup
<1>10. IntentFits' /\ IntentAfter' /\ KeepsCheckpoint'
  BY <1>7, <1>8, <1>9, SteadyRows
<1>11. OldestFirst' /\ GroupAfter' /\ KeepsNewest'
  BY <1>9 DEF OldestFirst, GroupAfter, KeepsNewest, At, FreePlaces
<1>. QED
  BY <1>10, <1>11 DEF Order

LEMMA ReconcileOrder ==
    ASSUME IInv, Order, Reconcile
    PROVE  Order'
<1>1. lane.at = "ran" /\ UNCHANGED checkpoints
  BY DEF Reconcile, At
<1>2. PICK b \in Batches : b = Batch /\ Row = rows[b] /\ Runs(b)
  BY <1>1, AtRun, JobIs
<1>3. PICK x \in RowType : x = rows[b]
  BY DEF IInv, Types
<1>4. SteadyCheckpoints /\ rows[b].phase # "done"
  BY <1>1, <1>2 DEF SteadyCheckpoints, Runs
<1>5. CASE UNCHANGED jobs /\ Failed
  BY <1>2, <1>4, <1>5, FailedOrder
<1>6. CASE UNCHANGED jobs /\ (Waiting \/ Pause("unknown_outcome"))
  <2>1. UNCHANGED rows /\ lane'.at \in FreePlaces
    BY <1>6, OffLane DEF Waiting, Pause, FreePlaces
  <2>. QED
    BY <1>4, <1>6, <2>1, RowsStay, OrderGoes DEF SteadyJobs, LaneGoes
<1>7. CASE /\ Saved(Started)
           /\ jobs' = [jobs EXCEPT ![JobId].items =
                         [i \in DOMAIN @ |-> IF @[i] = "started" THEN "settled" ELSE @[i]]]
  <2>1. PICK f : jobs' = [jobs EXCEPT ![JobId].items = f]
    BY <1>7
  <2>2. JobId \in DOMAIN jobs
    BY <1>2, LastJobs, JobIs DEF Runs
  <2>3. SteadyJobs
    BY <2>1, <2>2, ItemsOnly
  <2>4. PICK started : Saved([x EXCEPT !.started = started])
    BY <1>2, <1>3, <1>7 DEF Started
  <2>5. PICK r : r = [x EXCEPT !.started = started, !.failures = 0]
    OBVIOUS
  <2>6. r.jobs = x.jobs /\ r.intent = x.intent /\ r.phase = x.phase
    BY <2>5 DEF RowType
  <2>7. rows' = [rows EXCEPT ![b] = r]
    BY <1>2, <2>4, <2>5 DEF Saved
  <2>8. lane'.at \in FreePlaces
    BY <2>4, LookAgain
  <2>. QED
    BY <1>3, <1>4, <2>3, <2>6, <2>7, <2>8, SaveOrder
<1>. QED
  BY <1>5, <1>6, <1>7 DEF Reconcile

LEMMA OrderInitially == Init => Order
<1>. SUFFICES ASSUME Init PROVE Order
  OBVIOUS
<1>1. \A b \in Batches : rows[b].intent = None /\ ~ HasRun(b)
  BY DEF Init, NewRow, HasRun
<1>2. lane.at = "off"
  BY DEF Init, Off
<1>. QED
  BY <1>1, <1>2 DEF Order, IntentFits, OldestFirst, IntentAfter, GroupAfter, KeepsCheckpoint,
                    KeepsNewest, Unfinished, FreePlaces, At

LEMMA OrderKept ==
    ASSUME IInv, Order, [Next]_vars
    PROVE  Order'
<1>1. CASE UNCHANGED vars
  <2>1. UNCHANGED <<rows, jobs, lane, checkpoints>>
    BY <1>1 DEF vars
  <2>2. SteadyCheckpoints
    BY <2>1 DEF SteadyCheckpoints
  <2>. QED
    BY <2>1, <2>2, RowsStay, OrderStays
<1>2. CASE \/ TickStart \/ TickEnd \/ TickOver \/ Resume
           \/ JobUnavailable \/ RunUnavailable \/ GroupUnavailable \/ Halted \/ RefuseMerge
           \/ SessionEnded \/ Halt \/ RunIdle \/ RemoveFile \/ MarkPruned \/ DeleteMerged
  BY <1>2, QuietOrder
<1>3. CASE Restart \/ Backup \/ (\E b \in Batches : DeleteNote(b)) \/ (\E b \in Batches : Approve(b))
  BY <1>3, WorldOrder
<1>4. CASE RunJob \/ Dispatch \/ Kill
  BY <1>4, RunOrder
<1>5. CASE ReadFacts \/ GroupsOnly \/ AppliesOver \/ Verify \/ SaveMerged \/ MergeOver \/ Continue
  BY <1>5, SavedOrder
<1>6. CASE RecordIntent \/ FollowUp
  BY <1>6, IntentOrder
<1>7. CASE Look
  BY <1>7, LookOrder
<1>8. CASE CreateJob
  BY <1>8, CreateOrder
<1>9. CASE RecordCheckpoints
  BY <1>9, RecordOrder
<1>10. CASE SaveJob
  BY <1>10, SaveJobOrder
<1>11. CASE ApplyGroup
  BY <1>11, GroupOrder
<1>12. CASE RecordGroup
  BY <1>12, RecordGroupOrder
<1>13. CASE Reconcile
  BY <1>13, ReconcileOrder
<1>. QED
  BY <1>1, <1>2, <1>3, <1>4, <1>5, <1>6, <1>7, <1>8, <1>9, <1>10, <1>11, <1>12, <1>13
     DEF Next, Write

\* Retention takes no checkpoint from a batch that still needs it: the one of the last
\* job of a batch in a writing phase has its file, whoever else took or recorded
\* checkpoints meanwhile (retention, record_checkpoints).
THEOREM CheckpointsStay == Spec => []CheckpointKept
<1>1. Init => Order
  BY OrderInitially
<1>2. IInv /\ Order /\ [Next]_vars => Order'
  BY OrderKept
<1>3. IInv /\ Order => CheckpointKept
  <2>. SUFFICES ASSUME IInv, Order, NEW b \in Batches, rows[b].phase \in WritePhases,
                       rows[b].jobs # <<>>
                PROVE  checkpoints[jobs[Last(rows[b].jobs)].checkpoint].file
    BY DEF CheckpointKept
  <2>1. Unfinished(b) /\ FilesFit
    BY DEF IInv, HasRun, Unfinished, WritePhases
  <2>2. /\ checkpoints[LastJob(b).checkpoint].batch \in {None, b}
        /\ LastJob(b).checkpoint \in DOMAIN checkpoints
    BY <2>1, LastJobs DEF Order, KeepsCheckpoint, Own, Unfinished
  <2>3. b \notin ToSet(finished) /\ None \notin ToSet(finished)
    <3>1. ToSet(finished) \subseteq Batches
      BY DEF IInv, Types, ToSet
    <3>. QED
      BY <2>1, <3>1, Apart DEF FilesFit, WritePhases
  <2>. QED
    BY <2>1, <2>2, <2>3 DEF FilesFit, LastJob
<1>. QED
  BY <1>1, <1>2, <1>3, Invariant, PTL DEF Spec

=============================================================================
