---------------------------- MODULE BatchWrites ------------------------------
(***************************************************************************)
(* The writing phases of the batches of a campaign (campaign/engine.rs, the *)
(* write lane): the apply jobs, the split groups, the verification, the     *)
(* deletes of merged notes and the retention of checkpoints.                *)
(*                                                                         *)
(* Every effect is a command run as a child process.  Between the command   *)
(* and the save that records it the tick may be killed, and the batch is    *)
(* taken up from its row by a later tick; Anki restarts, its user deletes   *)
(* notes and takes backups, and batches are approved at any moment.  The    *)
(* jobs are those of ApplyJob, told item by item: what is durable of an     *)
(* attempt, and whether its effect took place.                              *)
(***************************************************************************)
EXTENDS Naturals, Sequences, FiniteSets, FiniteSetsExt, SequencesExt

CONSTANTS
    Batches,        \* the batches, numbered
    Plans,          \* what can be approved: [batch -> [items: the notes a job applies,
                    \* grouped: is there a split group, merging: is there a duplicate
                    \* to delete after the survivor]]
    RetainDone,     \* limits.retain_done_checkpoints
    MaxStepFailures,\* limits.max_step_failures
    MaxCheckpoints, \* bound: checkpoints taken
    MaxFaults       \* bound: ticks killed, restarts of Anki, notes its user deletes and
                    \* backups the user takes, together

Duplicate == "duplicate"    \* the note a merge deletes
Unit == "unit"              \* the source of a split group

\* Batches are numbered from 1; an approved document is an item of a job or belongs
\* to a split group.
ASSUME WritesAssumption ==
    /\ Batches \subseteq Nat \ {0}
    /\ \A plan \in Plans, b \in Batches :
         IsFiniteSet(plan[b].items) /\ {Unit, Duplicate} \cap plan[b].items = {}
    /\ RetainDone \in Nat /\ MaxStepFailures \in Nat \ {0}

VARIABLES
    approval,       \* what is approved of each batch
    status,         \* of the campaign, with the code of its pause
    rows,           \* the batch rows
    jobs,           \* the apply jobs, in the order of their creation
    checkpoints,    \* the checkpoints, in the order of their creation
    groups,         \* the state of the split group of each batch
    notes,          \* the notes in the collection
    effects,        \* how often each item was written to the collection
    session,        \* the session of Anki
    lane,           \* the write lane of the running tick
    finished,       \* history: the done batches, the oldest first
    faults          \* bound: how many of them happened

world == <<approval, notes, effects, session>>
vars == <<approval, status, rows, jobs, checkpoints, groups, notes, effects, session, lane, finished,
          faults>>

WritePhases == {"approved", "applying", "verifying", "merging"}
None == 0

Items(b) == approval[b].items
Grouped == {b \in Batches : approval[b].grouped}
Merging == {b \in Batches : approval[b].merging}
NotesOf(b) == Items(b) \cup (IF b \in Grouped THEN {Unit} ELSE {})
                       \cup (IF b \in Merging THEN {Duplicate} ELSE {})

\* intent: apply_intent_ms, as the number of checkpoints older than it, plus one.
NewRow ==
    [phase |-> "ready", facts |-> FALSE, intent |-> None, jobs |-> <<>>, started |-> {},
     finished |-> {}, pending |-> {}, committed |-> {}, deferred |-> {}, grouped |-> FALSE,
     merged |-> FALSE, failures |-> 0]

Off == [at |-> "off", batch |-> 0, stop |-> "none", since |-> 0]

Init ==
    /\ approval \in Plans
    /\ status = "running"
    /\ rows = [b \in Batches |-> NewRow]
    /\ jobs = <<>> /\ checkpoints = <<>>
    /\ groups = [b \in Batches |-> "none"]
    /\ notes = [b \in Batches |-> NotesOf(b)]
    /\ effects = [b \in Batches |-> [i \in NotesOf(b) |-> 0]]
    /\ session = 1
    /\ lane = Off
    /\ finished = <<>>
    /\ faults = 0

At(place) == lane.at = place
Row == rows[lane.batch]
Batch == lane.batch
Goto(place) == lane' = [lane EXCEPT !.at = place]

\* moved: the row is saved and the lane looks again.
Saved(row) ==
    /\ rows' = [rows EXCEPT ![Batch] = [row EXCEPT !.failures = 0]]
    /\ lane' = [Off EXCEPT !.at = "look"]
    /\ UNCHANGED status

\* Step::Waiting: nothing is saved; the lane looks again later.
Waiting == lane' = [Off EXCEPT !.at = "look"] /\ UNCHANGED <<status, rows>>

\* Step::Pause, and the tick that ends with it.
Pause(code) == status' = code /\ lane' = [Off EXCEPT !.at = "ending"] /\ UNCHANGED rows

\* An error: counted in the row, and a pause when there were too many.
Failed ==
    /\ rows' = [rows EXCEPT ![Batch].failures = Min({@ + 1, MaxStepFailures})]
    /\ IF Row.failures + 1 >= MaxStepFailures
       THEN status' = "step_failed" /\ lane' = [Off EXCEPT !.at = "ending"]
       ELSE UNCHANGED status /\ lane' = [Off EXCEPT !.at = "look"]

\* The last job of the batch.
JobId == Last(Row.jobs)
Job == jobs[JobId]
In(states) == {i \in DOMAIN Job.items : Job.items[i] \in states}

\* In frozen order: an item that was interrupted comes before what is pending.
Eligible == IF In({"interrupted"}) # {} THEN In({"interrupted"}) ELSE In({"pending"})

SetItem(i, state) == jobs' = [jobs EXCEPT ![JobId].items[i] = state]

\* An attempt that has a journal and no recorded outcome: written or not.
Interrupted(i) ==
    /\ SetItem(i, "started")
    /\ \E n \in {0, 1} : /\ n = 1 => i \in notes[Batch]
                         /\ effects' = [effects EXCEPT ![Batch][i] = @ + n]

-----------------------------------------------------------------------------
(* The tick, its commands and the world around it.                         *)

Fault == faults < MaxFaults /\ faults' = faults + 1

TickStart ==
    /\ At("off") /\ status = "running"
    /\ Goto("look")
    /\ UNCHANGED <<status, rows, jobs, checkpoints, groups, world, finished, faults>>

\* write_lane: the oldest batch in a writing phase.
Look ==
    /\ At("look") /\ status = "running"
    /\ LET writing == {b \in Batches : rows[b].phase \in WritePhases} IN
         /\ writing # {}
         /\ lane' = [Off EXCEPT !.at = rows[Min(writing)].phase, !.batch = Min(writing)]
    /\ UNCHANGED <<status, rows, jobs, checkpoints, groups, world, finished, faults>>

\* The tick is out of time, paused or idle.
TickEnd ==
    /\ At("look")
    /\ Goto("ending")
    /\ UNCHANGED <<status, rows, jobs, checkpoints, groups, world, finished, faults>>

\* The processes of the tick are killed; an item a job works on is left started,
\* with or without a journal.
Kill ==
    /\ ~ At("off") /\ Fault
    /\ lane' = Off
    /\ UNCHANGED <<approval, status, rows, checkpoints, groups, notes, session, finished>>
    /\ \/ UNCHANGED <<jobs, effects>>
       \/ /\ At("dispatch")
          /\ checkpoints[Job.checkpoint].session = session
          /\ \E i \in Eligible :
               \/ Interrupted(i)
               \/ /\ SetItem(i, "begun")
                  /\ UNCHANGED effects

\* campaign approve: from the batch list of the user, one after the other.
Approve(b) ==
    /\ status = "running" /\ rows[b].phase = "ready"
    /\ rows' = [rows EXCEPT ![b].phase = "approved"]
    /\ UNCHANGED <<status, jobs, checkpoints, groups, world, lane, finished, faults>>

\* campaign resume.
Resume ==
    /\ status # "running" /\ At("off")
    /\ status' = "running"
    /\ UNCHANGED <<rows, jobs, checkpoints, groups, world, lane, finished, faults>>

Restart ==
    /\ Fault
    /\ session' = session + 1
    /\ UNCHANGED <<approval, status, rows, jobs, checkpoints, groups, notes, effects, lane, finished>>

DeleteNote(b) ==
    /\ Fault
    /\ \E i \in notes[b] : notes' = [notes EXCEPT ![b] = @ \ {i}]
    /\ UNCHANGED <<approval, status, rows, jobs, checkpoints, groups, effects, session, lane, finished>>

\* by: the batch whose command took it, None for a backup of the user.
Checkpoint(by) ==
    [by |-> by, batch |-> None, file |-> TRUE, pruned |-> FALSE, session |-> session]

Backup ==
    /\ Fault /\ Len(checkpoints) < MaxCheckpoints
    /\ checkpoints' = Append(checkpoints, Checkpoint(None))
    /\ UNCHANGED <<status, rows, jobs, groups, world, lane, finished>>

-----------------------------------------------------------------------------
(* The apply jobs.                                                         *)

\* The facts of the approved notes that are still there; with none, the facts are
\* read again by the next step, and the one after it.
ReadFacts ==
    /\ At("approved") /\ ~ Row.facts
    /\ Saved([Row EXCEPT !.facts = (NotesOf(Batch) \ {Duplicate}) \cap notes[Batch] # {},
                         !.deferred = Items(Batch) \ notes[Batch]])
    /\ UNCHANGED <<jobs, checkpoints, groups, world, finished, faults>>

GroupsOnly ==
    /\ At("approved") /\ Row.facts /\ Items(Batch) = {}
    /\ Saved([Row EXCEPT !.phase = "applying"])
    /\ UNCHANGED <<jobs, checkpoints, groups, world, finished, faults>>

Now == Len(checkpoints) + 1

\* (Mutant) The follow-up job takes every item again.
WantedAll == Items(Batch)

\* The items of the job that is wanted: the approved ones, or those a session
\* left pending.
Wanted == IF At("approved") THEN Items(Batch) ELSE Row.pending
WantsJob == \/ At("approved") /\ Row.facts /\ Items(Batch) # {}
            \/ At("applying") /\ Row.intent # None

RecordIntent ==
    /\ At("approved") /\ WantsJob /\ Row.intent = None
    /\ Saved([Row EXCEPT !.intent = Now])
    /\ UNCHANGED <<jobs, checkpoints, groups, world, finished, faults>>

NewJob == [items |-> [i \in Wanted |-> "pending"], checkpoint |-> Len(checkpoints) + 1]

\* jobs create --create-checkpoint: the checkpoint first, then the job.
CreateJob ==
    /\ WantsJob /\ Row.intent # None /\ Len(checkpoints) < MaxCheckpoints
    /\ checkpoints' = Append(checkpoints, Checkpoint(Batch))
    /\ \/ jobs' = Append(jobs, NewJob) /\ Goto("created") /\ UNCHANGED <<status, rows>>
       \/ UNCHANGED jobs /\ Failed
    /\ UNCHANGED <<groups, world, finished, faults>>

JobUnavailable ==
    /\ WantsJob /\ Row.intent # None
    /\ Waiting
    /\ UNCHANGED <<jobs, checkpoints, groups, world, finished, faults>>

\* record_checkpoints: every checkpoint since the intent that has no record yet.  The
\* code compares times, with a tolerance of one second; here a time is the number of
\* checkpoints that are older.  One campaign alone records checkpoints here.
Attributed(b, since) ==
    [k \in DOMAIN checkpoints |->
       IF k >= since /\ checkpoints[k].batch = None
       THEN [checkpoints[k] EXCEPT !.batch = b] ELSE checkpoints[k]]

\* A listing of the backups that fails is taken for an empty one.
RecordCheckpoints ==
    /\ At("created")
    /\ checkpoints' = Attributed(Batch, Row.intent) \/ UNCHANGED checkpoints
    /\ Goto("recorded")
    /\ UNCHANGED <<status, rows, jobs, groups, world, finished, faults>>

SaveJob ==
    /\ At("recorded")
    /\ Saved([Row EXCEPT !.jobs = Append(@, Len(jobs)), !.intent = None, !.phase = "applying"])
    /\ UNCHANGED <<jobs, checkpoints, groups, world, finished, faults>>

\* The last job, as long as it is not finished.
HasJob == At("applying") /\ Row.intent = None /\ Row.jobs # <<>>
            /\ Last(Row.jobs) \notin Row.finished
Stop(why) == lane' = [lane EXCEPT !.at = "ran", !.stop = why]

\* (Mutant) An attempt that was stopped is taken for one that was refused.
OutcomeAssumed(i) == "failed"

Outcome(i) == IF effects[Batch][i] > 0 THEN "committed" ELSE "failed"

\* jobs run, jobs resume: what is started is accounted for first, from its
\* journal.  An attempt without a journal is eligible again.
RunJob ==
    /\ HasJob
    /\ \E known \in SUBSET In({"started", "settled"}) :
         /\ In({"settled"}) \subseteq known
         /\ jobs' = [jobs EXCEPT ![JobId].items =
                       [i \in DOMAIN @ |->
                          IF @[i] = "begun" THEN "interrupted"
                          ELSE IF i \notin known THEN @[i]
                          ELSE Outcome(i)]]
         /\ IF In({"started"}) \subseteq known THEN Goto("dispatch") ELSE Stop("recovery")
    /\ UNCHANGED <<status, rows, checkpoints, groups, world, finished, faults>>

RunUnavailable ==
    /\ HasJob
    /\ Waiting
    /\ UNCHANGED <<jobs, checkpoints, groups, world, finished, faults>>

SessionEnded ==
    /\ At("dispatch") /\ Eligible # {} /\ checkpoints[Job.checkpoint].session # session
    /\ Stop("session")
    /\ UNCHANGED <<status, rows, jobs, checkpoints, groups, world, finished, faults>>

\* One item: written and verified, refused, or of unknown outcome.
Dispatch ==
    /\ At("dispatch") /\ checkpoints[Job.checkpoint].session = session
    /\ \E i \in Eligible :
         \/ /\ i \in notes[Batch]
            /\ SetItem(i, "committed") /\ effects' = [effects EXCEPT ![Batch][i] = @ + 1]
            /\ UNCHANGED lane
         \/ /\ SetItem(i, "failed") /\ UNCHANGED effects
            /\ UNCHANGED lane \/ Stop("policy") \/ Stop("halted")
         \/ Interrupted(i) /\ Stop("recovery")
    /\ UNCHANGED <<approval, status, rows, checkpoints, groups, notes, session, finished, faults>>

\* The companion is away: the job halts, and is resumed later.
Halt ==
    /\ At("dispatch") /\ Eligible # {}
    /\ Stop("capability")
    /\ UNCHANGED <<status, rows, jobs, checkpoints, groups, world, finished, faults>>

RunIdle ==
    /\ At("dispatch") /\ Eligible = {}
    /\ Stop("idle")
    /\ UNCHANGED <<status, rows, jobs, checkpoints, groups, world, finished, faults>>

-----------------------------------------------------------------------------
(* What the batch makes of a run.                                          *)

Started == [Row EXCEPT !.started = @ \cup {JobId}]

\* recover reconcile of every pending journal.
Reconcile ==
    /\ At("ran") /\ In({"started"}) # {}
    /\ \/ /\ Saved(Started)
          /\ jobs' = [jobs EXCEPT ![JobId].items =
                        [i \in DOMAIN @ |-> IF @[i] = "started" THEN "settled" ELSE @[i]]]
       \/ (Waiting \/ Failed \/ Pause("unknown_outcome")) /\ UNCHANGED jobs
    /\ UNCHANGED <<checkpoints, groups, world, finished, faults>>

\* jobs items: what became of the items; a listing that fails is taken for an
\* empty one.
Read(listed) ==
    IF listed THEN [Started EXCEPT !.committed = @ \cup In({"committed"}),
                                   !.deferred = @ \cup In({"failed", "interrupted"})]
    ELSE Started
Pending(listed) == IF listed THEN In({"pending"}) ELSE {}

FollowUp ==
    /\ At("ran") /\ In({"started"}) = {}
    /\ lane.stop = "session" /\ Pending(TRUE) # {}
    /\ Saved([Read(TRUE) EXCEPT !.pending = Pending(TRUE), !.intent = Now])
    /\ UNCHANGED <<jobs, checkpoints, groups, world, finished, faults>>

\* The code has one pause for a job that halted; "unlisted": with items pending
\* that were not listed.
Halted ==
    /\ At("ran") /\ In({"started"}) = {}
    /\ \/ lane.stop = "capability" /\ Waiting
       \/ lane.stop = "halted" /\ Pause("identity")
       \/ lane.stop = "session" /\ Pause(IF Pending(TRUE) = {} THEN "session" ELSE "unlisted")
    /\ UNCHANGED <<jobs, checkpoints, groups, world, finished, faults>>

Continue ==
    /\ At("ran") /\ In({"started"}) = {} /\ lane.stop \in {"idle", "policy"}
    /\ \E listed \in BOOLEAN :
         IF Pending(listed) = {}
         THEN Saved([Read(listed) EXCEPT !.finished = @ \cup {JobId}, !.pending = {}])
         ELSE Saved(Read(listed))
    /\ UNCHANGED <<jobs, checkpoints, groups, world, finished, faults>>

-----------------------------------------------------------------------------
(* The split group, the verification and the merge.                        *)

JobsOver == At("applying") /\ Row.intent = None
              /\ (Row.jobs # <<>> => JobId \in Row.finished)

\* apply --split-group: with a checkpoint of its own, whatever is left of it.
ApplyGroup ==
    /\ JobsOver /\ Batch \in Grouped /\ ~ Row.grouped /\ Len(checkpoints) < MaxCheckpoints
    /\ checkpoints' = Append(checkpoints, Checkpoint(Batch))
    /\ \/ /\ groups[Batch] = "complete" \/ Unit \in notes[Batch]
          /\ groups' = [groups EXCEPT ![Batch] = "complete"]
          /\ effects' = [effects EXCEPT ![Batch][Unit] =
                           IF groups[Batch] = "complete" THEN @ ELSE @ + 1]
          /\ lane' = [lane EXCEPT !.at = "grouped", !.stop = "complete", !.since = Now]
          /\ UNCHANGED <<status, rows>>
       \/ /\ groups[Batch] # "complete"
          /\ groups' = [groups EXCEPT ![Batch] = "partial"]
          /\ lane' = [lane EXCEPT !.at = "grouped", !.stop = "partial", !.since = Now]
          /\ UNCHANGED <<status, rows, effects>>
       \/ Failed /\ UNCHANGED <<groups, effects>>
    /\ UNCHANGED <<approval, jobs, notes, session, finished, faults>>

GroupUnavailable ==
    /\ JobsOver /\ Batch \in Grouped /\ ~ Row.grouped
    /\ Waiting
    /\ UNCHANGED <<jobs, checkpoints, groups, world, finished, faults>>

RecordGroup ==
    /\ At("grouped")
    /\ checkpoints' = Attributed(Batch, lane.since) \/ UNCHANGED checkpoints
    /\ IF lane.stop = "complete" THEN Saved([Row EXCEPT !.grouped = TRUE]) ELSE Pause("split")
    /\ UNCHANGED <<jobs, groups, world, finished, faults>>

AppliesOver ==
    /\ JobsOver /\ (Batch \in Grouped => Row.grouped)
    /\ Saved([Row EXCEPT !.phase = "verifying"])
    /\ UNCHANGED <<jobs, checkpoints, groups, world, finished, faults>>

\* The batch is done.
Done(row) ==
    /\ Saved([row EXCEPT !.phase = "done"])
    /\ finished' = Append(finished, Batch)

\* Every note that was not deferred is there, on its new type.
Verified == \A i \in Items(Batch) \ Row.deferred : i \in notes[Batch] /\ effects[Batch][i] > 0

Verify ==
    /\ At("verifying")
    /\ IF ~ Verified THEN Pause("verify") /\ UNCHANGED finished
       ELSE IF Batch \in Merging THEN Saved([Row EXCEPT !.phase = "merging"]) /\ UNCHANGED finished
       ELSE Done(Row)
    /\ UNCHANGED <<jobs, checkpoints, groups, world, faults>>

SurvivorApplied == Items(Batch) \cap Row.deferred = {}

RefuseMerge ==
    /\ At("merging") /\ ~ SurvivorApplied
    /\ Pause("merge")
    /\ UNCHANGED <<jobs, checkpoints, groups, world, finished, faults>>

\* notes delete-merged: it may end before or after the note is gone.
DeleteMerged ==
    /\ At("merging") /\ SurvivorApplied /\ ~ Row.merged
    /\ \/ /\ notes' = [notes EXCEPT ![Batch] = @ \ {Duplicate}]
          /\ Goto("deleted") /\ UNCHANGED <<status, rows>>
       \/ (Waiting \/ Pause("merge")) /\ UNCHANGED notes
    /\ UNCHANGED <<approval, jobs, checkpoints, groups, effects, session, finished, faults>>

SaveMerged ==
    /\ At("deleted")
    /\ IF Duplicate \in notes[Batch] THEN Pause("merge") ELSE Saved([Row EXCEPT !.merged = TRUE])
    /\ UNCHANGED <<jobs, checkpoints, groups, world, finished, faults>>

MergeOver ==
    /\ At("merging") /\ SurvivorApplied /\ Row.merged
    /\ Done(Row)
    /\ UNCHANGED <<jobs, checkpoints, groups, world, faults>>

-----------------------------------------------------------------------------
(* Retention, at the end of a tick.                                        *)

Newest(n) == SubSeq(finished, IF Len(finished) > n THEN Len(finished) - n + 1 ELSE 1,
                    Len(finished))

\* (Mutant) The checkpoints of unfinished batches are surplus as well.
SurplusAny == {b \in Batches : rows[b].phase \notin {"ready", "approved"}} \ ToSet(Newest(RetainDone))

Surplus == ToSet(finished) \ ToSet(Newest(RetainDone))

Prunable == {k \in DOMAIN checkpoints : checkpoints[k].batch \in Surplus
                                        /\ ~ checkpoints[k].pruned}

\* The file first, then the mark.
RemoveFile ==
    /\ At("ending") /\ Prunable # {}
    /\ checkpoints' = [checkpoints EXCEPT ![Min(Prunable)].file = FALSE]
    /\ Goto("marking")
    /\ UNCHANGED <<status, rows, jobs, groups, world, finished, faults>>

MarkPruned ==
    /\ At("marking")
    /\ checkpoints' = [checkpoints EXCEPT ![Min(Prunable)].pruned = TRUE]
    /\ Goto("ending")
    /\ UNCHANGED <<status, rows, jobs, groups, world, finished, faults>>

TickOver ==
    /\ At("ending") /\ Prunable = {}
    /\ lane' = Off
    /\ UNCHANGED <<status, rows, jobs, checkpoints, groups, world, finished, faults>>

Write ==
    \/ Look \/ ReadFacts \/ GroupsOnly \/ RecordIntent \/ CreateJob \/ RecordCheckpoints
    \/ SaveJob \/ RunJob \/ SessionEnded \/ Dispatch \/ RunIdle \/ Reconcile \/ FollowUp
    \/ Halted \/ Continue \/ ApplyGroup \/ RecordGroup \/ AppliesOver \/ Verify \/ RefuseMerge
    \/ DeleteMerged \/ SaveMerged \/ MergeOver \/ RemoveFile \/ MarkPruned \/ TickOver

Next ==
    \/ TickStart \/ TickEnd \/ Write \/ Kill \/ Resume \/ Restart \/ Backup
    \/ JobUnavailable \/ RunUnavailable \/ Halt \/ GroupUnavailable
    \/ \E b \in Batches : Approve(b) \/ DeleteNote(b)

Spec == Init /\ [][Next]_vars

-----------------------------------------------------------------------------
(* Properties.                                                             *)

TypeOK ==
    /\ \A b \in Batches :
         /\ rows[b].phase \in WritePhases \cup {"ready", "done"}
         /\ rows[b].committed \subseteq Items(b) /\ rows[b].deferred \subseteq Items(b)
         /\ ToSet(rows[b].jobs) \subseteq DOMAIN jobs
         /\ rows[b].finished \subseteq ToSet(rows[b].jobs)
    /\ \A j \in DOMAIN jobs : jobs[j].checkpoint \in DOMAIN checkpoints

\* Over all jobs of a batch, orphans of killed ticks and follow-ups included, no
\* note is written twice (create_apply_job, applying).
WrittenOnce == \A b \in Batches : \A i \in NotesOf(b) : effects[b][i] <= 1

\* A batch is done only when every approved note was either written or deferred,
\* its group is complete, and the duplicate is gone while its survivor was
\* applied (applying, verifying, merging).
DoneIsComplete ==
    \A b \in Batches : rows[b].phase = "done" =>
        /\ \A i \in Items(b) : (effects[b][i] = 1) # (i \in rows[b].deferred)
        /\ b \in Grouped => groups[b] = "complete"
        /\ b \in Merging => Duplicate \notin notes[b] /\ \A i \in Items(b) : effects[b][i] = 1

\* Retention removes no checkpoint a batch still needs: the one of the job that
\* an unfinished batch runs is there, whoever else took or recorded checkpoints
\* meanwhile (retention, record_checkpoints).
CheckpointKept ==
    \A b \in Batches : rows[b].phase \in WritePhases /\ rows[b].jobs # <<>> =>
        checkpoints[jobs[Last(rows[b].jobs)].checkpoint].file

\* "deletes checkpoint files only of checkpoints the campaign created"
OwnCheckpointsOnly == \A k \in DOMAIN checkpoints : checkpoints[k].by = None => checkpoints[k].file

\* "After JOB_CHECKPOINT_SESSION_ENDED the campaign reconciles the stopped items,
\* then creates the follow-up job and its checkpoint itself."
SessionEndContinues == status # "session"

=============================================================================
