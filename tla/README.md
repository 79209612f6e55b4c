# Verification of the Linguist Anki bridge

Linguist is a command-line program (Rust, `crates/`) that drafts Anki notes with
the help of agents, lets a person review them, and writes the approved ones into
a running Anki through a companion add-on (Python, `addons/linguist_bridge/`).
Everything that reaches the collection goes through the same machinery: a lease
in the store, a journal whose versions are compared and swapped, a request over
HTTP with a fencing generation, a ledger in the add-on, one critical section on
Anki's main thread, a read-back, and a recovery command that is told only what
was persisted. This directory holds TLA+ models of that machinery, the TLC
configurations that check them, and TLAPS proofs of what matters most.

## The system

| Component | State | Operations | What makes it correct |
|---|---|---|---|
| Operation journal (`linguist-core/src/records.rs`, `linguist-store/src/journal.rs`) | versions of a journal, its head, steps with states, an append sequence | read, append (compare-and-swap on the head), list what is pending | a step is started at most once and in order; an effect in doubt keeps the operation pending; what ended never changes |
| Store leases (`linguist-store/src/lease.rs`) | one row per resource: identity and generation of the owner, expiry | acquire, takeover after expiry and death, renew, validate, release | two processes never work under one lease; a lost token never comes back |
| Companion, mutations (`addons/linguist_bridge/operations.py`, `native.py`, `session.py`, `startup.py`) | ledger rows, the owner row with its fence generation, `_live`, the jobs of the scheduler, session epoch | begin and end an owner, mutate, status, export; start-up after a crash | an effect happens at most once, only under the current owner and session; every accepted operation gets a verdict; `failed_before_write` means nothing happened |
| Companion, native effects (`effects.py`) | the collection: notes, media, tags, decks | create, update, store media, restore, delete, read-back | an effect is verified from the collection, never assumed |
| Apply and reconcile (`linguist-application/src/apply.rs`, `native_port.rs`) | a journal per attempt, its receipt, the owner's fence | apply, reconcile, supersede, adopt | every effect has a journal that accounts for it; every commit is real |
| Apply jobs (`job_executor.rs`, `linguist-store/src/apply_job.rs`) | an append-only event log folded to items and a status, a worker lease, a tombstone | run, pause, resume, cancel, retry, delete | one item in flight; nothing starts while a stop is wanted; an unknown outcome is accounted for before anything else |
| Snapshots and intents (`linguist-store/src/snapshot.rs`, `apply.rs`) | immutable rows | capture, record an intent | the precondition is of the state that was read |
| Restore and rollback (`restore.rs` of both crates) | restore operations and journals beside the journals they restore, receipts | plan, restore, resume, finalize, roll back a group | an operation is `restored` exactly when its restore committed; it is reversed once; nothing is overwritten that the plan had not seen |
| Split groups (`split.rs`, `vocab_split.rs`) | an execution, attempts per unit with their operations | start, drive, reconcile, roll back | the anchor is transformed only after its children stand; no unit is written twice |
| Preparation jobs (`jobs.rs`, `linguist-store/src/preparation*.rs`) | events per item, controls, acknowledgements, one lease | run, pause, resume, cancel, recover, publish, delete | a worker that lost its lease records nothing; a confirmed stop has stopped; a draft holds each item once |
| Campaigns (`campaign/engine.rs`, `campaign.rs` of store and command line) | batches with a phase and a version, claims, jobs, checkpoints, a status | tick (preparation lanes, write lane, retention), approve, reopen, skip, requeue, item, pause, resume | one lane moves a batch; no note is written twice; a batch is done only when all of it is; no checkpoint in use is removed |
| Checkpoints (`backup.rs`, `checkpoint.rs`), drafting agents (`agents.rs`) | archives with digest and binding; cooldowns and call logs | create, reuse, verify; draft | nothing is dispatched without a verified checkpoint of this session; the budget of calls holds |
| Assets and garbage (`linguist-store/src/lib.rs`, `gc.rs`) | content-addressed files, references, trash | publish, census, prune | no referenced file is removed |
| Merging duplicates (`merge.rs`, `merge_cmd.rs`), model installation (`model_install.rs`) | one record per deleted note with its evidence and its operations; note types | merge, delete, restore; install, verify | asked twice, done once; a note is recorded as deleted or restored only when it was |
| Plans, approvals, review (`linguist-core/src/review.rs`, `validation.rs`, `editing.rs`, `review/batch.rs`, `approval.rs`) | revisions of documents with issues, decisions bound to digests, approvals | resolve, resolve-batch, edit, generate, approve | a decision holds for the content its reviewer saw; a batch of decisions settles; only what was reviewed is approved |
| Provider reader (`linguist-provider`) | permits, pace, cache | fetch | concurrency and pace are bounded; no stale row is served |
| Generation, dictionaries, configuration, rendering, command line | text and files | parse, print | pure or I/O only |

How they interact. A command takes a **lease** of the store, and the writes of
its work are validated against the lease's token. From an approved plan it
records an intent and creates a **journal**, and appends `started` for a step
before it sends the step's request. With `labBegin` it becomes the companion's
owner and is given a **fence** generation, which its requests (`labMutate`, with
the operation's id) carry. The **companion** accepts an id once, records it
`queued` in its ledger, and runs it on Anki's main thread: owner and session
checked again, `running`, effect, read-back, `verified`. The answer may be lost;
the step is then unknown. **Reconcile**, in a later process, asks the ledger and
the collection and closes what it can. An **apply job** does this for the items
of a plan, one at a time, and keeps an event log from which the next worker goes
on when this one dies. A **split group** and a **restore** are chains of such
operations with records of their own in between. A **campaign** sits above all of
this: its tick runs the other commands as child processes and keeps in a row per
batch what it learned from them, so that it may be killed between any child and
its record. The plan a campaign approves is made by **review**: decisions bound to
the digest of the content they were made on. What a plan is made of is captured by
**preparation** jobs into content-addressed **assets**, which a prune may collect.

What is hard here, by kind, is listed at its line under `hazards` in
`PROJECT.json`: lost and late answers, the abandoned callback, takeovers of a
lease by another process of the same or another boot, stale heads, crashes
between two durable writes, a request still on the wire when its sender is
dead, recovery that races a new attempt, and edits by the user at any moment.

## Modules

| Module | Models | Corresponds to |
|---|---|---|
| `JournalRules` | the transition rules | `validate` and `transition` of `journal.rs`: which journals are well formed (`Valid`), which states and steps may follow (`StateMayMove`, `StepMoves`, `DispatchInOrder`) |
| `Journal` | the store's journal | versions, the head and `append_journal` with compare-and-swap; any number of `Writers` that propose any journal with any version they ever read |
| `Effects` | the abstract promise of an operation | nothing in the source: its steps start once, in order, end, and stay ended |
| `Lease` | the lease row | acquire, takeover, renew, verify, release over pids that are reused, boots and a clock |
| `NativeService` | the abstract promise of the companion | one answer per operation: no effect before acceptance, one effect at most, a verdict that tells the truth or says it does not know, an export verified only in the session it was accepted in |
| `Companion` | the add-on | begin, accept, dequeue, critical section, close, wait that ends early, status, export, crash, repair at start-up |
| `Apply` | one item's attempts, in time | the command's every append and request, its death between any two, the companion as an instance of `NativeService`, takeover of the fence, reconcile, edits by the user |
| `ApplyJob` | a job's worker, log and commands | `run` and `drive` step by step between their durable appends; `fold` as the state of the log; pause, resume, cancel, retry and delete between any two steps; stalls, deaths and takeovers of the worker. An attempt is what `Apply` leaves of it: the standing of its journal and the outcome `from_apply` makes of it |
| `SplitRestore` | a split group, and the restore of its operations | `drive_group` over units and attempts, `reconcile`, `plan_restore`, `restore`, `resume`, `finalize` and `rollback_group`, append by append, one command after the other (they hold one lease); the companion as an instance of `NativeService`; edits, studies and new sessions between any two steps |
| `MergeNotes` | the deletion of a merged note and its recreation | `delete_merged`, `restore_merged` and `drive` by several processes at once, without a lease between them; the record with its compare-and-set; the companion as an instance of `NativeService` |
| `Campaign` | the lanes of a campaign's tick and the user's commands | `lane_loop`, `prep_lane`, `write_lane` and `step_fresh` with the row as it was read and the version `save` compares; a batch's phases; claims; the agent slot; `approve`, `reopen`, `skip`, `requeue`, `item`, `tune`; a tick killed anywhere. What a child does is its outcome |
| `BatchWrites` | the write lane in detail, from `approved` to `done` | `create_apply_job`, `applying`, `reconcile`, `verifying`, `merging` and `retention` between their records; the jobs as `ApplyJob` leaves them (items, session of the checkpoint, halts); listings of items and of backups that fail, which the code takes for empty ones; groups as `SplitRestore` leaves them |
| `Preparation` | a preparation job and the assets it refers to | `run`, `recover`, `publish` and `delete` under the job's lease, which expires and is taken over; controls and their acknowledgement; publication of files by it and by others against `prune_assets`, which may die between its rows and its files, or fail with files it cannot put back |
| `Review` | decisions about a plan's documents | `resolve` with what each kind of decision changes, drops and rebinds; `validate` as what a decision settles; edits, drafts of one item or all, regenerations, duplicate reports, merged notes, bindings and approvals; `resolve_batch` pass by pass, for a reviewer or for the policy |
| `StoreProofs`, `CompanionProofs`, `ApplyProofs`, `ApplyJobProofs`, `CampaignProofs`, `PreparationProofs`, `BatchWritesProofs`, `MergeNotesProofs` | | theorems about `Journal`, `Lease` and `SplitRestore`; `Companion`; `Apply`; `ApplyJob` and `Review`; `Campaign`; `Preparation`; `BatchWrites`; `MergeNotes` |
| `MCJournal`, `MCLease`, `MCCompanion`, `MCApply`, `MCApplyJob`, `MCSplitRestore`, `MCMergeNotes`, `MCCampaign`, `MCBatchWrites`, `MCPreparation`, `MCReview` | | the small instances TLC checks |

`Journal` implements `Effects` and `Companion` implements `NativeService`, each
by a refinement mapping stated in the detailed module (`KeepsPromise`). `Apply`
uses the vocabulary of `JournalRules`: `StoreAccepts` says every append of the
command is one `Journal` would take. `Apply`, `SplitRestore` and `MergeNotes` are
composed with the companion through `NativeService`, which `Companion` implements.
The models above them are layered: each takes of the one below the outcomes it can
have, and `Campaign` and `BatchWrites` divide the campaign between what its lanes
do to each other and what one lane does to the collection.

Conventions. Definitions keep the source's names where TLA+ allows. A definition
marked "(Mutant)" is used by no run: it is a plausible bug in the definition
before it, and shows that the property beside it notices that bug. Payloads,
digests and note contents are members of small sets, compared only for equality;
"result" and "precondition" of an item are two such values, or the same one when
the note already matches.

## What the runs check

| Run | Instance | Shows |
|---|---|---|
| `journal.cfg` | 2 writers, operations of up to 2 steps, 7 appends | steps start once (`StartedOnce`), in order with one in doubt at most (`EffectsInOrder`), doubt keeps the operation pending (`DoubtIsPending`), what ended is final but for a restore (`EndedIsFinal`), and the refinement of `Effects` (`KeepsPromise`) |
| `lease.cfg` | 2 pids, 4 processes per boot, 2 boots, generations up to 4, a lease of 2 ticks | one process inside (`OneInside`), who is inside owns the row (`InsideOwns`), a lost token is lost for good (`LostForGood`) |
| `companion.cfg` | 2 mutations and 1 export, 2 fences and one more for each operation a crash left behind, 3 session epochs, 1 crash, every fault | one effect (`EffectOnce`), `failed` is without effect (`FailedHasNoEffect`), every accepted operation is settled (`AcceptedIsSettled`), and the refinement of `NativeService` (`KeepsPromise`), by which one operation at a time is in flight and takes effect only under the current owner and session, and an export is verified only when the session goes on with the collection its owner knew, whatever was opened while it was written |
| `apply.cfg` | 2 attempts, 1 file, 3 fences, 2 sessions, 1 edit, items to create, update or keep | the store would accept every append (`StoreAccepts`), nothing happens after its attempt was declared without effect (`NoLateEffect`), every effect has an attempt that accounts for it (`EffectsAreAccounted`), a commit is real (`CommittedIsReal`) |
| `apply_job.cfg` | 2 items, 2 attempts per item and 2 starts together, both modes and policies, 2 controls | one item in flight across stalls, deaths and takeovers (`OneStarted`); a committed item has its operation and is never started again (`CommittedStays`); nothing starts while a stop is wanted (`NoStartWhileStopping`); a confirmed stop has stopped, whoever confirmed it (`ConfirmedIsStopped`) |
| `restore.cfg` | 1 child and the anchor, 2 attempts per unit, 2 restores per operation, 4 fences, 2 faults | the anchor is written after its children and no unit twice (`AnchorLast`); restored exactly when a restore committed, and reversed once (`RestoredOnce`); a restore touches only what its plan saw and loses no review (`RestoresWhatWasSeen`) |
| `merge.cfg` | 2 processes, 2 restores, 4 fences, 1 change by the user | the record never runs ahead of the collection (`RecordIsTrue`); one recreation of a note, as long as its commands ran one after the other (`RestoredOnce`) |
| `campaign.cfg` | 2 preparation lanes and the writer, the pilot and the batch split off it, 1 prepared ahead, tuned to 2 and back, 1 failure per step, 1 command of any of nine kinds | one lane at most can move a batch (`OneLaneMayMove`); no batch gets under way without room under the limit of the moment (`PreparedAhead`; a limit that is lowered leaves what is under way); a batch that has a job, recorded or orphaned, is not prepared or decided again (`JobsAreLocked`) |
| `writes.cfg` | 2 batches: two notes before a survivor with its duplicate, or a split group alone before two notes; 3 checkpoints, 1 retained, 1 failure, 1 fault, any listing failing | no note is written twice over all jobs (`WrittenOnce`); done is complete (`DoneIsComplete`); the checkpoint of an unfinished batch's job is kept (`CheckpointKept`) |
| `preparation.cfg` | 2 items sharing 1 file, 2 attempts each, a wave of 2, 2 processes, 3 runs, 2 controls, 1 prune | what is referred to is in the store (`EvidenceIsThere`); a confirmed stop has stopped (`ConfirmedIsStopped`); a read in flight belongs to the lease's holder and to an item still started (`ReadsAreStarted`) |
| `review.cfg` | a word and a page with twelve of the thirteen kinds of issue between them (a verified source text, the other one, is in `review_edit.cfg`), 3 revisions before the last command, 1 batch or round of drafts at a time, a reviewer's batch with at most 1 issue left out, a policy that may leave any role, sense, image or fact open, any decision refused, 4 passes, 1 change of each text, the file in both orders | no decision about facts settles an issue in content its reviewer had not seen (`VerifiedAsSeen`); a batch never needs more passes than the code allows (`BatchStabilizes`; wp-21 says no real plan has needed more than two) |
| `review_edit.cfg` | 2 documents, 2 changes | `ApprovedIsReviewed` is violated: see Findings |

Why these bounds are enough. *Journal*: a commit of one step followed by its
restoration takes 7 appends, and an operation of two steps comes to the start of its second
step; more steps repeat the same rules, and the
theorems hold for all sizes. *Lease*: a pid of an earlier process has to be
reused, twice across a reboot, while an old process still sleeps with its token:
4 processes on 2 pids in each of 2 boots. *Companion*: the executor is serial, so a
hazard needs one operation and what races it (a second operation, a new owner, a
session change, a crash); two fences are an owner and its replacement, and after a
crash there is always one more, so that what it left behind can be settled.
*Apply*: a hazard is between an attempt and its successor or its reconciliation,
with a file before the note to make the operation partial. *ApplyJob*: that one item
is in flight takes a second item; a retry takes a second attempt; a control that is
overtaken (read by the worker, replaced before its acknowledgement) takes two.
*SplitRestore*: a unit and the one it must wait for; an attempt and its successor; a
restore and one that supersedes or repeats it; two faults (a death, an edit, a new
session) so that one can hit the recovery from the other. *MergeNotes*: the tick and
a user, who are the two that run the command. *Campaign*: two lanes of a kind race
for one batch, and the third, of the other kind, works on what they prepare; a
second batch comes from splitting the first; a limit that is lowered below what is
under way takes two. While the limit is raised, or more is under way than it allows once it is
lowered, the run looks only at states in which no step has failed, nothing is being
written and the tick is not winding down (`WhileTuned` of `MCCampaign`, a constraint that
keeps the run within its time): a tick that is killed leaves the rows one that winds down
leaves, and the theorems have no such bound. *BatchWrites*: retention of one needs two
batches; a follow-up takes a second job and so does an orphan, and the third
checkpoint is the user's or another campaign's. *Preparation*: one item of a wave is
read while the other is recorded; the process that lost the lease and the one that
took it; a shared file is what a prune and a second publication meet over.
*Review*: decisions are bound to one document's digest; the order and the number of
passes depend on the kinds of decision, and a word and a page have each of them; what an
edit does to another document, and a round of drafts, take the second. A batch that
leaves two issues out passes as well (1,984,616 states, which is near the time of one
run); the theorem about `VerifiedAsSeen` holds for batches that leave out any.

Fairness. Only `Companion` states it (`FairSpec`): weak fairness of the executor's
step on each operation (the code schedules it on Anki's executor and main loop,
which serve what is scheduled), of a restart of Anki after a crash and of the
collection being opened (a user starts Anki again, otherwise nobody is there to
ask), and of somebody asking to be the owner. No fairness is given to requests,
faults, crashes or edits. All other specifications are safety only.

`CHECK_DEADLOCK FALSE` is said where the system really stops: a companion whose
operations are all settled and whose bounds are used up, an item whose attempts
are over, a job or a note that was deleted, a group that is restored, batches that
are done, a document decided and approved, a machine whose boots and processes are
used up. `journal.cfg` and `campaign.cfg` check for deadlock.

Symmetry is used where processes or lanes are interchangeable (`merge.cfg`,
`campaign.cfg`, `preparation.cfg`), and only with invariants and with
`PreparedAhead`, which looks at single steps and names no lane. The type invariants
that no configuration lists hold in the same instances; adding `TypeOK` to a
configuration checks them.

## What is proved

`StoreProofs`, of `Journal`, for any set of writers, any number of steps and any
sequence limit (assumed: both limits are naturals): type correctness, `StartedOnce`,
`EffectsInOrder`, `DoubtIsPending`, `EndedIsFinal`, and the refinement of `Effects`
(`Refinement`). The argument is one inductive invariant, `IInv`: the head's journal is
valid; its steps are verified ones, then at most one that is started, unknown, partial
or failed, then intents (`Shape`); the history of starts counts exactly the steps that
are no longer intents (`Counted`); and sequence 0 means no version was read. None of the
properties is inductive by itself: that a started step is started only once needs
`Counted` to tie the history to the head, and `Counted` survives an append only because
of `Shape`. That an accepted append comes from the current head is the compare-and-swap,
so old versions, which writers keep for ever, need no invariant beyond their type.

`StoreProofs`, of `Lease`, for any set of pids, any number of processes, boots and
generations, and any duration of at least one tick: type correctness, `InsideOwns`,
`OneInside`, `LostForGood`. (The definitions of `Lease` that would have the names of the
journal's begin with `Lease`, so that one module can extend both.) The invariant says
that every token a process ever held has a generation of at most the row's
(`TokensFit`), that an active row has a generation other than 0, and `InsideOwns`;
uniqueness of the process inside follows because two owners of one row are one process.

`StoreProofs`, of `SplitRestore`, for any children in any order, any number of attempts,
restores, owners, and faults (assumed: there is a child, no unit is listed twice and
the anchor is not one of the children, there is at least one attempt): type correctness,
`AnchorLast`, `RestoredOnce`, `RestoresWhatWasSeen`. The command may die, the session may
end and the user may change any note between any two steps, so what the invariant
`SplitInv` can say rests on the journals. An operation may still take effect only while
its journal says started or unknown, and a journal that is settled tells the truth of its
effect (`JournalTrue`); the attempts before the latest are over without effect, those
after it do not exist (`AttemptsFit`); the anchor has a journal only once every child is
done (`AnchorFits`), which stays so because a child that is done is only ever restored;
and one restore of an operation at most is more than an intent (`RestoresFit`), since a
new one is planned only when no other is open. `RestoresWhatWasSeen` needs what every
operation is to leave (`PostFits`) beside what is there (`NotesFit`): the companion
compares the note with the plan, and that the effect loses no tag and no review is in what
the plan may ask for. `CommandFits` is the rest: at each place of the command, the state
of the journal it read and, once it has begun, that no other operation can take effect.
That a request is sent while nothing else is under way is here proved from the fence, as
in `Apply`. `NotAppliedWhileRolledBack` is no theorem: the run refutes it (Findings).

`ApplyJobProofs`, of `Review`, for any documents with any issues, any batches and any
orders of the file, however many revisions and changes: type correctness and
`VerifiedAsSeen`. The invariant is about every document there is, those of the newest
revision and those in the memory of each batch or round of drafts (`ReviewInv`): a
decision about a fact or a dropped field is bound to content with the facts it was made
on (`AsSeen`), whether or not that is the document's content now. It is kept because of
what follows a decision to new content (`ReboundFits`): among those kinds only a task
map takes them along, and only when they were bound to the content just before it; what
a stage, an edit or a draft keeps is about the source alone (`SourceDecisionsFit`).

`ApplyJobProofs`, for any number of items, attempts and controls, any modes and
policies (assumed: the first three are naturals, the first two positive): type
correctness, `OneStarted`, `ConfirmedIsStopped`, `NoStartWhileStopping`,
`CommittedStays`. What makes the invariant inductive is what a worker knows at each
place of `drive` (`WorkerKnows`): until it is accounted for, whatever is unfinished
is on its list; after that nothing is in flight, but for the item it is at. A lease
lost by death or expiry loses nothing of this, since the next worker's list is read
from the log; and a free lease means that no worker is at work (`WorkerHolds`), on
which the confirmation in the transaction of a request rests. `CommittedSound` says
the same of outcomes: one that is committed, recorded or about to be, has a committed
or restored operation, and no committed item is on the list items are started from,
which is where a retry that crossed a start would have put it.

`CompanionProofs`, for any finite set of operations, any exports among them, any
faults and any number of owners, sessions and crashes (assumed: the operations are
finitely many and not the record `None`, the bounds are naturals): type correctness,
`EffectOnce`, `FailedHasNoEffect`, and the refinement of `NativeService`
(`Refinement`), step by step. The invariant says what the ledger knows while the work
of an operation is at each place (`WorkFits`), that accepted work belongs to the
latest owner and to the session it is bound to (`AcceptedFits`), and that one
operation at most is in flight (`OneInFlight`). The last two are what the refinement
needs: the abstract service lets an effect happen only under the current owner and
session, and the code compares neither again between the acceptance and the effect. (An
export does compare: its callback resumes the session only if the collection that was
opened again is the one it closed.)

`ApplyProofs`, for any number of attempts and files, any kind of item and any number
of owners, sessions and edits: type correctness, `EffectsAreAccounted`,
`CommittedIsReal`, `NoLateEffect`, `StoreAccepts`. The invariant has four parts. The
answers of the companion are true of its effects (`NativeFits`, what `NativeService`
promises). Each journal has a shape (`Shape`, `StateFits`: steps verified, then one in
doubt, then intents), and each of its steps says something true of the service
(`StepFits`: an intent was never sent, a step that is settled can no longer take
effect). What the command holds at each place fits the journal of its attempt
(`CommandFits`): which step it is at, under whose fence, and that at the places where
it decides nothing is on the wire that could still take effect. The last is the heart of
it: an old request is harmless only because a new owner was accepted first, and
recovery classifies what it reads only after that. And where the collection is as an
effect would have made it, there was one, or it was so before (`CollectionFits`).

`CampaignProofs`, for any workers, any number of batches, any limits they are
tuned between, and any commands: type correctness, `OneLaneMayMove`, `PreparedAhead`, `JobsAreLocked`. The
invariant says that a lane's row, as long as it is the current one, is in a phase of
that lane (`LaneFits`), that two workers never claim one batch (`ClaimsApart`), that a
job which exists was announced by an intent that stays until the batch has left its
approval (`JobFits`), and that the rows are numbered without gaps (`Numbered`, so that
a split or a requeue overwrites nothing). `OneLaneMayMove` is not inductive by itself:
of two workers the claims keep one away, of a worker and the writer the phase of the
row does, and a row read before somebody moved the batch is known by its version.
`PreparedAhead` is about steps, and not about states, because `campaign tune` can lower the
limit below what is under way: a step that adds a batch leaves no more than the limit. It
is about two things that change at once, the phases and the batches being started. That no step but a claim takes room is one lemma (`AheadStep`), from what
a step may do to a row (`RowsKeep`) and to the lanes that do not move (`Kept`); a claim
counts the batches being started under the lock (`ClaimGood`).

`PreparationProofs`, for any number of items, attempts and workers, any assets and
processes, and any requests, runs and prunes: type correctness, `EvidenceIsThere`,
`ConfirmedIsStopped`, `ReadsAreStarted`. A command that works holds the lease, and the
items that are started are exactly the reads its holder knows of (`CmdFits`): that is
what lets pause, cancel and delete look at the rows alone, without the lease, and be
right about reads that are in flight in another process. A confirmed request is one to
stop, with nothing started (`AckFits`). A prune has files in its hands only while nobody
holds the lease, and none of them is referred to (`PruneFits`), so that neither a capture
that has been verified nor a revision is overtaken by it; a row of the index without its
file is one a prune has now or died with (`IndexFits`), and what is referred to is in the
index (`ReferredFits`). `EvidenceIsThere` needs the last three together: a publication
between the census and the commit is excluded by the lock of the store, which
`Unlocked` stands for, and not by the age of the file. The head of the event chain is
not needed: the lease alone keeps the events of two commands apart.

`BatchWritesProofs`, for any number of batches, checkpoints, jobs, sessions and faults,
any plans and any limits: `WrittenOnce`, `DoneIsComplete`, `CheckpointKept`. Many jobs
can hold a note: those a killed tick created and no batch knows of, and the follow-ups.
The invariant names the notes of a batch that may still be written (`Live`): all of them
before the first job, what the session left pending while a follow-up is wanted, and else
what the last job has not tried. None of these was written yet, a new job takes no others,
and only the last job of a batch is run, which is no other batch's (`JobsApart`). A note
that is deferred was not written, and where the job still holds it the note is gone
(`ItemsFit`), so that nothing the report calls deferred is written afterwards; each phase
has what it takes to have been reached (`PhaseFits`), and retention takes only from what is
done (`FilesFit`). `CheckpointKept` also needs that the checkpoint of a batch's last job is
recorded for no other batch. As long as every listing of the backups succeeds, it is
recorded for its own before the job is; but a listing that fails records nothing, and the
batch then has a job whose checkpoint is nobody's, which any later record of another batch
could take. That none does is a second invariant, `Order`: the lane works on its oldest
batch first, so while a batch has an intent or a job to finish no younger one creates or
records any (`OldestFirst`), and an intent, or the start of a group, is younger than the
checkpoints of the jobs others still have (`IntentAfter`, `GroupAfter`, `KeepsCheckpoint`,
`KeepsNewest`). It rests on the first invariant and is proved inductive beside it.
The proof met two facts the small instances had silently: batches are numbered from 1
(a checkpoint without a record is told from batch 0 by that alone), and a note is
approved on its own or in a group, never both (`WritesAssumption`).

`MergeNotesProofs`, for any number of processes, restore operations, owners and changes
by Anki's user: `RecordIsTrue`, `RestoredOnce`. The first needs little: a verdict is
true of the effects (`VerdictsFit`), and a command that goes on to record success has
seen a verdict (`CommandsFit`). The second is about commands that ran one after the
other (`AloneFits`): whatever was restored under an earlier operation, or under the
record's own once the record says "deleted" again, is `Dead`. An operation is dead when
it failed, and also when it was never accepted and every request for it that is still
under way bears the fence of an owner that is over; so an answer that says nothing was
accepted (`Answered`) is worth believing only because the same command ends its owner.
The invariant is about the companion's fence as much as about the record, and
`NumbersFit` (no fence and no operation is known anywhere before it was issued) is what
makes a new owner fence every old request.

Two operators were ambiguous until the proofs met them: `EvidenceAction` of `Apply`, and
`Status` and `StopAfter` of `ApplyJob`, were `CASE`s with overlapping guards, of which TLC
takes the first and the semantics any. They are chains of `IF` now, in the order of the
code's tests. Restating `SplitRestore` for its proof showed a third thing: the created notes of a group
were rolled back last first, which no small instance with one child could tell from the
order of the code, that of the operations' random ids. The model takes any order now,
after the anchor.

Only model-checked: `BatchStabilizes` of `Review`, and the liveness property
`AcceptedIsSettled`. Why a batch settles is an argument about the sorted list of its
decisions, by induction along it, and holds for the code's four passes but not for every
`MaxPasses`. Out of the prover's reach are liveness under fairness and `ENABLED`, and induction over data;
no module uses `RECURSIVE`.

## Findings

**`ApprovedIsReviewed`** (`review_edit.cfg`; `linguist-core/src/editing.rs:147`). An
edit of one document recomputes the issues of every document with `validate`, which
leaves out an observation of the capture while a decision settles it. `resolve` puts
such observations back as warnings (`review.rs:674-690`), so that they open again
when their decision falls; `apply_patch` does not. Edit document 1: document 2 loses
its settled observations. Edit document 2: its decisions are dropped, nothing is left
to open again, and it can be approved unreviewed. `validation.rs:108` says "Resolved
capture observations remain in the document as warning records. Re-open them unless
a decision still proves the exact current content/evidence." Without the
edit, a regeneration loses them the same way (`regenerate.rs:527`) and carries the
decision along; the next draft finds no open issue for it and drops it
(`generation.rs:1624`).

Further statements of the documentation the code does not keep, each reproduced by a
configuration beside this file that ends with a counterexample
(`tlc -config <name>.cfg MC<module>`):

| Configuration, property | What the code does | What is said |
|---|---|---|
| `companion_live`, `LiveIsHeld` | a callback abandoned after the wait leaves its key in `_live` with no worker behind it (`native.py:125`); no new owner is accepted until Anki is restarted | `operations.py:280`: `live_operations` are "the operation IDs its serialized worker still holds" |
| `apply_twice`, `ItemAppliedOnce` | an attempt that died before its request is not pending (`apply.rs:735`), so a second one commits; reconciling the first then creates its note too | wp-11.md:15: "A committed item cannot be applied again" |
| `apply_partial`, `HarmlessIsSuperseded` | with one verified and one refused file the note was never sent, yet the attempt is neither superseded nor recoverable (`apply.rs:721`) | wp-11.md:24: "A known partial with only verified media can be superseded by a new attempt" |
| `apply_keep`, `MatchIsAdopted` | a note that already matched reads back as unchanged (`apply.rs:1931`), so an update the companion verified is never adopted | wp-11.md:25: "a matching read-back is adopted" |
| `job_stop`, `IdleStopIsConfirmed` | any stop after a pause or cancel passes for its acknowledgement, but only one that names it confirms it (`job_executor.rs:762`); a worker that stops for a reason of its own leaves it unconfirmed for good | jobs.md:265: "the stop is confirmed immediately on an idle job or by the worker's acknowledgement" |
| `job_unknown`, `UnknownIsDistinguished` | an error raised after the request was sent is recorded as an ordinary failed item (`job_executor.rs:380`) while the journal is unresolved | jobs.md:87: "Unknown effects distinguished from ordinary failed items." |
| `campaign_pilot`, `PilotStops` | the pilot is marked as reviewed before the campaign is paused (`engine.rs:1333-1358`); a tick killed in between never pauses | docs/cli/operations/campaign.md:47: "After the pilot batch is `done`, pause with `CAMPAIGN_PILOT_REVIEW` once." |
| `merge_restore`, `RestorableAsDeleted` | the digest a deletion compares leaves the schedule out (`apply.rs:512-532`) and the evidence is recorded once: a note studied after a refused deletion is deleted and recreated with its older schedule | merge.rs:8-10: "Its complete pre-delete evidence (note, cards with their schedule, review rows) is stored first" |
| `writes_session`, `SessionEndContinues` | an item interrupted before its journal is eligible but not pending, so after a restart of Anki no follow-up job is made (`engine.rs:989`) and the campaign pauses on every resume | docs/cli/implementation/wp-24.md:93: "the campaign reconciles the stopped items, then creates the follow-up job and its checkpoint itself" |
| `restore_group`, `NotAppliedWhileRolledBack` | while the restore of a verified child is sent and not settled its journal is still committed, and the group passes over it and transforms the anchor (`split.rs:251`) | wp-12.md:26: "A rolled-back group is never re-applied on the same revision" |
| `preparation_skip`, `SkipFailedPublishes` | an item whose last attempt was interrupted counts as failed, yet `publish --skip-failed` publishes nothing (`preparation.rs:293`) | docs/cli/operations/campaign.md:99-103: "publishes the job's plan from its captured items only, leaving failed notes out" |

Seen in the code without a run of its own: when every approved note of a batch was
deleted before its job is created, the facts of the batch stay empty and the
`approved` step repeats for ever (`engine.rs:906`); a checkpoint another command
takes while a job is created is recorded as the campaign's and removed by its
retention (`engine.rs:880-902`, `OwnCheckpointsOnly` of `BatchWrites`); a restore
whose session ended or whose last read-back differs stays open (wp-12.md:44 says so).

## What is not modelled, and why

Within the modelled parts:

- `ApplyJob`: a retry command names one item, one retry or delete command is
  between its judgement and its transaction at a time, and an operation is recovered
  by another command only while it is the newest of its item.
- `Companion`: `AcceptedIsSettled` excuses an operation while some callback was abandoned
  by the wait (`native.py:125`): the code then serves nobody until a restart, which
  `companion_live.cfg` shows, so no property can say of that case that it ends well.
- `Apply`: previews, simulation and the projections of a note. A change by the user between
  the read-back and the commit is possible and no property excludes it: the commit says
  what was read, and nothing in the code holds the note until it is recorded.
- `SplitRestore`: media steps and the superseding of a restore that only wrote media
  (both are `Apply`'s), the checkpoint a restore asks for, renamed note types.
- `MergeNotes`: the merge of the documents, and the search for duplicates. That
  commands at once recreate one note only is not claimed: they take no lease.
- `Campaign` and `BatchWrites`: the selection of notes, drafts, policies, notices and
  reports; a user who pauses or retries the campaign's jobs by hand. `campaign tune` also
  changes the number of preparation lanes, which is fixed here. A checkpoint is told to be
  newer than an intent by its place in the order of their creation: the second of tolerance
  the code gives (`engine.rs:880-902`), and another campaign whose checkpoints fall into it,
  are not there, so `CheckpointKept` is about one campaign.
- `Preparation`: what a capture becomes; the other references the census counts. A
  revision published without a lease can refer to a file that a prune took that died, or
  that failed and could not rename it back, as `gc.rs:5-8` says; `EvidenceIsThere` leaves
  exactly those files out. When its commit fails, a prune lets go of the database before it
  renames its files back (`gc.rs:533-543`); in the model that is one step.
- `Review`: decisions on the plan, accepted warnings, rendering, the expectations of a
  batch (`expect_resolved`), splits (their units are `SplitRestore`'s), what the policy
  and the providers make of a text: which issues the policy leaves to the agent is
  there, and whether a stage finds something is a nondeterministic outcome. A decision
  that takes the expression from a region is treated like a segmentation. Every answer to
  one kind of decision is the same, so that a second decision of a kind with another answer
  changes no content; in the code it moves the digest once more and, for a role, drops
  the decisions, as an edit does in the model.

Not at all: snapshots and intents (rows that never change), checkpoints as packages
and the provider reader (files, pipes and child processes; what others need of them
is a nondeterministic outcome where they need it), the installation of note types (an
operation of one step under the rules of `Apply`), drafting agents (budgets and
cooldowns by the wall clock; that the budget of calls holds across processes is a
hazard without a property), and generation, dictionaries, configuration, rendering and
the command line, which are functions on text or input and output: their
correctness is that of parsing and layout, decided by examples rather than by
interleavings, and they are the larger part of the source.
