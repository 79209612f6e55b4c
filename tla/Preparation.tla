----------------------------- MODULE Preparation -----------------------------
(***************************************************************************)
(* Prepare jobs (application/jobs.rs over store/preparation.rs and          *)
(* preparation_control.rs): workers read notes of the collection, keep what *)
(* they captured in the store, and publish it as a plan.  Commands run,     *)
(* recover and publish a job under its lease (Lease); pause, resume, cancel *)
(* and delete need none.  The assets a capture refers to live in files next *)
(* to the store, which a prune (store/gc.rs) deletes when nothing refers to *)
(* them, and which other commands publish and refer to without any lease.   *)
(*                                                                         *)
(* Every immediate transaction of the store is one step.  A process dies    *)
(* between any two steps; a store call fails (busy, or the lease expired)   *)
(* at any of them.                                                          *)
(***************************************************************************)
EXTENDS Naturals, FiniteSets, FiniteSetsExt, Functions

CONSTANTS
    NItems,         \* the notes of the job, in their frozen order
    MaxAttempts,    \* jobs.max_item_attempts
    Workers,        \* jobs.prepare_workers
    StopOnError,    \* jobs.on_item_error = "stop"
    Assets,         \* what captures refer to, by content
    AssetOf,        \* the asset of each item's capture
    Procs,          \* the commands that may run at a time
    Nobody, Dead,   \* holders of the lease's row: released, a process that died
    MaxControls,    \* bound: pause, resume and cancel requests
    MaxRuns,        \* bound: commands
    MaxPrunes       \* bound: prunes

Items == 1..NItems

ASSUME PreparationAssumption ==
    /\ NItems \in Nat \ {0} /\ MaxAttempts \in Nat \ {0} /\ Workers \in Nat \ {0}
    /\ StopOnError \in BOOLEAN /\ AssetOf \in [Items -> Assets]
    /\ Nobody \notin Procs /\ Dead \notin Procs /\ Nobody # Dead
    /\ MaxControls \in Nat /\ MaxRuns \in Nat /\ MaxPrunes \in Nat

VARIABLES
    items,      \* the last event of each item and its attempt
    control,    \* the newest request, their number, and whether it is acknowledged
    plan,       \* the items of the published plan; {}: no plan
    deleted,    \* is the job entombed?
    judged,     \* a delete judged the job terminal and has not entombed it yet
    holder,     \* who holds the lease of the job
    cmd,        \* the command each process runs
    runs,
    file,       \* the file of each asset, and whether it is past the orphan grace
    index,      \* the assets in the index
    prune,      \* a prune: the files it moved
    prunes,
    lost,       \* assets whose file a prune that never committed left in the trash
    other       \* a command without a lease that publishes an asset and a plan with it

job == <<items, control, plan, deleted, judged>>
assets == <<file, index, prune, prunes, lost, other>>
vars == <<job, holder, cmd, runs, assets>>

-----------------------------------------------------------------------------

Idle == [pc |-> "idle", op |-> "none", queue |-> {}, wave |-> {}, out |-> {},
         now |-> 0, got |-> "none", stop |-> FALSE, head |-> 0]

Init ==
    /\ items = [i \in Items |-> [stage |-> "pending", attempt |-> 0]]
    /\ control = [action |-> "none", seq |-> 0, acked |-> FALSE]
    /\ plan = {} /\ deleted = FALSE /\ judged = FALSE
    /\ holder = Nobody
    /\ cmd = [p \in Procs |-> Idle]
    /\ runs = 0
    /\ file = [a \in Assets |-> "none"]
    /\ index = {} /\ lost = {}
    /\ prune = [pc |-> "idle", moved |-> {}]
    /\ prunes = 0
    /\ other = [pc |-> "idle", asset |-> CHOOSE a \in Assets : TRUE]

\* The head of the event chain: its length, since the lease has one holder.
Head == SumFunctionOnSet([i \in Items |->
          IF items[i].attempt = 0 THEN 0
          ELSE 2 * items[i].attempt - (IF items[i].stage = "started" THEN 1 ELSE 0)], Items)

\* stops_dispatch
Stopping == control.action \in {"pause", "cancel"}

Retryable(item) ==
    /\ item.stage \in {"failed_retry", "interrupted"}
    /\ item.attempt < MaxAttempts

InState(stage) == {i \in Items : items[i].stage = stage}

\* A prune holds the write lock of the store from its census to its commit.
Unlocked == prune.pc # "moved"

At(p, pc) == cmd[p].pc = pc
Goto(p, pc) == cmd' = [cmd EXCEPT ![p].pc = pc]

-----------------------------------------------------------------------------
(* The commands: the lease                                                 *)

\* run refuses a deleted job before it asks for the lease.
Start(p, op) ==
    /\ At(p, "idle") /\ runs < MaxRuns
    /\ op = "run" => ~ deleted
    /\ cmd' = [cmd EXCEPT ![p].pc = "acquire", ![p].op = op]
    /\ runs' = runs + 1
    /\ UNCHANGED <<job, holder, assets>>

\* (Mutant) A worker that stalls loses its lease like a dead one.
FreeOrStalled == TRUE

\* A row is taken over only when its owner is proved dead.
FreeLease == holder \in {Nobody, Dead}

\* acquire_lease
Acquire(p) ==
    /\ At(p, "acquire") /\ Unlocked
    /\ IF FreeLease
       THEN /\ holder' = p /\ Goto(p, "read")
       ELSE /\ holder' = holder /\ cmd' = [cmd EXCEPT ![p] = Idle]
    /\ UNCHANGED <<job, runs, assets>>

\* The command is over, by itself or by any error of a call: the lease goes back.
Release(p) ==
    /\ holder = p /\ Unlocked
    /\ holder' = Nobody
    /\ cmd' = [cmd EXCEPT ![p] = Idle]
    /\ UNCHANGED <<job, runs, assets>>

Die(p) ==
    /\ ~ At(p, "idle")
    /\ cmd' = [cmd EXCEPT ![p] = Idle]
    /\ holder' = IF holder = p THEN Dead ELSE holder
    /\ UNCHANGED <<job, runs, assets>>

\* run: what can be read; an item left started has to be recovered first.
ReadItems(p) ==
    /\ cmd[p].op = "run"
    /\ InState("started") = {}
    /\ cmd' = [cmd EXCEPT
         ![p].pc = "wave", ![p].head = Head,
         ![p].queue = {i \in Items : items[i].stage = "pending" \/ Retryable(items[i])}]

\* recover reads the items again under the lease; publish needs the head only.
ReadToRecover(p) ==
    /\ cmd[p].op = "recover"
    /\ cmd' = [cmd EXCEPT ![p].pc = "recover", ![p].head = Head, ![p].out = InState("started")]

ReadToPublish(p) ==
    /\ cmd[p].op = "publish"
    /\ cmd' = [cmd EXCEPT ![p].pc = "build", ![p].head = Head]

Read(p) ==
    /\ At(p, "read")
    /\ ReadItems(p) \/ ReadToRecover(p) \/ ReadToPublish(p)
    /\ UNCHANGED <<job, holder, runs, assets>>

-----------------------------------------------------------------------------
(* The events: append_preparation_event_with_lease                         *)

\* Nothing is dispatched from a pause or cancel on, decided in the transaction.
MayStart(stage) == stage = "started" => ~ Stopping

Follows(item, stage, attempt) ==
    /\ attempt <= MaxAttempts
    /\ IF stage = "started"
       THEN /\ item.stage \in {"pending", "failed_retry", "interrupted"}
            /\ attempt = item.attempt + 1
       ELSE item.stage = "started" /\ attempt = item.attempt

Appends(p, i, stage, attempt) ==
    /\ Unlocked /\ holder = p /\ ~ deleted
    /\ cmd[p].head = Head
    /\ Follows(items[i], stage, attempt)
    /\ MayStart(stage)
    /\ items' = [items EXCEPT ![i] = [stage |-> stage, attempt |-> attempt]]

\* recover: the started items of the page become interrupted, one by one.
Interrupt(p) ==
    /\ At(p, "recover") /\ cmd[p].out # {}
    /\ LET i == Min(cmd[p].out) IN
       /\ Appends(p, i, "interrupted", items[i].attempt)
       /\ cmd' = [cmd EXCEPT ![p].out = @ \ {i}, ![p].head = @ + 1]
    /\ UNCHANGED <<control, plan, deleted, judged, holder, runs, assets>>

\* The next wave: as many items as there are workers, unless a stop is wanted.
NextWave(p) ==
    /\ At(p, "wave")
    /\ LET queue == cmd[p].queue
           wave == {i \in queue : Cardinality({j \in queue : j < i}) < Workers}
       IN IF Stopping \/ queue = {} THEN Goto(p, "final")
          ELSE cmd' = [cmd EXCEPT ![p].pc = "dispatch", ![p].wave = wave,
                                  ![p].queue = queue \ wave]
    /\ UNCHANGED <<job, holder, runs, assets>>

\* The attempt is counted from the items as they were read; only this worker
\* moves them on.
Dispatch(p) ==
    /\ At(p, "dispatch") /\ cmd[p].wave # {}
    /\ LET i == Min(cmd[p].wave) IN
       /\ Appends(p, i, "started", items[i].attempt + 1)
       /\ cmd' = [cmd EXCEPT ![p].wave = @ \ {i}, ![p].out = @ \cup {i}, ![p].head = @ + 1]
    /\ UNCHANGED <<control, plan, deleted, judged, holder, runs, assets>>

\* PREPARATION_CONTROL_BLOCKS_DISPATCH ends the wave; what was sent is awaited.
DispatchBlocked(p) ==
    /\ At(p, "dispatch") /\ cmd[p].wave # {}
    /\ Unlocked /\ holder = p /\ ~ deleted /\ ~ MayStart("started")
    /\ cmd' = [cmd EXCEPT ![p].pc = "collect", ![p].wave = {}, ![p].stop = TRUE]
    /\ UNCHANGED <<job, holder, runs, assets>>

Dispatched(p) ==
    /\ At(p, "dispatch") /\ cmd[p].wave = {}
    /\ Goto(p, "collect")
    /\ UNCHANGED <<job, holder, runs, assets>>

\* While it waits the coordinator looks for a request to stop.
Poll(p) ==
    /\ At(p, "collect") /\ cmd[p].out # {} /\ Stopping
    /\ cmd' = [cmd EXCEPT ![p].stop = TRUE]
    /\ UNCHANGED <<job, holder, runs, assets>>

\* The read of any dispatched item ends: with a capture, or an error a later
\* attempt can pass or cannot.
Collect(p) ==
    /\ At(p, "collect")
    /\ \E i \in cmd[p].out, got \in {"captured", "failed_retry", "failed"} :
         cmd' = [cmd EXCEPT
           ![p].now = i, ![p].got = got, ![p].out = @ \ {i},
           ![p].pc = IF got = "captured" THEN "publish_asset" ELSE "record"]
    /\ UNCHANGED <<job, holder, runs, assets>>

\* publish_asset: linked and indexed in one transaction.  A file that is there
\* already is kept, with the age it has.
Published(a) ==
    /\ Unlocked
    /\ file' = [file EXCEPT ![a] = IF @ = "none" THEN "young" ELSE @]
    /\ index' = index \cup {a}

PublishAsset(p) ==
    /\ At(p, "publish_asset")
    /\ Published(AssetOf[cmd[p].now])
    /\ Goto(p, "verify")
    /\ UNCHANGED <<job, holder, runs, prune, prunes, lost, other>>

\* The process dies after the link: a file the index does not name.
DieLinking(p) ==
    /\ At(p, "publish_asset") /\ Unlocked
    /\ file[AssetOf[cmd[p].now]] = "none"
    /\ file' = [file EXCEPT ![AssetOf[cmd[p].now]] = "young"]
    /\ holder' = Dead
    /\ cmd' = [cmd EXCEPT ![p] = Idle]
    /\ UNCHANGED <<job, runs, index, prune, prunes, lost, other>>

\* asset: the row and the file are read before the transaction of the event.
Verified(a) == a \in index /\ file[a] # "none"

Verify(p) ==
    /\ At(p, "verify") /\ Verified(AssetOf[cmd[p].now])
    /\ Goto(p, "record")
    /\ UNCHANGED <<job, holder, runs, assets>>

\* The event refers to the index (a foreign key), not to the file.
Record(p) ==
    /\ At(p, "record")
    /\ LET i == cmd[p].now
           got == cmd[p].got
       IN /\ got = "captured" => AssetOf[i] \in index
          /\ Appends(p, i, got, items[i].attempt)
          /\ cmd' = [cmd EXCEPT
               ![p].pc = "collect", ![p].head = @ + 1, ![p].now = 0, ![p].got = "none",
               ![p].stop = @ \/ got = "failed" \/ (got = "failed_retry" /\ StopOnError)]
    /\ UNCHANGED <<control, plan, deleted, judged, holder, runs, assets>>

WaveOver(p) ==
    /\ At(p, "collect") /\ cmd[p].out = {}
    /\ cmd' = [cmd EXCEPT ![p].pc = IF cmd[p].stop THEN "final" ELSE "wave"]
    /\ UNCHANGED <<job, holder, runs, assets>>

-----------------------------------------------------------------------------
(* The end of a run, and the plan                                          *)

\* Every dispatched read has its event: a stop is confirmed, or a plan made.
Final(p) ==
    /\ At(p, "final")
    /\ Goto(p, IF Stopping THEN "ack" ELSE "build")
    /\ UNCHANGED <<job, holder, runs, assets>>

\* preparation_ack: the newest request, if it is one to stop.
Acked == [control EXCEPT !.acked = @ \/ Stopping]

Acknowledge(p) ==
    /\ At(p, "ack") /\ Unlocked /\ holder = p
    /\ control' = Acked
    /\ Goto(p, "done")
    /\ UNCHANGED <<items, plan, deleted, judged, holder, runs, assets>>

\* publish_preparation_plan: every item captured, or, for `jobs publish
\* --skip-failed`, ended in a failure.
Complete(op) ==
    InState("captured") \cup
      (IF op = "publish" THEN InState("failed_retry") \cup InState("failed") ELSE {}) = Items

\* The plan is built and its assets are read before the transaction.
Build(p) ==
    /\ At(p, "build") /\ holder = p /\ cmd[p].head = Head
    /\ IF Complete(cmd[p].op) /\ InState("captured") # {}
       THEN /\ \A i \in InState("captured") : Verified(AssetOf[i])
            /\ cmd' = [cmd EXCEPT ![p].pc = "insert", ![p].out = InState("captured")]
       ELSE Goto(p, "done")
    /\ UNCHANGED <<job, holder, runs, assets>>

MayInsert == ~ Stopping

\* publish_revision_inner.  A plan that is there must be the same one
\* (otherwise PREPARATION_PLAN_CONFLICT ends the command).
Insert(p) ==
    /\ At(p, "insert") /\ holder = p
    /\ IF plan # {} THEN plan = cmd[p].out /\ plan' = plan
       ELSE /\ Unlocked
            /\ plan' = IF MayInsert THEN cmd[p].out ELSE plan
    /\ cmd' = [cmd EXCEPT ![p].pc = "done", ![p].out = {}]
    /\ UNCHANGED <<items, control, deleted, judged, holder, runs, assets>>

-----------------------------------------------------------------------------
(* The user: requests and deletion, without the lease                      *)

\* request_preparation_control: the same request again changes nothing, and
\* nothing follows a cancel.
Request(action) ==
    /\ Unlocked /\ ~ deleted
    /\ control.seq < MaxControls
    /\ control.action \notin {action, "cancel"}
    /\ control' = [action |-> action, seq |-> control.seq + 1, acked |-> FALSE]
    /\ UNCHANGED <<items, plan, deleted, judged, holder, cmd, runs, assets>>

\* (Mutant) The row of a dead worker counts as released; what it left started
\* is not looked at.
NobodyWorks == holder \in {Nobody, Dead}

\* No row of a worker is active and no item is left started.
IdleJob == holder = Nobody /\ InState("started") = {}

\* acknowledge_idle_preparation_stop, after a pause or cancel or when it is
\* asked for again.
AcknowledgeIdle ==
    /\ Unlocked /\ Stopping /\ ~ deleted /\ ~ control.acked /\ IdleJob
    /\ control' = Acked
    /\ UNCHANGED <<items, plan, deleted, judged, holder, cmd, runs, assets>>

\* delete: cancelled, or everything captured and published.
Terminal == control.action = "cancel" \/ (plan # {} /\ InState("captured") = Items)

JudgeDelete ==
    /\ ~ deleted /\ ~ judged
    /\ holder = Nobody /\ InState("started") = {} /\ Terminal
    /\ judged' = TRUE
    /\ UNCHANGED <<items, control, plan, deleted, holder, cmd, runs, assets>>

\* tombstone_job looks at the lease again, and at nothing else.
Entomb ==
    /\ judged /\ ~ deleted /\ Unlocked /\ holder = Nobody
    /\ deleted' = TRUE
    /\ UNCHANGED <<items, control, plan, judged, holder, cmd, runs, assets>>

-----------------------------------------------------------------------------
(* Assets: another command, time, and the prune                            *)

\* A command without a lease (`vocab revamp`, `plans edit`, ...): it publishes
\* an asset, reads it back and refers to it in a revision of its own.
OtherPublish(a) ==
    /\ other.pc = "idle"
    /\ Published(a)
    /\ other' = [pc |-> "published", asset |-> a]
    /\ UNCHANGED <<job, holder, cmd, runs, prune, prunes, lost>>

OtherVerify ==
    /\ other.pc = "published" /\ Verified(other.asset)
    /\ other' = [other EXCEPT !.pc = "verified"]
    /\ UNCHANGED <<job, holder, cmd, runs, file, index, prune, prunes, lost>>

OtherRefer ==
    /\ other.pc = "verified" /\ Unlocked /\ other.asset \in index
    /\ other' = [other EXCEPT !.pc = "refers"]
    /\ UNCHANGED <<job, holder, cmd, runs, file, index, prune, prunes, lost>>

OtherDies ==
    /\ other.pc \in {"published", "verified"}
    /\ other' = [other EXCEPT !.pc = "idle"]
    /\ UNCHANGED <<job, holder, cmd, runs, file, index, prune, prunes, lost>>

\* The orphan grace passes.  (A file a revision or an event refers to is of
\* no interest to a prune at any age.)
Age(a) ==
    /\ file[a] = "young"
    /\ file' = [file EXCEPT ![a] = "old"]
    /\ UNCHANGED <<job, holder, cmd, runs, index, prune, prunes, lost, other>>

ByCaptures == {AssetOf[i] : i \in InState("captured")}
ByOthers == IF other.pc = "refers" THEN {other.asset} ELSE {}

\* (Mutant) Only revisions are roots.
ReachableFromPlans == {AssetOf[i] : i \in plan} \cup ByOthers

\* census: every row of every table is a root.
Reachable == ByCaptures \cup ByOthers

NoLease == holder = Nobody

\* prune_assets under the write lock: the census, the rows, and the files moved
\* to the trash.  Retention and budget choose among the candidates.
PruneMove ==
    /\ prune.pc = "idle" /\ prunes < MaxPrunes
    /\ NoLease
    /\ \E moved \in SUBSET {a \in Assets \ Reachable : file[a] = "old"} :
         /\ moved # {}
         /\ prune' = [pc |-> "moved", moved |-> moved]
         /\ file' = [a \in Assets |-> IF a \in moved THEN "none" ELSE file[a]]
    /\ prunes' = prunes + 1
    /\ UNCHANGED <<job, holder, cmd, runs, index, lost, other>>

\* An error of a move or of the commit: the files go back, but for those whose
\* rename fails in its turn.  (When it was the commit that failed, the code has let
\* go of the database before it renames; here that is one step.)
PruneUndo ==
    /\ prune.pc = "moved"
    /\ \E stuck \in SUBSET prune.moved :
         /\ file' = [a \in Assets |-> IF a \in prune.moved \ stuck THEN "old" ELSE file[a]]
         /\ lost' = lost \cup stuck
    /\ prune' = [pc |-> "idle", moved |-> {}]
    /\ UNCHANGED <<job, holder, cmd, runs, index, prunes, other>>

\* The process dies: the rows are as they were, the files stay in the trash.
PruneDies ==
    /\ prune.pc = "moved"
    /\ lost' = lost \cup prune.moved
    /\ prune' = [pc |-> "idle", moved |-> {}]
    /\ UNCHANGED <<job, holder, cmd, runs, file, index, prunes, other>>

\* The rows of the index go with the commit; unlinking the trash, now or by the
\* next prune, changes nothing here.
PruneCommit ==
    /\ prune.pc = "moved"
    /\ index' = index \ prune.moved
    /\ prune' = [pc |-> "idle", moved |-> {}]
    /\ UNCHANGED <<job, holder, cmd, runs, file, prunes, lost, other>>

-----------------------------------------------------------------------------

Next ==
    \/ \E p \in Procs :
         \/ \E op \in {"run", "recover", "publish"} : Start(p, op)
         \/ Acquire(p) \/ Release(p) \/ Die(p) \/ Read(p)
         \/ Interrupt(p) \/ NextWave(p) \/ Dispatch(p) \/ DispatchBlocked(p) \/ Dispatched(p)
         \/ Poll(p) \/ Collect(p) \/ PublishAsset(p) \/ DieLinking(p) \/ Verify(p)
         \/ Record(p) \/ WaveOver(p) \/ Final(p) \/ Acknowledge(p) \/ Build(p) \/ Insert(p)
    \/ \E action \in {"pause", "resume", "cancel"} : Request(action)
    \/ AcknowledgeIdle \/ JudgeDelete \/ Entomb
    \/ \E a \in Assets : OtherPublish(a) \/ Age(a)
    \/ OtherVerify \/ OtherRefer \/ OtherDies
    \/ PruneMove \/ PruneUndo \/ PruneDies \/ PruneCommit

Spec == Init /\ [][Next]_vars

-----------------------------------------------------------------------------
(* Properties                                                              *)

Stages == {"pending", "started", "captured", "failed_retry", "failed", "interrupted"}

TypeOK ==
    /\ items \in [Items -> [stage : Stages, attempt : 0..MaxAttempts]]
    /\ control \in [action : {"none", "pause", "resume", "cancel"}, seq : 0..MaxControls,
                    acked : BOOLEAN]
    /\ plan \subseteq Items /\ deleted \in BOOLEAN /\ judged \in BOOLEAN
    /\ holder \in Procs \cup {Nobody, Dead}
    /\ file \in [Assets -> {"none", "young", "old"}]
    /\ index \subseteq Assets /\ lost \subseteq Assets

\* The reads a process has sent off and not recorded.
Reading(p) ==
    (IF cmd[p].op = "run" /\ cmd[p].pc # "insert" THEN cmd[p].out ELSE {})
      \cup (IF cmd[p].now = 0 THEN {} ELSE {cmd[p].now})

\* What a capture refers to is in the store, and so is what another command's
\* revision refers to unless a prune died or failed with it in its hands: whatever
\* is published, aged, pruned, lost and published again in between.
EvidenceIsThere ==
    /\ \A a \in ByCaptures : Verified(a)
    /\ \A a \in ByOthers \ lost : Verified(a)

\* A confirmed pause or cancel has stopped, whichever worker confirmed it and
\* even when the one it was meant for was dead: no item is left started, and no
\* read is in flight until a resume.
ConfirmedIsStopped ==
    control.acked => InState("started") = {} /\ \A p \in Procs : Reading(p) = {}

\* A read in flight is that of an item still started, by the process that holds
\* the lease: nobody recovers, reads again or deletes a note while it is read,
\* and no late answer becomes the capture of another attempt.
ReadsAreStarted ==
    \A p \in Procs : Reading(p) # {} =>
      holder = p /\ ~ deleted /\ Reading(p) \subseteq InState("started")

\* `jobs publish --skip-failed` of a job none of whose items can be read again
\* publishes what was captured (docs/cli/operations/campaign.md, OP-78): it does
\* not, when the last attempt at an item was interrupted.
SkipFailedPublishes ==
    [][\A p \in Procs :
         ( /\ cmd[p].op = "publish" /\ At(p, "build") /\ cmd'[p].pc = "done"
           /\ InState("captured") # {} )
         => \E i \in Items : items[i].stage \in {"pending", "started"} \/ Retryable(items[i])]_vars
=============================================================================
