------------------------------ MODULE Campaign ------------------------------
(***************************************************************************)
(* The ticks of a collection campaign (campaign/engine.rs) over the batch   *)
(* rows of the store (store/campaign.rs).  A tick holds the campaign lease  *)
(* and runs one write lane and several preparation workers; the user and    *)
(* the drafting agent issue commands (cli/campaign.rs) at any moment.       *)
(*                                                                         *)
(* A row is replaced by compare-and-set on its version.  The model has no   *)
(* version numbers: a reader remembers whether its row was written since,   *)
(* which is all the comparison can tell.                                    *)
(*                                                                         *)
(* A lane looks, claims, reads the row again, runs the commands of the step *)
(* as child processes and saves.  What the commands do to the plan and to   *)
(* the collection is told only as far as the next decision depends on it;   *)
(* BatchWrites looks inside the writing phases.                             *)
(***************************************************************************)
EXTENDS Naturals, FiniteSets, FiniteSetsExt

CONSTANTS
    Writer,             \* the write lane
    Workers,            \* the preparation workers
    Initial,            \* batches frozen at creation
    MaxBatches,         \* bound: batches after splits and requeues
    PrepareAhead,       \* limits.prepare_ahead at creation
    Limits,             \* what it is tuned to
    MaxStepFailures,    \* limits.max_step_failures
    HasPilot,           \* is the first batch the pilot?
    Commands,           \* the commands that can be issued, approvals apart
    MaxCommands         \* bound: how many of them are issued, tuning down apart

ASSUME CampaignAssumption ==
    /\ Writer \notin Workers
    /\ MaxBatches \in Nat /\ Initial \in 1..MaxBatches
    /\ Limits \subseteq Nat \ {0} /\ PrepareAhead \in Limits
    /\ MaxStepFailures \in Nat \ {0}
    /\ MaxCommands \in Nat

VARIABLES
    \* the store
    status,     \* of the campaign
    batches,    \* the batch rows
    agent,      \* does an agent run hold the needs_agent batches?
    \* the process of the tick
    stop,       \* Shared.stop: idle or any other reason; "off": no tick
    idle,       \* Shared.idle
    limit,      \* limits.prepare_ahead, of this tick or the next one
    lanes,      \* where each lane is
    issued      \* bound: the commands issued so far

shared == <<stop, idle, limit>>
vars == <<status, batches, agent, stop, idle, limit, lanes, issued>>

Lanes == Workers \cup {Writer}
Batches == 1..MaxBatches
PrepPhases == {"preparing", "reviewing", "needs_agent"}
WritePhases == {"approved", "applying", "verifying"}
Phases == {"absent", "selected", "ready", "done", "skipped", "deferred"}
            \cup PrepPhases \cup WritePhases
Terminal == {"cancelled", "closed"}

-----------------------------------------------------------------------------
(* The rows.                                                               *)

\* notes: how many; checked: how checked_revision compares with the head of the
\* plan; open: has the plan issues left to the agent; needs: what the last
\* review asked of the agent, issues of the plan or anything else; created
\* (history): an apply job of this batch exists.
NewBatch(notes, pilot) ==
    [phase |-> "selected", notes |-> notes, pilot |-> pilot, failures |-> 0,
     open |-> FALSE, checked |-> "none", needs |-> "none", deferred |-> FALSE,
     facts |-> FALSE, intent |-> FALSE, job |-> FALSE, created |-> FALSE]

NoBatch == [NewBatch(0, "no") EXCEPT !.phase = "absent"]

Existing == {b \in Batches : batches[b].phase # "absent"}
InPhase(phases) == {b \in Batches : batches[b].phase \in phases}
Oldest(set) == CHOOSE b \in set : \A c \in set : b <= c

Lane(pc) == [pc |-> pc, todo |-> {}, hold |-> FALSE, batch |-> 0, start |-> FALSE,
             stale |-> FALSE, undecided |-> FALSE, edited |-> FALSE]

Working == {"claimed", "step", "evaluated", "created"}
Claims == {lanes[w].batch : w \in {v \in Workers : lanes[v].pc \in Working}}

\* The lanes that took the row of b for a step have an old version after another
\* reader, none of those that write, has written it.
AtWork == {"step", "evaluated", "created"}

Outdate(b, writing) ==
    [m \in Lanes |-> IF m \notin writing /\ lanes[m].batch = b /\ lanes[m].pc \in AtWork
                     THEN [lanes[m] EXCEPT !.stale = TRUE] ELSE lanes[m]]

-----------------------------------------------------------------------------

Init ==
    /\ status = "running"
    /\ batches = [b \in Batches |->
                    IF b > Initial THEN NoBatch
                    ELSE NewBatch(2, IF HasPilot /\ b = 1 THEN "pilot" ELSE "no")]
    /\ agent = FALSE
    /\ stop = "off"
    /\ idle = [l \in Lanes |-> FALSE]
    /\ limit = PrepareAhead
    /\ lanes = [l \in Lanes |-> Lane("out")]
    /\ issued = 0

\* tick: one at a time, under the campaign lease.
TickStart ==
    /\ stop = "off"
    /\ stop' = "none"
    /\ idle' = [l \in Lanes |-> FALSE]
    /\ lanes' = [l \in Lanes |-> Lane("top")]
    /\ UNCHANGED <<status, batches, agent, limit>>

TickEnd ==
    /\ stop \notin {"off", "none"}
    /\ \A l \in Lanes : lanes[l].pc = "out"
    /\ stop' = "off"
    /\ idle' = [l \in Lanes |-> FALSE]
    /\ UNCHANGED <<status, batches, agent, lanes, limit>>

\* The process is killed; a child finishes the command it runs, so an apply job
\* may still come to exist.
Crash ==
    /\ stop # "off"
    /\ stop' = "off"
    /\ idle' = [l \in Lanes |-> FALSE]
    /\ lanes' = [l \in Lanes |-> Lane("out")]
    /\ LET b == lanes[Writer].batch IN
         \/ UNCHANGED batches
         \/ /\ lanes[Writer].pc = "step"
            /\ batches[b].phase = "approved" /\ batches[b].intent
            /\ batches' = [batches EXCEPT ![b].created = TRUE]
    /\ UNCHANGED <<status, agent, limit>>

GetOrInsert(why) == IF stop = "none" THEN why ELSE stop

\* lane_loop, the checks before a step: the tick is over for another lane, the
\* campaign does not run any more, or the time of the tick is spent.
Leave(l) ==
    /\ lanes[l].pc = "top"
    /\ stop' = GetOrInsert("stopped")
    /\ lanes' = [lanes EXCEPT ![l] = Lane("out")]
    /\ UNCHANGED <<status, batches, agent, idle, limit>>

MayStep(l) == lanes[l].pc = "top" /\ stop = "none" /\ status = "running"

\* prep_lane: the snapshot of the batches that a worker will go through.
Look(w) ==
    /\ w \in Workers /\ MayStep(w)
    /\ lanes' = [lanes EXCEPT ![w] =
         [Lane("scan") EXCEPT !.hold = agent,
                              !.todo = InPhase(IF agent THEN PrepPhases \ {"needs_agent"}
                                               ELSE PrepPhases)]]
    /\ UNCHANGED <<status, batches, agent, shared>>

\* (Mutant) The snapshot alone is trusted.
ClaimableAlways(b) == TRUE

\* The next batch of the snapshot, unless another worker holds it.
Claimable(b) == b \notin Claims

Claim(w) ==
    /\ lanes[w].pc = "scan" /\ lanes[w].todo # {}
    /\ LET b == Oldest(lanes[w].todo) IN
         lanes' = [lanes EXCEPT ![w].todo = @ \ {b},
                                ![w].batch = IF Claimable(b) THEN b ELSE 0,
                                ![w].pc = IF Claimable(b) THEN "claimed" ELSE "scan"]
    /\ UNCHANGED <<status, batches, agent, shared>>

\* (Mutant) A batch that is being started is not counted yet.
InFlightByPhase == InPhase({"preparing", "reviewing", "needs_agent", "ready", "approved"})

\* The batches under way, as counted with the claims locked.
InFlight ==
    InPhase({"preparing", "reviewing", "needs_agent", "ready", "approved"})
      \cup (InPhase({"selected"}) \cap Claims)

\* Nothing of the snapshot moved: a new batch is claimed, while there is room.
ClaimNew(w) ==
    /\ lanes[w].pc = "scan" /\ lanes[w].todo = {}
    /\ LET new == InPhase({"selected"}) \ Claims IN
         IF Cardinality(InFlight) >= limit \/ new = {}
         THEN lanes' = [lanes EXCEPT ![w] = Lane("nothing")]
         ELSE lanes' = [lanes EXCEPT ![w] = [Lane("claimed") EXCEPT !.batch = Oldest(new),
                                                                    !.start = TRUE]]
    /\ UNCHANGED <<status, batches, agent, shared>>

\* write_lane: the oldest batch that is being written.
LookToWrite ==
    /\ MayStep(Writer)
    /\ LET todo == InPhase(WritePhases) IN
         lanes' = [lanes EXCEPT ![Writer] =
           IF todo = {} THEN Lane("nothing")
           ELSE [Lane("claimed") EXCEPT !.batch = Oldest(todo), !.start = TRUE]]
    /\ UNCHANGED <<status, batches, agent, shared>>

\* A step that does not move the batch: a worker goes on with its snapshot, a
\* lane that had one batch to try found nothing to do.
Unmoved(l) ==
    IF lanes[l].start THEN Lane("nothing")
    ELSE [lanes[l] EXCEPT !.pc = "scan", !.batch = 0, !.stale = FALSE,
                          !.undecided = FALSE, !.edited = FALSE]

Wanted(l) ==
    IF l = Writer THEN WritePhases
    ELSE IF lanes[l].start THEN {"selected"}
    ELSE IF lanes[l].hold THEN PrepPhases \ {"needs_agent"} ELSE PrepPhases

\* needs_met: what was asked of the agent are issues of the plan it has settled.
NeedsMet(r) == r.needs = "issues" /\ ~ r.open

AwaitsAgent(r) == r.phase = "needs_agent" /\ r.checked = "current" /\ ~ NeedsMet(r)

\* step_fresh: the row is read again before the step.
ReadFresh(l) ==
    /\ lanes[l].pc = "claimed"
    /\ LET r == batches[lanes[l].batch] IN
         lanes' = [lanes EXCEPT ![l] =
           IF r.phase \in Wanted(l) /\ ~ AwaitsAgent(r)
           THEN [lanes[l] EXCEPT !.pc = "step", !.stale = FALSE]
           ELSE Unmoved(l)]
    /\ UNCHANGED <<status, batches, agent, shared>>

-----------------------------------------------------------------------------
(* The steps.  Each ends in one of: the row is saved (the step moved), or    *)
(* it waits, or it fails, or it pauses the campaign.                        *)

\* save: a row written meanwhile is refused.
Saves(l, row) ==
    /\ ~ lanes[l].stale
    /\ LET b == lanes[l].batch IN
         /\ batches' = [batches EXCEPT ![b] = row]
         /\ lanes' = [Outdate(b, {l}) EXCEPT ![l] = Lane("moved")]
    /\ UNCHANGED <<status, agent, shared>>

\* moved: saved, with the step's failures forgotten.
MovesTo(l, row) == Saves(l, [row EXCEPT !.failures = 0])

\* The row is halved; the second half is a new batch with the next number.
SplitMoves(l) ==
    /\ ~ lanes[l].stale
    /\ LET b == lanes[l].batch
           n == Cardinality(Existing) + 1
       IN
       /\ batches[b].notes > 1 /\ n <= MaxBatches
       /\ batches' = [batches EXCEPT ![b] = NewBatch(1, batches[b].pilot),
                                     ![n] = NewBatch(1, "no")]
       /\ lanes' = [Outdate(b, {l}) EXCEPT ![l] = Lane("moved")]
    /\ UNCHANGED <<status, agent, shared>>

\* A service, Anki or the agent is away.
Waits(l) ==
    /\ lanes[l].pc \in {"step", "evaluated"}
    /\ lanes' = [lanes EXCEPT ![l] = Unmoved(l)]
    /\ UNCHANGED <<status, batches, agent, shared>>

\* guarded: an error, a save that was refused among them, is counted on the row
\* as it is now; too many in a row pause the campaign.
Fails(l) ==
    /\ lanes[l].pc \in {"step", "evaluated", "created"}
    /\ LET b == lanes[l].batch
           n == Min({batches[b].failures + 1, MaxStepFailures})
       IN
       /\ batches' = [batches EXCEPT ![b].failures = n]
       /\ lanes' = [Outdate(b, {l}) EXCEPT ![l] =
                      IF n < MaxStepFailures THEN Unmoved(l) ELSE Lane("pause")]
    /\ UNCHANGED <<status, agent, shared>>

\* start: the job that reads the notes is created, or a batch known to be too
\* large is halved.
Start(w) ==
    /\ lanes[w].pc = "step"
    /\ LET r == batches[lanes[w].batch] IN
         /\ r.phase = "selected"
         /\ \/ MovesTo(w, [r EXCEPT !.phase = "preparing"])
            \/ SplitMoves(w)

\* prepare: the job is run; its plan is published, or not yet, or the batch is
\* halved, or nothing could be read.
Prepare(w) ==
    /\ lanes[w].pc = "step"
    /\ LET r == batches[lanes[w].batch] IN
         /\ r.phase = "preparing"
         /\ \/ \E open \in BOOLEAN :
                 MovesTo(w, [r EXCEPT !.phase = "reviewing", !.open = open,
                                      !.checked = "none", !.needs = "none"])
            \/ MovesTo(w, r)
            \/ MovesTo(w, [r EXCEPT !.phase = "skipped", !.deferred = TRUE])
            \/ SplitMoves(w)

\* review, until the last policy pass: the issues it could not decide are those
\* of the plan at that moment.
Evaluate(w) ==
    /\ lanes[w].pc = "step"
    /\ LET r == batches[lanes[w].batch] IN
         /\ r.phase \in {"reviewing", "needs_agent"}
         /\ lanes' = [lanes EXCEPT ![w].pc = "evaluated", ![w].undecided = r.open,
                                   ![w].edited = FALSE]
    /\ UNCHANGED <<status, batches, agent, shared>>

\* The plan has another revision, so that what was checked is an older one.
Revised(r, open) ==
    [r EXCEPT !.open = open,
              !.checked = IF r.checked = "current" THEN "older" ELSE r.checked]

\* review, another revision of the plan before its end: the merged notes' content
\* is added; or, and then the failures are still counted (reenrich), an item is
\* enriched again.
ReviewAgain(w) ==
    /\ lanes[w].pc = "step"
    /\ LET r == batches[lanes[w].batch] IN
         /\ r.phase \in {"reviewing", "needs_agent"}
         /\ \E open \in BOOLEAN :
              MovesTo(w, Revised(r, open)) \/ Saves(w, Revised(r, open))

\* review, the end: needs are the undecided issues and what is no issue of the
\* plan (a failed draft, a split candidate); the batch is ready on the final
\* head of the plan.
Judge(w) ==
    /\ lanes[w].pc = "evaluated"
    /\ LET r == batches[lanes[w].batch]
           checked == IF lanes[w].edited THEN "older" ELSE "current"
       IN
       \E more \in BOOLEAN :
         LET needs == IF more THEN "other"
                      ELSE IF lanes[w].undecided THEN "issues"
                      ELSE IF r.open THEN "other" ELSE "none"
         IN MovesTo(w, [r EXCEPT !.phase = IF needs = "none" THEN "ready" ELSE "needs_agent",
                                 !.needs = needs, !.checked = checked])

\* approved: the card facts are read (of no note, when all are gone), then the
\* intent of a job is recorded, then the job is created; only then is it recorded.
\* A batch of split groups alone, which has no job, is in BatchWrites.
ApprovedStep ==
    /\ lanes[Writer].pc = "step"
    /\ LET b == lanes[Writer].batch
           r == batches[b]
       IN
       /\ r.phase = "approved"
       /\ \/ ~ r.facts /\ \E read \in BOOLEAN : MovesTo(Writer, [r EXCEPT !.facts = read])
          \/ r.facts /\ ~ r.intent /\ MovesTo(Writer, [r EXCEPT !.intent = TRUE])
          \/ /\ r.facts /\ r.intent
             /\ batches' = [batches EXCEPT ![b].created = TRUE]
             /\ lanes' = [lanes EXCEPT ![Writer].pc = "created"]
             /\ UNCHANGED <<status, agent, shared>>

RecordJob ==
    /\ lanes[Writer].pc = "created"
    /\ LET r == batches[lanes[Writer].batch] IN
         MovesTo(Writer, [r EXCEPT !.phase = "applying", !.intent = FALSE, !.job = TRUE])

\* applying and verifying: BatchWrites has the detail.
ApplyingStep ==
    /\ lanes[Writer].pc = "step"
    /\ LET r == batches[lanes[Writer].batch] IN
         /\ r.phase = "applying"
         /\ MovesTo(Writer, [r EXCEPT !.phase = "verifying"])

VerifyingStep ==
    /\ lanes[Writer].pc = "step"
    /\ LET r == batches[lanes[Writer].batch] IN
         /\ r.phase = "verifying"
         /\ MovesTo(Writer, [r EXCEPT !.phase = "done"])

\* A guardrail: drafts of an engine no longer certified, a job that halted, a
\* note that does not verify.
Pauses(l) ==
    /\ lanes[l].pc = "step"
    /\ batches[lanes[l].batch].phase \in {"reviewing", "needs_agent", "applying", "verifying"}
    /\ lanes' = [lanes EXCEPT ![l] = Lane("pause")]
    /\ UNCHANGED <<status, batches, agent, shared>>

-----------------------------------------------------------------------------
(* What a lane does with the outcome of its step.                           *)

\* pause: only a running campaign is paused; a change of status that crosses it
\* has it refused, and the tick stops with the error (in the model: whenever such
\* commands are issued).
Paused == IF status = "running" THEN "paused" ELSE status

PauseCampaign(l) ==
    /\ lanes[l].pc = "pause"
    /\ \/ status' = Paused
       \/ "status" \in Commands /\ UNCHANGED status
    /\ stop' = GetOrInsert("stopped")
    /\ lanes' = [lanes EXCEPT ![l] = Lane("out")]
    /\ UNCHANGED <<batches, agent, idle, limit>>

\* The step moved: every lane has to look again.
Moved(l) ==
    /\ lanes[l].pc = "moved"
    /\ idle' = [m \in Lanes |-> FALSE]
    /\ lanes' = [lanes EXCEPT ![l] = Lane(IF l = Writer THEN "pilot" ELSE "top")]
    /\ UNCHANGED <<status, batches, agent, stop, limit>>

\* pilot_review: the pilot is marked as reviewed, and then the campaign is paused.
PilotReview ==
    /\ lanes[Writer].pc = "pilot"
    /\ LET pilot == {b \in InPhase({"done"}) : batches[b].pilot = "pilot"} IN
         IF pilot = {}
         THEN /\ lanes' = [lanes EXCEPT ![Writer] = Lane("top")]
              /\ UNCHANGED batches
         ELSE /\ batches' = [batches EXCEPT ![Oldest(pilot)].pilot = "reviewed"]
              /\ lanes' = [lanes EXCEPT ![Writer] = Lane("pause")]
    /\ UNCHANGED <<status, agent, shared>>

\* The step found nothing: the last of the lanes to say so ends the tick.
Nothing(l) ==
    /\ lanes[l].pc = "nothing"
    /\ idle' = [idle EXCEPT ![l] = TRUE]
    /\ IF \A m \in Lanes : idle'[m]
       THEN /\ stop' = GetOrInsert("idle")
            /\ lanes' = [lanes EXCEPT ![l] = Lane("out")]
       ELSE /\ lanes' = [lanes EXCEPT ![l] = Lane("top")]
            /\ UNCHANGED stop
    /\ UNCHANGED <<status, batches, agent, limit>>

-----------------------------------------------------------------------------
(* The commands of the user and of the agent.                               *)

Issue(command) ==
    /\ command \in Commands /\ issued < MaxCommands
    /\ issued' = issued + 1

\* A command replaces a row it has just read.
Replaces(b, row) ==
    /\ batches' = [batches EXCEPT ![b] = row]
    /\ lanes' = Outdate(b, {})
    /\ UNCHANGED <<status, agent, shared>>

\* pause, resume, cancel, close: a finished campaign stays so.
SetStatus(to) ==
    /\ Issue("status")
    /\ status \notin Terminal
    /\ status # to
    /\ status' = to
    /\ UNCHANGED <<batches, agent, shared, lanes>>

\* tune: a running tick keeps its limits, so that tuning during a tick is as good
\* as tuning after it.
Tune(ahead) ==
    /\ stop = "off" /\ status \notin Terminal
    /\ ahead # limit
    /\ limit' = ahead
    /\ IF ahead > limit THEN Issue("tune") ELSE UNCHANGED issued
    /\ UNCHANGED <<status, batches, agent, stop, idle, lanes>>

\* What the reviews left on the row is not looked at again.
Decided(row, phase) ==
    [row EXCEPT !.phase = phase, !.open = FALSE, !.checked = "none", !.needs = "none",
                !.failures = 0]

\* approve, a batch that is ready: what validates is approved, or every note is
\* deferred.  That the campaign runs is looked at before, and may have changed.
Approve(b) ==
    /\ batches[b].phase = "ready"
    /\ \/ Replaces(b, Decided(batches[b], "approved"))
       \/ Replaces(b, [Decided(batches[b], "done") EXCEPT !.deferred = TRUE])

\* approve, of a batch the agent decided too much of.
ApproveRefused(b) ==
    /\ batches[b].phase = "ready" /\ batches[b].pilot = "no"
    /\ status = "running"
    /\ status' = "paused"
    /\ UNCHANGED <<batches, agent, shared, lanes>>

\* item: a note is settled or deferred, and the batch is reviewed again.
Item(b) ==
    /\ Issue("item")
    /\ batches[b].phase \in {"reviewing", "needs_agent", "ready"}
    /\ \E needs \in {"none", batches[b].needs} :
         Replaces(b, [batches[b] EXCEPT !.phase = "needs_agent", !.checked = "none",
                                        !.needs = needs])

\* (Mutant) Only a recorded job counts.
UnwrittenJob(r) == ~ r.job

\* Nothing was written for the batch, nor is about to be.
Unwritten(r) == ~ r.job /\ ~ r.intent

Reopen(b) ==
    /\ Issue("reopen")
    /\ batches[b].phase = "approved"
    /\ Unwritten(batches[b])
    /\ \E open \in BOOLEAN :
         Replaces(b, [batches[b] EXCEPT !.phase = "reviewing", !.facts = FALSE,
                                        !.checked = "none", !.open = open])

ReopenFresh(b) ==
    /\ Issue("fresh")
    /\ batches[b].phase \in {"ready", "needs_agent", "approved"}
    /\ Unwritten(batches[b])
    /\ Replaces(b, [NewBatch(batches[b].notes, batches[b].pilot)
                      EXCEPT !.created = batches[b].created])

Skip(b) ==
    /\ Issue("skip")
    /\ batches[b].phase \in {"selected", "ready"} \cup PrepPhases
    /\ Replaces(b, Decided(batches[b], "deferred"))

\* requeue: under the campaign lease, the deferred notes of a finished batch go
\* round again in a new one.
Requeue(b) ==
    /\ Issue("requeue")
    /\ stop = "off" /\ status \notin Terminal
    /\ batches[b].phase \in {"done", "skipped"} /\ batches[b].deferred
    /\ LET n == Cardinality(Existing) + 1 IN
         /\ n <= MaxBatches
         /\ batches' = [batches EXCEPT ![b].phase = "done", ![b].deferred = FALSE,
                                       ![n] = NewBatch(1, "no")]
    /\ UNCHANGED <<status, agent, shared, lanes>>

\* agent-slot starts a run; agent-done, or its age, ends the hold.
AgentSlot ==
    /\ Issue("agent")
    /\ ~ agent
    /\ agent' = TRUE
    /\ UNCHANGED <<status, batches, shared, lanes>>

AgentDone ==
    /\ agent
    /\ agent' = FALSE
    /\ UNCHANGED <<status, batches, shared, lanes>>

\* The agent decides an issue, or reopens one: a revision of the plan, and not
\* of the row.
AgentEdits(b) ==
    /\ Issue("edit")
    /\ batches[b].phase \in {"reviewing", "needs_agent", "ready"}
    /\ \E open \in BOOLEAN :
         batches' = [batches EXCEPT ![b] = Revised(batches[b], open)]
    /\ lanes' = [m \in Lanes |-> IF lanes[m].batch = b /\ lanes[m].pc = "evaluated"
                                 THEN [lanes[m] EXCEPT !.edited = TRUE] ELSE lanes[m]]
    /\ UNCHANGED <<status, agent, shared>>

-----------------------------------------------------------------------------

Command ==
    \/ \E ahead \in Limits : Tune(ahead)
    \/ \E to \in {"running", "paused", "closed"} : SetStatus(to)
    \/ \E b \in Batches : \/ Item(b) \/ Reopen(b) \/ ReopenFresh(b)
                          \/ Skip(b) \/ Requeue(b) \/ AgentEdits(b)
    \/ AgentSlot

Step(l) ==
    \/ Waits(l) \/ Fails(l) \/ Pauses(l)
    \/ l \in Workers /\ (Start(l) \/ Prepare(l) \/ Evaluate(l) \/ ReviewAgain(l) \/ Judge(l))
    \/ l = Writer /\ (ApprovedStep \/ RecordJob \/ ApplyingStep \/ VerifyingStep)

LaneAction(l) ==
    \/ Leave(l) \/ Look(l)
    \/ l \in Workers /\ (Claim(l) \/ ClaimNew(l))
    \/ l = Writer /\ (LookToWrite \/ PilotReview)
    \/ ReadFresh(l) \/ Step(l)
    \/ PauseCampaign(l) \/ Moved(l) \/ Nothing(l)

Free ==
    \/ TickStart \/ TickEnd \/ Crash \/ AgentDone
    \/ \E b \in Batches : Approve(b) \/ ApproveRefused(b)
    \/ \E l \in Lanes : LaneAction(l)

Next == Command \/ (Free /\ UNCHANGED issued)

Spec == Init /\ [][Next]_vars

-----------------------------------------------------------------------------
(* Properties.                                                             *)

TypeOK ==
    /\ status \in {"running", "paused"} \cup Terminal
    /\ batches \in [Batches ->
         [phase : Phases, notes : 0..2, pilot : {"no", "pilot", "reviewed"},
          failures : 0..MaxStepFailures, open : BOOLEAN,
          checked : {"none", "current", "older"}, needs : {"none", "issues", "other"},
          deferred : BOOLEAN, facts : BOOLEAN, intent : BOOLEAN, job : BOOLEAN,
          created : BOOLEAN]]
    /\ agent \in BOOLEAN
    /\ issued \in 0..MaxCommands
    /\ limit \in Limits
    /\ stop \in {"off", "none", "idle", "stopped"}
    /\ idle \in [Lanes -> BOOLEAN]
    /\ \A l \in Lanes : lanes[l].pc \in {"out", "top", "scan", "pause", "moved", "pilot",
                                        "nothing"} \cup Working

\* However the looks, claims, reopenings and saves interleave, two lanes never
\* work on one batch with a row that is still the current one: of the children
\* they run, those of one lane only can count (the claims of prep_lane, the
\* phases of the write lane, the fresh read).
OneLaneMayMove ==
    \A l, m \in Lanes :
        /\ l # m /\ lanes[l].batch = lanes[m].batch
        /\ lanes[l].pc \in AtWork /\ lanes[m].pc \in AtWork
        => lanes[l].stale \/ lanes[m].stale

\* However many workers start batches at once, and whatever is reopened, split
\* or requeued meanwhile: a step that gets a batch under way leaves no more under
\* way, prepared and not yet written, than prepare_ahead is when it is taken.
\* (A limit that is tuned down leaves those that are.)
Starting ==
    {lanes[w].batch : w \in {v \in Workers : lanes[v].pc \in Working /\ lanes[v].start}}
      \cap InPhase({"selected"})

AheadPhases == PrepPhases \cup {"ready", "approved"}

Ahead == InPhase(AheadPhases) \cup Starting

PreparedAhead ==
    [][Ahead' \subseteq Ahead \/ Cardinality(Ahead') <= limit]_vars

\* From the moment an apply job exists, recorded or orphaned by a killed tick,
\* its batch is never back before its approval, where it would be prepared or
\* decided anew while the job can write the old decision.
JobsAreLocked ==
    \A b \in Batches :
        batches[b].created => \/ batches[b].phase \in WritePhases \cup {"done"}

\* Once the pilot is done and marked, the campaign stands still until the user
\* resumes it ("The pilot stops the campaign for the user's review").
PilotStops ==
    /\ \E b \in Batches : batches[b].pilot = "reviewed"
    /\ lanes[Writer].pc # "pause"
    /\ "status" \notin Commands
    => status # "running"

=============================================================================
