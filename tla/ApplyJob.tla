------------------------------ MODULE ApplyJob ------------------------------
(***************************************************************************)
(* An apply or simulate job: the worker that runs it                       *)
(* (crates/linguist-application/src/job_executor.rs), its durable events   *)
(* (crates/linguist-store/src/apply_job.rs), and the commands that pause,  *)
(* cancel, retry and delete it while the worker runs.                      *)
(*                                                                         *)
(* The event log is kept as its fold.  One worker process at a time owns   *)
(* the job's lease (Lease, OneInside); it may stall past the deadline, die *)
(* between any two durable steps, and be replaced.  What happens inside an *)
(* operation is module Apply's; here an operation is the standing of its   *)
(* journal.                                                                *)
(***************************************************************************)
EXTENDS Naturals, FiniteSets, FiniteSetsExt

CONSTANTS
    NItems,         \* items of the job, in frozen order
    MaxAttempts,    \* jobs.max_item_attempts
    Modes,          \* "apply", "simulate"
    Policies,       \* "stop", "continue"
    MaxControls,    \* bound: pause, resume and cancel events
    MaxStarts       \* bound: attempts of all items together

ASSUME BoundsAssumption ==
    NItems \in Nat \ {0} /\ MaxAttempts \in Nat \ {0} /\ MaxControls \in Nat

VARIABLES
    mode,       \* frozen in the definition
    policy,     \* jobs.on_item_error
    item,       \* per item, what its newest events say
    control,    \* the newest control event: its action and its number
    acked,      \* the number of the control the newest acknowledgement names
    stopped,    \* is there a stop event after the newest control event?
    halted,     \* is the newest stop event for a halt?
    tombstone,
    lease,      \* the job lease: free, held, expired (owner alive), dead
    operation,  \* per item and attempt, the journal of its operation
    worker,     \* the process that runs the job
    command     \* a retry or delete command that has judged the job

definition == <<mode, policy>>
log == <<definition, item, control, acked, stopped, halted, tombstone>>
vars == <<mode, policy, item, control, acked, stopped, halted, tombstone,
          lease, operation, worker, command>>

Items == 1..NItems
Attempts == 1..MaxAttempts

Classes == {"none", "transient", "halt", "permanent", "reconcile"}
ItemStates == {"pending", "started", "committed", "simulated",
               "failed_before_write", "failed", "needs_recovery"}
Succeeded == {"committed", "simulated"}

\* none: no intent or no journal; open: nothing was sent yet; unresolved: sent,
\* or partly done.
Operations == {"none", "open", "unresolved", "failed", "committed", "restored"}

Fresh == [state |-> "pending", attempt |-> 0, eligible |-> FALSE,
          retry |-> FALSE, interrupted |-> FALSE]
NoOutcome == [state |-> "pending", class |-> "none", interrupted |-> FALSE]
NoWorker == [at |-> "none", todo |-> {}, found |-> FALSE, ack |-> 0,
             reason |-> "none", outcome |-> NoOutcome]

Init ==
    /\ mode \in Modes
    /\ policy \in Policies
    /\ item = [i \in Items |-> Fresh]
    /\ control = [action |-> "none", number |-> 0]
    /\ acked = 0
    /\ stopped = FALSE
    /\ halted = FALSE
    /\ tombstone = FALSE
    /\ lease = "free"
    /\ operation = [i \in Items |-> [a \in Attempts |-> "none"]]
    /\ worker = NoWorker
    /\ command = <<"none">>

-----------------------------------------------------------------------------
(* fold                                                                    *)

In(S) == {i \in Items : item[i].state \in S}

Stopping == control.action \in {"pause", "cancel"}
Confirmed == Stopping /\ acked = control.number

\* retry_eligible; "eligible" is what the class of the newest outcome says of it.
RetryEligible(i) == item[i].eligible /\ item[i].attempt < MaxAttempts

Running == lease \in {"held", "expired"}

Status ==
    IF control.action = "cancel" THEN IF Confirmed THEN "cancelled" ELSE "cancel_requested"
    ELSE IF control.action = "pause" THEN IF Confirmed THEN "paused" ELSE "pause_requested"
    ELSE IF In({"started"}) # {} THEN IF Running THEN "running" ELSE "interrupted"
    ELSE IF In({"needs_recovery"}) # {} THEN "needs_recovery"
    ELSE IF Running THEN "running"
    ELSE IF halted THEN "halted"
    ELSE IF In({"pending"}) # {} THEN "pending"
    ELSE IF In(Succeeded) = Items THEN "completed"
    ELSE "finished_with_failures"

-----------------------------------------------------------------------------
(* append_apply_job_event: worker transitions                              *)

At(place) == worker.at = place
Goto(place) == worker' = [worker EXCEPT !.at = place]
Current == Min(worker.todo)

\* validate_job_worker_token and the tombstone, in the event's transaction.
MayAppend == lease = "held" /\ ~ tombstone

\* (Mutant) The newest control is read once, before the first item.
NothingBlocks == TRUE

\* The newest control is checked again in the transaction of the start.
MayStart == ~ Stopping

AppendStarted(i) ==
    /\ MayAppend
    /\ MayStart
    /\ item[i].state # "started"
    /\ item[i].attempt < MaxAttempts
    /\ item' = [item EXCEPT ![i] =
           [Fresh EXCEPT !.state = "started", !.attempt = item[i].attempt + 1]]

\* A finish follows its own start, or replaces an unresolved outcome.
AppendFinished(i, outcome) ==
    /\ MayAppend
    /\ item[i].state \in {"started", "needs_recovery"}
    /\ item' = [item EXCEPT ![i] =
           [state |-> outcome.state, attempt |-> item[i].attempt,
            eligible |-> outcome.class \in {"transient", "halt"},
            retry |-> FALSE, interrupted |-> outcome.interrupted]]

AppendStopped(reason, number) ==
    /\ stopped' = TRUE
    /\ halted' = (reason = "halted")
    /\ acked' = IF number # 0 THEN number ELSE acked

-----------------------------------------------------------------------------
(* The worker: run and drive                                               *)

\* run: the tombstone is looked at before the lease is asked for.
Run ==
    /\ At("none")
    /\ ~ tombstone
    /\ Goto("called")
    /\ UNCHANGED <<log, lease, operation, command>>

\* (Mutant) Only unknown outcomes are accounted for, not unfinished starts.
UnknownOnly == In({"needs_recovery"})

\* Every unfinished or unknown item is accounted for before anything else.
Unaccounted == In({"started", "needs_recovery"})

\* A dead owner's lease is taken over once it has expired.
AcquireLease ==
    /\ At("called")
    /\ lease \in {"free", "dead"}
    /\ lease' = "held"
    /\ worker' = [NoWorker EXCEPT !.at = "account", !.todo = Unaccounted]
    /\ UNCHANGED <<log, operation, command>>

\* (Mutant) A start without an operation is taken for done.
AccountedTrusting(standing) ==
    IF standing \in {"none", "committed", "restored"}
    THEN [state |-> "committed", class |-> "none", interrupted |-> FALSE]
    ELSE [state |-> "needs_recovery", class |-> "reconcile", interrupted |-> FALSE]

\* What account makes of an operation whose journal now stands so.
Accounted(standing) ==
    CASE standing = "none" ->
           [state |-> "failed_before_write", class |-> "transient", interrupted |-> TRUE]
      [] standing \in {"committed", "restored"} ->
           [state |-> "committed", class |-> "none", interrupted |-> FALSE]
      [] standing = "failed" ->
           [state |-> "failed_before_write", class |-> "transient", interrupted |-> FALSE]
      [] OTHER ->
           [state |-> "needs_recovery", class |-> "reconcile", interrupted |-> FALSE]

\* apply::reconcile of one operation, or an error on the way.
Reconciled(standing) ==
    IF standing = "open" THEN {"open", "unresolved", "failed", "committed"}
    ELSE IF standing = "unresolved" THEN {"unresolved", "failed", "committed"}
    ELSE {standing}

\* account, up to its append.  It looks for the operation the newest event
\* names or, if that names none, the one allocated last: the newest attempt's.
Account ==
    /\ At("account") /\ worker.todo # {}
    /\ lease = "held"
    /\ \E standing \in Reconciled(operation[Current][item[Current].attempt]) :
          /\ operation' = [operation EXCEPT ![Current][item[Current].attempt] = standing]
          /\ worker' = [worker EXCEPT !.at = "accounted", !.outcome = Accounted(standing)]
    /\ UNCHANGED <<log, lease, command>>

RecordAccount ==
    /\ At("accounted")
    /\ LET i == Current
           outcome == worker.outcome
       IN  /\ \/ AppendFinished(i, outcome)
              \/ /\ outcome.state = "needs_recovery" /\ item[i].state = "needs_recovery"
                 /\ UNCHANGED item
           /\ worker' = [worker EXCEPT !.at = "account", !.todo = @ \ {i}, !.outcome = NoOutcome,
                                       !.found = @ \/ outcome.state = "needs_recovery"]
    /\ UNCHANGED <<definition, control, acked, stopped, halted, tombstone, lease, operation, command>>

StopWith(reason) == worker' = [NoWorker EXCEPT !.at = "stop", !.reason = reason]
End == worker' = [NoWorker EXCEPT !.at = "end"]

\* Nothing is dispatched while an outcome is unresolved.
FinishAccounting ==
    /\ At("account") /\ worker.todo = {}
    /\ IF worker.found THEN StopWith("recovery_required") ELSE Goto("control")
    /\ UNCHANGED <<log, lease, operation, command>>

\* (Mutant) The stop event names itself.
ReadControlOwn(blocked) ==
    /\ Stopping \/ blocked
    /\ worker' = [NoWorker EXCEPT
           !.at = "acknowledge",
           !.ack = IF stopped THEN 0 ELSE control.number + 1,
           !.reason = IF control.action = "cancel" THEN "cancelled" ELSE "paused"]

\* acknowledge, its read: a control with any stop event after it counts as
\* acknowledged.
ReadControl(blocked) ==
    /\ Stopping \/ blocked
    /\ worker' = [NoWorker EXCEPT
           !.at = "acknowledge",
           !.ack = IF stopped THEN 0 ELSE control.number,
           !.reason = IF control.action = "cancel" THEN "cancelled" ELSE "paused"]

HonourControl ==
    /\ At("control")
    /\ ReadControl(FALSE) \/ (~ Stopping /\ Goto("select"))
    /\ UNCHANGED <<log, lease, operation, command>>

Acknowledge ==
    /\ At("acknowledge")
    /\ IF worker.ack = 0 THEN UNCHANGED <<stopped, halted, acked>>
       ELSE MayAppend /\ AppendStopped(worker.reason, worker.ack)
    /\ End
    /\ UNCHANGED <<definition, item, control, tombstone, lease, operation, command>>

Eligible ==
    {i \in Items :
        \/ item[i].state = "pending"
        \/ /\ item[i].attempt < MaxAttempts
           /\ \/ item[i].retry /\ RetryEligible(i)
              \/ item[i].state = "failed_before_write" /\ item[i].interrupted}

\* The items are chosen once; the checkpoint's session may have ended.
Select ==
    /\ At("select")
    /\ \/ worker' = [worker EXCEPT !.at = "dispatch", !.todo = Eligible]
       \/ mode = "apply" /\ Eligible # {} /\ StopWith("halted")
    /\ UNCHANGED <<log, lease, operation, command>>

Starts == Cardinality({p \in Items \X Attempts : p[2] =< item[p[1]].attempt})

\* The start is recorded with its operation id before any intent.
Start ==
    /\ At("dispatch") /\ worker.todo # {}
    /\ Starts < MaxStarts
    /\ AppendStarted(Current)
    /\ Goto("apply")
    /\ UNCHANGED <<definition, control, acked, stopped, halted, tombstone, lease, operation, command>>

\* APPLY_JOB_CONTROL_BLOCKS_DISPATCH: by the time the control is read again it
\* may be another one.
Blocked ==
    /\ At("dispatch") /\ worker.todo # {}
    /\ MayAppend
    /\ ~ MayStart
    /\ Goto("blocked")
    /\ UNCHANGED <<log, lease, operation, command>>

ReadBlockingControl ==
    /\ At("blocked")
    /\ ReadControl(TRUE)
    /\ UNCHANGED <<log, lease, operation, command>>

-----------------------------------------------------------------------------
(* One attempt: apply_item_with or simulate_item, and from_apply           *)

Attempt == item[Current].attempt
Op == operation[Current][Attempt]
SetOp(standing) == operation' = [operation EXCEPT ![Current][Attempt] = standing]

Return(state, class) ==
    worker' = [worker EXCEPT
        !.at = "report",
        !.outcome = [state |-> state, class |-> class, interrupted |-> FALSE]]

\* An error message whose code asks for no reconciliation.
Fails == \E class \in {"transient", "halt", "permanent"} : Return("failed", class)

Earlier(standings) == \E a \in Attempts : operation[Current][a] \in standings

Simulate ==
    /\ At("apply") /\ mode = "simulate"
    /\ UNCHANGED operation
    /\ \/ Return("simulated", "none")
       \/ Fails
       \/ Return("failed", "reconcile")
    /\ UNCHANGED <<log, lease, command>>

\* A check refuses the item; prior_attempts asks for recovery of an earlier
\* operation, or finds the item committed.
RefuseItem ==
    /\ At("apply") /\ mode = "apply"
    /\ UNCHANGED operation
    /\ \/ Fails
       \/ Earlier({"unresolved"}) /\ Return("needs_recovery", "reconcile")
    /\ UNCHANGED <<log, lease, command>>

RecordIntent ==
    /\ At("apply") /\ mode = "apply"
    /\ ~ Earlier({"unresolved", "committed"})
    /\ SetOp("open")
    /\ Goto("applying")
    /\ UNCHANGED <<log, lease, command>>

\* The first request is recorded as started.
SendRequest ==
    /\ At("applying") /\ Op = "open"
    /\ SetOp("unresolved")
    /\ UNCHANGED <<log, lease, worker, command>>

\* apply_item_with returns.  An error leaves the operation as it stands.
ApplyReturns ==
    /\ At("applying")
    /\ \/ Op = "open" /\ SetOp("failed") /\ Return("failed", "transient")
       \/ UNCHANGED operation /\ Fails
       \/ Op = "unresolved" /\ SetOp("committed") /\ Return("committed", "none")
       \/ /\ Op = "unresolved" /\ SetOp("failed")
          /\ \E class \in {"transient", "halt", "permanent"} :
                Return("failed_before_write", class)
       \/ Op = "unresolved" /\ UNCHANGED operation /\ Return("needs_recovery", "reconcile")
    /\ UNCHANGED <<log, lease, command>>

\* What stops the group after an outcome.
StopAfter(outcome) ==
    IF outcome.class = "reconcile" THEN "recovery_required"
    ELSE IF outcome.class = "halt" THEN "halted"
    ELSE IF outcome.state \notin Succeeded /\ policy = "stop" THEN "item_error_policy"
    ELSE "none"

Report ==
    /\ At("report")
    /\ AppendFinished(Current, worker.outcome)
    /\ LET reason == StopAfter(worker.outcome)
       IN  IF reason # "none" THEN StopWith(reason)
           ELSE worker' = [worker EXCEPT !.at = "dispatch", !.todo = @ \ {Current},
                                         !.outcome = NoOutcome]
    /\ UNCHANGED <<definition, control, acked, stopped, halted, tombstone, lease, operation, command>>

NothingLeft ==
    /\ At("dispatch") /\ worker.todo = {}
    /\ StopWith("idle")
    /\ UNCHANGED <<log, lease, operation, command>>

\* worker.stop: the reason, and no control it would confirm.
Stop ==
    /\ At("stop")
    /\ MayAppend
    /\ AppendStopped(worker.reason, 0)
    /\ End
    /\ UNCHANGED <<definition, item, control, tombstone, lease, operation, command>>

\* release_lease needs no unexpired token.
Release ==
    /\ At("end")
    /\ lease' = "free"
    /\ worker' = NoWorker
    /\ UNCHANGED <<log, operation, command>>

\* An append, a renewal or a read fails, and run returns the error.
Abort ==
    /\ worker.at \notin {"none", "end"}
    /\ lease' = IF At("called") THEN lease ELSE "free"
    /\ worker' = NoWorker
    /\ UNCHANGED <<log, operation, command>>

\* The process dies, or outlives its deadline.
Die ==
    /\ ~ At("none")
    /\ lease' = IF At("called") THEN lease ELSE "dead"
    /\ worker' = NoWorker
    /\ UNCHANGED <<log, operation, command>>

Expire ==
    /\ lease = "held"
    /\ lease' = "expired"
    /\ UNCHANGED <<log, operation, worker, command>>

-----------------------------------------------------------------------------
(* Other commands                                                          *)

\* (Mutant) A free lease alone makes the job idle.
LeaseFree == lease = "free"

\* No worker holds the lease and no item has an unfinished start.
IdleJob == lease = "free" /\ In({"started"}) = {}

\* request_apply_job_control: one transaction.  A repeated request reuses its
\* event; a cancelled job takes no other one.
RequestControl(action) ==
    /\ ~ tombstone
    /\ \/ control.action = action /\ UNCHANGED control
       \/ /\ control.action \notin {action, "cancel"}
          /\ control.number < MaxControls
          /\ control' = [action |-> action, number |-> control.number + 1]
    /\ LET after == control' = control /\ stopped
       IN  IF action # "resume" /\ ~ after /\ IdleJob
           THEN AppendStopped(IF action = "cancel" THEN "cancelled" ELSE "paused",
                              control'.number)
           ELSE stopped' = after /\ UNCHANGED <<halted, acked>>
    /\ UNCHANGED <<definition, item, tombstone, lease, operation, worker, command>>

MayRetry(i) ==
    /\ item[i].state \in {"failed", "failed_before_write"}
    /\ RetryEligible(i)
    /\ ~ item[i].retry

\* request_retry: the items are judged first, and recorded in a transaction of
\* its own, by when the worker may have started them.  (Here a command names one
\* item, and one command at a time is between the two.)
ChooseRetry(i) ==
    /\ ~ tombstone /\ command = <<"none">>
    /\ MayRetry(i)
    /\ command' = <<"retry", i>>
    /\ UNCHANGED <<log, lease, operation, worker>>

RequestRetry(i) ==
    /\ command = <<"retry", i>>
    /\ command' = <<"none">>
    /\ IF tombstone \/ control.action = "cancel"
       THEN UNCHANGED item
       ELSE item' = [item EXCEPT ![i].retry = TRUE]
    /\ UNCHANGED <<definition, control, acked, stopped, halted, tombstone, lease, operation, worker>>

\* delete: the job is judged first, and entombed in a transaction of its own.
JudgeDelete ==
    /\ ~ tombstone /\ command = <<"none">>
    /\ lease = "free"
    /\ Status \in {"completed", "cancelled", "finished_with_failures", "halted"}
    /\ Unaccounted = {}
    /\ command' = <<"delete">>
    /\ UNCHANGED <<log, lease, operation, worker>>

Entomb ==
    /\ command = <<"delete">>
    /\ command' = <<"none">>
    /\ tombstone' = (lease = "free")
    /\ UNCHANGED <<definition, item, control, acked, stopped, halted, lease, operation, worker>>

\* `recover reconcile` and `recover restore` by another command, which needs the
\* collection's writer lease, and so no running apply job.  (Here of the newest
\* attempt.)
Recover(i, a) ==
    /\ At("none")
    /\ a = item[i].attempt
    /\ \/ \E standing \in Reconciled(operation[i][a]) \ {operation[i][a]} :
             operation' = [operation EXCEPT ![i][a] = standing]
       \/ /\ operation[i][a] \in {"unresolved", "committed"}
          /\ operation' = [operation EXCEPT ![i][a] = "restored"]
    /\ UNCHANGED <<log, lease, worker, command>>

-----------------------------------------------------------------------------

Work ==
    \/ Run \/ AcquireLease \/ Account \/ RecordAccount \/ FinishAccounting
    \/ HonourControl \/ Acknowledge \/ Select
    \/ Start \/ Blocked \/ ReadBlockingControl
    \/ Simulate \/ RefuseItem \/ RecordIntent \/ SendRequest \/ ApplyReturns
    \/ Report \/ NothingLeft \/ Stop \/ Release
    \/ Abort \/ Die \/ Expire

Commands ==
    \/ \E action \in {"pause", "resume", "cancel"} : RequestControl(action)
    \/ \E i \in Items : ChooseRetry(i) \/ RequestRetry(i)
    \/ JudgeDelete \/ Entomb
    \/ \E i \in Items, a \in Attempts : Recover(i, a)

Next == Work \/ Commands

Spec == Init /\ [][Next]_vars

-----------------------------------------------------------------------------
(* Properties                                                              *)

Places == {"none", "called", "account", "accounted", "control", "acknowledge",
           "select", "dispatch", "blocked", "apply", "applying", "report", "stop", "end"}
Reasons == {"none", "paused", "cancelled", "halted", "item_error_policy",
            "recovery_required", "idle"}
Outcomes == [state : ItemStates, class : Classes, interrupted : BOOLEAN]

ItemRecords == [state : ItemStates, attempt : 0..MaxAttempts, eligible : BOOLEAN,
                retry : BOOLEAN, interrupted : BOOLEAN]
Workers == [at : Places, todo : SUBSET Items, found : BOOLEAN, ack : 0..MaxControls,
            reason : Reasons, outcome : Outcomes]

\* The types; an acknowledgement names a control that was requested.
TypeOK ==
    /\ mode \in Modes /\ policy \in Policies
    /\ item \in [Items -> ItemRecords]
    /\ control \in [action : {"none", "pause", "resume", "cancel"}, number : 0..MaxControls]
    /\ acked \in 0..control.number /\ stopped \in BOOLEAN
    /\ halted \in BOOLEAN /\ tombstone \in BOOLEAN
    /\ lease \in {"free", "held", "expired", "dead"}
    /\ operation \in [Items -> [Attempts -> Operations]]
    /\ worker \in Workers
    /\ command \in {<<"none">>, <<"delete">>} \cup ({"retry"} \X Items)

\* The job has one item in flight at most, across crashes, expired leases and
\* workers that took over: what is unfinished is accounted for before anything
\* else is started.
OneStarted == \A i, j \in In({"started"}) : i = j

\* A confirmed stop is one: no item is in flight, and no worker is past its
\* start, whoever confirmed it and however the requests crossed.
ConfirmedIsStopped ==
    Confirmed => In({"started"}) = {} /\ worker.at \notin {"apply", "applying", "report"}

\* From the moment a pause or cancel is recorded until a resume no item is
\* started, even by a worker that read the controls before.
NoStartWhileStopping ==
    [][\A i \in Items : item'[i].attempt # item[i].attempt => ~ Stopping]_vars

\* What the job calls committed has a committed operation (restored, perhaps,
\* since), and is never started again, whatever retry was under way.
CommittedStays ==
    [][\A i \in Items : item[i].state = "committed" =>
          /\ operation[i][item[i].attempt] \in {"committed", "restored"}
          /\ item'[i].state = "committed"]_vars

\* "a pause on an idle job (no active job lease, nothing in flight) is confirmed
\* in the same transaction" (operations/jobs.md, OP-40): an idle job with a stop
\* requested is confirmed, or would be by the same request once more.
IdleStopIsConfirmed ==
    Stopping /\ IdleJob /\ ~ tombstone => Confirmed \/ ~ stopped

\* "Unknown effects distinguished from ordinary failed items" (operations/jobs.md,
\* OP-38): an item with an unresolved operation is in flight or needs recovery.
UnknownIsDistinguished ==
    \A i \in Items, a \in Attempts : operation[i][a] = "unresolved" =>
        item[i].state \in {"started", "needs_recovery"}

=============================================================================
