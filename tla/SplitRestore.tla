---------------------------- MODULE SplitRestore -----------------------------
(***************************************************************************)
(* Applying a split group and rolling it back (application/split.rs and     *)
(* application/restore.rs over store/restore.rs and the companion).         *)
(*                                                                         *)
(* A group creates its children and, after them, transforms the anchor, the *)
(* note they were split from.  A restore reverses one of those operations   *)
(* with an operation of its own.  Both are commands under the collection    *)
(* lease, so one runs at a time (Lease); a command may die between any two  *)
(* steps, Anki may restart, and its user edits, tags, studies or deletes    *)
(* any of the notes at any moment.                                          *)
(*                                                                         *)
(* One native step per operation; steps with media are those of Apply.      *)
(***************************************************************************)
EXTENDS Naturals, Sequences, FiniteSets, SequencesExt

CONSTANTS
    Children,       \* the children of the group, in the reviewed order
    Anchor,         \* its anchor
    NAttempts,      \* bound: attempts of a unit
    NRestores,      \* bound: restores of an attempt
    MaxFence,       \* bound: owners issued
    MaxFaults       \* bound: commands that die, owners refused, answers lost, restarts of
                    \* Anki and changes its user makes to the notes, together

ASSUME GroupAssumption ==
    /\ Children \in Seq(ToSet(Children)) /\ IsInjective(Children)
    /\ Children # <<>> /\ Anchor \notin ToSet(Children)
    /\ NAttempts \in Nat \ {0} /\ NRestores \in Nat

VARIABLES
    recorded,   \* is the execution recorded, with the first attempts?
    tries,      \* the number of the latest attempt of each unit
    journal,    \* the state of each operation's journal and of its step
    plan,       \* what each operation found at its note when it was planned
    post,       \* and what it is to leave there
    receipts,   \* restores with a stored receipt
    bound,      \* the session the journal of each restore is bound to
    notes,      \* the notes in the collection
    cli,        \* the running command
    wire,       \* requests sent and not yet received
    faults,
    verdict, fenceOf, effects, owner, session   \* the companion

native == <<verdict, fenceOf, effects, owner, session>>
store == <<recorded, tries, journal, plan, post, receipts, bound>>
splitVars == <<store, notes, cli, wire, faults, native>>

Order == Append(Children, Anchor)
Units == ToSet(Order)
\* An attempt of a unit, and the restores of that attempt.
Applies == Units \X (1..NAttempts) \X {0}
Restores == Units \X (1..NAttempts) \X (1..NRestores)
Ops == Applies \cup Restores

Native == INSTANCE NativeService WITH Exports <- {}

\* The operation a restore reverses.
TargetOf(o) == <<o[1], o[2], 0>>

\* A child is found by the marker of the attempt that created it.
Place(o) == LET t == TargetOf(o) IN IF t[1] = Anchor THEN <<Anchor, 0, 0>> ELSE t
Places == {Place(o) : o \in Applies}

\* tagged: a tag of the user's; reviews: how often it was studied.
NoNote == [there |-> FALSE, text |-> "none", tagged |-> FALSE, reviews |-> 0]
Content(n) == [n EXCEPT !.reviews = 0]

Idle == [at |-> "idle", for |-> "none", mode |-> "none", op |-> <<>>, todo |-> {},
         seen |-> NoNote, fence |-> 0, session |-> 0, answer |-> "none"]

SplitInit ==
    /\ recorded = FALSE
    /\ tries = [u \in Units |-> 1]
    /\ journal = [o \in Ops |-> "none"]
    /\ plan = [o \in Ops |-> NoNote]
    /\ post = [o \in Ops |-> NoNote]
    /\ receipts = {}
    /\ bound = [r \in Restores |-> 0]
    /\ notes = [p \in Places |->
                   IF p[1] = Anchor THEN [NoNote EXCEPT !.there = TRUE, !.text = "source"]
                   ELSE NoNote]
    /\ cli = Idle
    /\ wire = {}
    /\ faults = 0
    /\ verdict = [o \in Ops |-> "absent"]
    /\ fenceOf = [o \in Ops |-> 0]
    /\ effects = [o \in Ops |-> 0]
    /\ owner = [fence |-> 0, session |-> 0, released |-> TRUE]
    /\ session = 1

\* States of a journal: "intent" (an operation without a journal), "prepared",
\* "checkpointed", "started" (request_started), "unknown", "differs" (observed
\* success, another content), "verified" (the step is), "mismatch" (changed
\* after it was), "verifying", "committed", "failed" (before write), "restored".
NoJournal == {"none", "intent"}

At(place) == cli.at = place
Goto(place) == cli' = [cli EXCEPT !.at = place]
Write(state) == journal' = [journal EXCEPT ![cli.op] = state]
Here == notes[Place(cli.op)]

-----------------------------------------------------------------------------
(* Anki and its user                                                       *)

Fault == faults < MaxFaults /\ faults' = faults + 1

Change(p) ==
    /\ Fault /\ notes[p].there
    /\ \/ notes' = [notes EXCEPT ![p].text = "later"]
       \/ notes' = [notes EXCEPT ![p].tagged = ~ @]
       \/ notes' = [notes EXCEPT ![p].reviews = @ + 1]
       \/ notes' = [notes EXCEPT ![p] = NoNote]
    /\ UNCHANGED <<store, cli, wire, native>>

NewSession ==
    /\ Fault
    /\ session' = session + 1
    /\ Native!SessionChange
    /\ UNCHANGED <<store, notes, cli, wire>>

\* The command dies, or returns because a read or an append failed.
Stop ==
    /\ ~ At("idle") /\ Fault
    /\ cli' = Idle
    /\ UNCHANGED <<store, notes, wire, native>>

-----------------------------------------------------------------------------
(* apply_group                                                             *)

\* start: every unit is checked, then the execution and the first attempts are
\* recorded.
StartGroup ==
    /\ At("idle")
    /\ recorded \/ notes[<<Anchor, 0, 0>>].text = "source"
    /\ recorded' = TRUE
    /\ cli' = [Idle EXCEPT !.at = "units", !.for = "group", !.session = session]
    /\ UNCHANGED <<tries, journal, plan, post, receipts, bound, notes, wire, faults, native>>

Latest(u) == <<u, tries[u], 0>>

\* (Mutant) An attempt whose outcome is unknown may be tried again.
RetriesUnknown == {"failed", "intent", "unknown"}

\* unit_state: nothing was written, so a new attempt is safe.
Retries == {"failed", "intent"}

\* The loop passes over a unit that is verified.
Passed(u) == journal[Latest(u)] = "committed"

Position(u) == CHOOSE i \in DOMAIN Order : Order[i] = u

\* The loop is at the first unit it does not pass over.
AtUnit(u, states) ==
    /\ At("units")
    /\ ~ Passed(u) /\ journal[Latest(u)] \in states
    /\ \A v \in Units : Position(v) < Position(u) => Passed(v)

\* All verified, or a unit was restored: the group is left alone.
GroupEnds ==
    /\ At("units")
    /\ \/ \A u \in Units : Passed(u)
       \/ \E u \in Units : AtUnit(u, {"restored"})
    /\ cli' = Idle
    /\ UNCHANGED <<store, notes, wire, faults, native>>

AppendAttempt(u) ==
    /\ AtUnit(u, Retries)
    /\ tries[u] < NAttempts
    /\ tries' = [tries EXCEPT ![u] = @ + 1]
    /\ UNCHANGED <<recorded, journal, plan, post, receipts, bound, notes, cli, wire, faults,
                   native>>

\* apply_item_with: the intent, after the checks against the live collection.
\* The attempts before it must not be pending.
PlanUnit(u) ==
    /\ AtUnit(u, {"none"})
    /\ \A k \in 1..(tries[u] - 1) :
           journal[<<u, k, 0>>] \in NoJournal \cup {"failed", "restored"}
    /\ LET o == Latest(u)
           now == notes[Place(o)]
       IN  /\ u = Anchor => now.text = "source"
           /\ plan' = [plan EXCEPT ![o] = now]
           /\ post' = [post EXCEPT ![o] = [now EXCEPT !.there = TRUE, !.text = "applied"]]
           /\ journal' = [journal EXCEPT ![o] = "intent"]
           /\ cli' = [cli EXCEPT !.at = "journal", !.op = o, !.mode = "apply",
                                 !.session = session]
    /\ UNCHANGED <<recorded, tries, receipts, bound, notes, wire, faults, native>>

\* An unresolved unit is reconciled under the operation it has, in the session
\* of its journal: the group makes no rebinding decision.
Unresolved == {"prepared", "checkpointed", "started", "unknown", "differs", "verified",
               "mismatch", "verifying"}

ReconcileUnit(u) ==
    /\ AtUnit(u, Unresolved)
    /\ cli' = [cli EXCEPT !.at = "begin", !.op = Latest(u), !.mode = "reconcile",
                          !.session = session]
    /\ UNCHANGED <<store, notes, wire, faults, native>>

\* recover reconcile, by hand.
StartReconcile(o) ==
    /\ At("idle")
    /\ journal[o] \in Unresolved
    /\ cli' = [Idle EXCEPT !.at = "begin", !.for = "item", !.op = o, !.mode = "reconcile",
                           !.session = session]
    /\ UNCHANGED <<store, notes, wire, faults, native>>

-----------------------------------------------------------------------------
(* restore, one or those of a group                                        *)

\* (Mutant) A committed restore is over, whatever became of its target.
FinishedAlone(r) == journal[r] \in NoJournal \cup {"failed", "committed"}

\* unresolved_restore
Finished(r) ==
    \/ journal[r] \in NoJournal \cup {"failed"}
    \/ journal[r] = "committed" /\ journal[TargetOf(r)] = "restored"

RestoresOf(t) == {r \in Restores : TargetOf(r) = t}
Open(t) == {r \in RestoresOf(t) : ~ Finished(r)}

\* It is new, and numbered after every other restore of the operation.
NextRestore(r) ==
    /\ journal[r] = "none"
    /\ \A s \in RestoresOf(TargetOf(r)) : s[3] < r[3] => journal[s] # "none"

\* The states a restore starts from: no step of uncertain outcome.
Restorable == {"committed", "differs", "mismatch"}
Doomed == {t \in Applies : journal[t] \in Restorable}

\* plan_group_rollback: the anchor before the created notes, and those in the
\* order of their operations' random ids.
First(todo) ==
    LET anchors == {t \in todo : t[1] = Anchor}
    IN  IF anchors # {} THEN anchors ELSE todo

\* The preview of what is left to restore.
Restoring(todo, t) ==
    [Idle EXCEPT !.at = "restore", !.for = "restore", !.todo = todo, !.seen = notes[Place(t)]]

\* The user has previewed a restore, or the rollback of the group.
StartRestores ==
    /\ At("idle")
    /\ \E todo \in {{t} : t \in Doomed} \cup {Doomed} :
         \E t \in First(todo) : cli' = Restoring(todo, t)
    /\ UNCHANGED <<store, notes, wire, faults, native>>

\* The next one of the group; its preview is as old as that of the first.
NextTarget(t) ==
    LET rest == cli.todo \ {t}
    IN  IF rest = {} THEN cli' = Idle ELSE \E n \in First(rest) : cli' = Restoring(rest, n)

\* RESTORE_DECISION_STALE
NotStale(t) == cli.seen = notes[Place(t)]

\* What the decision may restore of a note: a created one is deleted while it is
\* unchanged and unstudied; a changed text is a conflict the user decides; a tag
\* added later stays.
Restored(t, now) ==
    IF t[1] # Anchor
    THEN IF now.there /\ Content(now) = Content(post[t]) /\ now.reviews = 0 THEN {NoNote} ELSE {}
    ELSE IF ~ now.there THEN {}
    ELSE {[now EXCEPT !.text = text] :
             text \in {"source"} \cup (IF now.text = "applied" THEN {} ELSE {now.text})} \ {now}

\* The command is at the first of what is left.
AtTarget(t) == At("restore") /\ t \in First(cli.todo)

\* The intent of a new restore.
PlanRestore(r) ==
    LET t == TargetOf(r)
        now == notes[Place(t)]
    IN  /\ AtTarget(t) /\ Open(t) = {} /\ NextRestore(r)
        /\ journal[t] \in Restorable
        /\ NotStale(t)
        /\ \E after \in Restored(t, now) : post' = [post EXCEPT ![r] = after]
        /\ plan' = [plan EXCEPT ![r] = now]
        /\ journal' = [journal EXCEPT ![r] = "intent"]
        /\ bound' = [bound EXCEPT ![r] = session]
        /\ cli' = [cli EXCEPT !.at = "journal", !.op = r, !.mode = "apply",
                              !.seen = NoNote, !.session = session]
        /\ UNCHANGED <<recorded, tries, receipts, notes, wire, faults, native>>

\* Refused, or nothing to do: the next item of the group is tried.
RefuseRestore(t) ==
    /\ AtTarget(t) /\ Open(t) = {}
    /\ NotStale(t) => journal[t] \notin Restorable \/ Restored(t, notes[Place(t)]) = {}
    /\ NextTarget(t)
    /\ UNCHANGED <<store, notes, wire, faults, native>>

\* resume: the restore that is open, in the session of its journal.
ResumeRestore(t) ==
    /\ AtTarget(t)
    /\ \E r \in Open(t) :
         IF bound[r] = session
         THEN cli' = [cli EXCEPT !.at = "begin", !.op = r, !.mode = "reconcile",
                                 !.seen = NoNote, !.session = session]
         ELSE cli' = Idle
    /\ UNCHANGED <<store, notes, wire, faults, native>>

-----------------------------------------------------------------------------
(* One operation                                                           *)

AppendJournal ==
    /\ At("journal")
    /\ Write("prepared")
    /\ Goto("begin")
    /\ UNCHANGED <<recorded, tries, plan, post, receipts, bound, notes, wire, faults, native>>

\* Requests of earlier owners are fenced: none of them is accepted any more.
Begin ==
    /\ At("begin") /\ owner.fence < MaxFence
    /\ session = cli.session
    /\ Native!Begin(owner.fence + 1)
    /\ cli' = [cli EXCEPT !.at = IF cli.mode = "apply" THEN "checkpoint" ELSE "step",
                          !.fence = owner.fence + 1]
    /\ wire' = {}
    /\ UNCHANGED <<store, notes, faults>>

BeginRefused ==
    /\ At("begin")
    /\ Fault
    /\ IF cli.mode = "apply" THEN Write("failed") ELSE UNCHANGED journal
    /\ cli' = Idle
    /\ UNCHANGED <<recorded, tries, plan, post, receipts, bound, notes, wire, native>>

EnterCheckpointed ==
    /\ At("checkpoint")
    /\ Write("checkpointed")
    /\ Goto("step")
    /\ UNCHANGED <<recorded, tries, plan, post, receipts, bound, notes, wire, faults, native>>

\* drive, and the same of a step that reconcile finds unsent.
StartRequest ==
    /\ At("step") /\ journal[cli.op] = "checkpointed"
    /\ cli.mode = "reconcile" => Content(Here) = Content(plan[cli.op])
    /\ Write("started")
    /\ Goto("send")
    /\ UNCHANGED <<recorded, tries, plan, post, receipts, bound, notes, wire, faults, native>>

Send ==
    /\ At("send")
    /\ wire' = wire \cup {[op |-> cli.op, fence |-> cli.fence]}
    /\ Goto("wait")
    /\ UNCHANGED <<store, notes, faults, native>>

\* The verdict, a refusal of the request itself, or nothing that tells.
Wait ==
    /\ At("wait")
    /\ \/ /\ verdict[cli.op] \in {"verified", "failed"}
          /\ cli' = [cli EXCEPT !.at = "look", !.answer = verdict[cli.op]]
          /\ UNCHANGED <<wire, faults>>
       \/ /\ verdict[cli.op] = "absent" /\ ~ Native!Holds(cli.fence)
          /\ wire' = wire \ {[op |-> cli.op, fence |-> cli.fence]}
          /\ cli' = [cli EXCEPT !.at = "look", !.answer = "failed"]
          /\ UNCHANGED faults
       \/ /\ Fault
          /\ cli' = [cli EXCEPT !.at = "look", !.answer = "lost"]
          /\ UNCHANGED wire
       \/ /\ verdict[cli.op] = "unknown"
          /\ cli' = [cli EXCEPT !.at = "look", !.answer = "lost"]
          /\ UNCHANGED <<wire, faults>>
    /\ UNCHANGED <<store, notes, native>>

\* read_step
View(o) == LET now == notes[Place(o)]
           IN  IF Content(now) = Content(plan[o]) THEN "unchanged"
               ELSE IF now = post[o] THEN "expected" ELSE "different"

\* dispatch, after the answer
ReadBack ==
    /\ At("look")
    /\ \/ cli.answer = "verified" /\ View(cli.op) = "expected" /\ Write("verified")
       \/ cli.answer = "verified" /\ View(cli.op) = "different" /\ Write("differs")
       \/ cli.answer = "failed" /\ View(cli.op) = "unchanged" /\ Write("failed")
       \/ /\ cli.answer = "lost" \/ (cli.answer = "verified") = (View(cli.op) = "unchanged")
          /\ Write("unknown")
    /\ cli' = [cli EXCEPT !.answer = "none",
                          !.at = IF journal'[cli.op] = "verified" THEN "step" ELSE "end"]
    /\ UNCHANGED <<recorded, tries, plan, post, receipts, bound, notes, wire, faults, native>>

\* reconcile_steps: the ledger and the collection together.
Classify ==
    /\ At("step") /\ cli.mode = "reconcile"
    /\ LET view == View(cli.op)
           known == verdict[cli.op]
       IN  \/ /\ journal[cli.op] = "prepared"
              /\ IF view = "unchanged" THEN Write("failed") ELSE UNCHANGED journal
              /\ Goto("end")
           \/ /\ journal[cli.op] = "checkpointed" /\ view # "unchanged"
              /\ UNCHANGED journal /\ Goto("end")
           \/ /\ journal[cli.op] \in {"started", "unknown", "differs"}
              /\ known # "accepted" /\ view = "expected"
              /\ Write("verified") /\ Goto("step")
           \/ /\ journal[cli.op] \in {"started", "unknown"}
              /\ known = "failed" /\ view = "unchanged"
              /\ Write("failed") /\ Goto("end")
           \/ /\ journal[cli.op] \in {"started", "unknown"}
              /\ known = "absent" /\ view = "unchanged"
              /\ Write("unknown") /\ Goto("resend")
           \/ /\ journal[cli.op] \in {"started", "unknown", "differs"}
              /\ \/ known = "accepted" \/ view = "different"
                 \/ view = "unchanged" /\ known \notin {"failed", "absent"}
                 \/ view = "unchanged" /\ journal[cli.op] = "differs"
              /\ IF journal[cli.op] = "started" THEN Write("unknown") ELSE UNCHANGED journal
              /\ Goto("end")
    /\ UNCHANGED <<recorded, tries, plan, post, receipts, bound, notes, wire, faults, native>>

\* The same request once more.
Resend ==
    /\ At("resend")
    /\ wire' = wire \cup {[op |-> cli.op, fence |-> cli.fence]}
    /\ Goto("recheck")
    /\ UNCHANGED <<store, notes, faults, native>>

Recheck ==
    /\ At("recheck")
    /\ IF verdict[cli.op] = "verified" /\ View(cli.op) = "expected"
       THEN Write("verified") /\ Goto("step")
       ELSE UNCHANGED journal /\ Goto("end")
    /\ UNCHANGED <<recorded, tries, plan, post, receipts, bound, notes, wire, faults, native>>

-----------------------------------------------------------------------------
(* commit, and finalize of a restore                                       *)

FinalReadBack ==
    /\ At("step") /\ journal[cli.op] \in {"verified", "mismatch", "verifying"}
    /\ cli.op \notin receipts
    /\ IF Here = post[cli.op] THEN Write("verifying") /\ Goto("receipt")
       ELSE Write("mismatch") /\ Goto("end")
    /\ UNCHANGED <<recorded, tries, plan, post, receipts, bound, notes, wire, faults, native>>

StoreReceipt ==
    /\ At("receipt")
    /\ receipts' = receipts \cup {cli.op}
    /\ Goto("commit")
    /\ UNCHANGED <<recorded, tries, journal, plan, post, bound, notes, wire, faults, native>>

\* Found stored by the one that resumes.
FindReceipt ==
    /\ At("step") /\ cli.op \in receipts
    /\ Goto(IF journal[cli.op] = "committed" THEN "finalize" ELSE "commit")
    /\ UNCHANGED <<store, notes, wire, faults, native>>

Commit ==
    /\ At("commit")
    /\ Write("committed")
    /\ Goto(IF cli.op \in Restores THEN "finalize" ELSE "end")
    /\ UNCHANGED <<recorded, tries, plan, post, receipts, bound, notes, wire, faults, native>>

\* The operation that was reversed is restored only after its restore committed.
Finalize ==
    /\ At("finalize")
    /\ journal' = [journal EXCEPT ![TargetOf(cli.op)] = "restored"]
    /\ Goto("end")
    /\ UNCHANGED <<recorded, tries, plan, post, receipts, bound, notes, wire, faults, native>>

\* The owner is ended, and the command goes on with what follows the item.
End ==
    /\ At("end")
    /\ IF owner.fence = cli.fence THEN Native!End(cli.fence) ELSE UNCHANGED native
    /\ \/ cli.for = "item" /\ cli' = Idle
       \/ cli.for = "restore" /\ NextTarget(TargetOf(cli.op))
       \/ /\ cli.for = "group"
          /\ IF \/ journal[cli.op] = "committed"
                \/ cli.mode = "reconcile" /\ journal[cli.op] = "failed"
             THEN cli' = [Idle EXCEPT !.at = "units", !.for = "group"]
             ELSE cli' = Idle
    /\ UNCHANGED <<store, notes, wire, faults>>

-----------------------------------------------------------------------------
(* The companion                                                           *)

Deliver(r) ==
    /\ Native!Accept(r.op, r.fence)
    /\ wire' = wire \ {r}
    /\ UNCHANGED <<store, notes, cli, faults>>

\* (Mutant) The delete does not look at later reviews.
MayWriteStudied(o, now) == Content(now) = Content(plan[o])

\* The native preflight: the content of the plan, and no review of a note that is
\* to be deleted.
MayWrite(o, now) ==
    /\ Content(now) = Content(plan[o])
    /\ now.there /\ ~ post[o].there => now.reviews = 0

\* Kept cards keep their reviews.
TakeEffect(o) ==
    /\ Native!TakeEffect(o)
    /\ LET now == notes[Place(o)] IN
         /\ MayWrite(o, now)
         /\ notes' = [notes EXCEPT ![Place(o)] =
                         IF post[o].there THEN [post[o] EXCEPT !.reviews = now.reviews]
                         ELSE NoNote]
    /\ UNCHANGED <<store, cli, wire, faults>>

Judge(o) ==
    /\ session' = session
    /\ Native!Judge(o)
    /\ UNCHANGED <<store, notes, cli, wire, faults>>

SplitNext ==
    \/ \E p \in Places : Change(p)
    \/ NewSession \/ Stop
    \/ StartGroup \/ GroupEnds
    \/ \E u \in Units : AppendAttempt(u) \/ PlanUnit(u) \/ ReconcileUnit(u)
    \/ \E t \in Applies : StartReconcile(t) \/ RefuseRestore(t) \/ ResumeRestore(t)
    \/ StartRestores
    \/ \E r \in Restores : PlanRestore(r)
    \/ AppendJournal \/ Begin \/ BeginRefused \/ EnterCheckpointed \/ StartRequest \/ Send
    \/ Wait \/ ReadBack \/ Classify \/ Resend \/ Recheck
    \/ FinalReadBack \/ StoreReceipt \/ FindReceipt \/ Commit \/ Finalize \/ End
    \/ \E r \in wire : Deliver(r)
    \/ \E o \in Ops : TakeEffect(o) \/ Judge(o)

SplitSpec == SplitInit /\ [][SplitNext]_splitVars

-----------------------------------------------------------------------------
(* Properties.                                                             *)

SplitTypeOK ==
    /\ recorded \in BOOLEAN
    /\ tries \in [Units -> 1..NAttempts]
    /\ \A o \in Ops : journal[o] \in NoJournal \cup Unresolved \cup {"committed", "failed", "restored"}
    /\ \A r \in Restores : journal[r] # "restored"
    /\ receipts \subseteq Ops

Written(u) == {o \in Applies : o[1] = u /\ effects[o] = 1}

\* Whatever is refused, lost, unknown or tried again: the anchor is transformed
\* only after every child was verified, and no unit is written twice (split.rs,
\* drive_group and unit_state; "never recreates a verified child").
AnchorLast ==
    /\ \A u \in Units : Cardinality(Written(u)) <= 1
    /\ Written(Anchor) # {} =>
         \A i \in DOMAIN Children :
             \E o \in Written(Children[i]) : journal[o] \in {"committed", "restored"}

\* However often a restore is stopped, resumed or refused: an operation is called
\* restored exactly when a restore of it left its receipt and committed, and no
\* operation is reversed twice (restore.rs, unresolved_restore and finalize).
RestoredOnce ==
    \A t \in Applies :
        /\ journal[t] = "restored" =>
               \E r \in RestoresOf(t) :
                   r \in receipts /\ journal[r] = "committed"
        /\ Cardinality({r \in RestoresOf(t) : effects[r] = 1}) <= 1

\* A restore overwrites nothing but the text and the tags its plan was made about,
\* keeps the tags the user added, and never loses a review: no studied note is
\* deleted ("never force-overwrite later user edits").
RestoresWhatWasSeen ==
    [][\A r \in Restores :
         effects'[r] # effects[r] =>
             LET before == notes[Place(r)]
                 after == notes'[Place(r)]
             IN  /\ Content(before) = Content(plan[r])
                 /\ after.reviews = before.reviews
                 /\ after.there => after.tagged = before.tagged]_splitVars

\* The anchor is transformed only while the children stand that it was verified
\* with: a group that is being rolled back is not applied ("A rolled-back group
\* is never re-applied on the same revision").
NotAppliedWhileRolledBack ==
    [][\A o \in Applies :
         o[1] = Anchor /\ effects'[o] # effects[o] =>
             \A r \in Restores : effects[r] = 0]_splitVars

=============================================================================
