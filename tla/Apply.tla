------------------------------- MODULE Apply --------------------------------
(***************************************************************************)
(* Applying one approved item to the Anki collection, and recovering it    *)
(* (crates/linguist-application/src/apply.rs: apply_item_with, drive,      *)
(* dispatch, commit, reconcile), composed with the operation journals      *)
(* (JournalRules) and with the companion (NativeService, which Companion   *)
(* implements).                                                            *)
(*                                                                         *)
(* One command runs at a time: the collection lease sees to that (Lease,   *)
(* OneInside).  It may die between any two durable steps, and a request it *)
(* sent then stays on the wire.  Anki's user edits the same collection at  *)
(* any moment.  Each append, request and read of the collection is one     *)
(* step; reads whose result goes straight into an append are one step with *)
(* it, since nobody else reads the journal in between.                     *)
(***************************************************************************)
EXTENDS JournalRules, FiniteSets

CONSTANTS
    NAttempts,      \* bound: operations started for the item
    NFiles,         \* media files of the item
    Kinds,          \* what the item may ask for: "create" a note, "update" one, or
                    \* "keep": update one whose content already is as wanted
    MaxFence,       \* bound: owners issued
    MaxSession,     \* bound: collection sessions
    MaxEdits        \* bound: edits by the user

ASSUME KindsAssumption == Kinds \subseteq {"create", "update", "keep"}
ASSUME BoundsAssumption ==
    /\ NAttempts \in Nat /\ NFiles \in Nat
    /\ MaxFence \in Nat /\ MaxSession \in Nat \ {0} /\ MaxEdits \in Nat

VARIABLES
    kind,       \* what the item asks for
    journal,    \* per attempt, its journal (state "none": nothing recorded yet)
    plan,       \* per attempt, the target of each step
    receipt,    \* per attempt, is the verified receipt stored?
    cli,        \* the running command
    wire,       \* requests sent and not yet received by the companion
    col,        \* per place of the collection, what is there
    edits,
    verdict, fenceOf, effects, owner, session   \* the companion

native == <<verdict, fenceOf, effects, owner, session>>
vars == <<kind, journal, plan, receipt, cli, wire, col, edits, native>>

Attempts == 1..NAttempts
Files == 1..NFiles
Note == 0
Targets == Files \cup {Note}

\* The id of a request is the id of its journal step; here the attempt and the
\* target.
Ops == Attempts \X Targets

Native == INSTANCE NativeService WITH Exports <- {}

-----------------------------------------------------------------------------
(* The collection                                                          *)

\* (Mutant) The marker names the item instead of the step.
PlaceOfItem(o) == <<0, o[2]>>

\* Where the effect of an operation shows.  A created note carries the marker of
\* its own step; the files and an existing note are shared by all attempts.
Place(o) == IF o[2] = Note /\ kind = "create" THEN o ELSE <<0, o[2]>>

Places == {Place(o) : o \in Ops}
Contents == {"absent", "base", "desired", "other"}

\* What a target looks like before the effect.
Pre(t) ==
    IF t # Note \/ kind = "create" THEN "absent"
    ELSE IF kind = "update" THEN "base" ELSE "desired"

\* read_step: the precondition is looked for first.  A missing marker or file is
\* an answer; a missing note that was to be updated is an error.
ReadStep(o) ==
    IF col[Place(o)] = "absent" /\ Pre(o[2]) # "absent" THEN "error"
    ELSE IF col[Place(o)] = Pre(o[2]) THEN "unchanged"
    ELSE IF col[Place(o)] = "desired" THEN "expected"
    ELSE "different"

\* The read may fail instead.
Readings(o) == {ReadStep(o), "error"}

\* The user changes or deletes a note or a file, or puts another file there;
\* nobody recreates a deleted note with its id, or copies a marker.
Edit(p) ==
    /\ edits < MaxEdits
    /\ p[2] = Note => col[p] # "absent"
    /\ \E c \in {"absent", "other", Pre(p[2])} \ {col[p], "desired"} :
           col' = [col EXCEPT ![p] = c]
    /\ edits' = edits + 1
    /\ UNCHANGED <<journal, plan, receipt, cli, wire, native>>

-----------------------------------------------------------------------------
(* The companion                                                           *)

\* A request arrives and is accepted.
Deliver(r) ==
    /\ Native!Accept(r.op, r.fence)
    /\ wire' = wire \ {r}
    /\ UNCHANGED <<journal, plan, receipt, cli, col, edits>>

\* The native preflight compares the precondition again.  The result may differ
\* from what the plan expects: a crash in the middle, or cards generated
\* otherwise than planned.
TakeEffect(o) ==
    /\ Native!TakeEffect(o)
    /\ \/ /\ col[Place(o)] = Pre(o[2])
          /\ \E c \in {"desired", "other"} : col' = [col EXCEPT ![Place(o)] = c]
       \/ /\ o[2] # Note /\ col[Place(o)] = "desired"
          /\ UNCHANGED col
    /\ UNCHANGED <<journal, plan, receipt, cli, wire, edits>>

Judge(o) ==
    /\ session' = session
    /\ Native!Judge(o)
    /\ UNCHANGED <<journal, plan, receipt, cli, wire, col, edits>>

NewSession ==
    /\ session < MaxSession
    /\ session' = session + 1
    /\ Native!SessionChange
    /\ UNCHANGED <<journal, plan, receipt, cli, wire, col, edits>>

-----------------------------------------------------------------------------
(* Commands                                                                *)

NoJournal == [state |-> "none", steps |-> <<>>]
Idle == [at |-> "idle", op |-> 0, mode |-> "none", fence |-> 0, answer |-> "none"]

Init ==
    /\ kind \in Kinds
    /\ journal = [a \in Attempts |-> NoJournal]
    /\ plan = [a \in Attempts |-> <<>>]
    /\ receipt = [a \in Attempts |-> FALSE]
    /\ cli = Idle
    /\ wire = {}
    /\ col = [p \in Places |-> Pre(p[2])]
    /\ edits = 0
    /\ verdict = [o \in Ops |-> "absent"]
    /\ fenceOf = [o \in Ops |-> 0]
    /\ effects = [o \in Ops |-> 0]
    /\ owner = [fence |-> 0, session |-> 0, released |-> TRUE]
    /\ session = 1

J == journal[cli.op]

\* The step the driver is at: the first one that is not verified.
Current == CHOOSE k \in 1..(Len(J.steps) + 1) :
    /\ \A i \in 1..(k-1) : J.steps[i] = "verified"
    /\ k \in DOMAIN J.steps => J.steps[k] # "verified"

AllVerified == Current > Len(J.steps)
Op == <<cli.op, plan[cli.op][Current]>>
StepState == J.steps[Current]

At(mode, place) == cli.mode = mode /\ cli.at = place
Goto(place) == cli' = [cli EXCEPT !.at = place]

\* Journal::advance
Write(state, stepState) ==
    journal' = [journal EXCEPT ![cli.op] =
        [state |-> state, steps |-> [J.steps EXCEPT ![Current] = stepState]]]
WriteState(state) == journal' = [journal EXCEPT ![cli.op].state = state]

\* The command dies, or returns because an append or a read failed.
Stop ==
    /\ cli.at # "idle"
    /\ cli' = Idle
    /\ UNCHANGED <<journal, plan, receipt, wire, col, edits, native>>

-----------------------------------------------------------------------------
(* A new attempt                                                           *)

SupersededSafely(a) ==
    LET j == journal[a]
    IN  /\ j.state = "needs_recovery"
        /\ \A k \in DOMAIN j.steps :
               \/ j.steps[k] = "observed_failure"
               \/ j.steps[k] = "verified" /\ plan[a][k] # Note
        /\ In(j, {"observed_failure"}) # {}

\* prior_attempts
MayAttempt ==
    \A b \in Attempts :
        /\ journal[b].state # "committed"
        /\ Pending(journal[b]) => SupersededSafely(b)

Missing == {f \in Files : col[<<0, f>>] = "absent"}

\* What is missing, in the item's order.
Uploads ==
    {files \in UNION {[1..n -> Missing] : n \in 0..NFiles} :
        /\ \A i, k \in DOMAIN files : i < k => files[i] < files[k]
        /\ \A f \in Missing : \E i \in DOMAIN files : files[i] = f}

\* The checks of check_item against the live collection, then the intent, the
\* snapshot and the first version of the journal, which is what prior attempts
\* are judged by.
StartApply(a) ==
    /\ cli.at = "idle"
    /\ journal[a].state = "none" /\ \A b \in 1..(a-1) : journal[b].state # "none"
    /\ MayAttempt
    /\ col[Place(<<a, Note>>)] = Pre(Note)
    /\ \A f \in Files : col[<<0, f>>] # "other"
    /\ kind = "keep" => Missing # {}
    /\ \E files \in Uploads : plan' = [plan EXCEPT ![a] = Append(files, Note)]
    /\ journal' = [journal EXCEPT ![a] =
           [state |-> "prepared", steps |-> [k \in DOMAIN plan'[a] |-> "intent_recorded"]]]
    /\ cli' = [Idle EXCEPT !.at = "opened", !.op = a, !.mode = "apply"]
    /\ UNCHANGED <<receipt, wire, col, edits, native>>

EnterPreflight ==
    /\ cli.at = "opened"
    /\ WriteState("preflight")
    /\ Goto("begin")
    /\ UNCHANGED <<plan, receipt, wire, col, edits, native>>

\* reconcile: any journal that has not ended, in the session it finds (a changed
\* one after an explicit rebinding decision).
StartReconcile(a) ==
    /\ cli.at = "idle"
    /\ journal[a].state \notin Terminal \cup {"none"}
    /\ cli' = [Idle EXCEPT !.at = "begin", !.op = a, !.mode = "reconcile"]
    /\ UNCHANGED <<journal, plan, receipt, wire, col, edits, native>>

NewOwner == owner.fence < MaxFence /\ Native!Begin(owner.fence + 1)

\* A fresh owner before anything is read or sent: every older request is fenced.
Begin ==
    /\ cli.at = "begin"
    /\ NewOwner
    /\ cli' = [cli EXCEPT
                 !.at = IF cli.mode = "apply" THEN "checkpoint" ELSE "step",
                 !.fence = owner.fence + 1]
    /\ UNCHANGED <<journal, plan, receipt, wire, col, edits>>

\* Refused, or its answer lost.
BeginFails ==
    /\ cli.at = "begin"
    /\ UNCHANGED native \/ NewOwner
    /\ IF cli.mode = "apply" THEN WriteState("failed_before_write") ELSE UNCHANGED journal
    /\ cli' = Idle
    /\ UNCHANGED <<plan, receipt, wire, col, edits>>

EnterCheckpointed ==
    /\ cli.at = "checkpoint"
    /\ WriteState("checkpointed")
    /\ Goto("step")
    /\ UNCHANGED <<plan, receipt, wire, col, edits, native>>

-----------------------------------------------------------------------------
(* One step: record, send, wait, read back                                 *)

\* drive: the request is recorded before it is sent.
StartRequest ==
    /\ At("apply", "step") /\ ~ AllVerified
    /\ Write("mutating", "request_started")
    /\ Goto("send")
    /\ UNCHANGED <<plan, receipt, wire, col, edits, native>>

\* port.mutate: the request leaves, or is lost or held back here.
Send ==
    /\ cli.at = "send"
    /\ wire' = wire \cup {[op |-> Op, fence |-> cli.fence]} \/ UNCHANGED wire
    /\ Goto("wait")
    /\ UNCHANGED <<journal, plan, receipt, col, edits, native>>

\* What comes back before the deadline: the verdict, a refusal of the request
\* itself, or nothing that says what became of it.
Wait ==
    /\ cli.at = "wait"
    /\ \/ /\ verdict[Op] \in {"verified", "failed"}
          /\ cli' = [cli EXCEPT !.at = "look", !.answer = verdict[Op]]
          /\ UNCHANGED wire
       \/ /\ verdict[Op] = "absent"
          /\ wire' = wire \ {[op |-> Op, fence |-> cli.fence]}
          /\ cli' = [cli EXCEPT !.at = "look", !.answer = "rejected"]
       \/ /\ cli' = [cli EXCEPT !.at = "look", !.answer = "lost"]
          /\ UNCHANGED wire
    /\ UNCHANGED <<journal, plan, receipt, col, edits, native>>

\* (Mutant) No answer is taken for a refusal.
RefusedOrLost == cli.answer \in {"failed", "rejected", "lost"}

Refused == cli.answer \in {"failed", "rejected"}

FailedStep == "observed_failure"

\* (Mutant) The effects of earlier steps are forgotten.
StateAfterFailureAlways == "failed_before_write"

\* observed_failure: earlier verified steps make the failure a partial one.
StateAfterFailure ==
    IF \A i \in DOMAIN J.steps \ {Current} :
           J.steps[i] \in {"intent_recorded", "observed_failure"}
    THEN "failed_before_write" ELSE "needs_recovery"

\* dispatch, after the answer: the word of the companion counts only together
\* with a read-back that agrees.
Outcome(view) ==
    \/ /\ cli.answer = "verified" /\ view = "expected"
       /\ Write(J.state, "observed_success")
       /\ Goto("confirm")
    \/ /\ cli.answer = "verified" /\ view = "different"
       /\ Write("needs_recovery", "observed_success")
       /\ Goto("end")
    \/ /\ Refused /\ view = "unchanged"
       /\ Write(StateAfterFailure, FailedStep)
       /\ Goto("end")
    \/ /\ \/ ~ Refused /\ cli.answer # "verified"
          \/ Refused /\ view # "unchanged"
          \/ cli.answer = "verified" /\ view \in {"unchanged", "error"}
       /\ Write("needs_recovery", "unknown")
       /\ Goto("end")

ReadBack ==
    /\ cli.at = "look" /\ cli.mode # "resubmit"
    /\ \E view \in Readings(Op) : Outcome(view)
    /\ UNCHANGED <<plan, receipt, wire, col, edits, native>>

\* The answer to a request sent again counts only when it succeeded.
ReadBackAgain ==
    /\ At("resubmit", "look")
    /\ \E view \in Readings(Op) :
         IF cli.answer = "verified" /\ view = "expected"
         THEN /\ Write(J.state, "verified")
              /\ cli' = [cli EXCEPT !.at = "step", !.mode = "reconcile"]
         ELSE /\ WriteState("needs_recovery")
              /\ Goto("end")
    /\ UNCHANGED <<plan, receipt, wire, col, edits, native>>

\* verify_step, its last append
Confirm ==
    /\ cli.at = "confirm"
    /\ Write(J.state, "verified")
    /\ Goto("step")
    /\ UNCHANGED <<plan, receipt, wire, col, edits, native>>

-----------------------------------------------------------------------------
(* reconcile: one step at a time                                           *)

\* (Mutant) An unknown outcome is taken for success.
EvidenceActionTrusting(answer, view, s) ==
    IF answer = "none" THEN IF view = "unchanged" THEN "dispatch" ELSE "review"
    ELSE IF answer = "accepted" THEN "wait"
    ELSE IF view = "expected" \/ answer = "unknown" THEN "adopt"
    ELSE IF view # "unchanged" \/ s \notin {"request_started", "unknown"} THEN "review"
    ELSE IF answer = "failed" THEN "record_failure"
    ELSE IF answer = "absent" THEN "resubmit"
    ELSE "review"

\* classify
EvidenceAction(answer, view, s) ==
    IF answer = "none" THEN IF view = "unchanged" THEN "dispatch" ELSE "review"
    ELSE IF answer = "accepted" THEN "wait"
    ELSE IF view = "expected" THEN "adopt"
    ELSE IF view # "unchanged" \/ s \notin {"request_started", "unknown"} THEN "review"
    ELSE IF answer = "failed" THEN "record_failure"
    ELSE IF answer = "absent" THEN "resubmit"
    ELSE "review"

\* The native status is read first; an intent was never sent, so it has none.
ReadStatus ==
    /\ At("reconcile", "step") /\ ~ AllVerified
    /\ IF StepState = "observed_failure"
       THEN Goto("end")
       ELSE cli' = [cli EXCEPT !.at = "classify",
                      !.answer = IF StepState = "intent_recorded" THEN "none" ELSE verdict[Op]]
    /\ UNCHANGED <<journal, plan, receipt, wire, col, edits, native>>

\* (Mutant) The outcome is recorded straight from the started request.
LeaveStarted == UNCHANGED journal

\* mark_unknown_if_started
MarkUnknownIfStarted ==
    IF StepState = "request_started" THEN Write("needs_recovery", "unknown")
    ELSE UNCHANGED journal

\* The collection is read second, and the action follows from both.
Classify ==
    /\ cli.at = "classify"
    /\ ReadStep(Op) # "error"
    /\ LET action == EvidenceAction(cli.answer, ReadStep(Op), StepState)
       IN  \/ /\ action = "adopt"
              /\ MarkUnknownIfStarted
              /\ Goto("confirm")
           \/ /\ action = "record_failure"
              /\ MarkUnknownIfStarted
              /\ Goto("settle")
           \/ /\ action = "resubmit"
              /\ MarkUnknownIfStarted
              /\ cli' = [cli EXCEPT !.at = "send", !.mode = "resubmit"]
           \/ /\ action \in {"wait", "review"}
              /\ MarkUnknownIfStarted
              /\ Goto("end")
           \/ /\ action = "dispatch"
              /\ J.state \in {"needs_recovery", "checkpointed", "mutating"}
              /\ Write("mutating", "request_started")
              /\ Goto("send")
           \/ /\ action = "dispatch"
              /\ J.state \notin {"needs_recovery", "checkpointed", "mutating"}
              /\ WriteState("failed_before_write")
              /\ Goto("end")
    /\ UNCHANGED <<plan, receipt, wire, col, edits, native>>

\* A refusal proved by the ledger and the collection.
Settle ==
    /\ cli.at = "settle"
    /\ Write(StateAfterFailure, FailedStep)
    /\ Goto("end")
    /\ UNCHANGED <<plan, receipt, wire, col, edits, native>>

-----------------------------------------------------------------------------
(* commit                                                                  *)

\* The note is read once more; study or an edit since the last read-back stops
\* the commit, and so does a note that is gone.
FinalReadBack ==
    /\ cli.at = "step" /\ AllVerified
    /\ LET now == col[Place(<<cli.op, Note>>)]
       IN  \/ /\ now = "desired"
              /\ WriteState("verifying")
              /\ Goto("receipt")
           \/ /\ now \notin {"desired", "absent"}
              /\ WriteState("needs_recovery")
              /\ cli' = Idle
    /\ UNCHANGED <<plan, receipt, wire, col, edits, native>>

SaveReceipt ==
    /\ cli.at = "receipt"
    /\ receipt' = [receipt EXCEPT ![cli.op] = TRUE]
    /\ Goto("close")
    /\ UNCHANGED <<journal, plan, wire, col, edits, native>>

Close ==
    /\ cli.at = "close"
    /\ WriteState("committed")
    /\ Goto("end")
    /\ UNCHANGED <<plan, receipt, wire, col, edits, native>>

\* port.end, only after durable accounting
End ==
    /\ cli.at = "end"
    /\ Native!End(cli.fence)
    /\ cli' = Idle
    /\ UNCHANGED <<journal, plan, receipt, wire, col, edits>>

-----------------------------------------------------------------------------

Command ==
    \/ \E a \in Attempts : StartApply(a) \/ StartReconcile(a)
    \/ EnterPreflight \/ Begin \/ BeginFails \/ EnterCheckpointed
    \/ StartRequest \/ Send \/ Wait \/ ReadBack \/ ReadBackAgain \/ Confirm
    \/ ReadStatus \/ Classify \/ Settle
    \/ FinalReadBack \/ SaveReceipt \/ Close \/ End
    \/ Stop

Anki ==
    \/ \E r \in wire : Deliver(r)
    \/ \E o \in Ops : TakeEffect(o) \/ Judge(o)
    \/ NewSession
    \/ \E p \in Places : Edit(p)

Next == (Command \/ Anki) /\ UNCHANGED kind

Spec == Init /\ [][Next]_vars

-----------------------------------------------------------------------------
(* Properties                                                              *)

Points == {"idle", "opened", "begin", "checkpoint", "step", "send", "wait", "look",
            "confirm", "classify", "settle", "receipt", "close", "end"}

TypeOK ==
    /\ kind \in Kinds
    /\ journal \in [Attempts -> JournalsUpTo(NFiles + 1) \cup {NoJournal}]
    /\ \A a \in Attempts :
           plan[a] \in [DOMAIN journal[a].steps -> Targets]
    /\ receipt \in [Attempts -> BOOLEAN]
    /\ cli \in [at : Points, op : Attempts \cup {0},
                mode : {"none", "apply", "reconcile", "resubmit"}, fence : 0..MaxFence,
                answer : Native!Verdicts \cup {"none", "rejected", "lost"}]
    /\ wire \subseteq [op : Ops, fence : 1..MaxFence]
    /\ col \in [Places -> Contents]
    /\ edits \in 0..MaxEdits
    /\ verdict \in [Ops -> Native!Verdicts]
    /\ effects \in [Ops -> Nat]

\* The store refuses nothing the driver or the recovery wants to record, at any
\* point a crash may have left the journal: a refused append would leave an
\* effect unaccounted for.
StoreAccepts ==
    [][\A a \in Attempts : journal'[a] # journal[a] =>
          IF journal[a].state = "none" THEN Fresh(journal'[a])
          ELSE MayFollow(journal[a], journal'[a])]_vars

\* The step of an operation's journal.
StepOf(o) ==
    LET j == journal[o[1]]
        K == {k \in DOMAIN j.steps : plan[o[1]][k] = o[2]}
    IN  IF K = {} THEN "none" ELSE j.steps[CHOOSE k \in K : TRUE]

\* The collection changes only for a step whose request is on record and still
\* open: a step written off as failed, or confirmed, never takes effect later.
NoLateEffect ==
    [][\A o \in Ops : effects'[o] # effects[o] =>
          StepOf(o) \in {"request_started", "unknown"}]_vars

\* An operation that changed the collection is committed, or on the list of
\* pending ones: no effect is forgotten, whatever died when.
EffectsAreAccounted ==
    \A o \in Ops : effects[o] > 0 =>
        journal[o[1]].state = "committed" \/ Pending(journal[o[1]])

\* A committed operation has its receipt, and each of its steps is an effect the
\* companion really had, for a created note the effect of this very operation.
CommittedIsReal ==
    \A a \in Attempts : journal[a].state = "committed" =>
        /\ receipt[a]
        /\ \A k \in DOMAIN plan[a] :
               \E b \in Attempts :
                   /\ effects[<<b, plan[a][k]>>] = 1
                   /\ Place(<<b, plan[a][k]>>) = Place(<<a, plan[a][k]>>)

\* "A committed item cannot be applied again, and an unresolved earlier operation
\* blocks a new attempt until `recover reconcile`" (wp-11.md): once the item is
\* committed, no other operation has put, or puts, its note into the collection.
ItemAppliedOnce ==
    \A a, b \in Attempts :
        journal[a].state = "committed" /\ effects[<<b, Note>>] > 0 => a = b

\* "True when every effect of an earlier attempt is either a verified
\* content-addressed media upload or a native failure proven to have had no
\* collection effect; a new attempt may then supersede it" (superseded_safely).
HarmlessIsSuperseded ==
    \A a \in Attempts :
        LET j == journal[a]
        IN  /\ j.state = "needs_recovery"
            /\ In(j, {"observed_failure"}) # {}
            /\ \A k \in DOMAIN j.steps :
                   \/ j.steps[k] \in {"intent_recorded", "observed_failure"}
                   \/ j.steps[k] = "verified" /\ plan[a][k] # Note
            => SupersededSafely(a)

\* "For each unresolved step it reads native status and the collection: a matching
\* read-back is adopted; pending is waited on" (wp-11.md, ALG-RECONCILE); here only
\* for a step the companion itself reports as verified.
MatchIsAdopted ==
    \A o \in Ops :
        /\ StepOf(o) \in {"request_started", "unknown"}
        /\ verdict[o] = "verified"
        /\ col[Place(o)] = "desired"
        => EvidenceAction(verdict[o], ReadStep(o), StepOf(o)) = "adopt"

=============================================================================
