----------------------------- MODULE MergeNotes ------------------------------
(***************************************************************************)
(* Deleting a duplicate that was merged into its survivor, and bringing it  *)
(* back (application/merge.rs, over the merge_deletions table of the store  *)
(* and the companion).                                                      *)
(*                                                                         *)
(* The evidence of the note and the operation id are recorded before the    *)
(* delete is sent; whoever finds a delete that was sent asks the companion  *)
(* what became of it.  No lease is taken: the campaign's child and a user   *)
(* may run the commands at once, each may die between any two steps, and    *)
(* Anki's user edits and studies the note at any moment.                    *)
(***************************************************************************)
EXTENDS Naturals

CONSTANTS
    Procs,          \* the processes that may run a command
    NRestores,      \* bound: restore operations
    MaxFence,       \* bound: owners issued
    MaxChanges      \* bound: edits and reviews of the note by Anki's user

ASSUME MergeAssumption == NRestores \in Nat /\ MaxFence \in Nat /\ MaxChanges \in Nat

VARIABLES
    note,       \* the duplicate in the collection
    record,     \* its row of merge_deletions
    cli,        \* the command each process runs
    wire,       \* requests sent and not yet received
    gone,       \* history: the note as it was when it was deleted
    alone,      \* history: no two commands ever ran at once
    verdict, fenceOf, effects, owner, session   \* the companion

native == <<verdict, fenceOf, effects, owner, session>>
vars == <<note, record, cli, wire, gone, alone, native>>

Delete == 0
Restores == 1..NRestores
Ops == {Delete} \cup Restores

Native == INSTANCE NativeService WITH Exports <- {}

\* content: 0 is what the plan archived; reviews: how often it was studied.
Absent == [there |-> FALSE, content |-> 0, reviews |-> 0]

NoRecord == [state |-> "none", pre |-> 0, evidence |-> Absent, restore |-> 0]
Idle == [at |-> "idle", op |-> 0, evidence |-> Absent, sent |-> FALSE, fence |-> 0]

Init ==
    /\ note = [there |-> TRUE, content |-> 0, reviews |-> 0]
    /\ record = NoRecord
    /\ cli = [p \in Procs |-> Idle]
    /\ wire = {}
    /\ gone = Absent
    /\ alone = TRUE
    /\ verdict = [o \in Ops |-> "absent"]
    /\ fenceOf = [o \in Ops |-> 0]
    /\ effects = [o \in Ops |-> 0]
    /\ owner = [fence |-> 0, session |-> 0, released |-> TRUE]
    /\ session = 1

\* A process starts a command.
Starts(p) ==
    /\ cli[p].at = "idle"
    /\ alone' = (alone /\ \A q \in Procs \ {p} : cli[q].at = "idle")

At(p, place) == cli[p].at = place
Goto(p, place) == cli' = [cli EXCEPT ![p].at = place]
Return(p) == cli' = [cli EXCEPT ![p] = Idle]

\* The process dies, or the command ends in an error that changes nothing.
Stop(p) ==
    /\ ~ At(p, "idle")
    /\ Return(p)
    /\ UNCHANGED <<note, record, wire, gone, alone, native>>

\* Anki's user edits the note, studies it, or deletes it.
Change ==
    /\ note.there /\ note.content + note.reviews < MaxChanges
    /\ \/ note' = [note EXCEPT !.content = @ + 1]
       \/ note' = [note EXCEPT !.reviews = @ + 1]
       \/ note' = Absent
    /\ UNCHANGED <<record, cli, wire, gone, alone, native>>

-----------------------------------------------------------------------------
(* delete_merged                                                           *)

\* The caller reads the evidence of the note (merge_cmd.rs, delete).
ReadEvidence(p) ==
    /\ Starts(p)
    /\ record.state \notin {"deleted", "restored"}
    /\ cli' = [cli EXCEPT ![p] = [Idle EXCEPT !.at = "decide", !.op = Delete,
                                              !.evidence = note]]
    /\ UNCHANGED <<note, record, wire, gone, native>>

\* The first time: the evidence still has the archived fields, and the note is
\* read once more for the precondition.  One record wins.
RecordDeletion(p) ==
    /\ At(p, "decide") /\ record.state = "none"
    /\ cli[p].evidence.there /\ cli[p].evidence.content = 0
    /\ note.there
    /\ record' = [NoRecord EXCEPT !.state = "intent", !.pre = note.content,
                                  !.evidence = cli[p].evidence]
    /\ Goto(p, "mark")
    /\ UNCHANGED <<note, wire, gone, alone, native>>

\* Another time: a delete that was sent is settled first.
FindDeletion(p) ==
    /\ At(p, "decide")
    /\ record.state \notin {"none", "deleted", "restored"}
    /\ cli' = [cli EXCEPT ![p].sent = record.state = "sent",
                          ![p].at = IF record.state = "sent" THEN "settle" ELSE "mark"]
    /\ UNCHANGED <<note, record, wire, gone, alone, native>>

\* set_merge_deletion_state: compare and set.
CompareAndSet(expected, state) ==
    /\ record.state = expected
    /\ record' = [record EXCEPT !.state = state]

\* That it is sent is recorded before it is.
MarkSent(p) ==
    /\ At(p, "mark")
    /\ CompareAndSet("intent", "sent")
    /\ Goto(p, "begin")
    /\ UNCHANGED <<note, wire, gone, alone, native>>

-----------------------------------------------------------------------------
(* restore_merged                                                          *)

\* A new operation for every attempt, unless one was sent and is unsettled.
StartRestore(p) ==
    /\ Starts(p)
    /\ record.state = "deleted" /\ record.restore < NRestores
    /\ record' = [record EXCEPT !.state = "restore_sent", !.restore = @ + 1]
    /\ cli' = [cli EXCEPT ![p] = [Idle EXCEPT !.at = "begin", !.op = record.restore + 1]]
    /\ UNCHANGED <<note, wire, gone, native>>

ResumeRestore(p) ==
    /\ Starts(p)
    /\ record.state = "restore_sent"
    /\ cli' = [cli EXCEPT ![p] = [Idle EXCEPT !.at = "settle", !.op = record.restore,
                                              !.sent = TRUE]]
    /\ UNCHANGED <<note, record, wire, gone, native>>

-----------------------------------------------------------------------------
(* drive                                                                   *)

\* What the ledger says of an operation that was sent.
Settle(p) ==
    /\ At(p, "settle")
    /\ \/ verdict[cli[p].op] = "verified" /\ Goto(p, "verified")
       \/ verdict[cli[p].op] \in {"absent", "failed"} /\ Goto(p, "begin")
    /\ UNCHANGED <<note, record, wire, gone, alone, native>>

Begin(p) ==
    /\ At(p, "begin") /\ owner.fence < MaxFence
    /\ Native!Begin(owner.fence + 1)
    /\ cli' = [cli EXCEPT ![p].at = "send", ![p].fence = owner.fence + 1]
    /\ UNCHANGED <<note, record, wire, gone, alone>>

\* (Mutant) An outcome nobody knows is taken for a refusal.
RefusalOrUnknown == {"failed", "unknown"}

\* The verdicts that prove that nothing was written.
Refusal == {"failed"}

\* mutate, and the end of the owner.  What comes back: the verdict of the row, a
\* refusal of the request itself, or nothing that says what became of it.
Send(p) ==
    /\ At(p, "send")
    /\ wire' = wire \cup {[op |-> cli[p].op, fence |-> cli[p].fence]}
    /\ Goto(p, "wait")
    /\ UNCHANGED <<note, record, gone, alone, native>>

Answered(p) ==
    /\ At(p, "wait")
    /\ LET r == [op |-> cli[p].op, fence |-> cli[p].fence] IN
         \/ verdict[cli[p].op] = "verified" /\ Goto(p, "verified") /\ UNCHANGED wire
         \/ verdict[cli[p].op] \in Refusal /\ Goto(p, "refused") /\ UNCHANGED wire
         \/ /\ verdict[cli[p].op] = "absent" /\ ~ Native!Holds(cli[p].fence)
            /\ wire' = wire \ {r}
            /\ Goto(p, "refused")
    /\ IF owner.fence = cli[p].fence THEN Native!End(cli[p].fence) ELSE UNCHANGED native
    /\ UNCHANGED <<note, record, gone, alone>>

Done == [op \in Ops |-> IF op = Delete THEN "deleted" ELSE "restored"]
Sent == [op \in Ops |-> IF op = Delete THEN "sent" ELSE "restore_sent"]

\* (Mutant) A refused restore is taken for one that was not needed.
RefusedAsDone == [op \in Ops |-> IF op = Delete THEN "intent" ELSE "restored"]

Refused == [op \in Ops |-> IF op = Delete THEN "intent" ELSE "deleted"]

RecordVerified(p) ==
    /\ At(p, "verified")
    /\ CompareAndSet(Sent[cli[p].op], Done[cli[p].op])
    /\ Return(p)
    /\ UNCHANGED <<note, wire, gone, alone, native>>

RecordRefused(p) ==
    /\ At(p, "refused")
    /\ CompareAndSet(Sent[cli[p].op], Refused[cli[p].op])
    /\ Return(p)
    /\ UNCHANGED <<note, wire, gone, alone, native>>

-----------------------------------------------------------------------------
(* The companion                                                           *)

Deliver(r) ==
    /\ Native!Accept(r.op, r.fence)
    /\ wire' = wire \ {r}
    /\ UNCHANGED <<note, record, cli, gone, alone>>

\* The native preflight: the note still has the content of the record, or is
\* still absent.  Its schedule is not compared.
TakeEffect(o) ==
    /\ Native!TakeEffect(o)
    /\ IF o = Delete
       THEN /\ note.there /\ note.content = record.pre
            /\ note' = Absent /\ gone' = note
       ELSE ~ note.there /\ note' = record.evidence /\ UNCHANGED gone
    /\ UNCHANGED <<record, cli, wire, alone>>

Judge(o) ==
    /\ session' = session
    /\ Native!Judge(o)
    /\ UNCHANGED <<note, record, cli, wire, gone, alone>>

Next ==
    \/ Change
    \/ \E p \in Procs :
         \/ Stop(p) \/ ReadEvidence(p) \/ RecordDeletion(p) \/ FindDeletion(p) \/ MarkSent(p)
         \/ StartRestore(p) \/ ResumeRestore(p) \/ Settle(p) \/ Begin(p) \/ Send(p)
         \/ Answered(p) \/ RecordVerified(p) \/ RecordRefused(p)
    \/ \E r \in wire : Deliver(r)
    \/ \E o \in Ops : TakeEffect(o) \/ Judge(o)

Spec == Init /\ [][Next]_vars

-----------------------------------------------------------------------------
(* Properties.                                                             *)

TypeOK ==
    /\ note.there \in BOOLEAN /\ gone.there \in BOOLEAN
    /\ record.state \in {"none", "intent", "sent", "deleted", "restore_sent", "restored"}
    /\ record.evidence.there = (record.state # "none")
    /\ record.restore > 0 => record.state \in {"deleted", "restore_sent", "restored"}
    /\ \A p \in Procs : cli[p].at \in {"idle", "decide", "mark", "settle", "begin", "send",
                                       "wait", "verified", "refused"}
    /\ \A o \in Ops : verdict[o] \in Native!Verdicts

\* Whoever runs the commands at once, and wherever they die: a deletion recorded
\* as done or undone was done or undone (merge.rs, drive and the compare-and-set
\* of the states).  With two commands at once the restore that brought the note
\* back need not be the one the record names.
RecordIsTrue ==
    /\ record.state \in {"deleted", "restore_sent", "restored"} => effects[Delete] = 1
    /\ record.state = "restored" => \E r \in Restores : effects[r] = 1

\* As long as no two commands ran at once: however often a restore is stopped,
\* tried again, refused or lost, one operation at most brings the note back, so
\* a note the user deletes afterwards stays deleted.
RestoredOnce == alone => \A a, b \in Restores : effects[a] = 1 /\ effects[b] = 1 => a = b

\* What a restore brings back is the note as it was deleted ("Its complete
\* pre-delete evidence (note, cards with their schedule, review rows) is stored
\* first, so restore_merged can recreate it").
RestorableAsDeleted == effects[Delete] = 1 => gone = record.evidence

=============================================================================
