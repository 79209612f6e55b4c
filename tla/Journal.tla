------------------------------ MODULE Journal -------------------------------
(***************************************************************************)
(* The durable journal of one operation in the record store                *)
(* (crates/linguist-store/src/journal.rs), used by several writers: the    *)
(* command that applies the operation, and any command that recovers it    *)
(* while the first one is still running or after it died.                  *)
(*                                                                         *)
(* A writer reads the head, decides, and appends the journal it wants with *)
(* the version it read.  The store knows nothing of the writer's reasons,  *)
(* so the writers here propose every journal there is: what the properties *)
(* say holds whatever the callers do.                                      *)
(***************************************************************************)
EXTENDS JournalRules, FiniteSets

CONSTANTS
    Writers,        \* the processes that read and append
    MaxSteps,       \* the largest number of steps of an operation
    MaxSequence     \* the largest sequence number (u32::MAX in the store)

ASSUME MaxStepsAssumption == MaxSteps \in Nat
ASSUME MaxSequenceAssumption == MaxSequence \in Nat

VARIABLES
    head,       \* the version journal_heads points at; sequence 0: no row yet
    held,       \* per writer, the version it read or wrote last
    receipt,    \* is there a committed restore receipt for the operation?
    issued      \* history: how often each step was started by an append

vars == <<head, held, receipt, issued>>

Steps == 1..MaxSteps
Journals == JournalsUpTo(MaxSteps)
Versions == [sequence : 0..MaxSequence, journal : Journals]

EmptyJournal == [state |-> "prepared", steps |-> <<>>]
NoVersion == [sequence |-> 0, journal |-> EmptyJournal]

-----------------------------------------------------------------------------

Init ==
    /\ head = NoVersion
    /\ held = [w \in Writers |-> NoVersion]
    /\ receipt = FALSE
    /\ issued = [k \in Steps |-> 0]

\* Store::journal: read the current head.
Read(w) ==
    /\ head.sequence > 0
    /\ held' = [held EXCEPT ![w] = head]
    /\ UNCHANGED <<head, receipt, issued>>

\* (Mutant) Any version of an existing operation will do.
IsSomeVersion(version) == (head.sequence = 0) = (version.sequence = 0)

\* The expected version is compared with the head in one immediate transaction.
IsHead(version) == head = version

\* (Mutant) The sequence is incremented without a check.
AlwaysRoom(version) == TRUE

\* The next sequence number exists: checked_add.
HasRoom(version) == version.sequence < MaxSequence

\* The transaction of append_journal, after `new` passed its rules.
Store(w, expected, new) ==
    LET version == [sequence |-> expected.sequence + 1, journal |-> new]
    IN  /\ HasRoom(expected)
        /\ IsHead(expected)
        /\ head' = version
        /\ held' = [held EXCEPT ![w] = version]
        /\ issued' = [k \in Steps |->
                        IF k \in Dispatched(expected.journal, new)
                        THEN issued[k] + 1 ELSE issued[k]]
        /\ UNCHANGED receipt

\* append_journal(new, None)
AppendFirst(w, new) ==
    /\ Valid(new)
    /\ Fresh(new)
    /\ Store(w, NoVersion, new)

\* append_journal(new, Some(held version))
AppendNext(w, new) ==
    /\ held[w].sequence > 0
    /\ MayFollow(held[w].journal, new)
    /\ Finalizing(held[w].journal, new) => receipt
    /\ Store(w, held[w], new)

\* A restore that targets the operation commits (restore.rs), leaving the
\* receipt has_committed_restore looks for.
RestoreCommits ==
    /\ head.sequence > 0
    /\ ~ receipt
    /\ receipt' = TRUE
    /\ UNCHANGED <<head, held, issued>>

Next ==
    \/ \E w \in Writers : Read(w)
    \/ \E w \in Writers, new \in Journals : AppendFirst(w, new)
    \/ \E w \in Writers, new \in Journals : AppendNext(w, new)
    \/ RestoreCommits

Spec == Init /\ [][Next]_vars

-----------------------------------------------------------------------------
(* Properties                                                              *)

TypeOK ==
    /\ head \in Versions
    /\ held \in [Writers -> Versions]
    /\ receipt \in BOOLEAN
    /\ issued \in [Steps -> Nat]

\* The request of a step is started at most once, however many writers hold
\* however old a version: two commands that read the same head never both get
\* permission to send.
StartedOnce == \A k \in Steps : issued[k] =< 1

\* When a step has been started every earlier one was verified first, and at
\* most one step is unresolved: an effect in doubt blocks all later ones.
EffectsInOrder ==
    /\ \A k \in Steps : issued[k] > 0 =>
           \A i \in 1..(k-1) : head.journal.steps[i] = "verified"
    /\ \A k, l \in In(head.journal, StepStates \ {"intent_recorded", "verified"}) :
           k = l

\* A request that was started and whose effect is not established keeps the
\* operation on the list of pending ones (pending_journals), which is what
\* makes a new attempt and a commit wait for recovery.
DoubtIsPending ==
    InDoubt(head.journal) # {} => Pending(head.journal)

\* Once an operation has ended its journal is frozen, but for the finalization
\* of a committed one by a verified restore; a verified step never changes.
EndedIsFinal ==
    [][/\ head.journal.state \in Terminal =>
            \/ head' = head
            \/ /\ head.journal.state = "committed"
               /\ head'.journal.state = "restored"
               /\ head'.journal.steps = head.journal.steps
               /\ receipt
       /\ In(head.journal, {"verified"}) \subseteq In(head'.journal, {"verified"})]_vars

-----------------------------------------------------------------------------
(* The journal implements the promise of module Effects.                   *)

Outcome ==
    IF head.sequence = 0 THEN "none"
    ELSE IF head.journal.state = "committed" THEN "complete"
    ELSE IF head.journal.state = "failed_before_write" THEN "failed"
    ELSE IF head.journal.state = "restored" THEN "undone"
    ELSE "active"

Promise == INSTANCE Effects WITH
    outcome   <- Outcome,
    planned   <- DOMAIN head.journal.steps,
    doubtful  <- InDoubt(head.journal),
    seen      <- In(head.journal, {"observed_success"}),
    cleared   <- In(head.journal, {"observed_failure"}),
    confirmed <- In(head.journal, {"verified"})

\* Every accepted append is a step of the abstract operation, or none.
KeepsPromise == Promise!Spec

=============================================================================
