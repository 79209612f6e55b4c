---------------------------- MODULE JournalRules ----------------------------
(***************************************************************************)
(* The rules of an operation journal: which journals the store accepts,    *)
(* which journal may follow which, and which ones still need recovery      *)
(* (crates/linguist-store/src/journal.rs, validate, transition, pending).  *)
(*                                                                         *)
(* A journal is the state of one operation and the states of its recorded  *)
(* steps, in dispatch order.  Identities, digests and issue texts are data *)
(* the rules only compare for equality; they are left out, and a step is   *)
(* known by its position.                                                  *)
(***************************************************************************)
EXTENDS Naturals, Sequences

OpStates == {"prepared", "preflight", "checkpointed", "mutating", "verifying",
             "committed", "failed_before_write", "needs_recovery",
             "compensated", "restored"}

StepStates == {"intent_recorded", "request_started", "observed_success",
               "observed_failure", "unknown", "verified"}

Terminal == {"failed_before_write", "committed", "compensated", "restored"}

\* The journals with at most n steps.
JournalsUpTo(n) ==
    [state : OpStates, steps : UNION {[1..m -> StepStates] : m \in 0..n}]

In(j, S) == {k \in DOMAIN j.steps : j.steps[k] \in S}

\* A sent request whose effect nobody has established yet.
InDoubt(j) == In(j, {"request_started", "unknown"})

AllIn(j, S) == In(j, S) = DOMAIN j.steps

-----------------------------------------------------------------------------
(* pending: does the operation block new work until it is recovered?       *)

Pending(j) ==
    /\ j.state \notin {"committed", "failed_before_write", "restored"}
    /\ \/ j.state \in {"mutating", "verifying", "needs_recovery"}
       \/ In(j, {"request_started", "unknown", "observed_success",
                 "observed_failure"}) # {}

-----------------------------------------------------------------------------
(* validate: is the journal acceptable on its own?                         *)

\* (Mutant) A restore may finalize an operation with an effect in doubt.
ValidDespiteDoubt(j) ==
    /\ j.state # "compensated"
    /\ j.state = "committed" => j.steps # <<>> /\ AllIn(j, {"verified"})
    /\ j.state = "failed_before_write" =>
           AllIn(j, {"intent_recorded", "observed_failure"})

Valid(j) ==
    /\ j.state # "compensated"
    /\ j.state = "restored" => InDoubt(j) = {}
    /\ j.state = "committed" => j.steps # <<>> /\ AllIn(j, {"verified"})
    /\ j.state = "failed_before_write" =>
           AllIn(j, {"intent_recorded", "observed_failure"})

\* What a journal must look like when the store first sees it.
Fresh(j) == j.state = "prepared" /\ AllIn(j, {"intent_recorded"})

-----------------------------------------------------------------------------
(* transition: may `new` replace `old`?                                    *)

StateMoves ==
    {<<"prepared", "preflight">>, <<"prepared", "failed_before_write">>,
     <<"prepared", "needs_recovery">>,
     <<"preflight", "checkpointed">>, <<"preflight", "failed_before_write">>,
     <<"preflight", "needs_recovery">>,
     <<"checkpointed", "mutating">>, <<"checkpointed", "failed_before_write">>,
     <<"checkpointed", "needs_recovery">>,
     <<"mutating", "verifying">>, <<"mutating", "needs_recovery">>,
     <<"mutating", "failed_before_write">>,
     <<"verifying", "needs_recovery">>, <<"verifying", "committed">>,
     <<"needs_recovery", "mutating">>, <<"needs_recovery", "verifying">>,
     <<"needs_recovery", "failed_before_write">>,
     <<"committed", "restored">>, <<"needs_recovery", "restored">>}

\* (Mutant) A refused step is planned anew.
StepMovesAnew ==
    {<<"intent_recorded", "request_started">>,
     <<"request_started", "observed_success">>,
     <<"request_started", "observed_failure">>,
     <<"request_started", "unknown">>,
     <<"observed_success", "verified">>,
     <<"unknown", "verified">>, <<"unknown", "observed_failure">>,
     <<"observed_failure", "intent_recorded">>}

StepMoves ==
    {<<"intent_recorded", "request_started">>,
     <<"request_started", "observed_success">>,
     <<"request_started", "observed_failure">>,
     <<"request_started", "unknown">>,
     <<"observed_success", "verified">>,
     <<"unknown", "verified">>, <<"unknown", "observed_failure">>}

Finalizing(old, new) == new.state = "restored" /\ old.state # "restored"

\* (Mutant) The terminal states are not checked.
TerminalReopens(old, new) ==
    \/ old.state = new.state
    \/ <<old.state, new.state>> \in StateMoves

\* The operation moves along an allowed pair, and never out of a terminal state
\* except to be finalized as restored.
StateMayMove(old, new) ==
    /\ \/ old.state = new.state
       \/ <<old.state, new.state>> \in StateMoves
    /\ ~ Finalizing(old, new) => old.state \notin Terminal

\* The steps whose request the new journal starts.
Dispatched(old, new) ==
    {k \in In(new, {"request_started"}) \cap DOMAIN old.steps :
        old.steps[k] = "intent_recorded"}

\* (Mutant) Only what is in doubt blocks a dispatch, not the order.
DispatchAnyOrder(old, new) ==
    Dispatched(old, new) # {} => InDoubt(old) = {}

\* A step may be started only when every earlier step is verified and nothing
\* is in doubt.
DispatchInOrder(old, new) ==
    \A k \in Dispatched(old, new) :
        /\ \A i \in 1..(k-1) : old.steps[i] = "verified"
        /\ InDoubt(old) = {}

\* Recorded steps stay, move along allowed pairs, and new ones are intents.
StepsMayMove(old, new) ==
    /\ Len(old.steps) =< Len(new.steps)
    /\ \A k \in DOMAIN old.steps :
           \/ old.steps[k] = new.steps[k]
           \/ <<old.steps[k], new.steps[k]>> \in StepMoves
    /\ \A k \in DOMAIN new.steps \ DOMAIN old.steps :
           new.steps[k] = "intent_recorded"

MayFollow(old, new) ==
    /\ Valid(new)
    /\ StateMayMove(old, new)
    /\ DispatchInOrder(old, new)
    /\ StepsMayMove(old, new)
    /\ In(new, {"unknown"}) # {} => new.state = "needs_recovery"
    /\ Finalizing(old, new) => new.steps = old.steps

=============================================================================
