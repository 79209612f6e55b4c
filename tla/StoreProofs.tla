---------------------------- MODULE StoreProofs -----------------------------
(***************************************************************************)
(* Proofs about modules Journal, Lease and SplitRestore, which model the   *)
(* tables of one store and the commands that use them: for any set of      *)
(* writers, any number of steps and any sequence limit; for any set of     *)
(* pids, any lease duration and any number of starts, boots and            *)
(* acquisitions; for any children of a group and any number of attempts,   *)
(* restores, fences and faults.                                            *)
(***************************************************************************)
EXTENDS Journal, Lease, SplitRestore, FiniteSetTheorems, TLAPS

-----------------------------------------------------------------------------
(* The inductive invariant.                                                *)

\* The steps of a journal are verified ones, then at most one that was started,
\* then intents.
Shape(j) ==
    \A k \in DOMAIN j.steps : j.steps[k] # "intent_recorded" =>
        \A i \in 1..(k-1) : j.steps[i] = "verified"

\* The history counts exactly the steps the head shows as started.
Counted ==
    \A k \in Steps :
        issued[k] = IF k \in In(head.journal, StepStates \ {"intent_recorded"})
                    THEN 1 ELSE 0

IInv ==
    /\ TypeOK
    /\ Valid(head.journal)
    /\ Shape(head.journal)
    /\ Counted
    /\ head.sequence = 0 => head = NoVersion

-----------------------------------------------------------------------------

\* The steps of a journal are indexed from 1 to their number.
LEMMA StepsDomain ==
    ASSUME NEW j \in Journals
    PROVE  /\ Len(j.steps) \in 0..MaxSteps
           /\ DOMAIN j.steps = 1..Len(j.steps)
           /\ j.steps \in [1..Len(j.steps) -> StepStates]
           /\ j.state \in OpStates
<1>1. PICK m \in 0..MaxSteps : j.steps \in [1..m -> StepStates]
  BY DEF Journals, JournalsUpTo
<1>2. j.steps \in Seq(StepStates) /\ Len(j.steps) = m
  BY <1>1, MaxStepsAssumption
<1>. QED
  BY <1>1, <1>2 DEF Journals, JournalsUpTo

\* The journal without steps is one.
LEMMA EmptyIsJournal == EmptyJournal \in Journals
<1>1. <<>> \in [1..0 -> StepStates]
  OBVIOUS
<1>2. 0 \in 0..MaxSteps
  BY MaxStepsAssumption
<1>. QED
  BY <1>1, <1>2 DEF EmptyJournal, Journals, JournalsUpTo, OpStates

\* A step of the specification either leaves the head alone or stores a journal
\* that the rules let follow it.
LEMMA StepOfNext ==
    ASSUME TypeOK, Next
    PROVE  \/ UNCHANGED <<head, issued>>
           \/ \E w \in Writers, new \in Journals :
                 Valid(new) /\ Fresh(new) /\ Store(w, NoVersion, new)
           \/ \E w \in Writers, new \in Journals :
                 /\ held[w].sequence > 0
                 /\ MayFollow(held[w].journal, new)
                 /\ Finalizing(held[w].journal, new) => receipt
                 /\ Store(w, held[w], new)
  BY DEF Next, Read, AppendFirst, AppendNext, RestoreCommits

\* The missing row reads as a version.
LEMMA NoVersionIsVersion == NoVersion \in Versions
  BY EmptyIsJournal, MaxSequenceAssumption DEF NoVersion, Versions

\* Whatever the writers propose, the head row, the versions they hold and the
\* history stay of their types; sequence numbers never leave their range.
THEOREM TypeCorrect == Spec => []TypeOK
<1>1. Init => TypeOK
  <2>. SUFFICES ASSUME Init PROVE TypeOK
    OBVIOUS
  <2>1. head \in Versions /\ receipt \in BOOLEAN
    BY NoVersionIsVersion DEF Init
  <2>2. held \in [Writers -> Versions]
    BY NoVersionIsVersion DEF Init
  <2>3. issued \in [Steps -> Nat]
    BY DEF Init
  <2>. QED
    BY <2>1, <2>2, <2>3 DEF TypeOK
<1>2. TypeOK /\ [Next]_vars => TypeOK'
  <2>. SUFFICES ASSUME TypeOK, [Next]_vars PROVE TypeOK'
    OBVIOUS
  <2>. USE DEF TypeOK
  <2>1. ASSUME NEW w \in Writers, Read(w) PROVE TypeOK'
    BY <2>1 DEF Read
  <2>2. ASSUME NEW w \in Writers, NEW new \in Journals, NEW v \in Versions,
               Store(w, v, new)
        PROVE  TypeOK'
    <3>1. [sequence |-> v.sequence + 1, journal |-> new] \in Versions
      BY <2>2, MaxSequenceAssumption DEF Store, HasRoom, Versions
    <3>2. issued' \in [Steps -> Nat]
      BY <2>2 DEF Store
    <3>. QED
      BY <2>2, <3>1, <3>2 DEF Store
  <2>3. ASSUME NEW w \in Writers, NEW new \in Journals, AppendFirst(w, new)
        PROVE  TypeOK'
    BY <2>2, <2>3, NoVersionIsVersion DEF AppendFirst
  <2>4. ASSUME NEW w \in Writers, NEW new \in Journals, AppendNext(w, new)
        PROVE  TypeOK'
    BY <2>2, <2>4 DEF AppendNext
  <2>5. CASE RestoreCommits
    BY <2>5 DEF RestoreCommits
  <2>6. CASE UNCHANGED vars
    BY <2>6 DEF vars
  <2>. QED
    BY <2>1, <2>3, <2>4, <2>5, <2>6 DEF Next
<1>. QED
  BY <1>1, <1>2, PTL DEF Spec

-----------------------------------------------------------------------------
(* What the rules say of one step of a journal.                            *)

\* A verified step stays verified, a started one stays started, and the only
\* new started steps are the dispatched ones.
LEMMA FollowSteps ==
    ASSUME NEW old \in Journals, NEW new \in Journals, MayFollow(old, new)
    PROVE  /\ In(old, {"verified"}) \subseteq In(new, {"verified"})
           /\ In(new, StepStates \ {"intent_recorded"})
                = In(old, StepStates \ {"intent_recorded"}) \cup Dispatched(old, new)
           /\ \A k \in Dispatched(old, new) :
                 /\ k \in DOMAIN old.steps
                 /\ old.steps[k] = "intent_recorded"
                 /\ \A i \in 1..(k-1) : old.steps[i] = "verified"
<1>1. /\ Len(old.steps) \in Nat /\ DOMAIN old.steps = 1..Len(old.steps)
      /\ Len(new.steps) \in Nat /\ DOMAIN new.steps = 1..Len(new.steps)
      /\ old.steps \in [1..Len(old.steps) -> StepStates]
      /\ new.steps \in [1..Len(new.steps) -> StepStates]
  BY StepsDomain
<1>2. /\ Len(old.steps) =< Len(new.steps)
      /\ \A k \in DOMAIN old.steps :
           \/ old.steps[k] = new.steps[k]
           \/ <<old.steps[k], new.steps[k]>> \in StepMoves
      /\ \A k \in DOMAIN new.steps \ DOMAIN old.steps :
           new.steps[k] = "intent_recorded"
  BY DEF MayFollow, StepsMayMove
<1>3. DOMAIN old.steps \subseteq DOMAIN new.steps
  BY <1>1, <1>2
<1>4. \A k \in DOMAIN old.steps :
        /\ old.steps[k] = "verified" => new.steps[k] = "verified"
        /\ old.steps[k] = "intent_recorded" =>
              new.steps[k] \in {"intent_recorded", "request_started"}
        /\ old.steps[k] # "intent_recorded" => new.steps[k] # "intent_recorded"
  BY <1>2 DEF StepMoves
<1>5. In(old, {"verified"}) \subseteq In(new, {"verified"})
  BY <1>3, <1>4 DEF In
<1>6. Dispatched(old, new) =
        {k \in DOMAIN old.steps : /\ old.steps[k] = "intent_recorded"
                                  /\ new.steps[k] = "request_started"}
  BY <1>3 DEF Dispatched, In
<1>7. In(new, StepStates \ {"intent_recorded"})
         = In(old, StepStates \ {"intent_recorded"}) \cup Dispatched(old, new)
  <2>1. In(new, StepStates \ {"intent_recorded"})
          = {k \in DOMAIN new.steps : new.steps[k] # "intent_recorded"}
    BY <1>1 DEF In
  <2>2. In(old, StepStates \ {"intent_recorded"})
          = {k \in DOMAIN old.steps : old.steps[k] # "intent_recorded"}
    BY <1>1 DEF In
  <2>. QED
    BY <1>2, <1>3, <1>4, <1>6, <2>1, <2>2
<1>8. \A k \in Dispatched(old, new) :
        /\ k \in DOMAIN old.steps
        /\ old.steps[k] = "intent_recorded"
        /\ \A i \in 1..(k-1) : old.steps[i] = "verified"
  BY <1>6 DEF MayFollow, DispatchInOrder
<1>. QED
  BY <1>5, <1>7, <1>8

\* The shape of a journal survives every step the rules allow.
LEMMA FollowShape ==
    ASSUME NEW old \in Journals, NEW new \in Journals,
           MayFollow(old, new), Shape(old)
    PROVE  Shape(new)
<1>1. /\ Len(old.steps) \in Nat /\ DOMAIN old.steps = 1..Len(old.steps)
      /\ Len(new.steps) \in Nat /\ DOMAIN new.steps = 1..Len(new.steps)
      /\ old.steps \in [1..Len(old.steps) -> StepStates]
      /\ new.steps \in [1..Len(new.steps) -> StepStates]
  BY StepsDomain
<1>. SUFFICES ASSUME NEW k \in DOMAIN new.steps,
                     new.steps[k] # "intent_recorded",
                     NEW i \in 1..(k-1)
              PROVE  new.steps[i] = "verified"
  BY DEF Shape
<1>2. k \in In(old, StepStates \ {"intent_recorded"}) \cup Dispatched(old, new)
  <2>1. k \in In(new, StepStates \ {"intent_recorded"})
    BY <1>1 DEF In
  <2>. QED
    BY <2>1, FollowSteps
<1>3. CASE k \in In(old, StepStates \ {"intent_recorded"})
  <2>1. k \in DOMAIN old.steps /\ old.steps[k] # "intent_recorded"
    BY <1>3 DEF In
  <2>2. i \in DOMAIN old.steps /\ old.steps[i] = "verified"
    BY <2>1, <1>1 DEF Shape
  <2>. QED
    BY <2>2, FollowSteps DEF In
<1>4. CASE k \in Dispatched(old, new)
  <2>1. k \in DOMAIN old.steps /\ old.steps[i] = "verified"
    BY <1>4, FollowSteps
  <2>2. i \in DOMAIN old.steps
    BY <2>1, <1>1
  <2>. QED
    BY <2>1, <2>2, FollowSteps DEF In
<1>. QED
  BY <1>2, <1>3, <1>4

-----------------------------------------------------------------------------
(* The inductive invariant and the safety properties it implies.           *)

\* The invariant holds before the operation has a row.
LEMMA InitIInv == Init => IInv
<1>. SUFFICES ASSUME Init PROVE IInv
  OBVIOUS
<1>1. TypeOK
  <2>1. head \in Versions /\ receipt \in BOOLEAN
    BY NoVersionIsVersion DEF Init
  <2>2. held \in [Writers -> Versions] /\ issued \in [Steps -> Nat]
    BY NoVersionIsVersion DEF Init
  <2>. QED
    BY <2>1, <2>2 DEF TypeOK
<1>2. head = NoVersion /\ head.journal = EmptyJournal
  BY DEF Init, NoVersion
<1>3. DOMAIN head.journal.steps = {} /\ head.journal.state = "prepared"
  BY <1>2 DEF EmptyJournal
<1>4. Valid(head.journal) /\ Shape(head.journal) /\ Counted
  BY <1>3 DEF Init, Valid, Shape, Counted, In
<1>. QED
  BY <1>1, <1>2, <1>4 DEF IInv

\* The first journal of an operation.
LEMMA FirstIInv ==
    ASSUME IInv, NEW w \in Writers, NEW new \in Journals,
           Valid(new), Fresh(new), Store(w, NoVersion, new), TypeOK'
    PROVE  IInv'
<1>1. /\ head = NoVersion
      /\ head' = [sequence |-> 1, journal |-> new]
      /\ issued' = [k \in Steps |->
                       IF k \in Dispatched(EmptyJournal, new)
                       THEN issued[k] + 1 ELSE issued[k]]
  BY DEF Store, IsHead, NoVersion
<1>2. DOMAIN EmptyJournal.steps = {}
  BY DEF EmptyJournal
<1>3. \A k \in Steps : issued[k] = 0
  BY <1>1, <1>2 DEF IInv, Counted, In, NoVersion
<1>4. \A k \in Steps : issued'[k] = 0
  BY <1>1, <1>2, <1>3 DEF Dispatched
<1>5. \A k \in DOMAIN new.steps : new.steps[k] = "intent_recorded"
  BY DEF Fresh, AllIn, In
<1>6. Valid(head.journal)' /\ Shape(head.journal)'
  BY <1>1, <1>5 DEF Shape
<1>7. Counted'
  BY <1>1, <1>4, <1>5 DEF Counted, In
<1>. QED
  BY <1>1, <1>6, <1>7 DEF IInv

\* Every later one.
LEMMA NextIInv ==
    ASSUME IInv, NEW w \in Writers, NEW new \in Journals,
           MayFollow(head.journal, new), Store(w, head, new), TypeOK'
    PROVE  IInv'
<1>1. /\ head.journal \in Journals
      /\ head.sequence \in Nat
      /\ head' = [sequence |-> head.sequence + 1, journal |-> new]
      /\ issued' = [k \in Steps |->
                       IF k \in Dispatched(head.journal, new)
                       THEN issued[k] + 1 ELSE issued[k]]
  BY DEF IInv, TypeOK, Versions, Store
<1>2. Shape(new) /\ Valid(new)
  BY <1>1, FollowShape DEF IInv, MayFollow
<1>3. Counted'
  <2>1. ASSUME NEW k \in Dispatched(head.journal, new)
        PROVE  k \notin In(head.journal, StepStates \ {"intent_recorded"})
    BY <1>1, FollowSteps DEF In
  <2>2. In(new, StepStates \ {"intent_recorded"})
          = In(head.journal, StepStates \ {"intent_recorded"})
              \cup Dispatched(head.journal, new)
    BY <1>1, FollowSteps
  <2>3. ASSUME NEW k \in Steps
        PROVE  issued'[k] = IF k \in In(new, StepStates \ {"intent_recorded"})
                            THEN 1 ELSE 0
    <3>1. issued[k] = IF k \in In(head.journal, StepStates \ {"intent_recorded"})
                      THEN 1 ELSE 0
      BY DEF IInv, Counted
    <3>2. issued'[k] = IF k \in Dispatched(head.journal, new)
                       THEN issued[k] + 1 ELSE issued[k]
      BY <1>1
    <3>. QED
      BY <2>1, <2>2, <3>1, <3>2
  <2>. QED
    BY <1>1, <2>3 DEF Counted
<1>. QED
  BY <1>1, <1>2, <1>3 DEF IInv

\* The inductive invariant holds in every state of every behaviour.
THEOREM Invariant == Spec => []IInv
<1>1. Init => IInv
  BY InitIInv
<1>2. IInv /\ TypeOK' /\ [Next]_vars => IInv'
  <2>. SUFFICES ASSUME IInv, TypeOK', [Next]_vars PROVE IInv'
    OBVIOUS
  <2>1. CASE UNCHANGED <<head, issued>>
    BY <2>1 DEF IInv, Counted
  <2>2. ASSUME NEW w \in Writers, NEW new \in Journals,
               Valid(new), Fresh(new), Store(w, NoVersion, new)
        PROVE  IInv'
    BY <2>2, FirstIInv
  <2>3. ASSUME NEW w \in Writers, NEW new \in Journals,
               MayFollow(held[w].journal, new), Store(w, held[w], new)
        PROVE  IInv'
    <3>1. held[w] = head
      BY <2>3 DEF Store, IsHead
    <3>. QED
      BY <2>3, <3>1, NextIInv
  <2>4. CASE Next
    BY <2>1, <2>2, <2>3, <2>4, StepOfNext DEF IInv
  <2>. QED
    BY <2>1, <2>4 DEF vars
<1>. QED
  BY <1>1, <1>2, TypeCorrect, PTL DEF Spec

\* No step is ever started twice, whatever versions the writers hold.
THEOREM StartedOnceHolds == Spec => []StartedOnce
<1>1. IInv => StartedOnce
  BY DEF IInv, Counted, StartedOnce
<1>. QED
  BY <1>1, Invariant, PTL

\* Steps are started in order and at most one is unresolved.
THEOREM EffectsInOrderHolds == Spec => []EffectsInOrder
<1>1. IInv => EffectsInOrder
  <2>. SUFFICES ASSUME IInv PROVE EffectsInOrder
    OBVIOUS
  <2>1. head.journal \in Journals
    BY DEF IInv, TypeOK, Versions
  <2>2. /\ Len(head.journal.steps) \in Nat
        /\ DOMAIN head.journal.steps = 1..Len(head.journal.steps)
    BY <2>1, StepsDomain
  <2>3. ASSUME NEW k \in Steps, issued[k] > 0, NEW i \in 1..(k-1)
        PROVE  head.journal.steps[i] = "verified"
    <3>1. k \in In(head.journal, StepStates \ {"intent_recorded"})
      BY <2>3 DEF IInv, Counted
    <3>. QED
      BY <3>1 DEF IInv, Shape, In
  <2>4. ASSUME NEW k \in In(head.journal, StepStates \ {"intent_recorded", "verified"}),
               NEW l \in In(head.journal, StepStates \ {"intent_recorded", "verified"}),
               k < l
        PROVE  FALSE
    <3>1. k \in 1..(l-1)
      BY <2>2, <2>4 DEF In
    <3>. QED
      BY <3>1 DEF IInv, Shape, In
  <2>5. ASSUME NEW k \in In(head.journal, StepStates \ {"intent_recorded", "verified"}),
               NEW l \in In(head.journal, StepStates \ {"intent_recorded", "verified"})
        PROVE  k = l
    <3>1. k \in Nat /\ l \in Nat
      BY <2>2 DEF In
    <3>. QED
      BY <2>4, <3>1
  <2>. QED
    BY <2>3, <2>5 DEF EffectsInOrder
<1>. QED
  BY <1>1, Invariant, PTL

\* An effect in doubt keeps the operation on the list of pending ones.
THEOREM DoubtIsPendingHolds == Spec => []DoubtIsPending
<1>1. IInv => DoubtIsPending
  <2>. SUFFICES ASSUME IInv, NEW k \in InDoubt(head.journal)
                PROVE  Pending(head.journal)
    BY DEF DoubtIsPending
  <2>1. k \in DOMAIN head.journal.steps
        /\ head.journal.steps[k] \in {"request_started", "unknown"}
    BY DEF InDoubt, In
  <2>2. head.journal.state \notin {"committed", "failed_before_write", "restored"}
    BY <2>1 DEF IInv, Valid, AllIn, InDoubt, In
  <2>. QED
    BY <2>1, <2>2 DEF Pending, In
<1>. QED
  BY <1>1, Invariant, PTL

-----------------------------------------------------------------------------
(* Action properties and the refinement of Effects.                        *)

\* The end of an operation is final, but for a verified restore of a committed
\* one; a verified step stays verified.
THEOREM EndedIsFinalHolds == Spec => EndedIsFinal
<1>. DEFINE Final ==
       /\ head.journal.state \in Terminal =>
            \/ head' = head
            \/ /\ head.journal.state = "committed"
               /\ head'.journal.state = "restored"
               /\ head'.journal.steps = head.journal.steps
               /\ receipt
       /\ In(head.journal, {"verified"}) \subseteq In(head'.journal, {"verified"})
<1>1. IInv /\ [Next]_vars => [Final]_vars
  <2>. SUFFICES ASSUME IInv, Next PROVE Final
    OBVIOUS
  <2>1. CASE UNCHANGED <<head, issued>>
    BY <2>1
  <2>2. ASSUME NEW w \in Writers, NEW new \in Journals,
               Store(w, NoVersion, new)
        PROVE  Final
    <3>1. head.journal = EmptyJournal
      BY <2>2 DEF Store, IsHead, NoVersion
    <3>. QED
      BY <3>1 DEF EmptyJournal, Terminal, In
  <2>3. ASSUME NEW w \in Writers, NEW new \in Journals,
               MayFollow(held[w].journal, new),
               Finalizing(held[w].journal, new) => receipt,
               Store(w, held[w], new)
        PROVE  Final
    <3>1. /\ held[w] = head
          /\ head'.journal = new
          /\ head.journal \in Journals
      BY <2>3 DEF Store, IsHead, IInv, TypeOK, Versions
    <3>2. In(head.journal, {"verified"}) \subseteq In(head'.journal, {"verified"})
      BY <2>3, <3>1, FollowSteps
    <3>3. ASSUME head.journal.state \in Terminal
          PROVE  /\ head.journal.state = "committed"
                 /\ head'.journal.state = "restored"
                 /\ head'.journal.steps = head.journal.steps
                 /\ receipt
      <4>1. Finalizing(head.journal, new)
        BY <2>3, <3>1, <3>3 DEF MayFollow, StateMayMove
      <4>2. <<head.journal.state, "restored">> \in StateMoves
        BY <2>3, <3>1, <4>1 DEF MayFollow, StateMayMove, Finalizing
      <4>3. head.journal.state = "committed"
        BY <3>3, <4>2 DEF StateMoves, Terminal
      <4>. QED
        BY <2>3, <3>1, <4>1, <4>3 DEF MayFollow, Finalizing
    <3>. QED
      BY <3>2, <3>3
  <2>. QED
    BY <2>1, <2>2, <2>3, StepOfNext DEF IInv
<1>. QED
  BY <1>1, Invariant, PTL DEF Spec, EndedIsFinal

\* One accepted append, seen through the refinement mapping.
LEMMA AppendIsWork ==
    ASSUME IInv, NEW w \in Writers, NEW new \in Journals, head.sequence > 0,
           MayFollow(head.journal, new), Store(w, head, new)
    PROVE  Promise!Work \/ Promise!Undo
<1>. DEFINE old == head.journal
<1>1. /\ old \in Journals
      /\ head.sequence \in Nat
      /\ head'.journal = new
      /\ head'.sequence # 0
  BY DEF IInv, TypeOK, Versions, Store
<1>2. /\ Len(old.steps) \in Nat /\ DOMAIN old.steps = 1..Len(old.steps)
      /\ Len(new.steps) \in Nat /\ DOMAIN new.steps = 1..Len(new.steps)
      /\ old.steps \in [1..Len(old.steps) -> StepStates]
      /\ new.steps \in [1..Len(new.steps) -> StepStates]
  BY <1>1, StepsDomain
<1>3. /\ DOMAIN old.steps \subseteq DOMAIN new.steps
      /\ DOMAIN new.steps \subseteq Nat
      /\ \A k \in DOMAIN old.steps :
           \/ old.steps[k] = new.steps[k]
           \/ <<old.steps[k], new.steps[k]>> \in StepMoves
      /\ \A k \in DOMAIN new.steps \ DOMAIN old.steps :
           new.steps[k] = "intent_recorded"
  BY <1>2 DEF MayFollow, StepsMayMove
<1>4. /\ old.state = new.state \/ <<old.state, new.state>> \in StateMoves
      /\ ~ Finalizing(old, new) => old.state \notin Terminal
  BY DEF MayFollow, StateMayMove
<1>5. CASE Finalizing(old, new)
  <2>1. new.steps = old.steps /\ new.state = "restored" /\ old.state # "restored"
    BY <1>5 DEF MayFollow, Finalizing
  <2>2. old.state \in {"committed", "needs_recovery"}
    BY <1>4, <2>1 DEF StateMoves
  <2>3. InDoubt(old) = {}
    BY <2>1 DEF MayFollow, Valid, InDoubt, In
  <2>4. Outcome \in {"active", "complete"} /\ Outcome' = "undone"
    BY <1>1, <2>1, <2>2 DEF Outcome
  <2>5. UNCHANGED <<DOMAIN old.steps, InDoubt(old), In(old, {"observed_success"}),
                    In(old, {"observed_failure"}), In(old, {"verified"})>>
    BY <1>1, <2>1 DEF InDoubt, In
  <2>. QED
    BY <2>3, <2>4, <2>5 DEF Promise!Undo
<1>6. CASE ~ Finalizing(old, new)
  <2>1. old.state \notin Terminal /\ new.state # "restored"
    BY <1>4, <1>6 DEF Finalizing, Terminal
  <2>2. Outcome = "active"
    BY <2>1 DEF Outcome, Terminal
  <2>3. \/ Outcome' = "active"
        \/ /\ Outcome' = "complete"
           /\ DOMAIN new.steps # {}
           /\ In(new, {"verified"}) = DOMAIN new.steps
        \/ /\ Outcome' = "failed"
           /\ InDoubt(new) = {}
           /\ In(new, {"observed_success"}) = {}
           /\ In(new, {"verified"}) = {}
    <3>1. CASE new.state = "committed"
      <4>1. new.steps # <<>> /\ In(new, {"verified"}) = DOMAIN new.steps
        BY <3>1 DEF MayFollow, Valid, AllIn
      <4>2. DOMAIN new.steps # {}
        <5>1. new.steps \in Seq(StepStates)
          BY <1>2
        <5>2. Len(new.steps) # 0
          BY <4>1, <5>1
        <5>. QED
          BY <1>2, <5>2
      <4>. QED
        BY <1>1, <3>1, <4>1, <4>2 DEF Outcome
    <3>2. CASE new.state = "failed_before_write"
      BY <1>1, <3>2 DEF MayFollow, Valid, AllIn, InDoubt, In, Outcome
    <3>3. CASE new.state \notin {"committed", "failed_before_write"}
      BY <1>1, <2>1, <3>3 DEF Outcome
    <3>. QED
      BY <3>1, <3>2, <3>3
  <2>4. Promise!Learn \/ \E k \in DOMAIN old.steps : Promise!Send(k)
    <3>1. CASE Dispatched(old, new) = {}
      <4>1. \A k \in DOMAIN old.steps :
              old.steps[k] = "intent_recorded" => new.steps[k] = "intent_recorded"
        BY <1>3, <3>1 DEF Dispatched, In, StepMoves
      <4>2. Promise!Learn
        BY <1>1, <1>2, <1>3, <4>1
           DEF Promise!Learn, Promise!Sent, InDoubt, In, StepMoves, StepStates
      <4>. QED
        BY <4>2
    <3>2. ASSUME NEW k \in Dispatched(old, new)
          PROVE  Promise!Send(k)
      <4>1. /\ k \in DOMAIN old.steps /\ k \in DOMAIN new.steps
            /\ old.steps[k] = "intent_recorded"
            /\ new.steps[k] = "request_started"
            /\ \A i \in 1..(k-1) : old.steps[i] = "verified"
        BY <1>1, FollowSteps DEF Dispatched, In
      <4>2. \A i \in DOMAIN old.steps : i > k => old.steps[i] = "intent_recorded"
        BY <1>2, <4>1 DEF IInv, Shape
      <4>3. \A i \in DOMAIN old.steps :
              i # k => \/ i < k /\ old.steps[i] = "verified"
                       \/ i > k /\ old.steps[i] = "intent_recorded"
        BY <1>2, <4>1, <4>2
      <4>4. \A i \in DOMAIN new.steps :
              i # k => \/ i \in DOMAIN old.steps /\ new.steps[i] = old.steps[i]
                       \/ i \notin DOMAIN old.steps /\ new.steps[i] = "intent_recorded"
        <5>1. ASSUME NEW i \in DOMAIN old.steps, i > k
              PROVE  new.steps[i] = "intent_recorded"
          <6>1. i \notin Dispatched(old, new)
            BY <4>1, <5>1, <1>2, <1>1, FollowSteps
          <6>2. new.steps[i] \in {"intent_recorded", "request_started"}
            BY <1>3, <4>2, <5>1 DEF StepMoves
          <6>. QED
            BY <4>2, <5>1, <6>1, <6>2, <1>3 DEF Dispatched, In
        <5>2. ASSUME NEW i \in DOMAIN old.steps, i < k
              PROVE  new.steps[i] = "verified"
          <6>1. old.steps[i] = "verified"
            BY <1>2, <4>1, <5>2
          <6>. QED
            BY <1>3, <6>1, <5>2 DEF StepMoves
        <5>. QED
          BY <1>2, <1>3, <4>3, <5>1, <5>2
      <4>5. /\ InDoubt(old) = {}
            /\ In(old, {"observed_success"}) = {}
            /\ In(old, {"observed_failure"}) = {}
            /\ In(old, {"verified"}) = {i \in DOMAIN old.steps : i < k}
        BY <1>2, <4>1, <4>3, SMTT(60) DEF InDoubt, In
      <4>6. /\ InDoubt(new) = {k}
            /\ In(new, {"observed_success"}) = {}
            /\ In(new, {"observed_failure"}) = {}
            /\ In(new, {"verified"}) = {i \in DOMAIN old.steps : i < k}
        <5>1. \A i \in DOMAIN new.steps :
                \/ i = k /\ new.steps[i] = "request_started"
                \/ i < k /\ i \in DOMAIN old.steps /\ new.steps[i] = "verified"
                \/ i > k /\ new.steps[i] = "intent_recorded"
          <6>. SUFFICES ASSUME NEW i \in DOMAIN new.steps, i # k
                        PROVE  \/ i < k /\ i \in DOMAIN old.steps /\ new.steps[i] = "verified"
                               \/ i > k /\ new.steps[i] = "intent_recorded"
            BY <4>1
          <6>1. CASE i \in DOMAIN old.steps
            BY <4>3, <4>4, <6>1
          <6>2. CASE i \notin DOMAIN old.steps
            BY <1>2, <4>1, <4>4, <6>2
          <6>. QED
            BY <6>1, <6>2
        <5>2. \A i \in DOMAIN new.steps : ~(i < k /\ i > k) /\ ~(i = k /\ (i < k \/ i > k))
          BY <1>2, <4>1
        <5>3. InDoubt(new) = {k}
          BY <4>1, <5>1, <5>2 DEF InDoubt, In
        <5>4. /\ In(new, {"observed_success"}) = {}
              /\ In(new, {"observed_failure"}) = {}
          BY <5>1 DEF In
        <5>5. In(new, {"verified"}) = {i \in DOMAIN old.steps : i < k}
          BY <1>3, <5>1, <5>2 DEF In
        <5>. QED
          BY <5>3, <5>4, <5>5
      <4>7. Promise!Sent = {i \in DOMAIN old.steps : i < k}
        BY <4>5 DEF Promise!Sent
      <4>8. /\ InDoubt(head.journal)' = {k}
            /\ UNCHANGED <<In(old, {"observed_success"}),
                           In(old, {"observed_failure"}), In(old, {"verified"})>>
        BY <1>1, <4>5, <4>6 DEF InDoubt, In
      <4>9. k \in DOMAIN old.steps \ Promise!Sent
        BY <1>2, <4>1, <4>7
      <4>. QED
        BY <4>5, <4>7, <4>8, <4>9 DEF Promise!Send
    <3>. QED
      BY <3>1, <3>2 DEF Dispatched
  <2>. QED
    BY <1>1, <1>3, <2>2, <2>3, <2>4 DEF Promise!Work
<1>. QED
  BY <1>5, <1>6

\* The journal implements the promise of Effects.
THEOREM Refinement == Spec => KeepsPromise
<1>1. Init => Promise!Init
  BY DEF Init, Promise!Init, Outcome, NoVersion, EmptyJournal, InDoubt, In
<1>2. IInv /\ [Next]_vars => [Promise!Next]_(Promise!vars)
  <2>. SUFFICES ASSUME IInv, [Next]_vars
                PROVE  Promise!Next \/ UNCHANGED Promise!vars
    OBVIOUS
  <2>1. CASE UNCHANGED head
    BY <2>1 DEF Promise!vars, Outcome, InDoubt, In
  <2>2. ASSUME NEW w \in Writers, NEW new \in Journals,
               Valid(new), Fresh(new), Store(w, NoVersion, new)
        PROVE  Promise!Next
    <3>1. /\ head = NoVersion
          /\ head'.sequence = 1 /\ head'.journal = new
          /\ new.state = "prepared"
          /\ \A k \in DOMAIN new.steps : new.steps[k] = "intent_recorded"
      BY <2>2 DEF Store, IsHead, NoVersion, Fresh, AllIn, In
    <3>2. Outcome = "none" /\ Outcome' = "active"
      BY <3>1 DEF Outcome, NoVersion
    <3>3. DOMAIN new.steps \subseteq Nat
      BY StepsDomain
    <3>4. DOMAIN head.journal.steps = {}
      BY <3>1 DEF NoVersion, EmptyJournal
    <3>5. /\ UNCHANGED InDoubt(head.journal)
          /\ UNCHANGED In(head.journal, {"observed_success"})
          /\ UNCHANGED In(head.journal, {"observed_failure"})
          /\ UNCHANGED In(head.journal, {"verified"})
      BY <3>1, <3>4 DEF InDoubt, In
    <3>. QED
      BY <3>1, <3>2, <3>3, <3>5 DEF Promise!Next, Promise!Open
  <2>3. ASSUME NEW w \in Writers, NEW new \in Journals,
               held[w].sequence > 0,
               MayFollow(held[w].journal, new), Store(w, held[w], new)
        PROVE  Promise!Next
    <3>1. held[w] = head
      BY <2>3 DEF Store, IsHead
    <3>. QED
      BY <2>3, <3>1, AppendIsWork DEF Promise!Next
  <2>. QED
    BY <2>1, <2>2, <2>3, StepOfNext DEF IInv, vars
<1>. QED
  BY <1>1, <1>2, Invariant, PTL DEF Spec, KeepsPromise, Promise!Spec

-----------------------------------------------------------------------------
(* The lease.                                                              *)

\* A token in memory belongs to the process that has it, is no younger than the
\* row, and names the row's owner when it is as young.
TokensFit ==
    \A p \in Pids : token[p].generation # 0 =>
        /\ Alive(p)
        /\ token[p].owner = Self(p)
        /\ token[p].generation =< lease.generation
        /\ token[p].generation = lease.generation => lease.owner = Self(p)

LeaseIInv ==
    /\ LeaseTypeOK
    /\ TokensFit
    /\ lease.active => lease.generation # 0
    /\ InsideOwns

USE DurationAssumption, BoundsAssumption

\* The lease row, the deadline and the tokens stay of their types: an exhausted
\* generation is refused, never wrapped.
THEOREM LeaseTypeCorrect == LeaseSpec => []LeaseTypeOK
<1>. USE DEF LeaseTypeOK, Leases, Tokens, Identities
<1>1. LeaseInit => LeaseTypeOK
  BY DEF LeaseInit, NoToken
<1>2. LeaseTypeOK /\ [LeaseNext]_leaseVars => LeaseTypeOK'
  <2>. SUFFICES ASSUME LeaseTypeOK, [LeaseNext]_leaseVars PROVE LeaseTypeOK'
    OBVIOUS
  <2>1. ASSUME NEW p \in Pids
        PROVE  NoToken(p) \in Tokens /\ Self(p) \in Identities
    BY DEF NoToken, Self
  <2>2. ASSUME NEW p \in Pids, Start(p) PROVE LeaseTypeOK'
    BY <2>2 DEF Start
  <2>3. ASSUME NEW p \in Pids, Exit(p) PROVE LeaseTypeOK'
    BY <2>3, <2>1 DEF Exit
  <2>4. ASSUME NEW p \in Pids, Acquire(p) PROVE LeaseTypeOK'
    <3>1. NextGeneration(lease.generation) \in 0..MaxGeneration
      BY <2>4 DEF Acquire, HasGeneration, NextGeneration
    <3>. QED
      BY <2>4, <3>1, <2>1 DEF Acquire
  <2>5. ASSUME NEW p \in Pids, Enter(p) \/ Leave(p) PROVE LeaseTypeOK'
    BY <2>5 DEF Enter, Leave
  <2>6. ASSUME NEW p \in Pids, Renew(p) PROVE LeaseTypeOK'
    BY <2>6 DEF Renew
  <2>7. ASSUME NEW p \in Pids, Release(p) PROVE LeaseTypeOK'
    BY <2>7 DEF Release
  <2>8. CASE Reboot
    BY <2>8, <2>1 DEF Reboot
  <2>9. CASE Tick
    BY <2>9 DEF Tick
  <2>10. CASE UNCHANGED leaseVars
    BY <2>10 DEF leaseVars
  <2>. QED
    BY <2>2, <2>3, <2>4, <2>5, <2>6, <2>7, <2>8, <2>9, <2>10 DEF LeaseNext
<1>. QED
  BY <1>1, <1>2, PTL DEF LeaseSpec

-----------------------------------------------------------------------------

\* The invariant holds before the resource has a row.
LEMMA LeaseInitIInv == LeaseInit => LeaseIInv
<1>. SUFFICES ASSUME LeaseInit PROVE LeaseIInv
  OBVIOUS
<1>1. LeaseTypeOK
  BY DEF LeaseInit, NoToken, LeaseTypeOK, Leases, Tokens, Identities
<1>2. TokensFit
  BY DEF LeaseInit, NoToken, TokensFit
<1>3. InsideOwns /\ ~ lease.active
  BY DEF LeaseInit, InsideOwns
<1>. QED
  BY <1>1, <1>2, <1>3 DEF LeaseIInv

\* Taking the lease ends the hold of every other process, and needs that no
\* process is at work under it.
LEMMA AcquireLease ==
    ASSUME LeaseIInv, LeaseTypeOK', NEW p \in Pids, Acquire(p)
    PROVE  LeaseIInv'
<1>1. /\ lease' = [generation |-> lease.generation + 1, owner |-> Self(p),
                   active |-> TRUE]
      /\ token' = [token EXCEPT ![p] =
                     [generation |-> lease.generation + 1, owner |-> Self(p)]]
      /\ UNCHANGED <<boot, running, inside>>
      /\ Alive(p) /\ Free
  BY DEF Acquire, NextGeneration
<1>2. /\ lease.generation \in Nat
      /\ token \in [Pids -> Tokens]
  BY DEF LeaseIInv, LeaseTypeOK, Leases
<1>3. \A q \in Pids : Self(q)' = Self(q) /\ (Alive(q)' <=> Alive(q))
  BY <1>1 DEF Self, Alive
<1>4. inside = {}
  <2>. SUFFICES ASSUME NEW q \in inside PROVE FALSE
    OBVIOUS
  <2>1. Alive(q) /\ lease.active /\ lease.owner = Self(q)
    BY DEF LeaseIInv, InsideOwns
  <2>2. ~ Absent(lease.owner)
    BY <2>1 DEF Absent, Self
  <2>. QED
    BY <1>1, <2>1, <2>2 DEF Free
<1>5. TokensFit'
  <2>1. ASSUME NEW q \in Pids, q # p, token[q].generation # 0
        PROVE  /\ Alive(q)
               /\ token[q].owner = Self(q)
               /\ token[q].generation =< lease.generation
               /\ token[q].generation \in Nat
    BY <1>2, <2>1 DEF LeaseIInv, TokensFit, Tokens
  <2>2. ASSUME NEW q \in Pids, q # p, token'[q].generation # 0
        PROVE  /\ Alive(q)'
               /\ token'[q].owner = Self(q)'
               /\ token'[q].generation =< lease'.generation
               /\ token'[q].generation # lease'.generation
    <3>1. token'[q] = token[q]
      BY <1>1, <1>2, <2>2
    <3>. QED
      BY <1>1, <1>2, <1>3, <2>1, <2>2, <3>1
  <2>3. /\ Alive(p)'
        /\ token'[p].owner = Self(p)'
        /\ token'[p].generation = lease'.generation
        /\ lease'.owner = Self(p)'
        /\ lease'.generation =< lease'.generation
    BY <1>1, <1>2, <1>3
  <2>. QED
    BY <2>2, <2>3 DEF TokensFit
<1>. QED
  BY <1>1, <1>2, <1>4, <1>5 DEF LeaseIInv, InsideOwns

\* The inductive invariant holds in every state of every behaviour.
THEOREM LeaseInvariant == LeaseSpec => []LeaseIInv
<1>1. LeaseIInv /\ LeaseTypeOK' /\ [LeaseNext]_leaseVars => LeaseIInv'
  <2>. SUFFICES ASSUME LeaseIInv, LeaseTypeOK', [LeaseNext]_leaseVars PROVE LeaseIInv'
    OBVIOUS
  <2>. USE DEF LeaseIInv, TokensFit, InsideOwns, Alive, Self
  <2>1. ASSUME NEW p \in Pids, Start(p) PROVE LeaseIInv'
    <3>1. inside' = inside /\ p \notin inside /\ token[p].generation = 0
      BY <2>1 DEF Start
    <3>2. \A q \in Pids : q # p => running'[q] = running[q]
      BY <2>1 DEF Start, LeaseTypeOK
    <3>3. UNCHANGED <<boot, lease, token>>
      BY <2>1 DEF Start
    <3>. QED
      BY <3>1, <3>2, <3>3 DEF LeaseTypeOK
  <2>2. ASSUME NEW p \in Pids, Exit(p) PROVE LeaseIInv'
    <3>1. token'[p].generation = 0 /\ p \notin inside'
      BY <2>2 DEF Exit, NoToken, LeaseTypeOK
    <3>2. \A q \in Pids : q # p => running'[q] = running[q] /\ token'[q] = token[q]
      BY <2>2 DEF Exit, LeaseTypeOK
    <3>3. UNCHANGED <<boot, lease>> /\ inside' \subseteq inside
      BY <2>2 DEF Exit
    <3>. QED
      BY <3>1, <3>2, <3>3 DEF LeaseTypeOK
  <2>3. ASSUME NEW p \in Pids, Acquire(p) PROVE LeaseIInv'
    BY <2>3, AcquireLease
  <2>4. ASSUME NEW p \in Pids, Enter(p) PROVE LeaseIInv'
    BY <2>4 DEF Enter, ValidToken, OwnToken, Names
  <2>5. ASSUME NEW p \in Pids, Leave(p) PROVE LeaseIInv'
    BY <2>5 DEF Leave
  <2>6. ASSUME NEW p \in Pids, Renew(p) PROVE LeaseIInv'
    BY <2>6 DEF Renew
  <2>7. ASSUME NEW p \in Pids, Release(p) PROVE LeaseIInv'
    <3>1. /\ lease'.owner = lease.owner /\ lease'.generation = lease.generation
          /\ lease'.active = FALSE
          /\ UNCHANGED <<boot, running, token, inside>>
      BY <2>7 DEF Release, LeaseTypeOK, Leases
    <3>2. inside = {}
      <4>. SUFFICES ASSUME NEW q \in inside PROVE FALSE
        OBVIOUS
      <4>1. lease.owner = Self(q) /\ lease.generation = token[q].generation
        OBVIOUS
      <4>2. lease.owner = Self(p)
        BY <2>7 DEF Release, OwnToken, Names
      <4>. QED
        BY <2>7, <4>1, <4>2 DEF Release
    <3>. QED
      BY <3>1, <3>2
  <2>8. CASE Reboot
    <3>1. inside' = {} /\ \A q \in Pids : token'[q].generation = 0
      BY <2>8 DEF Reboot, NoToken
    <3>2. lease' = lease
      BY <2>8 DEF Reboot
    <3>. QED
      BY <3>1, <3>2
  <2>9. CASE Tick \/ UNCHANGED leaseVars
    BY <2>9 DEF Tick, leaseVars
  <2>. QED
    BY <2>1, <2>2, <2>3, <2>4, <2>5, <2>6, <2>7, <2>8, <2>9 DEF LeaseNext
<1>. QED
  BY <1>1, LeaseInitIInv, LeaseTypeCorrect, PTL DEF LeaseSpec

\* A process at work owns the lease row.
THEOREM InsideOwnsHolds == LeaseSpec => []InsideOwns
<1>1. LeaseIInv => InsideOwns
  BY DEF LeaseIInv
<1>. QED
  BY <1>1, LeaseInvariant, PTL

\* Two processes are never both at work under the lease.
THEOREM OneInsideHolds == LeaseSpec => []OneInside
<1>1. LeaseIInv => OneInside
  <2>. SUFFICES ASSUME LeaseIInv, NEW p \in inside, NEW q \in inside PROVE p = q
    BY DEF OneInside
  <2>1. Self(p) = Self(q)
    BY DEF LeaseIInv, InsideOwns
  <2>. QED
    BY <2>1 DEF Self
<1>. QED
  BY <1>1, LeaseInvariant, PTL

\* A token that lost its row never names it again.
THEOREM LostForGoodHolds == LeaseSpec => LostForGood
<1>. DEFINE Lost == \A p \in Pids :
       token[p].generation # 0 /\ token'[p] = token[p] /\ ~ Names(token[p])
          => ~ Names(token[p])'
<1>1. LeaseIInv /\ [LeaseNext]_leaseVars => [Lost]_leaseVars
  <2>. SUFFICES ASSUME LeaseIInv, LeaseNext, NEW p \in Pids,
                       token[p].generation # 0, token'[p] = token[p],
                       ~ Names(token[p]), Names(token[p])'
                PROVE  FALSE
    OBVIOUS
  <2>1. lease' # lease
    BY DEF Names
  <2>2. ASSUME NEW q \in Pids, Acquire(q) PROVE FALSE
    <3>1. lease'.generation = lease.generation + 1 /\ lease.generation \in Nat
      BY <2>2 DEF Acquire, NextGeneration, LeaseIInv, LeaseTypeOK, Leases
    <3>2. token[p].generation =< lease.generation /\ token[p].generation \in Nat
      BY DEF LeaseIInv, TokensFit, LeaseTypeOK, Tokens
    <3>. QED
      BY <3>1, <3>2 DEF Names
  <2>3. ASSUME NEW q \in Pids, Release(q) PROVE FALSE
    BY <2>3 DEF Release, Names, LeaseIInv, LeaseTypeOK, Leases
  <2>. QED
    BY <2>1, <2>2, <2>3
       DEF LeaseNext, Start, Exit, Enter, Leave, Renew, Reboot, Tick
<1>. QED
  BY <1>1, LeaseInvariant, PTL DEF LeaseSpec, LostForGood

-----------------------------------------------------------------------------
(* Split groups and restores: the inductive invariant                      *)

Texts == {"none", "source", "applied", "later"}
NoteType == [there : BOOLEAN, text : Texts, tagged : BOOLEAN, reviews : Nat]

JournalStates == NoJournal \cup Unresolved \cup {"committed", "failed", "restored"}

Stages == {"idle", "units", "restore", "journal", "begin", "checkpoint", "step", "send", "wait",
           "look", "resend", "recheck", "receipt", "commit", "finalize", "end"}
CliType ==
    [at : Stages, for : {"none", "group", "item", "restore"}, mode : {"none", "apply", "reconcile"},
     op : Ops \cup {<<>>}, todo : SUBSET Applies, seen : NoteType, fence : Nat, session : Nat,
     answer : {"none", "verified", "failed", "lost"}]

SplitTypes ==
    /\ recorded \in BOOLEAN
    /\ tries \in [Units -> 1..NAttempts]
    /\ journal \in [Ops -> JournalStates]
    /\ plan \in [Ops -> NoteType] /\ post \in [Ops -> NoteType]
    /\ receipts \subseteq Ops
    /\ bound \in [Restores -> Nat]
    /\ notes \in [Places -> NoteType]
    /\ cli \in CliType
    /\ wire \subseteq [op : Ops, fence : Nat]
    /\ verdict \in [Ops -> Native!Verdicts]
    /\ fenceOf \in [Ops -> Nat]
    /\ effects \in [Ops -> {0, 1}]
    /\ owner \in [fence : Nat, session : Nat, released : BOOLEAN]
    /\ session \in Nat

\* An operation that may still take effect.
Live(o) == verdict[o] = "accepted" \/ (\E r \in wire : r.op = o)
NoneLive == \A o \in Ops : ~ Live(o)

\* Journals before a request is sent, those from which an operation was written,
\* and those of restores that reverse nothing.
Early == {"none", "intent", "prepared", "checkpointed"}
Settled == {"differs", "verified", "mismatch", "verifying", "committed", "restored"}
Quiet == {"none", "intent", "failed"}

\* The verdicts of the companion are true of its effects, and one request at most
\* is under way, of an operation without a verdict.
VerdictsTrue ==
    /\ \A o \in Ops : /\ verdict[o] \in {"absent", "failed"} => effects[o] = 0
                      /\ verdict[o] = "verified" => effects[o] = 1
                      /\ (\E r \in wire : r.op = o) => verdict[o] = "absent"
    /\ \A q, r \in wire : q = r

\* What a journal says of the effect of its operation.
JournalTrue ==
    \A o \in Ops : /\ Live(o) => journal[o] \in {"started", "unknown"}
                   /\ journal[o] \in Early => verdict[o] = "absent"
                   /\ journal[o] = "failed" => effects[o] = 0
                   /\ o \in Applies /\ journal[o] \in Settled => effects[o] = 1

\* Only the latest attempt of a unit can be under way or done.
AttemptsFit ==
    \A u \in Units, k \in 1..NAttempts :
        /\ k < tries[u] => journal[<<u, k, 0>>] \in {"intent", "failed"}
        /\ k > tries[u] => journal[<<u, k, 0>>] = "none"

ChildrenDone == \A u \in ToSet(Children) : journal[Latest(u)] \in {"committed", "restored"}
AnchorFits ==
    \A k \in 1..NAttempts : journal[<<Anchor, k, 0>>] # "none" => ChildrenDone

\* One restore of an operation is under way or done, once the operation is settled.
Reversed(t) == \E r \in RestoresOf(t) : r \in receipts /\ journal[r] = "committed"
RestoresFit ==
    /\ \A r \in Restores : /\ journal[r] # "none" => journal[TargetOf(r)] \in Settled
                           /\ journal[r] # "restored"
    /\ \A r, s \in Restores :
         TargetOf(r) = TargetOf(s) /\ journal[r] \notin Quiet /\ journal[s] \notin Quiet => r = s
    /\ \A t \in Applies : journal[t] = "restored" => Reversed(t)
    /\ \A o \in receipts : journal[o] \in {"verifying", "committed", "restored"}

\* A restore that leaves a note leaves its tags, and not the applied text, which is
\* what every attempt leaves.
PostFits ==
    /\ \A r \in Restores : post[r].there =>
         r[1] = Anchor /\ post[r].tagged = plan[r].tagged /\ post[r].text # "applied"
    /\ \A o \in Applies : journal[o] # "none" => post[o].there /\ post[o].text = "applied"

\* Nothing of the group is there that no operation wrote.
NotesFit ==
    /\ \A p \in Places : ~ notes[p].there => notes[p] = NoNote
    /\ \A o \in Applies : notes[Place(o)].there /\ o[1] # Anchor => effects[o] = 1
    /\ notes[<<Anchor, 0, 0>>].text = "applied" =>
           \E o \in Applies : o[1] = Anchor /\ effects[o] = 1

Resumable(o) == journal[o] \in Unresolved \/ (o \in Restores /\ journal[o] = "committed")
CommandAt(op) ==
    /\ At("journal") => /\ cli.mode = "apply" /\ journal[op] = "intent"
                        /\ op \in Applies => op = Latest(op[1])
                        /\ op \in Restores => \A s \in RestoresOf(TargetOf(op)) : journal[s] \in Quiet
    /\ At("begin") => IF cli.mode = "apply" THEN journal[op] = "prepared" ELSE Resumable(op)
    /\ At("checkpoint") => journal[op] = "prepared"
    /\ At("step") => Resumable(op)
    /\ cli.at \in {"send", "wait", "look"} => journal[op] = "started"
    /\ cli.at \in {"resend", "recheck"} => journal[op] = "unknown"
    /\ cli.at \in {"receipt", "commit"} => journal[op] = "verifying"
    /\ cli.at \in {"commit", "finalize"} => op \in receipts
    /\ At("finalize") => op \in Restores /\ journal[op] = "committed"
    /\ cli.at \in {"checkpoint", "step", "send", "resend"} => NoneLive
    /\ cli.at \in {"wait", "look", "recheck"} => \A o \in Ops : Live(o) => o = op
    /\ cli.at \in {"send", "resend"} => verdict[op] = "absent"
    /\ At("wait") => wire \subseteq {[op |-> op, fence |-> cli.fence]}
    /\ At("look") /\ cli.answer = "verified" => verdict[op] = "verified"
    /\ At("look") /\ cli.answer = "failed" => verdict[op] \in {"absent", "failed"} /\ ~ Live(op)
CommandFits == cli.at \in {"idle", "units", "restore"} \/ (cli.op \in Ops /\ CommandAt(cli.op))

SplitInv ==
    /\ SplitTypes /\ VerdictsTrue /\ JournalTrue /\ AttemptsFit /\ AnchorFits /\ RestoresFit
    /\ PostFits /\ NotesFit /\ CommandFits

HIDE BoundsAssumption
HIDE DurationAssumption
USE GroupAssumption

-----------------------------------------------------------------------------
(* Units, operations and places                                            *)

\* The units are the children and the anchor, the anchor last.
LEMMA UnitsAre ==
    /\ Units = ToSet(Children) \cup {Anchor} /\ Anchor \notin ToSet(Children)
    /\ \A u \in ToSet(Children) : Position(u) < Position(Anchor)
<1>1. PICK n \in Nat : n = Len(Children)
  OBVIOUS
<1>2. DOMAIN Children = 1..n
  BY <1>1
<1>3. /\ DOMAIN Order = 1..(n + 1)
      /\ \A i \in 1..n : Order[i] = Children[i]
      /\ Order[n + 1] = Anchor
  BY <1>1 DEF Order
<1>4. ToSet(Children) = {Children[i] : i \in 1..n} /\ Units = {Order[i] : i \in 1..(n + 1)}
  BY <1>2, <1>3 DEF ToSet, Units
<1>5. Units = ToSet(Children) \cup {Anchor}
  <2>1. \A i \in 1..(n + 1) : i = n + 1 \/ i \in 1..n
    BY <1>1
  <2>2. \A i \in 1..n : i \in 1..(n + 1)
    BY <1>1
  <2>3. n + 1 \in 1..(n + 1)
    BY <1>1
  <2>. QED
    BY <1>3, <1>4, <2>1, <2>2, <2>3
<1>6. Position(Anchor) = n + 1
  <2>1. \A i \in DOMAIN Order : Order[i] = Anchor <=> i = n + 1
    <3>1. \A i \in 1..n : Children[i] # Anchor
      BY <1>4
    <3>. QED
      BY <1>1, <1>3, <3>1
  <2>2. n + 1 \in DOMAIN Order
    BY <1>1, <1>3
  <2>. QED
    BY <2>1, <2>2 DEF Position
<1>7. ASSUME NEW u \in ToSet(Children)
      PROVE  Position(u) < n + 1
  <2>1. PICK i \in 1..n : u = Children[i]
    BY <1>4
  <2>2. i \in DOMAIN Order /\ Order[i] = u
    BY <1>1, <1>3, <2>1
  <2>3. Position(u) \in DOMAIN Order /\ Order[Position(u)] = u
    BY <2>2 DEF Position
  <2>4. u # Anchor
    OBVIOUS
  <2>. QED
    BY <1>1, <1>3, <2>3, <2>4
<1>. QED
  BY <1>5, <1>6, <1>7

\* What an operation names: the attempt it reverses or is, its unit and its note.
LEMMA OpsAre ==
    /\ \A o \in Ops : /\ TargetOf(o) \in Applies /\ Place(o) = Place(TargetOf(o))
                      /\ Place(o) \in Places /\ TargetOf(o)[1] = o[1] /\ o[1] \in Units
    /\ \A o \in Applies : /\ TargetOf(o) = o /\ o \notin Restores /\ o[2] \in 1..NAttempts
                          /\ o = <<o[1], o[2], 0>>
    /\ \A u \in Units, k \in 1..NAttempts : <<u, k, 0>> \in Applies
    /\ Applies \subseteq Ops /\ Restores \subseteq Ops /\ Ops = Applies \cup Restores
<1>1. \A o \in Ops : /\ o[1] \in Units /\ o[2] \in 1..NAttempts
                     /\ o[3] = 0 \/ o[3] \in 1..NRestores
  BY DEF Ops, Applies, Restores
<1>2. \A u \in Units, k \in 1..NAttempts : <<u, k, 0>> \in Applies
  BY DEF Applies
<1>3. \A o \in Ops : /\ TargetOf(o) \in Applies /\ TargetOf(TargetOf(o)) = TargetOf(o)
                     /\ TargetOf(o)[1] = o[1]
  BY <1>1, <1>2 DEF TargetOf
<1>4. \A o \in Ops : Place(o) = Place(TargetOf(o))
  BY <1>3 DEF Place
<1>5. \A o \in Ops : Place(o) \in Places
  BY <1>3, <1>4 DEF Places
<1>6. \A o \in Applies : o \notin Restores /\ o = <<o[1], o[2], 0>>
  BY DEF Applies, Restores
<1>7. \A o \in Applies : TargetOf(o) = o
  BY <1>6 DEF TargetOf
<1>8. Ops = Applies \cup Restores
  BY DEF Ops
<1>. QED
  BY <1>1, <1>2, <1>3, <1>4, <1>5, <1>6, <1>7, <1>8

\* Each attempt at a child has a note of its own, those at the anchor have one.
LEMMA PlacesAre ==
    /\ \A o \in Applies : IF o[1] = Anchor THEN Place(o) = <<Anchor, 0, 0>> ELSE Place(o) = o
    /\ \A o, p \in Applies : Place(o) = Place(p) => o = p \/ (o[1] = Anchor /\ p[1] = Anchor)
    /\ <<Anchor, 0, 0>> \in Places
<1>1. \A o \in Applies : IF o[1] = Anchor THEN Place(o) = <<Anchor, 0, 0>> ELSE Place(o) = o
  BY OpsAre DEF Place
<1>2. <<Anchor, 1, 0>> \in Applies
  BY OpsAre, UnitsAre
<1>. QED
  BY <1>1, <1>2 DEF Places

\* The latest attempt of a unit is one of its attempts.
LEMMA LatestIs ==
    ASSUME SplitInv, NEW u \in Units
    PROVE  Latest(u) \in Applies /\ Latest(u) \in Ops /\ Latest(u)[1] = u
<1>1. tries[u] \in 1..NAttempts
  BY DEF SplitInv, SplitTypes
<1>2. <<u, tries[u], 0>> \in Applies
  BY <1>1, OpsAre
<1>. QED
  BY <1>2, OpsAre DEF Latest

-----------------------------------------------------------------------------
(* Steps of the store                                                      *)

\* An operation that was sent is the latest attempt of its unit, and the only
\* restore of its target that is open or done.
LEMMA UnderWay ==
    ASSUME SplitInv, NEW o \in Ops, journal[o] \notin Quiet
    PROVE  /\ o \in Applies => o = Latest(o[1])
           /\ o \in Restores =>
                \A r \in RestoresOf(TargetOf(o)) : r = o \/ journal[r] \in Quiet
<1>1. ASSUME o \in Applies PROVE o = Latest(o[1])
  <2>1. o[1] \in Units /\ o[2] \in 1..NAttempts /\ o = <<o[1], o[2], 0>> /\ tries[o[1]] \in 1..NAttempts
    BY <1>1, OpsAre DEF SplitInv, SplitTypes
  <2>2. ~ o[2] < tries[o[1]] /\ ~ o[2] > tries[o[1]]
    BY <2>1 DEF SplitInv, AttemptsFit, Quiet
  <2>. QED
    BY <2>1, <2>2 DEF Latest
<1>2. ASSUME o \in Restores, NEW r \in RestoresOf(TargetOf(o)) PROVE r = o \/ journal[r] \in Quiet
  BY <1>2 DEF SplitInv, RestoresFit, RestoresOf
<1>. QED
  BY <1>1, <1>2

\* What one journal that moves leaves true of all of them.
LEMMA JournalMoves ==
    ASSUME SplitInv, NEW o \in Ops, NEW s \in JournalStates,
           journal' = [journal EXCEPT ![o] = s],
           UNCHANGED <<tries, receipts, wire, native>>,
           Live(o) => s \in {"started", "unknown"},
           s \in Early => verdict[o] = "absent",
           s = "failed" => effects[o] = 0,
           o \in Applies => /\ o = Latest(o[1])
                            /\ s \in Settled => effects[o] = 1
                            /\ journal[o] \in Settled => s \in Settled
                            /\ journal[o] \in {"committed", "restored"} =>
                                   s \in {"committed", "restored"}
                            /\ o[1] = Anchor => (journal[o] # "none" \/ ChildrenDone)
                            /\ s = "restored" => Reversed(o),
           o \in Restores => /\ s # "restored" /\ journal[o] # "committed"
                             /\ s # "none" => journal[TargetOf(o)] \in Settled
                             /\ \/ s \in Quiet
                                \/ \A r \in RestoresOf(TargetOf(o)) : r = o \/ journal[r] \in Quiet,
           o \in receipts => s \in {"verifying", "committed", "restored"}
    PROVE  /\ journal' \in [Ops -> JournalStates]
           /\ JournalTrue' /\ AttemptsFit' /\ AnchorFits' /\ RestoresFit'
<1>1. /\ journal' \in [Ops -> JournalStates] /\ journal'[o] = s
      /\ \A p \in Ops : p # o => journal'[p] = journal[p]
  BY DEF SplitInv, SplitTypes
<1>2. /\ verdict' = verdict /\ effects' = effects /\ wire' = wire /\ tries' = tries
      /\ receipts' = receipts
  BY DEF native
<1>3. JournalTrue'
  <2>1. ASSUME NEW p \in Ops, p # o
        PROVE  /\ Live(p) => journal'[p] \in {"started", "unknown"}
               /\ journal'[p] \in Early => verdict[p] = "absent"
               /\ journal'[p] = "failed" => effects[p] = 0
               /\ p \in Applies /\ journal'[p] \in Settled => effects[p] = 1
    BY <1>1, <2>1 DEF SplitInv, JournalTrue
  <2>2. \A p \in Ops : Live(p)' = Live(p)
    BY <1>2 DEF Live
  <2>. QED
    BY <1>1, <1>2, <2>1, <2>2 DEF JournalTrue
<1>4. AttemptsFit'
  <2>1. \A u \in Units, k \in 1..NAttempts :
          k # tries[u] => <<u, k, 0>> \in Ops /\ journal'[<<u, k, 0>>] = journal[<<u, k, 0>>]
    <3>1. ASSUME NEW u \in Units, NEW k \in 1..NAttempts, k # tries[u]
          PROVE  <<u, k, 0>> \in Ops /\ <<u, k, 0>> # o
      <4>1. <<u, k, 0>> \in Applies
        BY OpsAre
      <4>2. o = <<u, k, 0>> => o = <<u, tries[u], 0>>
        BY <4>1 DEF Latest
      <4>. QED
        BY <3>1, <4>1, <4>2, OpsAre
    <3>. QED
      BY <1>1, <3>1
  <2>2. \A u \in Units : tries[u] \in 1..NAttempts
    BY DEF SplitInv, SplitTypes
  <2>3. ASSUME NEW u \in Units, NEW k \in 1..NAttempts
        PROVE  /\ k < tries[u] => journal'[<<u, k, 0>>] \in {"intent", "failed"}
               /\ k > tries[u] => journal'[<<u, k, 0>>] = "none"
    <3>1. /\ k < tries[u] => journal[<<u, k, 0>>] \in {"intent", "failed"}
          /\ k > tries[u] => journal[<<u, k, 0>>] = "none"
      BY DEF SplitInv, AttemptsFit
    <3>2. (k < tries[u] \/ k > tries[u]) => k # tries[u]
      BY <2>2
    <3>. QED
      BY <2>1, <3>1, <3>2, Zenon
  <2>. QED
    BY <1>2, <2>3 DEF AttemptsFit
<1>5. ChildrenDone => ChildrenDone'
  <2>1. ASSUME NEW u \in ToSet(Children), journal[Latest(u)] \in {"committed", "restored"}
        PROVE  journal'[Latest(u)] \in {"committed", "restored"}
    <3>1. Latest(u) \in Applies
      BY OpsAre, UnitsAre DEF Latest, SplitInv, SplitTypes
    <3>. QED
      BY <1>1, <2>1, <3>1, OpsAre
  <2>. QED
    BY <1>2, <2>1 DEF ChildrenDone, Latest
<1>6. AnchorFits'
  <2>1. ASSUME NEW k \in 1..NAttempts, journal'[<<Anchor, k, 0>>] # "none"
        PROVE  ChildrenDone'
    <3>1. <<Anchor, k, 0>> \in Applies /\ <<Anchor, k, 0>> \in Ops
      BY OpsAre, UnitsAre
    <3>2. CASE o = <<Anchor, k, 0>>
      BY <1>5, <3>1, <3>2 DEF SplitInv, AnchorFits
    <3>3. CASE o # <<Anchor, k, 0>>
      BY <1>1, <1>5, <2>1, <3>1, <3>3 DEF SplitInv, AnchorFits
    <3>. QED
      BY <3>2, <3>3
  <2>. QED
    BY <2>1 DEF AnchorFits
<1>7. \A r \in Restores : /\ journal'[r] # "none" => journal'[TargetOf(r)] \in Settled
                          /\ journal'[r] # "restored"
  <2>1. ASSUME NEW r \in Restores
        PROVE  /\ journal'[r] # "none" => journal[TargetOf(r)] \in Settled
               /\ journal'[r] # "restored"
    BY <1>1, OpsAre DEF SplitInv, RestoresFit
  <2>2. \A r \in Restores : journal[TargetOf(r)] \in Settled => journal'[TargetOf(r)] \in Settled
    BY <1>1, OpsAre
  <2>. QED
    BY <2>1, <2>2
<1>8. ASSUME NEW r \in Restores, NEW q \in Restores, TargetOf(r) = TargetOf(q),
             journal'[r] \notin Quiet, journal'[q] \notin Quiet
      PROVE  r = q
  <2>1. r \in Ops /\ q \in Ops
    BY OpsAre
  <2>2. CASE r # o /\ q # o
    BY <1>1, <1>8, <2>1, <2>2 DEF SplitInv, RestoresFit
  <2>3. CASE r = o
    BY <1>1, <1>8, <2>1, <2>3 DEF RestoresOf
  <2>4. CASE q = o
    BY <1>1, <1>8, <2>1, <2>4 DEF RestoresOf
  <2>. QED
    BY <2>2, <2>3, <2>4
<1>9. \A t \in Applies : Reversed(t) => Reversed(t)'
  <2>1. ASSUME NEW t \in Applies, NEW r \in RestoresOf(t), r \in receipts, journal[r] = "committed"
        PROVE  r \in receipts' /\ journal'[r] = "committed"
    BY <1>1, <1>2, <2>1, OpsAre DEF RestoresOf
  <2>. QED
    BY <2>1 DEF Reversed, RestoresOf
<1>10. \A t \in Applies : journal'[t] = "restored" => Reversed(t)'
  BY <1>1, <1>9, OpsAre DEF SplitInv, RestoresFit
<1>11. \A p \in receipts' : journal'[p] \in {"verifying", "committed", "restored"}
  BY <1>1, <1>2 DEF SplitInv, SplitTypes, RestoresFit
<1>12. RestoresFit'
  BY <1>7, <1>8, <1>10, <1>11 DEF RestoresFit
<1>. QED
  BY <1>1, <1>3, <1>4, <1>6, <1>12

\* What the steps of the store leave alone.
LEMMA RestKept ==
    ASSUME SplitInv, UNCHANGED <<plan, post, notes, native>>, wire' \subseteq wire,
           \A o \in Applies : journal[o] = "none" => journal'[o] = "none"
    PROVE  VerdictsTrue' /\ PostFits' /\ NotesFit'
<1>1. verdict' = verdict /\ effects' = effects /\ notes' = notes
  BY DEF native
<1>2. VerdictsTrue'
  BY <1>1 DEF SplitInv, VerdictsTrue
<1>3. PostFits'
  BY DEF SplitInv, PostFits
<1>4. NotesFit'
  BY <1>1 DEF SplitInv, NotesFit
<1>. QED
  BY <1>2, <1>3, <1>4

\* The command goes on, and no operation moves.
LEMMA CommandAlone ==
    ASSUME SplitInv, recorded' \in BOOLEAN, wire' \subseteq wire,
           UNCHANGED <<tries, journal, plan, post, receipts, bound, notes, native>>,
           cli' \in CliType, CommandFits'
    PROVE  SplitInv'
<1>1. VerdictsTrue' /\ PostFits' /\ NotesFit'
  BY RestKept
<1>2. /\ verdict' = verdict /\ effects' = effects /\ owner' = owner /\ session' = session
      /\ fenceOf' = fenceOf
  BY DEF native
<1>3. SplitTypes'
  BY <1>2 DEF SplitInv, SplitTypes
<1>4. JournalTrue'
  BY <1>2 DEF SplitInv, JournalTrue, Live
<1>5. AttemptsFit'
  BY DEF SplitInv, AttemptsFit
<1>6. AnchorFits'
  BY DEF SplitInv, AnchorFits, ChildrenDone, Latest
<1>7. RestoresFit'
  BY DEF SplitInv, RestoresFit, Reversed
<1>. QED
  BY <1>1, <1>3, <1>4, <1>5, <1>6, <1>7 DEF SplitInv

LEMMA CommandOnly ==
    ASSUME SplitInv, UNCHANGED <<store, notes, wire, native>>, cli' \in CliType, CommandFits'
    PROVE  SplitInv'
<1>1. /\ recorded' \in BOOLEAN
      /\ UNCHANGED <<tries, journal, plan, post, receipts, bound>>
  BY DEF store, SplitInv, SplitTypes
<1>. QED
  BY <1>1, CommandAlone

\* The command moves the journal of its operation, which is under way.
LEMMA CommandStep ==
    ASSUME SplitInv, NEW o \in Ops, NEW s \in Unresolved \cup {"committed", "failed"},
           o = cli.op, Write(s), journal[o] \in Unresolved,
           UNCHANGED <<recorded, tries, plan, post, receipts, bound, notes, wire, native>>,
           Live(o) => s \in {"started", "unknown"},
           s \in Early => verdict[o] = "absent",
           s = "failed" => effects[o] = 0,
           o \in Applies => /\ s \in Settled => effects[o] = 1
                            /\ journal[o] \in Settled => s \in Settled,
           o \in receipts => s \in {"verifying", "committed"},
           cli' \in CliType, CommandFits'
    PROVE  SplitInv'
<1>1. journal' = [journal EXCEPT ![o] = s] /\ s \in JournalStates
  BY DEF Write, JournalStates
<1>2. journal[o] \notin Quiet /\ journal[o] \notin {"none", "committed", "restored"}
  BY DEF Unresolved, Quiet
<1>3. VerdictsTrue' /\ PostFits' /\ NotesFit'
  <2>1. \A p \in Applies : journal[p] = "none" => journal'[p] = "none"
    BY <1>1, <1>2, OpsAre DEF SplitInv, SplitTypes
  <2>. QED
    BY <2>1, RestKept
<1>4. s # "restored" /\ s # "none"
  BY DEF Unresolved
<1>5. /\ o \in Applies => o = Latest(o[1])
      /\ o \in Restores => /\ journal[TargetOf(o)] \in Settled
                           /\ \A r \in RestoresOf(TargetOf(o)) : r = o \/ journal[r] \in Quiet
  BY <1>2, UnderWay DEF SplitInv, RestoresFit
<1>6. /\ journal' \in [Ops -> JournalStates]
      /\ JournalTrue' /\ AttemptsFit' /\ AnchorFits' /\ RestoresFit'
  BY <1>1, <1>2, <1>4, <1>5, JournalMoves
<1>7. /\ verdict' = verdict /\ effects' = effects /\ owner' = owner /\ session' = session
      /\ fenceOf' = fenceOf
  BY DEF native
<1>8. SplitTypes'
  BY <1>6, <1>7 DEF SplitInv, SplitTypes
<1>. QED
  BY <1>3, <1>6, <1>8 DEF SplitInv

\* Where a command stands, and what it is when it moves on.
LEMMA CliMoves ==
    ASSUME SplitInv, NEW x \in Stages
    PROVE  LET c == [cli EXCEPT !.at = x]
           IN  /\ c \in CliType /\ c.at = x /\ c.op = cli.op /\ c.mode = cli.mode
               /\ c.answer = cli.answer /\ c.fence = cli.fence /\ c.for = cli.for
<1>1. PICK d \in CliType : d = cli
  BY DEF SplitInv, SplitTypes
<1>. QED
  BY <1>1 DEF CliType

LEMMA CliIdle == Idle \in CliType /\ Idle.at = "idle" /\ NoNote \in NoteType
<1>1. NoNote \in NoteType
  BY DEF NoNote, NoteType, Texts
<1>. QED
  BY <1>1 DEF Idle, CliType, Stages

\* The command at a stage of an operation.
LEMMA Running ==
    ASSUME SplitInv, cli.at \notin {"idle", "units", "restore"}
    PROVE  cli.op \in Ops /\ CommandAt(cli.op)
BY DEF SplitInv, CommandFits

\* A command that goes on to another stage, with a fact of it for that stage.
LEMMA GotoFits ==
    ASSUME SplitInv, NEW x \in Stages, Goto(x), cli.op \in Ops,
           NEW o, o = cli.op, CommandAt(o)'
    PROVE  cli' \in CliType /\ CommandFits'
<1>1. cli' \in CliType /\ cli'.op = o
  BY CliMoves DEF Goto
<1>. QED
  BY <1>1 DEF CommandFits

-----------------------------------------------------------------------------
(* Steps of the companion and of Anki                                      *)

\* The companion moves only operations that are live.
LEMMA NativeMoves ==
    ASSUME SplitInv, UNCHANGED <<store, cli>>,
           verdict' \in [Ops -> Native!Verdicts], effects' \in [Ops -> {0, 1}],
           wire' \subseteq wire,
           \A o \in Ops : Live(o)' => Live(o),
           \A o \in Ops : ~ Live(o) => verdict'[o] = verdict[o] /\ effects'[o] = effects[o],
           \A o \in Ops : effects[o] = 1 => effects'[o] = 1
    PROVE  JournalTrue' /\ AttemptsFit' /\ AnchorFits' /\ RestoresFit' /\ PostFits' /\ CommandFits'
<1>1. UNCHANGED <<recorded, tries, journal, plan, post, receipts, bound>>
  BY DEF store
<1>2. JournalTrue'
  <2>1. ASSUME NEW o \in Ops
        PROVE  /\ Live(o)' => journal[o] \in {"started", "unknown"}
               /\ journal[o] \in Early => verdict'[o] = "absent"
               /\ journal[o] = "failed" => effects'[o] = 0
               /\ o \in Applies /\ journal[o] \in Settled => effects'[o] = 1
    <3>1. /\ Live(o) => journal[o] \in {"started", "unknown"}
          /\ journal[o] \in Early => verdict[o] = "absent"
          /\ journal[o] = "failed" => effects[o] = 0
          /\ o \in Applies /\ journal[o] \in Settled => effects[o] = 1
      BY DEF SplitInv, JournalTrue
    <3>2. Live(o) => journal[o] \notin Early /\ journal[o] # "failed"
      BY <3>1 DEF Early
    <3>. QED
      BY <3>1, <3>2
  <2>. QED
    BY <1>1, <2>1 DEF JournalTrue
<1>3. AttemptsFit' /\ PostFits'
  BY <1>1 DEF SplitInv, AttemptsFit, PostFits
<1>4. AnchorFits'
  BY <1>1 DEF SplitInv, AnchorFits, ChildrenDone, Latest
<1>5. RestoresFit'
  BY <1>1 DEF SplitInv, RestoresFit, Reversed
<1>6. CommandFits'
  <2>1. CASE cli.at \in {"idle", "units", "restore"}
    BY <2>1 DEF CommandFits
  <2>2. CASE cli.at \notin {"idle", "units", "restore"}
    <3>1. PICK o \in Ops : o = cli.op /\ CommandAt(o)
      BY <2>2, Running
    <3>2. NoneLive => NoneLive'
      BY DEF NoneLive
    <3>3. ~ Live(o) => verdict'[o] = verdict[o] /\ ~ Live(o)'
      OBVIOUS
    <3>4. NoneLive => ~ Live(o)
      BY DEF NoneLive
    <3>5. verdict[o] = "verified" => ~ Live(o)
      BY DEF SplitInv, VerdictsTrue, Live
    <3>6. /\ At("journal") => /\ cli.mode = "apply" /\ journal[o] = "intent"
                              /\ o \in Applies => o = Latest(o[1])
                              /\ o \in Restores => \A s \in RestoresOf(TargetOf(o)) : journal[s] \in Quiet
          /\ At("begin") => IF cli.mode = "apply" THEN journal[o] = "prepared" ELSE Resumable(o)
          /\ At("checkpoint") => journal[o] = "prepared"
          /\ At("step") => Resumable(o)
      BY <3>1 DEF CommandAt
    <3>7. /\ cli.at \in {"send", "wait", "look"} => journal[o] = "started"
          /\ cli.at \in {"resend", "recheck"} => journal[o] = "unknown"
          /\ cli.at \in {"receipt", "commit"} => journal[o] = "verifying"
          /\ cli.at \in {"commit", "finalize"} => o \in receipts
          /\ At("finalize") => o \in Restores /\ journal[o] = "committed"
      BY <3>1 DEF CommandAt
    <3>8. /\ cli.at \in {"checkpoint", "step", "send", "resend"} => NoneLive'
          /\ cli.at \in {"wait", "look", "recheck"} => \A p \in Ops : Live(p)' => p = o
          /\ cli.at \in {"send", "resend"} => verdict'[o] = "absent"
          /\ At("wait") => wire' \subseteq {[op |-> o, fence |-> cli.fence]}
          /\ At("look") /\ cli.answer = "verified" => verdict'[o] = "verified"
          /\ At("look") /\ cli.answer = "failed" =>
                 verdict'[o] \in {"absent", "failed"} /\ ~ Live(o)'
      BY <3>1, <3>2, <3>3, <3>4, <3>5 DEF CommandAt, At
    <3>. QED
      BY <1>1, <3>1, <3>6, <3>7, <3>8 DEF CommandFits, CommandAt, Resumable, At, Latest
  <2>. QED
    BY <2>1, <2>2
<1>. QED
  BY <1>2, <1>3, <1>4, <1>5, <1>6

\* A note that its user changes keeps to what the operations wrote.
LEMMA ChangeInv == ASSUME SplitInv, NEW p \in Places, Change(p) PROVE SplitInv'
<1>1. /\ UNCHANGED <<store, cli, wire, native>> /\ notes[p].there
      /\ verdict' = verdict /\ effects' = effects /\ owner' = owner /\ session' = session
      /\ fenceOf' = fenceOf
  BY DEF Change, native
<1>2. PICK now \in NoteType : now = notes[p] /\ now.there
  BY <1>1 DEF SplitInv, SplitTypes
<1>3. PICK later \in NoteType :
        /\ notes' = [notes EXCEPT ![p] = later]
        /\ ~ later.there => later = NoNote
        /\ later.text = "applied" => now.text = "applied"
  <2>1. PICK y : y = [now EXCEPT !.text = "later"]
    OBVIOUS
  <2>2. PICK z : z = [now EXCEPT !.tagged = ~ now.tagged]
    OBVIOUS
  <2>3. PICK w : w = [now EXCEPT !.reviews = now.reviews + 1]
    OBVIOUS
  <2>4. y \in NoteType /\ y.there /\ y.text = "later"
    BY <1>2, <2>1 DEF NoteType, Texts
  <2>5. z \in NoteType /\ z.there /\ z.text = now.text
    BY <1>2, <2>2 DEF NoteType
  <2>6. w \in NoteType /\ w.there /\ w.text = now.text
    <3>1. now.reviews + 1 \in Nat
      BY DEF NoteType
    <3>. QED
      BY <1>2, <2>3, <3>1 DEF NoteType
  <2>7. NoNote \in NoteType /\ NoNote.text = "none"
    BY CliIdle DEF NoNote
  <2>8. \/ notes' = [notes EXCEPT ![p] = y]
        \/ notes' = [notes EXCEPT ![p] = z]
        \/ notes' = [notes EXCEPT ![p] = w]
        \/ notes' = [notes EXCEPT ![p] = NoNote]
    BY <1>2, <2>1, <2>2, <2>3 DEF Change, SplitInv, SplitTypes
  <2>. QED
    BY <2>4, <2>5, <2>6, <2>7, <2>8
<1>4. /\ notes' \in [Places -> NoteType] /\ notes'[p] = later
      /\ \A q \in Places : q # p => notes'[q] = notes[q]
  BY <1>3 DEF SplitInv, SplitTypes
<1>5. SplitTypes'
  BY <1>1, <1>4 DEF SplitInv, SplitTypes, store
<1>6. NotesFit'
  <2>1. \A q \in Places : ~ notes'[q].there => notes'[q] = NoNote
    BY <1>3, <1>4 DEF SplitInv, NotesFit
  <2>2. \A o \in Applies : Place(o) \in Places
    BY OpsAre
  <2>3. \A o \in Applies : notes'[Place(o)].there /\ o[1] # Anchor => effects[o] = 1
    BY <1>1, <1>4, <2>2 DEF SplitInv, NotesFit
  <2>4. notes'[<<Anchor, 0, 0>>].text = "applied" => notes[<<Anchor, 0, 0>>].text = "applied"
    BY <1>2, <1>3, <1>4, PlacesAre
  <2>. QED
    BY <1>1, <2>1, <2>3, <2>4 DEF SplitInv, NotesFit
<1>7. VerdictsTrue'
  BY <1>1 DEF SplitInv, VerdictsTrue
<1>8. JournalTrue' /\ AttemptsFit' /\ AnchorFits' /\ RestoresFit' /\ PostFits' /\ CommandFits'
  <2>1. \A o \in Ops : Live(o)' = Live(o)
    BY <1>1 DEF Live
  <2>2. verdict' \in [Ops -> Native!Verdicts] /\ effects' \in [Ops -> {0, 1}]
    BY <1>1 DEF SplitInv, SplitTypes
  <2>. QED
    BY <1>1, <2>1, <2>2, NativeMoves
<1>. QED
  BY <1>5, <1>6, <1>7, <1>8 DEF SplitInv

\* What each step outside the command, and each step of it, keeps: one lemma an action.
LEMMA NewSessionInv == ASSUME SplitInv, NewSession PROVE SplitInv'
<1>1. /\ UNCHANGED <<store, notes, cli, wire>> /\ session' \in Nat
      /\ verdict' = verdict /\ effects' = effects /\ owner' = owner /\ fenceOf' = fenceOf
  BY DEF NewSession, Native!SessionChange
<1>2. SplitTypes'
  BY <1>1 DEF SplitInv, SplitTypes, store
<1>3. VerdictsTrue' /\ NotesFit'
  BY <1>1 DEF SplitInv, VerdictsTrue, NotesFit
<1>4. JournalTrue' /\ AttemptsFit' /\ AnchorFits' /\ RestoresFit' /\ PostFits' /\ CommandFits'
  <2>1. \A o \in Ops : Live(o)' = Live(o)
    BY <1>1 DEF Live
  <2>2. verdict' \in [Ops -> Native!Verdicts] /\ effects' \in [Ops -> {0, 1}]
    BY <1>1 DEF SplitInv, SplitTypes
  <2>. QED
    BY <1>1, <2>1, <2>2, NativeMoves
<1>. QED
  BY <1>2, <1>3, <1>4 DEF SplitInv

LEMMA DeliverInv == ASSUME SplitInv, NEW r \in wire, Deliver(r) PROVE SplitInv'
<1>1. PICK o \in Ops : o = r.op
  BY DEF SplitInv, SplitTypes
<1>2. /\ UNCHANGED <<store, notes, cli>> /\ wire' = wire \ {r}
      /\ verdict[o] = "absent" /\ r.fence \in Nat
      /\ verdict' = [verdict EXCEPT ![o] = "accepted"]
      /\ fenceOf' = [fenceOf EXCEPT ![o] = r.fence]
      /\ UNCHANGED <<effects, owner, session>>
  BY <1>1 DEF Deliver, Native!Accept, SplitInv, SplitTypes
<1>3. /\ verdict' \in [Ops -> Native!Verdicts] /\ verdict'[o] = "accepted"
      /\ \A p \in Ops : p # o => verdict'[p] = verdict[p]
      /\ fenceOf' \in [Ops -> Nat]
  BY <1>2 DEF SplitInv, SplitTypes, Native!Verdicts
<1>4. SplitTypes'
  BY <1>2, <1>3 DEF SplitInv, SplitTypes, store
<1>5. Live(o) /\ ~ (\E q \in wire' : q.op = o)
  BY <1>1, <1>2 DEF Live, SplitInv, VerdictsTrue
<1>6. \A p \in Ops : Live(p)' => Live(p)
  BY <1>2, <1>3, <1>5 DEF Live
<1>7. VerdictsTrue'
  BY <1>2, <1>3, <1>5 DEF SplitInv, VerdictsTrue
<1>8. NotesFit'
  BY <1>2 DEF SplitInv, NotesFit
<1>9. JournalTrue' /\ AttemptsFit' /\ AnchorFits' /\ RestoresFit' /\ PostFits' /\ CommandFits'
  <2>1. effects' \in [Ops -> {0, 1}]
    BY <1>2 DEF SplitInv, SplitTypes
  <2>2. \A p \in Ops : ~ Live(p) => verdict'[p] = verdict[p] /\ effects'[p] = effects[p]
    BY <1>2, <1>3, <1>5
  <2>. QED
    BY <1>2, <1>3, <1>6, <2>1, <2>2, NativeMoves
<1>. QED
  BY <1>4, <1>7, <1>8, <1>9 DEF SplitInv

LEMMA JudgeInv == ASSUME SplitInv, NEW o \in Ops, Judge(o) PROVE SplitInv'
<1>1. PICK v \in {"failed", "unknown", "verified"} :
        /\ v = "failed" => effects[o] = 0
        /\ v = "verified" => effects[o] = 1
        /\ verdict' = [verdict EXCEPT ![o] = v]
  BY DEF Judge, Native!Judge, Native!Verdict
<1>2. /\ UNCHANGED <<store, notes, cli, wire, fenceOf, effects, owner, session>>
      /\ verdict[o] = "accepted"
  BY DEF Judge, Native!Judge
<1>3. /\ verdict' \in [Ops -> Native!Verdicts] /\ verdict'[o] = v
      /\ \A p \in Ops : p # o => verdict'[p] = verdict[p]
  BY <1>1 DEF SplitInv, SplitTypes, Native!Verdicts
<1>4. SplitTypes'
  BY <1>2, <1>3 DEF SplitInv, SplitTypes, store
<1>5. Live(o) /\ \A p \in Ops : Live(p)' => Live(p)
  BY <1>1, <1>2, <1>3 DEF Live
<1>6. VerdictsTrue'
  <2>1. ~ (\E r \in wire : r.op = o)
    BY <1>2 DEF SplitInv, VerdictsTrue
  <2>. QED
    BY <1>1, <1>2, <1>3, <2>1 DEF SplitInv, VerdictsTrue
<1>7. NotesFit'
  BY <1>2 DEF SplitInv, NotesFit
<1>8. JournalTrue' /\ AttemptsFit' /\ AnchorFits' /\ RestoresFit' /\ PostFits' /\ CommandFits'
  <2>1. effects' \in [Ops -> {0, 1}]
    BY <1>2 DEF SplitInv, SplitTypes
  <2>2. \A p \in Ops : ~ Live(p) => verdict'[p] = verdict[p] /\ effects'[p] = effects[p]
    BY <1>2, <1>3, <1>5
  <2>. QED
    BY <1>2, <1>3, <1>5, <2>1, <2>2, NativeMoves
<1>. QED
  BY <1>4, <1>6, <1>7, <1>8 DEF SplitInv

\* The effect of an operation is on the note of its place.
LEMMA TakeEffectInv == ASSUME SplitInv, NEW o \in Ops, TakeEffect(o) PROVE SplitInv'
<1>1. /\ UNCHANGED <<store, cli, wire, verdict, fenceOf, owner, session>>
      /\ verdict[o] = "accepted" /\ effects' = [effects EXCEPT ![o] = 1]
  BY DEF TakeEffect, Native!TakeEffect
<1>2. /\ effects' \in [Ops -> {0, 1}] /\ effects'[o] = 1
      /\ \A p \in Ops : p # o => effects'[p] = effects[p]
  BY <1>1 DEF SplitInv, SplitTypes
<1>3. PICK p \in Places : p = Place(o)
  BY OpsAre
<1>4. PICK now \in NoteType : now = notes[p]
  BY DEF SplitInv, SplitTypes
<1>5. PICK after \in NoteType : after = post[o]
  BY DEF SplitInv, SplitTypes
<1>6. PICK later \in NoteType :
        /\ notes' = [notes EXCEPT ![p] = later]
        /\ later.there = after.there
        /\ later.there => later.text = after.text
        /\ ~ later.there => later = NoNote
  <2>1. PICK y : y = [after EXCEPT !.reviews = now.reviews]
    OBVIOUS
  <2>2. y \in NoteType /\ y.there = after.there /\ y.text = after.text
    BY <2>1 DEF NoteType
  <2>3. NoNote \in NoteType /\ NoNote.there = FALSE
    BY CliIdle DEF NoNote
  <2>4. IF after.there THEN notes' = [notes EXCEPT ![p] = y] ELSE notes' = [notes EXCEPT ![p] = NoNote]
    BY <1>3, <1>4, <1>5, <2>1 DEF TakeEffect
  <2>5. CASE after.there
    BY <2>2, <2>4, <2>5
  <2>6. CASE ~ after.there
    <3>1. after.there = FALSE
      BY <2>6 DEF NoteType
    <3>. QED
      BY <2>3, <2>4, <2>6, <3>1
  <2>. QED
    BY <2>5, <2>6
<1>7. /\ notes' \in [Places -> NoteType] /\ notes'[p] = later
      /\ \A q \in Places : q # p => notes'[q] = notes[q]
  BY <1>6 DEF SplitInv, SplitTypes
<1>8. SplitTypes'
  BY <1>1, <1>2, <1>7 DEF SplitInv, SplitTypes, store
<1>9. VerdictsTrue'
  BY <1>1, <1>2 DEF SplitInv, VerdictsTrue
<1>10. NotesFit'
  <2>1. \A q \in Places : ~ notes'[q].there => notes'[q] = NoNote
    BY <1>6, <1>7 DEF SplitInv, NotesFit
  <2>2. ASSUME NEW t \in Applies, notes'[Place(t)].there, t[1] # Anchor
        PROVE  effects'[t] = 1
    <3>1. t \in Ops /\ Place(t) \in Places
      BY OpsAre
    <3>2. CASE Place(t) # p
      <4>1. effects[t] = 1
        BY <1>7, <2>2, <3>1, <3>2 DEF SplitInv, NotesFit
      <4>. QED
        BY <1>2, <3>1, <4>1
    <3>3. CASE Place(t) = p
      <4>1. TargetOf(o) \in Applies /\ Place(t) = Place(TargetOf(o)) /\ TargetOf(o)[1] = o[1]
        BY <1>3, <3>3, OpsAre
      <4>2. t = TargetOf(o) /\ o[1] # Anchor
        BY <2>2, <4>1, PlacesAre
      <4>3. CASE o \in Restores
        <5>1. ~ after.there
          BY <1>5, <4>2, <4>3 DEF SplitInv, PostFits
        <5>. QED
          BY <1>6, <1>7, <2>2, <3>3, <5>1
      <4>4. CASE o \in Applies
        BY <1>2, <4>2, <4>4, OpsAre
      <4>. QED
        BY <4>3, <4>4, OpsAre
    <3>. QED
      BY <3>2, <3>3
  <2>3. ASSUME notes'[<<Anchor, 0, 0>>].text = "applied"
        PROVE  \E t \in Applies : t[1] = Anchor /\ effects'[t] = 1
    <3>1. <<Anchor, 0, 0>> \in Places
      BY PlacesAre
    <3>2. CASE p # <<Anchor, 0, 0>>
      <4>1. PICK t \in Applies : t[1] = Anchor /\ effects[t] = 1
        BY <1>7, <2>3, <3>1, <3>2 DEF SplitInv, NotesFit
      <4>. QED
        BY <1>2, <4>1, OpsAre
    <3>3. CASE p = <<Anchor, 0, 0>>
      <4>1. later.there /\ after.there /\ after.text = "applied"
        BY <1>6, <1>7, <2>3, <3>3 DEF NoNote
      <4>2. o \in Applies
        BY <1>5, <4>1, OpsAre DEF SplitInv, PostFits
      <4>3. o[1] = Anchor
        <5>1. o[1] # Anchor => o = <<Anchor, 0, 0>>
          BY <1>3, <3>3, <4>2, PlacesAre
        <5>2. <<Anchor, 0, 0>>[1] = Anchor
          OBVIOUS
        <5>. QED
          BY <5>1, <5>2
      <4>. QED
        BY <1>2, <4>2, <4>3
    <3>. QED
      BY <3>2, <3>3
  <2>. QED
    BY <2>1, <2>2, <2>3 DEF NotesFit
<1>11. JournalTrue' /\ AttemptsFit' /\ AnchorFits' /\ RestoresFit' /\ PostFits' /\ CommandFits'
  <2>1. \A q \in Ops : Live(q)' = Live(q)
    BY <1>1 DEF Live
  <2>2. Live(o) /\ verdict' \in [Ops -> Native!Verdicts]
    BY <1>1 DEF Live, SplitInv, SplitTypes
  <2>. QED
    BY <1>1, <1>2, <2>1, <2>2, NativeMoves
<1>. QED
  BY <1>8, <1>9, <1>10, <1>11 DEF SplitInv

-----------------------------------------------------------------------------
(* Steps between operations                                                *)

\* A command that is over says nothing any more.
LEMMA IdleInv ==
    ASSUME SplitInv, UNCHANGED <<store, notes, wire, native>>, cli' = Idle
    PROVE  SplitInv'
<1>1. cli' \in CliType /\ CommandFits'
  BY CliIdle DEF CommandFits
<1>. QED
  BY <1>1, CommandOnly

LEMMA StartGroupInv == ASSUME SplitInv, StartGroup PROVE SplitInv'
<1>1. PICK c : c = [Idle EXCEPT !.at = "units", !.for = "group", !.session = session]
  OBVIOUS
<1>2. PICK d \in CliType : d = Idle
  BY CliIdle
<1>3. c \in CliType /\ c.at = "units"
  <2>1. PICK n \in Nat : n = session
    BY DEF SplitInv, SplitTypes
  <2>2. c = [d EXCEPT !.at = "units", !.for = "group", !.session = n]
    BY <1>1, <1>2, <2>1
  <2>. QED
    BY <2>2 DEF CliType, Stages
<1>4. /\ cli' = c /\ recorded' \in BOOLEAN
      /\ UNCHANGED <<tries, journal, plan, post, receipts, bound, notes, wire, native>>
  BY <1>1 DEF StartGroup
<1>5. cli' \in CliType /\ CommandFits'
  BY <1>3, <1>4 DEF CommandFits
<1>. QED
  BY <1>4, <1>5, CommandAlone

\* A command that takes up an operation which is pending.
LEMMA TakenUp ==
    ASSUME SplitInv, NEW c \in CliType, NEW o \in Ops, Resumable(o),
           c.at = "begin", c.op = o, c.mode = "reconcile",
           cli' = c, UNCHANGED <<store, notes, wire, native>>
    PROVE  SplitInv'
<1>1. Resumable(o)'
  BY DEF Resumable, store
<1>2. CommandFits'
  BY <1>1 DEF CommandFits, CommandAt, At
<1>. QED
  BY <1>2, CommandOnly

LEMMA ReconcileInv ==
    ASSUME SplitInv, \/ \E u \in Units : ReconcileUnit(u)
                     \/ \E o \in Applies : StartReconcile(o)
    PROVE  SplitInv'
<1>1. UNCHANGED <<store, notes, wire, native>>
  BY DEF ReconcileUnit, StartReconcile
<1>2. Idle \in CliType /\ cli \in CliType /\ session \in Nat
  BY CliIdle DEF SplitInv, SplitTypes
<1>3. CASE \E u \in Units : ReconcileUnit(u)
  <2>1. PICK u \in Units : ReconcileUnit(u)
    BY <1>3
  <2>2. PICK o \in Ops : o = Latest(u) /\ journal[o] \in Unresolved
    BY <2>1, OpsAre DEF ReconcileUnit, AtUnit, Latest, SplitInv, SplitTypes
  <2>3. PICK d \in CliType : d = cli
    BY <1>2
  <2>4. PICK n \in Nat : n = session
    BY <1>2
  <2>5. PICK c : c = [d EXCEPT !.at = "begin", !.op = o, !.mode = "reconcile", !.session = n]
    OBVIOUS
  <2>6. c \in CliType /\ c.at = "begin" /\ c.op = o /\ c.mode = "reconcile"
    BY <2>5 DEF CliType, Stages
  <2>7. cli' = c
    BY <2>1, <2>2, <2>3, <2>4, <2>5 DEF ReconcileUnit
  <2>. QED
    BY <1>1, <2>2, <2>6, <2>7, TakenUp DEF Resumable
<1>4. CASE \E o \in Applies : StartReconcile(o)
  <2>1. PICK o \in Applies : StartReconcile(o)
    BY <1>4
  <2>2. o \in Ops /\ journal[o] \in Unresolved
    BY <2>1, OpsAre DEF StartReconcile
  <2>3. PICK d \in CliType : d = Idle
    BY <1>2
  <2>4. PICK n \in Nat : n = session
    BY <1>2
  <2>5. PICK c : c = [d EXCEPT !.at = "begin", !.for = "item", !.op = o, !.mode = "reconcile",
                               !.session = n]
    OBVIOUS
  <2>6. c \in CliType /\ c.at = "begin" /\ c.op = o /\ c.mode = "reconcile"
    BY <2>2, <2>5 DEF CliType, Stages
  <2>7. cli' = c
    BY <2>1, <2>3, <2>4, <2>5 DEF StartReconcile
  <2>. QED
    BY <1>1, <2>2, <2>6, <2>7, TakenUp DEF Resumable
<1>. QED
  BY <1>3, <1>4

\* The previews of what is left to restore.
LEMMA RestoringIs ==
    ASSUME SplitInv, NEW todo \in SUBSET Applies, NEW t \in todo
    PROVE  Restoring(todo, t) \in CliType /\ Restoring(todo, t).at = "restore"
<1>1. PICK d \in CliType : d = Idle
  BY CliIdle
<1>2. PICK now \in NoteType : now = notes[Place(t)]
  BY OpsAre DEF SplitInv, SplitTypes
<1>3. PICK c : c = [d EXCEPT !.at = "restore", !.for = "restore", !.todo = todo, !.seen = now]
  OBVIOUS
<1>4. c \in CliType /\ c.at = "restore"
  BY <1>3 DEF CliType, Stages
<1>5. c = Restoring(todo, t)
  BY <1>1, <1>2, <1>3 DEF Restoring
<1>. QED
  BY <1>4, <1>5

LEMMA NextTargetFits ==
    ASSUME SplitInv, NEW t, NextTarget(t)
    PROVE  cli' \in CliType /\ CommandFits'
<1>1. cli.todo \in SUBSET Applies
  BY DEF SplitInv, SplitTypes, CliType
<1>2. CASE cli' = Idle
  BY <1>2, CliIdle DEF CommandFits
<1>3. CASE \E n \in First(cli.todo \ {t}) : cli' = Restoring(cli.todo \ {t}, n)
  <2>1. PICK n \in First(cli.todo \ {t}) : cli' = Restoring(cli.todo \ {t}, n)
    BY <1>3
  <2>2. n \in cli.todo \ {t} /\ cli.todo \ {t} \in SUBSET Applies
    BY <1>1, <2>1 DEF First
  <2>. QED
    BY <2>1, <2>2, RestoringIs DEF CommandFits
<1>. QED
  BY <1>2, <1>3 DEF NextTarget

LEMMA RestoresInv ==
    ASSUME SplitInv, StartRestores \/ \E t \in Applies : RefuseRestore(t)
    PROVE  SplitInv'
<1>1. UNCHANGED <<store, notes, wire, native>>
  BY DEF StartRestores, RefuseRestore
<1>2. CASE StartRestores
  <2>1. PICK todo \in {{t} : t \in Doomed} \cup {Doomed} :
          \E t \in First(todo) : cli' = Restoring(todo, t)
    BY <1>2 DEF StartRestores
  <2>2. PICK t \in First(todo) : cli' = Restoring(todo, t)
    BY <2>1
  <2>3. todo \in SUBSET Applies /\ t \in todo
    BY <2>2 DEF Doomed, First
  <2>4. cli' \in CliType /\ CommandFits'
    BY <2>2, <2>3, RestoringIs DEF CommandFits
  <2>. QED
    BY <1>1, <2>4, CommandOnly
<1>3. CASE \E t \in Applies : RefuseRestore(t)
  <2>1. PICK t \in Applies : NextTarget(t)
    BY <1>3 DEF RefuseRestore
  <2>. QED
    BY <1>1, <2>1, NextTargetFits, CommandOnly
<1>. QED
  BY <1>2, <1>3

LEMMA ResumeInv == ASSUME SplitInv, NEW t \in Applies, ResumeRestore(t) PROVE SplitInv'
<1>1. UNCHANGED <<store, notes, wire, native>>
  BY DEF ResumeRestore
<1>2. PICK r \in Open(t) :
        IF bound[r] = session
        THEN cli' = [cli EXCEPT !.at = "begin", !.op = r, !.mode = "reconcile",
                                !.seen = NoNote, !.session = session]
        ELSE cli' = Idle
  BY DEF ResumeRestore
<1>3. r \in Ops /\ Resumable(r)
  <2>1. r \in Restores /\ r \in Ops /\ journal[r] \in JournalStates
    BY OpsAre DEF Open, RestoresOf, SplitInv, SplitTypes
  <2>2. journal[r] # "restored" /\ journal[r] \notin NoJournal \cup {"failed"}
    BY <2>1 DEF SplitInv, RestoresFit, Open, Finished
  <2>. QED
    BY <2>1, <2>2 DEF Resumable, JournalStates
<1>4. CASE cli' = Idle
  BY <1>1, <1>4, IdleInv
<1>5. CASE cli' = [cli EXCEPT !.at = "begin", !.op = r, !.mode = "reconcile",
                              !.seen = NoNote, !.session = session]
  <2>1. PICK d \in CliType : d = cli
    BY DEF SplitInv, SplitTypes
  <2>2. PICK n \in Nat : n = session
    BY DEF SplitInv, SplitTypes
  <2>3. PICK gone \in NoteType : gone = NoNote
    BY CliIdle
  <2>4. PICK c : c = [d EXCEPT !.at = "begin", !.op = r, !.mode = "reconcile",
                               !.seen = gone, !.session = n]
    OBVIOUS
  <2>5. c \in CliType /\ c.at = "begin" /\ c.op = r /\ c.mode = "reconcile"
    BY <1>3, <2>4 DEF CliType, Stages
  <2>6. cli' = c
    BY <1>5, <2>1, <2>2, <2>3, <2>4
  <2>. QED
    BY <1>1, <1>3, <2>5, <2>6, TakenUp
<1>. QED
  BY <1>2, <1>4, <1>5

-----------------------------------------------------------------------------
(* New attempts and new plans                                              *)

\* A new attempt of a unit of which nothing was written.
LEMMA AppendAttemptInv == ASSUME SplitInv, NEW u \in Units, AppendAttempt(u) PROVE SplitInv'
<1>1. PICK k \in 1..NAttempts : k = tries[u] /\ k < NAttempts
  BY DEF AppendAttempt, SplitInv, SplitTypes
<1>2. /\ UNCHANGED <<recorded, journal, plan, post, receipts, bound, notes, cli, wire, native>>
      /\ tries' = [tries EXCEPT ![u] = k + 1] /\ k + 1 \in 1..NAttempts
      /\ journal[<<u, k, 0>>] \in {"failed", "intent"} /\ At("units")
  BY <1>1 DEF AppendAttempt, AtUnit, Latest, Retries
<1>3. /\ tries' \in [Units -> 1..NAttempts] /\ tries'[u] = k + 1
      /\ \A v \in Units : v # u => tries'[v] = tries[v]
  BY <1>2 DEF SplitInv, SplitTypes
<1>4. SplitTypes'
  BY <1>2, <1>3 DEF SplitInv, SplitTypes, native
<1>5. VerdictsTrue' /\ PostFits' /\ NotesFit'
  BY <1>2, RestKept
<1>6. JournalTrue'
  BY <1>2 DEF SplitInv, JournalTrue, Live, native
<1>7. AttemptsFit'
  <2>1. ASSUME NEW v \in Units, NEW n \in 1..NAttempts
        PROVE  /\ n < tries'[v] => journal[<<v, n, 0>>] \in {"intent", "failed"}
               /\ n > tries'[v] => journal[<<v, n, 0>>] = "none"
    <3>1. CASE v # u
      BY <1>3, <3>1 DEF SplitInv, AttemptsFit
    <3>2. CASE v = u
      <4>1. n < k => journal[<<u, n, 0>>] \in {"intent", "failed"}
        BY <1>1 DEF SplitInv, AttemptsFit
      <4>2. n > k => journal[<<u, n, 0>>] = "none"
        BY <1>1 DEF SplitInv, AttemptsFit
      <4>3. n < k + 1 => n < k \/ n = k
        OBVIOUS
      <4>4. n > k + 1 => n > k
        OBVIOUS
      <4>. QED
        BY <1>2, <1>3, <3>2, <4>1, <4>2, <4>3, <4>4
    <3>. QED
      BY <3>1, <3>2
  <2>. QED
    BY <1>2, <2>1 DEF AttemptsFit
<1>8. AnchorFits'
  <2>1. \A v \in ToSet(Children) : v \in Units
    BY UnitsAre
  <2>2. ChildrenDone => ChildrenDone'
    BY <1>1, <1>2, <1>3, <2>1 DEF ChildrenDone, Latest
  <2>. QED
    BY <1>2, <2>2 DEF SplitInv, AnchorFits
<1>9. RestoresFit'
  BY <1>2 DEF SplitInv, RestoresFit, Reversed
<1>10. CommandFits'
  BY <1>2 DEF CommandFits, At
<1>. QED
  BY <1>4, <1>5, <1>6, <1>7, <1>8, <1>9, <1>10 DEF SplitInv

\* A plan: what is left true when an operation gets its intent.
LEMMA PlanMoves ==
    ASSUME SplitInv, NEW o \in Ops, journal[o] = "none",
           NEW now \in NoteType, NEW after \in NoteType, NEW c \in CliType,
           journal' = [journal EXCEPT ![o] = "intent"],
           plan' = [plan EXCEPT ![o] = now], post' = [post EXCEPT ![o] = after],
           bound' \in [Restores -> Nat], cli' = c,
           c.at = "journal", c.op = o, c.mode = "apply",
           UNCHANGED <<recorded, tries, receipts, notes, wire, native>>,
           o \in Applies => /\ o = Latest(o[1]) /\ (o[1] = Anchor => ChildrenDone)
                            /\ after.there /\ after.text = "applied",
           o \in Restores => /\ journal[TargetOf(o)] \in Settled
                             /\ \A r \in RestoresOf(TargetOf(o)) : journal[r] \in Quiet
                             /\ after.there =>
                                  o[1] = Anchor /\ after.tagged = now.tagged /\ after.text # "applied"
    PROVE  SplitInv'
<1>1. /\ plan' \in [Ops -> NoteType] /\ post' \in [Ops -> NoteType]
      /\ plan'[o] = now /\ post'[o] = after
      /\ \A p \in Ops : p # o => plan'[p] = plan[p] /\ post'[p] = post[p]
  BY DEF SplitInv, SplitTypes
<1>2. /\ verdict' = verdict /\ effects' = effects /\ owner' = owner /\ session' = session
      /\ fenceOf' = fenceOf
  BY DEF native
<1>3. /\ "intent" \in JournalStates /\ "intent" \notin Settled /\ "intent" \in Quiet
      /\ "none" \in Early /\ "none" \notin Settled
  BY DEF JournalStates, NoJournal, Settled, Quiet, Early
<1>4. ~ Live(o) /\ verdict[o] = "absent" /\ o \notin receipts
  BY <1>3 DEF SplitInv, JournalTrue, RestoresFit
<1>5. /\ journal' \in [Ops -> JournalStates]
      /\ JournalTrue' /\ AttemptsFit' /\ AnchorFits' /\ RestoresFit'
  BY <1>3, <1>4, JournalMoves
<1>6. SplitTypes'
  BY <1>1, <1>2, <1>5 DEF SplitInv, SplitTypes
<1>7. VerdictsTrue' /\ NotesFit'
  BY <1>2 DEF SplitInv, VerdictsTrue, NotesFit
<1>8. journal'[o] = "intent" /\ \A p \in Ops : p # o => journal'[p] = journal[p]
  BY DEF SplitInv, SplitTypes
<1>9. PostFits'
  <2>1. ASSUME NEW r \in Restores, post'[r].there
        PROVE  r[1] = Anchor /\ post'[r].tagged = plan'[r].tagged /\ post'[r].text # "applied"
    BY <1>1, <2>1, OpsAre DEF SplitInv, PostFits
  <2>2. ASSUME NEW p \in Applies, journal'[p] # "none"
        PROVE  post'[p].there /\ post'[p].text = "applied"
    BY <1>1, <1>8, <2>2, OpsAre DEF SplitInv, PostFits
  <2>. QED
    BY <2>1, <2>2 DEF PostFits
<1>10. CommandFits'
  <2>1. o \in Applies => o = Latest(o[1])'
    BY DEF Latest
  <2>2. o \in Restores => \A r \in RestoresOf(TargetOf(o)) : journal'[r] \in Quiet
    BY <1>3, <1>8, OpsAre DEF RestoresOf
  <2>. QED
    BY <1>8, <2>1, <2>2 DEF CommandFits, CommandAt, At
<1>. QED
  BY <1>5, <1>6, <1>7, <1>9, <1>10 DEF SplitInv

LEMMA PlanUnitInv == ASSUME SplitInv, NEW u \in Units, PlanUnit(u) PROVE SplitInv'
<1>1. PICK o \in Applies : o = Latest(u) /\ o[1] = u
  BY LatestIs
<1>2. PICK now \in NoteType : now = notes[Place(o)]
  BY <1>1, OpsAre DEF SplitInv, SplitTypes
<1>3. PICK after : after = [now EXCEPT !.there = TRUE, !.text = "applied"]
  OBVIOUS
<1>4. PICK d \in CliType : d = cli
  BY DEF SplitInv, SplitTypes
<1>5. PICK n \in Nat : n = session
  BY DEF SplitInv, SplitTypes
<1>6. PICK c : c = [d EXCEPT !.at = "journal", !.op = o, !.mode = "apply", !.session = n]
  OBVIOUS
<1>7. after \in NoteType /\ after.there /\ after.text = "applied"
  BY <1>3 DEF NoteType, Texts
<1>8. c \in CliType /\ c.at = "journal" /\ c.op = o /\ c.mode = "apply" /\ o \in Ops
  BY <1>6, OpsAre DEF CliType, Stages
<1>9. /\ journal' = [journal EXCEPT ![o] = "intent"]
      /\ plan' = [plan EXCEPT ![o] = now] /\ post' = [post EXCEPT ![o] = after] /\ cli' = c
      /\ UNCHANGED <<recorded, tries, receipts, bound, notes, wire, native>>
      /\ journal[o] = "none"
  BY <1>1, <1>2, <1>3, <1>4, <1>5, <1>6 DEF PlanUnit, AtUnit
<1>10. u = Anchor => ChildrenDone
  <2>1. \A v \in Units : Position(v) < Position(u) => Passed(v)
    BY DEF PlanUnit, AtUnit
  <2>. QED
    BY <2>1, UnitsAre DEF ChildrenDone, Passed
<1>11. o \notin Restores /\ bound' \in [Restores -> Nat]
  BY <1>9, OpsAre DEF SplitInv, SplitTypes
<1>. QED
  BY <1>1, <1>7, <1>8, <1>9, <1>10, <1>11, PlanMoves

\* What a restore is to leave of a note.
LEMMA RestoredIs ==
    ASSUME SplitInv, NEW t \in Applies, NEW now \in NoteType, NEW after \in Restored(t, now)
    PROVE  /\ after \in NoteType
           /\ after.there => t[1] = Anchor /\ after.tagged = now.tagged /\ after.text # "applied"
<1>1. CASE t[1] # Anchor
  <2>1. after = NoNote
    BY <1>1 DEF Restored
  <2>. QED
    BY <2>1, CliIdle DEF NoNote
<1>2. CASE t[1] = Anchor
  <2>1. PICK text \in {"source"} \cup (IF now.text = "applied" THEN {} ELSE {now.text}) :
          after = [now EXCEPT !.text = text]
    BY <1>2 DEF Restored
  <2>2. text \in Texts /\ text # "applied"
    BY <2>1 DEF Texts, NoteType
  <2>. QED
    BY <1>2, <2>1, <2>2 DEF NoteType
<1>. QED
  BY <1>1, <1>2

LEMMA PlanRestoreInv == ASSUME SplitInv, NEW r \in Restores, PlanRestore(r) PROVE SplitInv'
<1>1. PICK t \in Applies : t = TargetOf(r) /\ t[1] = r[1]
  BY OpsAre
<1>2. PICK now \in NoteType : now = notes[Place(t)]
  BY <1>1, OpsAre DEF SplitInv, SplitTypes
<1>3. PICK after \in Restored(t, now) : post' = [post EXCEPT ![r] = after]
  BY <1>1, <1>2 DEF PlanRestore
<1>4. /\ after \in NoteType
      /\ after.there => r[1] = Anchor /\ after.tagged = now.tagged /\ after.text # "applied"
  BY <1>1, <1>3, RestoredIs
<1>5. PICK d \in CliType : d = cli
  BY DEF SplitInv, SplitTypes
<1>6. PICK n \in Nat : n = session
  BY DEF SplitInv, SplitTypes
<1>7. PICK gone \in NoteType : gone = NoNote
  BY CliIdle
<1>8. PICK c : c = [d EXCEPT !.at = "journal", !.op = r, !.mode = "apply",
                             !.seen = gone, !.session = n]
  OBVIOUS
<1>9. c \in CliType /\ c.at = "journal" /\ c.op = r /\ c.mode = "apply" /\ r \in Ops
  BY <1>8, OpsAre DEF CliType, Stages
<1>10. /\ journal' = [journal EXCEPT ![r] = "intent"]
       /\ plan' = [plan EXCEPT ![r] = now] /\ cli' = c
       /\ bound' = [bound EXCEPT ![r] = n]
       /\ UNCHANGED <<recorded, tries, receipts, notes, wire, native>>
       /\ journal[r] = "none" /\ journal[t] \in Restorable /\ Open(t) = {}
  BY <1>1, <1>2, <1>5, <1>6, <1>7, <1>8 DEF PlanRestore, NextRestore
<1>11. \A s \in RestoresOf(t) : journal[s] \in Quiet
  BY <1>10 DEF Open, Finished, RestoresOf, Restorable, Quiet, NoJournal
<1>12. journal[t] \in Settled /\ bound' \in [Restores -> Nat] /\ r \notin Applies
  BY <1>10, OpsAre DEF Restorable, Settled, SplitInv, SplitTypes
<1>. QED
  BY <1>1, <1>3, <1>4, <1>9, <1>10, <1>11, <1>12, PlanMoves

-----------------------------------------------------------------------------
(* Steps of one operation                                                  *)

\* The journal is what the command wrote, and the verdicts are what they were.
LEMMA Wrote ==
    ASSUME SplitInv, NEW o \in Ops, o = cli.op, NEW s, Write(s), UNCHANGED <<wire, native>>
    PROVE  /\ journal'[o] = s /\ verdict' = verdict /\ effects' = effects
           /\ NoneLive' <=> NoneLive
           /\ \A p \in Ops : Live(p)' <=> Live(p)
<1>1. journal'[o] = s
  BY DEF Write, SplitInv, SplitTypes
<1>2. verdict' = verdict /\ effects' = effects /\ wire' = wire
  BY DEF native
<1>. QED
  BY <1>1, <1>2 DEF NoneLive, Live

LEMMA AppendJournalInv == ASSUME SplitInv, AppendJournal PROVE SplitInv'
<1>1. PICK o \in Ops : o = cli.op /\ CommandAt(o)
  BY Running DEF AppendJournal, At
<1>2. /\ journal[o] = "intent" /\ cli.mode = "apply"
      /\ o \in Applies => o = Latest(o[1])
      /\ o \in Restores => \A s \in RestoresOf(TargetOf(o)) : journal[s] \in Quiet
  BY <1>1 DEF CommandAt, AppendJournal
<1>3. /\ Write("prepared") /\ Goto("begin")
      /\ UNCHANGED <<recorded, tries, plan, post, receipts, bound, notes, wire, native>>
  BY DEF AppendJournal
<1>4. /\ "prepared" \in JournalStates /\ "prepared" \in Early /\ "prepared" \notin Settled
      /\ "intent" \in Early /\ "begin" \in Stages
  BY DEF JournalStates, Unresolved, Early, Settled, Stages
<1>5. verdict[o] = "absent" /\ ~ Live(o) /\ o \notin receipts /\ journal[o] \notin Settled
  BY <1>2, <1>4 DEF SplitInv, JournalTrue, RestoresFit, Settled
<1>6. o[1] = Anchor /\ o \in Applies => journal[o] # "none"
  BY <1>2
<1>7. o \in Restores => journal[TargetOf(o)] \in Settled
  BY <1>2 DEF SplitInv, RestoresFit
<1>8. journal' = [journal EXCEPT ![o] = "prepared"]
  BY <1>1, <1>3 DEF Write
<1>9. /\ journal' \in [Ops -> JournalStates]
      /\ JournalTrue' /\ AttemptsFit' /\ AnchorFits' /\ RestoresFit'
  BY <1>2, <1>3, <1>4, <1>5, <1>6, <1>7, <1>8, JournalMoves
<1>10. VerdictsTrue' /\ PostFits' /\ NotesFit'
  <2>1. \A p \in Applies : journal[p] = "none" => journal'[p] = "none"
    BY <1>2, <1>8, OpsAre DEF SplitInv, SplitTypes
  <2>. QED
    BY <1>3, <2>1, RestKept
<1>11. cli' \in CliType /\ cli'.at = "begin" /\ cli'.op = o /\ cli'.mode = "apply"
  BY <1>1, <1>2, <1>3, <1>4, CliMoves DEF Goto
<1>12. SplitTypes'
  BY <1>3, <1>9, <1>11 DEF SplitInv, SplitTypes, native
<1>13. CommandFits'
  <2>1. journal'[o] = "prepared"
    BY <1>1, <1>3, Wrote
  <2>. QED
    BY <1>11, <2>1 DEF CommandFits, CommandAt, At
<1>. QED
  BY <1>9, <1>10, <1>12, <1>13 DEF SplitInv

\* A new owner: nothing of the earlier ones can take effect any more.
LEMMA BeginInv == ASSUME SplitInv, Begin PROVE SplitInv'
<1>1. PICK o \in Ops : o = cli.op /\ CommandAt(o)
  BY Running DEF Begin, At
<1>2. IF cli.mode = "apply" THEN journal[o] = "prepared" ELSE Resumable(o)
  BY <1>1 DEF CommandAt, Begin
<1>3. PICK f \in Nat : f = owner.fence + 1
  <2>1. owner.fence + 1 \in Nat
    BY DEF SplitInv, SplitTypes
  <2>. QED
    BY <2>1
<1>4. /\ UNCHANGED <<store, notes, fenceOf, effects, session>> /\ wire' = {}
      /\ owner' = [fence |-> f, session |-> session, released |-> FALSE]
      /\ cli' = [cli EXCEPT !.at = IF cli.mode = "apply" THEN "checkpoint" ELSE "step", !.fence = f]
  BY <1>3 DEF Begin, Native!Begin
<1>5. PICK lost \in [{p \in Ops : verdict[p] = "accepted"} -> {"failed", "unknown"}] :
        /\ \A p \in DOMAIN lost : lost[p] \in Native!Verdict(p)
        /\ verdict' = [p \in Ops |-> IF verdict[p] = "accepted" THEN lost[p] ELSE verdict[p]]
  BY DEF Begin, Native!Begin
<1>6. ASSUME NEW p \in Ops
      PROVE  /\ verdict[p] # "accepted" => verdict'[p] = verdict[p]
             /\ verdict[p] = "accepted" => /\ verdict'[p] \in {"failed", "unknown"}
                                           /\ verdict'[p] = "failed" => effects[p] = 0
  BY <1>5 DEF Native!Verdict
<1>7. verdict' \in [Ops -> Native!Verdicts]
  <2>1. \A p \in Ops : verdict'[p] \in Native!Verdicts
    BY <1>6 DEF SplitInv, SplitTypes, Native!Verdicts
  <2>. QED
    BY <1>5, <2>1
<1>8. PICK c \in CliType : /\ cli' = c /\ c.op = o /\ c.mode = cli.mode
                           /\ c.at = IF cli.mode = "apply" THEN "checkpoint" ELSE "step"
  <2>1. PICK d \in CliType : d = cli
    BY DEF SplitInv, SplitTypes
  <2>2. PICK x \in {"checkpoint", "step"} : x = IF cli.mode = "apply" THEN "checkpoint" ELSE "step"
    OBVIOUS
  <2>3. PICK c : c = [d EXCEPT !.at = x, !.fence = f]
    OBVIOUS
  <2>4. c \in CliType /\ c.at = x /\ c.op = d.op /\ c.mode = d.mode
    BY <2>3 DEF CliType, Stages
  <2>. QED
    BY <1>1, <1>4, <2>1, <2>2, <2>3, <2>4
<1>9. \A p \in Ops : ~ Live(p)'
  BY <1>4, <1>6 DEF Live
<1>10. owner' \in [fence : Nat, session : Nat, released : BOOLEAN]
  BY <1>4 DEF SplitInv, SplitTypes
<1>11. UNCHANGED <<recorded, tries, journal, plan, post, receipts, bound>>
  BY <1>4 DEF store
<1>12. SplitTypes'
  <2>1. cli' \in CliType /\ wire' \subseteq [op : Ops, fence : Nat]
    BY <1>4, <1>8
  <2>. QED
    BY <1>4, <1>7, <1>10, <1>11, <2>1 DEF SplitInv, SplitTypes
<1>13. VerdictsTrue'
  BY <1>4, <1>6 DEF SplitInv, VerdictsTrue
<1>14. JournalTrue'
  <2>1. \A p \in Ops : journal[p] \in Early => verdict'[p] = "absent"
    BY <1>6 DEF SplitInv, JournalTrue
  <2>. QED
    BY <1>4, <1>9, <1>11, <2>1 DEF SplitInv, JournalTrue
<1>15. AttemptsFit' /\ PostFits' /\ NotesFit'
  BY <1>4, <1>11 DEF SplitInv, AttemptsFit, PostFits, NotesFit
<1>16. AnchorFits' /\ RestoresFit'
  BY <1>11 DEF SplitInv, AnchorFits, ChildrenDone, Latest, RestoresFit, Reversed
<1>17. CommandFits'
  <2>1. NoneLive'
    BY <1>9 DEF NoneLive
  <2>2. Resumable(o)' <=> Resumable(o)
    BY <1>11 DEF Resumable
  <2>. QED
    BY <1>2, <1>8, <1>11, <2>1, <2>2 DEF CommandFits, CommandAt, At
<1>. QED
  BY <1>12, <1>13, <1>14, <1>15, <1>16, <1>17 DEF SplitInv

\* What a journal before the request allows.
LEMMA Unsent ==
    ASSUME SplitInv, NEW o \in Ops, journal[o] \in {"prepared", "checkpointed"}
    PROVE  verdict[o] = "absent" /\ ~ Live(o) /\ effects[o] = 0 /\ o \notin receipts
<1>1. journal[o] \in Early
  BY DEF Early
<1>. QED
  BY <1>1 DEF SplitInv, JournalTrue, VerdictsTrue, RestoresFit

LEMMA BeginRefusedInv == ASSUME SplitInv, BeginRefused PROVE SplitInv'
<1>1. PICK o \in Ops : o = cli.op /\ CommandAt(o)
  BY Running DEF BeginRefused, At
<1>2. cli' = Idle /\ UNCHANGED <<recorded, tries, plan, post, receipts, bound, notes, wire, native>>
  BY DEF BeginRefused
<1>3. cli' \in CliType /\ CommandFits'
  BY <1>2, CliIdle DEF CommandFits
<1>4. CASE cli.mode = "apply"
  <2>1. journal[o] = "prepared" /\ Write("failed")
    BY <1>1, <1>4 DEF CommandAt, BeginRefused
  <2>2. "failed" \notin Early /\ "failed" \notin Settled /\ "prepared" \in Unresolved
    BY DEF Early, Settled, Unresolved
  <2>3. journal[o] \notin Settled
    BY <2>1 DEF Settled
  <2>. QED
    BY <1>1, <1>2, <1>3, <2>1, <2>2, <2>3, Unsent, CommandStep
<1>5. CASE cli.mode # "apply"
  BY <1>2, <1>3, <1>5, CommandOnly DEF BeginRefused, store
<1>. QED
  BY <1>4, <1>5

LEMMA EnterCheckpointedInv == ASSUME SplitInv, EnterCheckpointed PROVE SplitInv'
<1>1. PICK o \in Ops : o = cli.op /\ CommandAt(o)
  BY Running DEF EnterCheckpointed, At
<1>2. journal[o] = "prepared" /\ NoneLive
  BY <1>1 DEF CommandAt, EnterCheckpointed, At
<1>3. /\ Write("checkpointed") /\ Goto("step")
      /\ UNCHANGED <<recorded, tries, plan, post, receipts, bound, notes, wire, native>>
  BY DEF EnterCheckpointed
<1>4. /\ "checkpointed" \notin Settled /\ journal[o] \notin Settled /\ "step" \in Stages
      /\ "prepared" \in Unresolved /\ "checkpointed" \in Unresolved
  BY <1>2 DEF Settled, Stages, Unresolved
<1>5. cli' \in CliType /\ CommandFits'
  <2>1. cli' \in CliType /\ cli'.at = "step" /\ cli'.op = o
    BY <1>1, <1>3, <1>4, CliMoves DEF Goto
  <2>2. journal'[o] = "checkpointed" /\ NoneLive'
    BY <1>1, <1>2, <1>3, Wrote
  <2>. QED
    BY <1>4, <2>1, <2>2 DEF CommandFits, CommandAt, At, Resumable
<1>. QED
  BY <1>1, <1>2, <1>3, <1>4, <1>5, Unsent, CommandStep

LEMMA StartRequestInv == ASSUME SplitInv, StartRequest PROVE SplitInv'
<1>1. PICK o \in Ops : o = cli.op /\ CommandAt(o)
  BY Running DEF StartRequest, At
<1>2. journal[o] = "checkpointed" /\ NoneLive
  BY <1>1 DEF CommandAt, StartRequest, At
<1>3. /\ Write("started") /\ Goto("send")
      /\ UNCHANGED <<recorded, tries, plan, post, receipts, bound, notes, wire, native>>
  BY DEF StartRequest
<1>4. /\ "started" \notin Settled /\ journal[o] \notin Settled /\ "send" \in Stages
      /\ "checkpointed" \in Unresolved /\ "started" \in Unresolved /\ "started" \notin Early
  BY <1>2 DEF Settled, Stages, Unresolved, Early
<1>5. cli' \in CliType /\ CommandFits'
  <2>1. cli' \in CliType /\ cli'.at = "send" /\ cli'.op = o
    BY <1>1, <1>3, <1>4, CliMoves DEF Goto
  <2>2. journal'[o] = "started" /\ NoneLive' /\ verdict'[o] = "absent"
    BY <1>1, <1>2, <1>3, Wrote, Unsent
  <2>. QED
    BY <2>1, <2>2 DEF CommandFits, CommandAt, At
<1>. QED
  BY <1>1, <1>2, <1>3, <1>4, <1>5, Unsent, CommandStep

\* The request goes out, once or once more.
LEMMA SendInv == ASSUME SplitInv, Send \/ Resend PROVE SplitInv'
<1>1. PICK o \in Ops : o = cli.op /\ CommandAt(o)
  BY Running DEF Send, Resend, At
<1>2. /\ NoneLive /\ verdict[o] = "absent"
      /\ \/ At("send") /\ journal[o] = "started"
         \/ At("resend") /\ journal[o] = "unknown"
  BY <1>1 DEF CommandAt, Send, Resend, At
<1>3. PICK q \in [op : Ops, fence : Nat] :
        q = [op |-> o, fence |-> cli.fence] /\ q.op = o /\ wire' = wire \cup {q}
  BY <1>1 DEF Send, Resend, SplitInv, SplitTypes, CliType
<1>4. PICK x \in {"wait", "recheck"} : /\ Goto(x)
                                       /\ x = "wait" => journal[o] = "started"
                                       /\ x = "recheck" => journal[o] = "unknown"
  BY <1>2 DEF Send, Resend, At
<1>5. UNCHANGED <<store, notes, native>>
  BY DEF Send, Resend
<1>6. UNCHANGED <<recorded, tries, journal, plan, post, receipts, bound, notes, verdict, fenceOf,
                  effects, owner, session>>
  BY <1>5 DEF store, native
<1>7. wire = {}
  <2>1. \A r \in wire : r.op \in Ops
    BY DEF SplitInv, SplitTypes
  <2>. QED
    BY <1>2, <2>1 DEF NoneLive, Live
<1>8. \A p \in Ops : (Live(p)' => p = o) /\ ~ Live(p)
  BY <1>2, <1>3, <1>6, <1>7 DEF NoneLive, Live
<1>9. cli' \in CliType /\ cli'.at = x /\ cli'.op = o /\ cli'.fence = cli.fence
  <2>1. x \in Stages
    BY DEF Stages
  <2>. QED
    BY <1>1, <1>4, <2>1, CliMoves DEF Goto
<1>10. SplitTypes'
  BY <1>3, <1>6, <1>7, <1>9 DEF SplitInv, SplitTypes
<1>11. VerdictsTrue'
  BY <1>2, <1>3, <1>6, <1>7 DEF SplitInv, VerdictsTrue
<1>12. JournalTrue'
  BY <1>2, <1>6, <1>8 DEF SplitInv, JournalTrue
<1>13. AttemptsFit' /\ PostFits' /\ NotesFit'
  BY <1>6 DEF SplitInv, AttemptsFit, PostFits, NotesFit
<1>14. AnchorFits' /\ RestoresFit'
  BY <1>6 DEF SplitInv, AnchorFits, ChildrenDone, Latest, RestoresFit, Reversed
<1>15. CommandFits'
  <2>1. wire' \subseteq {[op |-> o, fence |-> cli'.fence]}
    BY <1>3, <1>7, <1>9
  <2>. QED
    BY <1>4, <1>6, <1>8, <1>9, <2>1 DEF CommandFits, CommandAt, At
<1>. QED
  BY <1>10, <1>11, <1>12, <1>13, <1>14, <1>15 DEF SplitInv

-----------------------------------------------------------------------------
(* Answers and read-backs                                                  *)

\* What was written was under way.
LEMMA WrittenUnderWay ==
    ASSUME SplitInv, NEW o \in Ops, effects[o] = 1
    PROVE  journal[o] \notin Quiet
BY DEF SplitInv, VerdictsTrue, JournalTrue, Quiet, Early

\* An attempt that left what it was to leave was written.
LEMMA ExpectedIsDone ==
    ASSUME SplitInv, NEW o \in Applies, journal[o] \notin Quiet, View(o) = "expected"
    PROVE  effects[o] = 1
<1>1. notes[Place(o)] = post[o]
  BY DEF View
<1>2. post[o].there /\ post[o].text = "applied"
  BY DEF SplitInv, PostFits, Quiet
<1>3. CASE o[1] # Anchor
  BY <1>1, <1>2, <1>3 DEF SplitInv, NotesFit
<1>4. CASE o[1] = Anchor
  <2>1. Place(o) = <<Anchor, 0, 0>>
    BY <1>4, PlacesAre
  <2>2. PICK t \in Applies : t[1] = Anchor /\ effects[t] = 1
    BY <1>1, <1>2, <2>1 DEF SplitInv, NotesFit
  <2>3. t = Latest(Anchor)
    BY <2>2, OpsAre, WrittenUnderWay, UnderWay
  <2>4. o = Latest(Anchor)
    BY <1>4, OpsAre, UnderWay
  <2>. QED
    BY <2>2, <2>3, <2>4
<1>. QED
  BY <1>3, <1>4

LEMMA WaitInv == ASSUME SplitInv, Wait PROVE SplitInv'
<1>1. PICK o \in Ops : o = cli.op /\ CommandAt(o)
  BY Running DEF Wait, At
<1>2. /\ journal[o] = "started" /\ \A p \in Ops : Live(p) => p = o
      /\ wire \subseteq {[op |-> o, fence |-> cli.fence]}
  BY <1>1 DEF CommandAt, Wait, At
<1>3. UNCHANGED <<store, notes, native>>
  BY DEF Wait
<1>4. UNCHANGED <<recorded, tries, journal, plan, post, receipts, bound, notes, verdict, fenceOf,
                  effects, owner, session>>
  BY <1>3 DEF store, native
<1>5. PICK a \in {"verified", "failed", "lost"} :
        /\ cli' = [cli EXCEPT !.at = "look", !.answer = a]
        /\ wire' \subseteq wire
        /\ a = "verified" => verdict[o] = "verified"
        /\ a = "failed" => \/ verdict[o] = "failed" /\ wire' = wire
                           \/ verdict[o] = "absent" /\ wire' = {}
  <2>1. CASE verdict[o] \in {"verified", "failed"} /\ wire' = wire
             /\ cli' = [cli EXCEPT !.at = "look", !.answer = verdict[o]]
    BY <2>1
  <2>2. CASE verdict[o] = "absent" /\ wire' = wire \ {[op |-> o, fence |-> cli.fence]}
             /\ cli' = [cli EXCEPT !.at = "look", !.answer = "failed"]
    BY <1>2, <2>2
  <2>3. CASE wire' = wire /\ cli' = [cli EXCEPT !.at = "look", !.answer = "lost"]
    BY <2>3
  <2>. QED
    BY <1>1, <2>1, <2>2, <2>3 DEF Wait
<1>6. cli' \in CliType /\ cli'.at = "look" /\ cli'.op = o /\ cli'.answer = a
  <2>1. PICK d \in CliType : d = cli
    BY DEF SplitInv, SplitTypes
  <2>2. PICK c : c = [d EXCEPT !.at = "look", !.answer = a]
    OBVIOUS
  <2>3. c \in CliType /\ c.at = "look" /\ c.op = d.op /\ c.answer = a
    BY <2>2 DEF CliType, Stages
  <2>. QED
    BY <1>1, <1>5, <2>1, <2>2, <2>3
<1>7. CommandFits'
  <2>1. \A p \in Ops : Live(p)' => Live(p)
    BY <1>4, <1>5 DEF Live
  <2>2. a = "failed" => verdict[o] \in {"absent", "failed"} /\ ~ Live(o)'
    <3>1. verdict[o] = "failed" => ~ Live(o)
      BY DEF SplitInv, VerdictsTrue, Live
    <3>2. wire' = {} /\ verdict[o] = "absent" => ~ Live(o)'
      BY <1>4 DEF Live
    <3>. QED
      BY <1>5, <2>1, <3>1, <3>2
  <2>3. /\ journal'[o] = "started" /\ \A p \in Ops : Live(p)' => p = o
        /\ a = "verified" => verdict'[o] = "verified"
        /\ a = "failed" => verdict'[o] \in {"absent", "failed"} /\ ~ Live(o)'
    BY <1>2, <1>4, <1>5, <2>1, <2>2
  <2>. QED
    BY <1>6, <2>3 DEF CommandFits, CommandAt, At
<1>8. recorded' \in BOOLEAN
  BY <1>4 DEF SplitInv, SplitTypes
<1>. QED
  BY <1>3, <1>4, <1>5, <1>6, <1>7, <1>8, CommandAlone

LEMMA ReadBackInv == ASSUME SplitInv, ReadBack PROVE SplitInv'
<1>1. PICK o \in Ops : o = cli.op /\ CommandAt(o)
  BY Running DEF ReadBack, At
<1>2. /\ journal[o] = "started" /\ \A p \in Ops : Live(p) => p = o
      /\ cli.answer = "verified" => verdict[o] = "verified"
      /\ cli.answer = "failed" => verdict[o] \in {"absent", "failed"} /\ ~ Live(o)
  BY <1>1 DEF CommandAt, ReadBack, At
<1>3. UNCHANGED <<recorded, tries, plan, post, receipts, bound, notes, wire, native>>
  BY DEF ReadBack
<1>4. PICK s \in {"verified", "differs", "failed", "unknown"} :
        /\ Write(s)
        /\ s \in {"verified", "differs"} => cli.answer = "verified"
        /\ s = "failed" => cli.answer = "failed"
  BY DEF ReadBack
<1>5. journal'[o] = s /\ verdict' = verdict /\ (NoneLive' <=> NoneLive)
  BY <1>1, <1>3, <1>4, Wrote
<1>6. verdict[o] = "verified" => ~ Live(o) /\ effects[o] = 1
  BY DEF SplitInv, VerdictsTrue, Live
<1>7. verdict[o] \in {"absent", "failed"} => effects[o] = 0
  BY DEF SplitInv, VerdictsTrue
<1>8. cli' \in CliType /\ cli'.at = (IF s = "verified" THEN "step" ELSE "end") /\ cli'.op = o
  <2>1. PICK d \in CliType : d = cli
    BY DEF SplitInv, SplitTypes
  <2>2. PICK x \in {"step", "end"} : x = IF s = "verified" THEN "step" ELSE "end"
    OBVIOUS
  <2>3. PICK c : c = [d EXCEPT !.answer = "none", !.at = x]
    OBVIOUS
  <2>4. c \in CliType /\ c.at = x /\ c.op = d.op
    BY <2>3 DEF CliType, Stages
  <2>5. cli' = c
    BY <1>1, <1>5, <2>1, <2>2, <2>3 DEF ReadBack
  <2>. QED
    BY <1>1, <2>1, <2>2, <2>4, <2>5
<1>9. /\ s \in Unresolved \cup {"committed", "failed"} /\ s \notin Early
      /\ s \in Settled => s \in {"verified", "differs"}
      /\ journal[o] \in Unresolved /\ journal[o] \notin Settled
  BY <1>2 DEF Unresolved, Early, Settled
<1>10. CommandFits'
  <2>1. s = "verified" => NoneLive'
    BY <1>2, <1>4, <1>5, <1>6 DEF NoneLive
  <2>2. "verified" \in Unresolved
    BY DEF Unresolved
  <2>. QED
    BY <1>5, <1>8, <2>1, <2>2 DEF CommandFits, CommandAt, At, Resumable
<1>11. o \notin receipts
  BY <1>2 DEF SplitInv, RestoresFit
<1>12. Live(o) => s \in {"started", "unknown"}
  BY <1>2, <1>4, <1>6
<1>. QED
  BY <1>1, <1>2, <1>3, <1>4, <1>6, <1>7, <1>8, <1>9, <1>10, <1>11, <1>12, CommandStep

\* A command that reports and leaves the journal as it is.
LEMMA GoEnd ==
    ASSUME SplitInv, cli.op \in Ops, Goto("end"), UNCHANGED <<store, notes, wire, native>>
    PROVE  SplitInv'
<1>1. "end" \in Stages
  BY DEF Stages
<1>2. cli' \in CliType /\ cli'.at = "end" /\ cli'.op = cli.op
  BY <1>1, CliMoves DEF Goto
<1>3. CommandFits'
  BY <1>2 DEF CommandFits, CommandAt, At
<1>. QED
  BY <1>2, <1>3, CommandOnly

LEMMA ClassifyInv == ASSUME SplitInv, Classify PROVE SplitInv'
<1>1. PICK o \in Ops : o = cli.op /\ CommandAt(o)
  BY Running DEF Classify, At
<1>2. Resumable(o) /\ NoneLive /\ ~ Live(o)
  BY <1>1 DEF CommandAt, Classify, At, NoneLive
<1>3. UNCHANGED <<recorded, tries, plan, post, receipts, bound, notes, wire, native>>
  BY DEF Classify
<1>4. CASE UNCHANGED journal /\ Goto("end")
  BY <1>1, <1>3, <1>4, GoEnd DEF store
<1>5. ASSUME ~ (UNCHANGED journal /\ Goto("end"))
      PROVE  \E s \in {"failed", "verified", "unknown"}, x \in {"end", "step", "resend"} :
               /\ Write(s) /\ Goto(x)
               /\ s = "failed" => /\ x = "end"
                                  /\ journal[o] = "prepared" \/ verdict[o] = "failed"
               /\ s = "verified" => x = "step" /\ View(o) = "expected"
               /\ s = "unknown" => x \in {"resend", "end"} /\ journal[o] \in {"started", "unknown"}
               /\ x = "resend" => s = "unknown" /\ verdict[o] = "absent"
               /\ journal[o] \in {"prepared", "started", "unknown", "differs"}
  <2>1. \/ journal[o] = "prepared" /\ Write("failed") /\ Goto("end")
        \/ /\ journal[o] \in {"started", "unknown", "differs"} /\ View(o) = "expected"
           /\ Write("verified") /\ Goto("step")
        \/ /\ journal[o] \in {"started", "unknown"}
           /\ verdict[o] = "failed"
           /\ Write("failed") /\ Goto("end")
        \/ /\ journal[o] \in {"started", "unknown"}
           /\ verdict[o] = "absent"
           /\ Write("unknown") /\ Goto("resend")
        \/ journal[o] = "started" /\ Write("unknown") /\ Goto("end")
    BY <1>1, <1>5 DEF Classify
  <2>2. CASE journal[o] = "prepared" /\ Write("failed") /\ Goto("end")
    BY <2>2
  <2>3. CASE /\ journal[o] \in {"started", "unknown", "differs"} /\ View(o) = "expected"
             /\ Write("verified") /\ Goto("step")
    BY <2>3
  <2>4. CASE journal[o] \in {"started", "unknown"} /\ verdict[o] = "failed"
             /\ Write("failed") /\ Goto("end")
    BY <2>4
  <2>5. CASE journal[o] \in {"started", "unknown"} /\ verdict[o] = "absent"
             /\ Write("unknown") /\ Goto("resend")
    BY <2>5
  <2>6. CASE journal[o] = "started" /\ Write("unknown") /\ Goto("end")
    BY <2>6
  <2>. QED
    BY <2>1, <2>2, <2>3, <2>4, <2>5, <2>6
<1>6. CASE ~ (UNCHANGED journal /\ Goto("end"))
  <2>1. PICK s \in {"failed", "verified", "unknown"}, x \in {"end", "step", "resend"} :
          /\ Write(s) /\ Goto(x)
          /\ s = "failed" => /\ x = "end"
                             /\ journal[o] = "prepared" \/ verdict[o] = "failed"
          /\ s = "verified" => x = "step" /\ View(o) = "expected"
          /\ s = "unknown" => x \in {"resend", "end"} /\ journal[o] \in {"started", "unknown"}
          /\ x = "resend" => s = "unknown" /\ verdict[o] = "absent"
          /\ journal[o] \in {"prepared", "started", "unknown", "differs"}
    BY <1>5, <1>6
  <2>2. /\ s \in Unresolved \cup {"committed", "failed"} /\ s \notin Early
        /\ s \in Settled => s = "verified"
        /\ journal[o] \in Unresolved /\ journal[o] \notin Quiet
        /\ journal[o] \in Settled => journal[o] = "differs"
        /\ x \in Stages
    BY <2>1 DEF Unresolved, Early, Settled, Quiet, Stages
  <2>3. s = "failed" => effects[o] = 0
    BY <2>1, Unsent DEF SplitInv, VerdictsTrue
  <2>4. o \in Applies => /\ s \in Settled => effects[o] = 1
                         /\ journal[o] \in Settled => s \in Settled
    <3>1. o \in Applies /\ s \in Settled => effects[o] = 1
      BY <2>1, <2>2, ExpectedIsDone
    <3>2. journal[o] = "differs" => s = "verified" \/ s = "failed"
      BY <2>1
    <3>3. journal[o] = "differs" /\ o \in Applies => s # "failed"
      <4>1. "differs" \in Settled
        BY DEF Settled
      <4>2. ASSUME journal[o] = "differs", o \in Applies PROVE effects[o] = 1
        BY <4>1, <4>2 DEF SplitInv, JournalTrue
      <4>. QED
        BY <2>3, <4>2
    <3>4. "verified" \in Settled
      BY DEF Settled
    <3>. QED
      BY <2>2, <3>1, <3>2, <3>3, <3>4
  <2>5. o \notin receipts
    BY <2>1 DEF SplitInv, RestoresFit
  <2>6. /\ journal'[o] = s /\ verdict' = verdict /\ (NoneLive' <=> NoneLive)
        /\ cli' \in CliType /\ cli'.at = x /\ cli'.op = o
    BY <1>1, <1>3, <2>1, <2>2, Wrote, CliMoves DEF Goto
  <2>7. CommandFits'
    <3>1. "verified" \in Unresolved
      BY DEF Unresolved
    <3>. QED
      BY <1>2, <2>1, <2>6, <3>1 DEF CommandFits, CommandAt, At, Resumable
  <2>. QED
    BY <1>1, <1>2, <1>3, <2>1, <2>2, <2>3, <2>4, <2>5, <2>6, <2>7, CommandStep
<1>. QED
  BY <1>4, <1>6

LEMMA RecheckInv == ASSUME SplitInv, Recheck PROVE SplitInv'
<1>1. PICK o \in Ops : o = cli.op /\ CommandAt(o)
  BY Running DEF Recheck, At
<1>2. journal[o] = "unknown" /\ \A p \in Ops : Live(p) => p = o
  BY <1>1 DEF CommandAt, Recheck, At
<1>3. UNCHANGED <<recorded, tries, plan, post, receipts, bound, notes, wire, native>>
  BY DEF Recheck
<1>4. CASE UNCHANGED journal /\ Goto("end")
  BY <1>1, <1>3, <1>4, GoEnd DEF store
<1>5. CASE verdict[o] = "verified" /\ Write("verified") /\ Goto("step")
  <2>1. ~ Live(o) /\ effects[o] = 1
    BY <1>5 DEF SplitInv, VerdictsTrue, Live
  <2>2. /\ "verified" \in Unresolved /\ "verified" \notin Early /\ "verified" \in Settled
        /\ journal[o] \in Unresolved /\ "step" \in Stages
    BY <1>2 DEF Unresolved, Early, Settled, Stages
  <2>3. o \notin receipts
    BY <1>2 DEF SplitInv, RestoresFit
  <2>4. /\ journal'[o] = "verified" /\ (NoneLive' <=> NoneLive)
        /\ cli' \in CliType /\ cli'.at = "step" /\ cli'.op = o
    BY <1>1, <1>3, <1>5, <2>2, Wrote, CliMoves DEF Goto
  <2>5. NoneLive
    BY <1>2, <2>1 DEF NoneLive
  <2>6. CommandFits'
    BY <2>2, <2>4, <2>5 DEF CommandFits, CommandAt, At, Resumable
  <2>. QED
    BY <1>1, <1>3, <1>5, <2>1, <2>2, <2>3, <2>4, <2>6, CommandStep
<1>. QED
  BY <1>1, <1>4, <1>5 DEF Recheck

-----------------------------------------------------------------------------
(* The ends of operations                                                  *)

LEMMA FinalReadBackInv == ASSUME SplitInv, FinalReadBack PROVE SplitInv'
<1>1. PICK o \in Ops : o = cli.op /\ CommandAt(o)
  BY Running DEF FinalReadBack, At
<1>2. /\ journal[o] \in {"verified", "mismatch", "verifying"} /\ o \notin receipts /\ ~ Live(o)
  BY <1>1 DEF CommandAt, FinalReadBack, At, NoneLive
<1>3. UNCHANGED <<recorded, tries, plan, post, receipts, bound, notes, wire, native>>
  BY DEF FinalReadBack
<1>4. PICK s \in {"verifying", "mismatch"}, x \in {"receipt", "end"} :
        Write(s) /\ Goto(x) /\ (x = "receipt" => s = "verifying")
  BY DEF FinalReadBack
<1>5. /\ s \in Unresolved /\ s \notin Early /\ s \in Settled /\ x \in Stages
      /\ journal[o] \in Unresolved /\ journal[o] \in Settled
  BY <1>2 DEF Unresolved, Early, Settled, Stages
<1>6. o \in Applies => effects[o] = 1
  BY <1>5 DEF SplitInv, JournalTrue
<1>7. /\ journal'[o] = s /\ cli' \in CliType /\ cli'.at = x /\ cli'.op = o
  BY <1>1, <1>3, <1>4, <1>5, Wrote, CliMoves DEF Goto
<1>8. CommandFits'
  BY <1>4, <1>7 DEF CommandFits, CommandAt, At
<1>. QED
  BY <1>1, <1>2, <1>3, <1>4, <1>5, <1>6, <1>7, <1>8, CommandStep

LEMMA CommitInv == ASSUME SplitInv, Commit PROVE SplitInv'
<1>1. PICK o \in Ops : o = cli.op /\ CommandAt(o)
  BY Running DEF Commit, At
<1>2. journal[o] = "verifying" /\ o \in receipts
  BY <1>1 DEF CommandAt, Commit, At
<1>3. UNCHANGED <<recorded, tries, plan, post, receipts, bound, notes, wire, native>>
  BY DEF Commit
<1>4. PICK x \in {"finalize", "end"} : /\ Goto(x) /\ x = IF o \in Restores THEN "finalize" ELSE "end"
                                       /\ Write("committed")
  BY <1>1 DEF Commit
<1>5. /\ "committed" \notin Early /\ "committed" \in Settled /\ x \in Stages
      /\ journal[o] \in Unresolved /\ journal[o] \in Settled
  BY <1>2 DEF Unresolved, Early, Settled, Stages
<1>6. (o \in Applies => effects[o] = 1) /\ ~ Live(o)
  BY <1>2, <1>5 DEF SplitInv, JournalTrue
<1>7. /\ journal'[o] = "committed" /\ cli' \in CliType /\ cli'.at = x /\ cli'.op = o
  BY <1>1, <1>3, <1>4, <1>5, Wrote, CliMoves DEF Goto
<1>8. CommandFits'
  BY <1>2, <1>3, <1>4, <1>7 DEF CommandFits, CommandAt, At
<1>. QED
  BY <1>1, <1>2, <1>3, <1>4, <1>5, <1>6, <1>7, <1>8, CommandStep

LEMMA FindReceiptInv == ASSUME SplitInv, FindReceipt PROVE SplitInv'
<1>1. PICK o \in Ops : o = cli.op /\ CommandAt(o)
  BY Running DEF FindReceipt, At
<1>2. o \in receipts /\ Resumable(o)
  BY <1>1 DEF CommandAt, FindReceipt, At
<1>3. UNCHANGED <<store, notes, wire, native>>
  BY DEF FindReceipt
<1>4. PICK x \in {"finalize", "commit"} :
        Goto(x) /\ x = IF journal[o] = "committed" THEN "finalize" ELSE "commit"
  BY <1>1 DEF FindReceipt
<1>5. /\ x = "finalize" => o \in Restores /\ journal[o] = "committed"
      /\ x = "commit" => journal[o] = "verifying"
  BY <1>2, <1>4 DEF Resumable, Unresolved, SplitInv, RestoresFit
<1>6. cli' \in CliType /\ cli'.at = x /\ cli'.op = o
  <2>1. x \in Stages
    BY DEF Stages
  <2>. QED
    BY <1>1, <1>4, <2>1, CliMoves DEF Goto
<1>7. CommandFits'
  BY <1>2, <1>3, <1>5, <1>6 DEF CommandFits, CommandAt, At, store
<1>. QED
  BY <1>3, <1>6, <1>7, CommandOnly

LEMMA StoreReceiptInv == ASSUME SplitInv, StoreReceipt PROVE SplitInv'
<1>1. PICK o \in Ops : o = cli.op /\ CommandAt(o)
  BY Running DEF StoreReceipt, At
<1>2. journal[o] = "verifying"
  BY <1>1 DEF CommandAt, StoreReceipt, At
<1>3. /\ UNCHANGED <<recorded, tries, journal, plan, post, bound, notes, wire, native>>
      /\ receipts' = receipts \cup {o} /\ Goto("commit")
  BY <1>1 DEF StoreReceipt
<1>4. cli' \in CliType /\ cli'.at = "commit" /\ cli'.op = o
  <2>1. "commit" \in Stages
    BY DEF Stages
  <2>. QED
    BY <1>1, <1>3, <2>1, CliMoves DEF Goto
<1>5. SplitTypes'
  BY <1>3, <1>4 DEF SplitInv, SplitTypes, native
<1>6. VerdictsTrue' /\ PostFits' /\ NotesFit'
  BY <1>3, RestKept
<1>7. JournalTrue'
  BY <1>3 DEF SplitInv, JournalTrue, Live, native
<1>8. AttemptsFit' /\ AnchorFits'
  BY <1>3 DEF SplitInv, AttemptsFit, AnchorFits, ChildrenDone, Latest
<1>9. RestoresFit'
  <2>1. \A t \in Applies : Reversed(t) => Reversed(t)'
    BY <1>3 DEF Reversed
  <2>. QED
    BY <1>2, <1>3, <2>1 DEF SplitInv, RestoresFit
<1>10. CommandFits'
  BY <1>2, <1>3, <1>4 DEF CommandFits, CommandAt, At
<1>. QED
  BY <1>5, <1>6, <1>7, <1>8, <1>9, <1>10 DEF SplitInv

\* The operation that was reversed ends with the restore that committed.
LEMMA FinalizeInv == ASSUME SplitInv, Finalize PROVE SplitInv'
<1>1. PICK r \in Ops : r = cli.op /\ CommandAt(r)
  BY Running DEF Finalize, At
<1>2. r \in Restores /\ journal[r] = "committed" /\ r \in receipts
  BY <1>1 DEF CommandAt, Finalize, At
<1>3. PICK t \in Applies : t = TargetOf(r) /\ t \in Ops /\ t \notin Restores
  BY <1>2, OpsAre
<1>4. /\ journal' = [journal EXCEPT ![t] = "restored"] /\ Goto("end")
      /\ UNCHANGED <<recorded, tries, plan, post, receipts, bound, notes, wire, native>>
  BY <1>1, <1>3 DEF Finalize
<1>5. journal[t] \in Settled
  BY <1>2, <1>3 DEF SplitInv, RestoresFit
<1>6. /\ "restored" \in JournalStates /\ "restored" \notin Early /\ "restored" \in Settled
      /\ journal[t] \notin Quiet /\ journal[t] \notin {"none", "started", "unknown"}
      /\ "end" \in Stages
  BY <1>5 DEF JournalStates, Early, Settled, Quiet, Stages
<1>7. ~ Live(t) /\ effects[t] = 1 /\ t = Latest(t[1])
  BY <1>3, <1>5, <1>6, UnderWay DEF SplitInv, JournalTrue
<1>8. Reversed(t)
  BY <1>2, <1>3 DEF Reversed, RestoresOf
<1>9. /\ journal' \in [Ops -> JournalStates]
      /\ JournalTrue' /\ AttemptsFit' /\ AnchorFits' /\ RestoresFit'
  BY <1>3, <1>4, <1>6, <1>7, <1>8, JournalMoves
<1>10. VerdictsTrue' /\ PostFits' /\ NotesFit'
  <2>1. \A p \in Applies : journal[p] = "none" => journal'[p] = "none"
    BY <1>3, <1>4, <1>6, OpsAre DEF SplitInv, SplitTypes
  <2>. QED
    BY <1>4, <2>1, RestKept
<1>11. cli' \in CliType /\ cli'.at = "end" /\ cli'.op = r
  BY <1>1, <1>4, <1>6, CliMoves DEF Goto
<1>12. SplitTypes'
  BY <1>4, <1>9, <1>11 DEF SplitInv, SplitTypes, native
<1>13. CommandFits'
  BY <1>11 DEF CommandFits, CommandAt, At
<1>. QED
  BY <1>9, <1>10, <1>12, <1>13 DEF SplitInv

\* The owner is ended, and the command goes on to what is left.
LEMMA EndInv == ASSUME SplitInv, End PROVE SplitInv'
<1>1. UNCHANGED <<store, notes, wire, verdict, fenceOf, effects, session>>
  BY DEF End, Native!End, native
<1>2. owner' \in [fence : Nat, session : Nat, released : BOOLEAN]
  <2>1. owner' = owner \/ owner' = [owner EXCEPT !.released = TRUE]
    BY DEF End, Native!End, native
  <2>. QED
    BY <2>1 DEF SplitInv, SplitTypes
<1>3. cli' \in CliType /\ CommandFits'
  <2>1. CASE cli' = Idle
    BY <2>1, CliIdle DEF CommandFits
  <2>2. CASE NextTarget(TargetOf(cli.op))
    BY <2>2, NextTargetFits
  <2>3. CASE cli' = [Idle EXCEPT !.at = "units", !.for = "group"]
    <3>1. PICK d \in CliType : d = Idle
      BY CliIdle
    <3>2. PICK c : c = [d EXCEPT !.at = "units", !.for = "group"]
      OBVIOUS
    <3>3. c \in CliType /\ c.at = "units"
      BY <3>2 DEF CliType, Stages
    <3>4. cli' = c
      BY <2>3, <3>1, <3>2
    <3>. QED
      BY <3>3, <3>4 DEF CommandFits
  <2>. QED
    BY <2>1, <2>2, <2>3 DEF End
<1>4. UNCHANGED <<recorded, tries, journal, plan, post, receipts, bound>>
  BY <1>1 DEF store
<1>5. SplitTypes'
  BY <1>1, <1>2, <1>3, <1>4 DEF SplitInv, SplitTypes
<1>6. VerdictsTrue' /\ PostFits' /\ NotesFit'
  BY <1>1, <1>4 DEF SplitInv, VerdictsTrue, PostFits, NotesFit
<1>7. JournalTrue'
  BY <1>1, <1>4 DEF SplitInv, JournalTrue, Live
<1>8. AttemptsFit' /\ AnchorFits'
  BY <1>4 DEF SplitInv, AttemptsFit, AnchorFits, ChildrenDone, Latest
<1>9. RestoresFit'
  BY <1>4 DEF SplitInv, RestoresFit, Reversed
<1>. QED
  BY <1>3, <1>5, <1>6, <1>7, <1>8, <1>9 DEF SplitInv

-----------------------------------------------------------------------------
(* The theorems                                                            *)

\* It holds of the first state, and every step keeps it.
LEMMA SplitInitially == SplitInit => SplitInv
<1>. SUFFICES ASSUME SplitInit PROVE SplitInv
  OBVIOUS
<1>1. PICK gone \in NoteType : gone = NoNote /\ gone.there = FALSE
  BY CliIdle DEF NoNote
<1>2. PICK source \in NoteType : source = [gone EXCEPT !.there = TRUE, !.text = "source"]
  <2>1. PICK x : x = [gone EXCEPT !.there = TRUE, !.text = "source"]
    OBVIOUS
  <2>2. x \in NoteType
    BY <2>1 DEF NoteType, Texts
  <2>. QED
    BY <2>1, <2>2
<1>3. source.there /\ source.text = "source" /\ gone.text = "none"
  BY <1>1, <1>2 DEF NoteType, NoNote
<1>4. \A p \in Places : notes[p] = IF p[1] = Anchor THEN source ELSE gone
  BY <1>1, <1>2 DEF SplitInit
<1>5. SplitTypes
  <2>1. notes \in [Places -> NoteType]
    <3>1. notes = [p \in Places |-> IF p[1] = Anchor THEN source ELSE gone]
      BY <1>1, <1>2 DEF SplitInit
    <3>. QED
      BY <3>1
  <2>2. plan \in [Ops -> NoteType] /\ post \in [Ops -> NoteType]
    BY CliIdle DEF SplitInit
  <2>3. recorded \in BOOLEAN /\ tries \in [Units -> 1..NAttempts] /\ journal \in [Ops -> JournalStates]
    <3>1. 1 \in 1..NAttempts /\ "none" \in JournalStates
      BY DEF JournalStates, NoJournal
    <3>. QED
      BY <3>1 DEF SplitInit
  <2>4. receipts \subseteq Ops /\ bound \in [Restores -> Nat] /\ cli \in CliType
        /\ wire \subseteq [op : Ops, fence : Nat]
    BY CliIdle DEF SplitInit
  <2>5. /\ verdict \in [Ops -> Native!Verdicts] /\ fenceOf \in [Ops -> Nat]
        /\ effects \in [Ops -> {0, 1}]
    BY DEF SplitInit, Native!Verdicts
  <2>6. owner \in [fence : Nat, session : Nat, released : BOOLEAN] /\ session \in Nat
    BY DEF SplitInit
  <2>. QED
    BY <2>1, <2>2, <2>3, <2>4, <2>5, <2>6 DEF SplitTypes
<1>6. \A o \in Ops : /\ journal[o] = "none" /\ verdict[o] = "absent" /\ effects[o] = 0
                     /\ post[o] = gone
  BY <1>1 DEF SplitInit
<1>7. wire = {} /\ receipts = {} /\ cli.at = "idle"
  BY CliIdle DEF SplitInit
<1>8. VerdictsTrue /\ JournalTrue
  BY <1>6, <1>7 DEF VerdictsTrue, JournalTrue, Live, Settled
<1>9. AttemptsFit
  <2>1. \A u \in Units, k \in 1..NAttempts : journal[<<u, k, 0>>] = "none" /\ ~ k < tries[u]
    <3>1. \A u \in Units, k \in 1..NAttempts : journal[<<u, k, 0>>] = "none"
      BY <1>6, OpsAre
    <3>2. \A u \in Units, k \in 1..NAttempts : ~ k < tries[u]
      BY DEF SplitInit
    <3>. QED
      BY <3>1, <3>2
  <2>. QED
    BY <2>1 DEF AttemptsFit
<1>10. AnchorFits
  BY <1>6, OpsAre, UnitsAre DEF AnchorFits
<1>11. RestoresFit
  BY <1>6, <1>7, OpsAre DEF RestoresFit, Quiet
<1>12. PostFits
  BY <1>1, <1>6, OpsAre DEF PostFits
<1>13. NotesFit
  <2>1. \A p \in Places : ~ notes[p].there => notes[p] = NoNote
    BY <1>1, <1>3, <1>4
  <2>2. ASSUME NEW o \in Applies, o[1] # Anchor
        PROVE  ~ notes[Place(o)].there
    <3>1. Place(o) \in Places /\ Place(o) = o
      BY <2>2, OpsAre, PlacesAre
    <3>. QED
      BY <1>1, <1>4, <2>2, <3>1
  <2>3. notes[<<Anchor, 0, 0>>].text # "applied"
    <3>1. \A p \in Places : notes[p].text # "applied"
      BY <1>3, <1>4
    <3>. QED
      BY <3>1, PlacesAre
  <2>. QED
    BY <2>1, <2>2, <2>3 DEF NotesFit
<1>14. CommandFits
  BY <1>7 DEF CommandFits
<1>. QED
  BY <1>5, <1>8, <1>9, <1>10, <1>11, <1>12, <1>13, <1>14 DEF SplitInv

LEMMA SplitInductive == SplitInv /\ [SplitNext]_splitVars => SplitInv'
<1>. SUFFICES ASSUME SplitInv, [SplitNext]_splitVars PROVE SplitInv'
  OBVIOUS
<1>1. CASE UNCHANGED splitVars
  <2>1. UNCHANGED <<store, notes, cli, wire, native>>
    BY <1>1 DEF splitVars
  <2>2. /\ cli' \in CliType /\ UNCHANGED <<recorded, tries, journal, plan, post, receipts, bound>>
        /\ UNCHANGED <<verdict, fenceOf, effects, owner, session>>
    BY <2>1 DEF store, native, SplitInv, SplitTypes
  <2>3. CommandFits'
    BY <2>1, <2>2 DEF SplitInv, CommandFits, CommandAt, At, Resumable, Latest, NoneLive, Live
  <2>. QED
    BY <2>1, <2>2, <2>3, CommandOnly
<1>2. CASE (\E p \in Places : Change(p)) \/ NewSession
  BY <1>2, ChangeInv, NewSessionInv
<1>3. CASE Stop \/ GroupEnds
  BY <1>3, IdleInv DEF Stop, GroupEnds
<1>4. CASE StartGroup
  BY <1>4, StartGroupInv
<1>5. CASE \E u \in Units : AppendAttempt(u) \/ PlanUnit(u)
  BY <1>5, AppendAttemptInv, PlanUnitInv
<1>6. CASE (\E u \in Units : ReconcileUnit(u)) \/ (\E t \in Applies : StartReconcile(t))
  BY <1>6, ReconcileInv
<1>7. CASE StartRestores \/ (\E t \in Applies : RefuseRestore(t))
  BY <1>7, RestoresInv
<1>8. CASE \E t \in Applies : ResumeRestore(t)
  BY <1>8, ResumeInv
<1>9. CASE \E r \in Restores : PlanRestore(r)
  BY <1>9, PlanRestoreInv
<1>10. CASE AppendJournal \/ Begin \/ BeginRefused \/ EnterCheckpointed \/ StartRequest
  BY <1>10, AppendJournalInv, BeginInv, BeginRefusedInv, EnterCheckpointedInv, StartRequestInv
<1>11. CASE Send \/ Resend \/ Wait \/ ReadBack \/ Classify \/ Recheck
  BY <1>11, SendInv, WaitInv, ReadBackInv, ClassifyInv, RecheckInv
<1>12. CASE FinalReadBack \/ StoreReceipt \/ FindReceipt \/ Commit \/ Finalize \/ End
  BY <1>12, FinalReadBackInv, StoreReceiptInv, FindReceiptInv, CommitInv, FinalizeInv, EndInv
<1>13. CASE \E r \in wire : Deliver(r)
  BY <1>13, DeliverInv
<1>14. CASE \E o \in Ops : TakeEffect(o) \/ Judge(o)
  BY <1>14, TakeEffectInv, JudgeInv
<1>. QED
  BY <1>1, <1>2, <1>3, <1>4, <1>5, <1>6, <1>7, <1>8, <1>9, <1>10, <1>11, <1>12, <1>13, <1>14
     DEF SplitNext

\* The inductive invariant holds throughout.
THEOREM SplitInvariant == SplitSpec => []SplitInv
BY SplitInitially, SplitInductive, PTL DEF SplitSpec

\* Every variable of the group, its restores and their command keeps its type.
THEOREM SplitTypesHold == SplitSpec => []SplitTypeOK
<1>1. SplitInv => SplitTypeOK
  BY DEF SplitInv, SplitTypes, RestoresFit, SplitTypeOK, JournalStates
<1>. QED
  BY <1>1, SplitInvariant, PTL

\* A set whose elements are all equal has one at most.
LEMMA AtMostOne ==
    ASSUME NEW S, \A x, y \in S : x = y
    PROVE  Cardinality(S) <= 1
<1>1. CASE S = {}
  BY <1>1, FS_EmptySet
<1>2. CASE S # {}
  <2>1. PICK x : x \in S
    BY <1>2
  <2>2. S = {x}
    BY <2>1
  <2>3. Cardinality(S) = 1
    BY <2>2, FS_Singleton, Zenon
  <2>. QED
    BY <2>3
<1>. QED
  BY <1>1, <1>2

\* For any children, attempts and restores, whatever is refused, lost, unknown or
\* tried again: the anchor is transformed only after every child was verified, and
\* no unit is written twice.
THEOREM AnchorLastHolds == SplitSpec => []AnchorLast
<1>1. SplitInv => AnchorLast
  <2>. SUFFICES ASSUME SplitInv PROVE AnchorLast
    OBVIOUS
  <2>1. ASSUME NEW u \in Units, NEW o \in Written(u)
        PROVE  o = Latest(u) /\ o \in Applies /\ journal[o] \notin Quiet
    <3>1. o \in Applies /\ o \in Ops /\ o[1] = u /\ effects[o] = 1
      BY OpsAre DEF Written
    <3>. QED
      BY <3>1, WrittenUnderWay, UnderWay
  <2>2. ASSUME NEW u \in Units PROVE Cardinality(Written(u)) <= 1
    <3>1. \A o, p \in Written(u) : o = p
      BY <2>1
    <3>. QED
      BY <3>1, AtMostOne
  <2>3. ASSUME Written(Anchor) # {}, NEW i \in DOMAIN Children
        PROVE  \E o \in Written(Children[i]) : journal[o] \in {"committed", "restored"}
    <3>1. PICK a \in Written(Anchor) : TRUE
      BY <2>3
    <3>2. a = Latest(Anchor) /\ journal[a] # "none"
      BY <2>1, UnitsAre DEF Quiet
    <3>3. ChildrenDone
      BY <3>2, UnitsAre DEF SplitInv, SplitTypes, AnchorFits, Latest
    <3>4. PICK u \in ToSet(Children) : u = Children[i]
      BY DEF ToSet
    <3>5. PICK o \in Applies : o = Latest(u) /\ o[1] = u /\ o \in Ops
      BY UnitsAre, LatestIs
    <3>6. journal[o] \in {"committed", "restored"}
      BY <3>3, <3>5 DEF ChildrenDone
    <3>7. effects[o] = 1
      BY <3>5, <3>6 DEF SplitInv, JournalTrue, Settled
    <3>. QED
      BY <3>4, <3>5, <3>6, <3>7 DEF Written
  <2>. QED
    BY <2>2, <2>3 DEF AnchorLast
<1>. QED
  BY <1>1, SplitInvariant, PTL

\* However often a restore is stopped, resumed or refused, and for any number of
\* attempts and restores: an operation is called restored only when a restore of it
\* left its receipt and committed, and no operation is reversed twice.
THEOREM RestoredOnceHolds == SplitSpec => []RestoredOnce
<1>1. SplitInv => RestoredOnce
  <2>. SUFFICES ASSUME SplitInv, NEW t \in Applies
                PROVE  /\ journal[t] = "restored" =>
                              \E r \in RestoresOf(t) : r \in receipts /\ journal[r] = "committed"
                       /\ Cardinality({r \in RestoresOf(t) : effects[r] = 1}) <= 1
    BY DEF RestoredOnce
  <2>1. journal[t] = "restored" =>
            \E r \in RestoresOf(t) : r \in receipts /\ journal[r] = "committed"
    BY DEF SplitInv, RestoresFit, Reversed
  <2>2. ASSUME NEW r \in RestoresOf(t), NEW s \in RestoresOf(t), effects[r] = 1, effects[s] = 1
        PROVE  r = s
    <3>1. r \in Restores /\ s \in Restores /\ TargetOf(r) = t /\ TargetOf(s) = t
      BY DEF RestoresOf
    <3>2. journal[r] \notin Quiet /\ journal[s] \notin Quiet
      BY <2>2, <3>1, OpsAre, WrittenUnderWay
    <3>. QED
      BY <3>1, <3>2 DEF SplitInv, RestoresFit
  <2>3. Cardinality({r \in RestoresOf(t) : effects[r] = 1}) <= 1
    <3>1. \A r, s \in {r \in RestoresOf(t) : effects[r] = 1} : r = s
      BY <2>2
    <3>. QED
      BY <3>1, AtMostOne
  <2>. QED
    BY <2>1, <2>3
<1>. QED
  BY <1>1, SplitInvariant, PTL

\* A restore overwrites nothing but the text and the tags its plan was made about,
\* keeps the tags the user added and never loses a review, whatever the user does
\* to the note between the plan, the request and the effect.
THEOREM RestoresWhatWasSeenHolds == SplitSpec => RestoresWhatWasSeen
<1>1. SplitInv /\ [SplitNext]_splitVars =>
        [\A r \in Restores :
           effects'[r] # effects[r] =>
               LET before == notes[Place(r)]
                   after == notes'[Place(r)]
               IN  /\ Content(before) = Content(plan[r])
                   /\ after.reviews = before.reviews
                   /\ after.there => after.tagged = before.tagged]_splitVars
  <2>. SUFFICES ASSUME SplitInv, [SplitNext]_splitVars, NEW r \in Restores, effects'[r] # effects[r]
                PROVE  /\ Content(notes[Place(r)]) = Content(plan[r])
                       /\ notes'[Place(r)].reviews = notes[Place(r)].reviews
                       /\ notes'[Place(r)].there =>
                              notes'[Place(r)].tagged = notes[Place(r)].tagged
    OBVIOUS
  <2>1. PICK o \in Ops : TakeEffect(o)
    BY DEF SplitNext, splitVars, native, Change, NewSession, Stop, StartGroup, GroupEnds,
           AppendAttempt, PlanUnit, ReconcileUnit, StartReconcile, RefuseRestore, ResumeRestore,
           StartRestores, PlanRestore, AppendJournal, Begin, BeginRefused, EnterCheckpointed,
           StartRequest, Send, Wait, ReadBack, Classify, Resend, Recheck, FinalReadBack,
           StoreReceipt, FindReceipt, Commit, Finalize, End, Deliver, Judge,
           Native!SessionChange, Native!Begin, Native!End, Native!Accept, Native!Judge
  <2>2. o = r /\ r \in Ops
    BY <2>1, OpsAre DEF TakeEffect, Native!TakeEffect, SplitInv, SplitTypes
  <2>3. PICK p \in Places : p = Place(r)
    BY <2>2, OpsAre
  <2>4. PICK now \in NoteType : now = notes[p]
    BY DEF SplitInv, SplitTypes
  <2>5. PICK after \in NoteType : after = post[r]
    BY <2>2 DEF SplitInv, SplitTypes
  <2>6. PICK seen \in NoteType : seen = plan[r]
    BY <2>2 DEF SplitInv, SplitTypes
  <2>7. Content(now) = Content(seen) /\ (now.there /\ ~ after.there => now.reviews = 0)
    BY <2>1, <2>2, <2>3, <2>4, <2>5, <2>6 DEF TakeEffect, MayWrite
  <2>8. now.tagged = seen.tagged
    <3>1. PICK x : x = [now EXCEPT !.reviews = 0]
      OBVIOUS
    <3>2. x = [seen EXCEPT !.reviews = 0]
      BY <2>7, <3>1 DEF Content
    <3>. QED
      BY <3>1, <3>2 DEF NoteType
  <2>9. after.there => after.tagged = seen.tagged
    BY <2>5, <2>6 DEF SplitInv, PostFits
  <2>10. CASE after.there
    <3>1. PICK y : y = [after EXCEPT !.reviews = now.reviews]
      OBVIOUS
    <3>2. y.reviews = now.reviews /\ y.tagged = after.tagged
      BY <3>1 DEF NoteType
    <3>3. notes' = [notes EXCEPT ![p] = y]
      BY <2>1, <2>2, <2>3, <2>4, <2>5, <2>10, <3>1 DEF TakeEffect
    <3>4. notes'[p] = y
      BY <3>3 DEF SplitInv, SplitTypes
    <3>. QED
      BY <2>3, <2>4, <2>6, <2>7, <2>8, <2>9, <2>10, <3>2, <3>4
  <2>11. CASE ~ after.there
    <3>1. notes' = [notes EXCEPT ![p] = NoNote]
      BY <2>1, <2>2, <2>3, <2>5, <2>11 DEF TakeEffect
    <3>2. notes'[p] = NoNote /\ NoNote.reviews = 0 /\ NoNote.there = FALSE
      BY <3>1 DEF SplitInv, SplitTypes, NoNote
    <3>3. ~ now.there => now.reviews = 0
      BY <2>4, <3>2 DEF SplitInv, NotesFit
    <3>. QED
      BY <2>3, <2>4, <2>6, <2>7, <2>11, <3>2, <3>3
  <2>. QED
    BY <2>10, <2>11
<1>. QED
  BY <1>1, SplitInvariant, PTL DEF SplitSpec, RestoresWhatWasSeen

===========================================================================
