---------------------------- MODULE ApplyProofs ----------------------------
(***************************************************************************)
(* Proofs about module Apply, for any number of attempts and files, any    *)
(* kind of item, and any number of owners, sessions and edits.             *)
(***************************************************************************)
EXTENDS Apply, TLAPS, SequenceTheorems, WellFoundedInduction

\* A step of an attempt's plan, and the request it stands for.
OpAt(a, k) == <<a, plan[a][k]>>

\* The operation can still take effect: it is accepted, or a request for it is
\* on the wire that the companion would accept.
Live(o) ==
    \/ verdict[o] = "accepted"
    \/ verdict[o] = "absent" /\ [op |-> o, fence |-> owner.fence] \in wire

\* Nothing was ever sent for it.
Untouched(o) ==
    /\ verdict[o] = "absent" /\ effects[o] = 0
    /\ \A r \in wire : r.op # o

\* What its effect would have put into the collection was put there.
Supported(o) ==
    \E b \in Attempts : effects[<<b, o[2]>>] = 1 /\ Place(<<b, o[2]>>) = Place(o)

-----------------------------------------------------------------------------
(* The parts of the inductive invariant                                    *)

\* The companion's answers are true of the effects, and the fence of a request
\* was issued.
NativeFits ==
    /\ owner \in [fence : 0..MaxFence, session : 0..MaxSession, released : BOOLEAN]
    /\ session \in 0..MaxSession
    /\ \A r \in wire : r.fence =< owner.fence
    /\ \A o \in Ops :
         /\ verdict[o] \in {"absent", "failed"} => effects[o] = 0
         /\ verdict[o] = "verified" => effects[o] = 1
         /\ effects[o] =< 1

\* Where the collection is as an effect would have made it, one has.
CollectionFits ==
    \A p \in Places : col[p] = "desired" /\ Pre(p[2]) # "desired" =>
        \E o \in Ops : effects[o] = 1 /\ Place(o) = p

\* A plan names each target once, the note last.
PlanFits ==
    /\ plan = [a \in Attempts |-> plan[a]]
    /\ \A a \in Attempts : \A i, k \in DOMAIN plan[a] : plan[a][i] = plan[a][k] => i = k

\* A step is started only after every earlier one was verified.
Shape(j) ==
    \A k \in DOMAIN j.steps : j.steps[k] # "intent_recorded" =>
        \A i \in 1..(k-1) : j.steps[i] = "verified"

\* What the state of an operation says of its steps.
StateFits(j) ==
    /\ j.state = "none" => j.steps = <<>>
    /\ j.state # "none" => j.steps # <<>>
    /\ j.state \in {"prepared", "preflight", "checkpointed"} => AllIn(j, {"intent_recorded"})
    /\ j.state = "failed_before_write" => AllIn(j, {"intent_recorded", "observed_failure"})
    /\ j.state \in {"verifying", "committed"} => AllIn(j, {"verified"})
    /\ In(j, {"unknown"}) # {} => j.state = "needs_recovery"
    /\ j.state \notin {"compensated", "restored"}

\* What each step of a journal says of the companion.
StepFits(a, k) ==
    LET o == OpAt(a, k)
        s == journal[a].steps[k]
    IN  /\ s = "intent_recorded" => Untouched(o)
        /\ s = "observed_failure" => effects[o] = 0
        /\ s \in {"observed_failure", "observed_success", "verified"} => ~ Live(o)
        /\ s = "verified" => Supported(o)

JournalFits ==
    \A a \in Attempts :
        /\ Shape(journal[a]) /\ StateFits(journal[a])
        /\ \A k \in DOMAIN plan[a] : StepFits(a, k)
        /\ journal[a].state = "committed" => receipt[a]

\* Nothing is sent that no plan names.
OnlyPlanned ==
    \A o \in Ops : (\A k \in DOMAIN plan[o[1]] : plan[o[1]][k] # o[2]) => Untouched(o)

\* Where the command has an owner and has not sent anything under it that is
\* still open.
Calm == {"checkpoint", "step", "send", "confirm", "classify", "settle", "receipt", "close"}
Asking == {"send", "wait", "look"}

InProgress(j) == j.state \notin Terminal \cup {"none"}

\* What the running command knows at each place.
CommandFits ==
    /\ cli.at # "idle" => cli.op \in Attempts
    /\ cli.at \notin {"idle", "end"} => InProgress(J)
    /\ cli.at \in Calm \cup {"wait", "look"} =>
         /\ cli.fence = owner.fence /\ cli.fence # 0
    /\ cli.at \in Calm => \A o \in Ops : ~ Live(o)
    /\ cli.at = "opened" => cli.mode = "apply" /\ J.state = "prepared"
    /\ cli.at = "begin" =>
         \/ cli.mode = "apply" /\ J.state = "preflight"
         \/ cli.mode = "reconcile"
    /\ cli.at = "checkpoint" => cli.mode = "apply" /\ J.state = "preflight"
    /\ cli.at = "step" =>
         \/ /\ cli.mode = "apply" /\ J.state \in {"checkpointed", "mutating"}
            /\ ~ AllVerified => StepState = "intent_recorded"
         \/ cli.mode = "reconcile"
    /\ cli.at \in Asking =>
         /\ ~ AllVerified
         /\ \/ /\ cli.mode \in {"apply", "reconcile"}
               /\ J.state = "mutating" /\ StepState = "request_started"
            \/ cli.mode = "resubmit" /\ StepState = "unknown"
    /\ cli.at \in {"wait", "look"} => \A o \in Ops : Live(o) => o = Op
    /\ cli.at = "look" =>
         /\ cli.answer \in {"verified", "failed", "rejected", "lost"}
         /\ cli.answer \in {"verified", "failed"} => verdict[Op] = cli.answer
         /\ cli.answer = "rejected" => verdict[Op] = "absent" /\ ~ Live(Op)
    /\ cli.at = "confirm" =>
         /\ ~ AllVerified /\ Supported(Op)
         /\ \/ cli.mode = "apply" /\ J.state = "mutating" /\ StepState = "observed_success"
            \/ cli.mode = "reconcile" /\ StepState \in {"observed_success", "unknown"}
    /\ cli.at = "classify" =>
         /\ cli.mode = "reconcile" /\ ~ AllVerified
         /\ StepState # "observed_failure"
         /\ cli.answer = IF StepState = "intent_recorded" THEN "none" ELSE verdict[Op]
    /\ cli.at = "settle" =>
         /\ cli.mode = "reconcile" /\ ~ AllVerified
         /\ StepState = "unknown" /\ verdict[Op] = "failed"
    /\ cli.at \in {"receipt", "close"} => J.state = "verifying"
    /\ cli.at = "close" => receipt[cli.op]

IInv ==
    /\ TypeOK
    /\ NativeFits
    /\ CollectionFits
    /\ PlanFits
    /\ JournalFits
    /\ OnlyPlanned
    /\ CommandFits

-----------------------------------------------------------------------------
(* The first step that is not verified                                     *)

USE KindsAssumption, BoundsAssumption

FirstOpen(steps) == CHOOSE k \in 1..(Len(steps) + 1) :
    /\ \A i \in 1..(k-1) : steps[i] = "verified"
    /\ k \in DOMAIN steps => steps[k] # "verified"

\* There is a first open step, or all are verified.
LEMMA FirstOpenExists ==
    ASSUME NEW n \in Nat, NEW steps \in [1..n -> StepStates]
    PROVE  /\ FirstOpen(steps) \in 1..(n+1)
           /\ \A i \in 1..(FirstOpen(steps) - 1) : steps[i] = "verified"
           /\ FirstOpen(steps) \in 1..n => steps[FirstOpen(steps)] # "verified"
<1>. DEFINE Open == {k \in 1..(n+1) : k = n+1 \/ steps[k] # "verified"}
            Less == {ss \in Nat \X Nat : ss[1] < ss[2]}
<1>1. PICK x \in Open : \A y \in Open : <<y, x>> \notin Less
  <2>1. Less = OpToRel(<, Nat)
    BY Zenon DEF OpToRel
  <2>2. IsWellFoundedOn(Less, Nat)
    BY <2>1, NatLessThanWellFounded
  <2>3. Open \subseteq Nat /\ n+1 \in Open
    OBVIOUS
  <2>. HIDE DEF Open, Less
  <2>. QED
    BY <2>2, <2>3, WFMin
<1>2. ASSUME NEW i \in 1..(x-1) PROVE steps[i] = "verified"
  <2>1. i \in Nat /\ x \in Nat /\ i < x /\ i \in 1..(n+1) /\ i # n+1
    OBVIOUS
  <2>2. <<i, x>> \in Less
    BY <2>1, Zenon
  <2>. QED
    BY <1>1, <2>1, <2>2
<1>3. Len(steps) = n /\ DOMAIN steps = 1..n
  OBVIOUS
<1>4. \E k \in 1..(Len(steps) + 1) :
        /\ \A i \in 1..(k-1) : steps[i] = "verified"
        /\ k \in DOMAIN steps => steps[k] # "verified"
  BY <1>2, <1>3
<1>5. /\ FirstOpen(steps) \in 1..(Len(steps) + 1)
      /\ \A i \in 1..(FirstOpen(steps) - 1) : steps[i] = "verified"
      /\ FirstOpen(steps) \in DOMAIN steps => steps[FirstOpen(steps)] # "verified"
  BY <1>4, Zenon DEF FirstOpen
<1>. QED
  BY <1>3, <1>5

LEMMA FirstOpenIs ==
    ASSUME NEW n \in Nat, NEW steps \in [1..n -> StepStates], NEW k \in 1..(n+1),
           \A i \in 1..(k-1) : steps[i] = "verified",
           k \in 1..n => steps[k] # "verified"
    PROVE  FirstOpen(steps) = k
<1>1. ~ FirstOpen(steps) < k /\ ~ k < FirstOpen(steps)
  BY FirstOpenExists
<1>. QED
  BY <1>1, FirstOpenExists

-----------------------------------------------------------------------------
(* Types                                                                   *)

NSteps(a) == Len(journal[a].steps)

LEMMA JournalType ==
    ASSUME TypeOK, NEW a \in Attempts
    PROVE  /\ NSteps(a) \in 0..(NFiles + 1)
           /\ DOMAIN journal[a].steps = 1..NSteps(a) /\ DOMAIN plan[a] = 1..NSteps(a)
           /\ journal[a].steps \in [1..NSteps(a) -> StepStates]
           /\ journal[a].state \in OpStates \cup {"none"}
           /\ plan[a] \in [1..NSteps(a) -> Targets]
<1>1. journal[a] \in JournalsUpTo(NFiles + 1) \cup {NoJournal}
  BY DEF TypeOK
<1>2. plan[a] \in [DOMAIN journal[a].steps -> Targets]
  BY DEF TypeOK
<1>3. CASE journal[a] = NoJournal
  <2>1. journal[a].steps = <<>> /\ journal[a].state = "none"
    BY <1>3 DEF NoJournal
  <2>2. Len(journal[a].steps) = 0 /\ DOMAIN journal[a].steps = 1..0
    BY <2>1
  <2>3. journal[a].steps \in [1..0 -> StepStates]
    BY <2>1, <2>2
  <2>. QED
    BY <1>2, <2>1, <2>2, <2>3 DEF NSteps
<1>4. CASE journal[a] \in JournalsUpTo(NFiles + 1)
  <2>1. PICK m \in 0..(NFiles + 1) : journal[a].steps \in [1..m -> StepStates]
    BY <1>4 DEF JournalsUpTo
  <2>2. Len(journal[a].steps) = m /\ DOMAIN journal[a].steps = 1..m
    BY <2>1
  <2>3. journal[a].state \in OpStates
    BY <1>4 DEF JournalsUpTo
  <2>. QED
    BY <1>2, <2>1, <2>2, <2>3 DEF NSteps
<1>. QED
  BY <1>1, <1>3, <1>4

\* The step the command is at: open, with everything before it verified and
\* everything after it an intent.
LEMMA Here ==
    ASSUME TypeOK, NEW a \in Attempts, cli.op = a
    PROVE  /\ Current \in 1..(NSteps(a) + 1)
           /\ \A i \in 1..(Current - 1) : journal[a].steps[i] = "verified"
           /\ AllVerified <=> Current \notin 1..NSteps(a)
           /\ AllVerified => \A i \in 1..NSteps(a) : journal[a].steps[i] = "verified"
           /\ ~ AllVerified => /\ StepState = journal[a].steps[Current]
                               /\ StepState # "verified"
                               /\ Op = OpAt(a, Current) /\ Op \in Ops
           /\ Shape(J) => \A i \in (Current + 1)..NSteps(a) :
                              journal[a].steps[i] = "intent_recorded"
<1>1. Current = FirstOpen(journal[a].steps)
  BY Zenon DEF Current, FirstOpen, J
<1>2. J = journal[a] /\ NSteps(a) = Len(J.steps)
  BY DEF J, NSteps
<1>3. /\ NSteps(a) \in Nat
      /\ journal[a].steps \in [1..NSteps(a) -> StepStates]
      /\ DOMAIN journal[a].steps = 1..NSteps(a)
      /\ plan[a] \in [1..NSteps(a) -> Targets]
  BY JournalType
<1>4. /\ Current \in 1..(NSteps(a) + 1)
      /\ \A i \in 1..(Current - 1) : journal[a].steps[i] = "verified"
      /\ Current \in 1..NSteps(a) => journal[a].steps[Current] # "verified"
  BY <1>1, <1>3, FirstOpenExists
<1>5. AllVerified <=> Current \notin 1..NSteps(a)
  BY <1>2, <1>3, <1>4 DEF AllVerified
<1>6. ASSUME ~ AllVerified
      PROVE  /\ StepState = journal[a].steps[Current] /\ StepState # "verified"
             /\ Op = OpAt(a, Current) /\ Op \in Ops
  BY <1>2, <1>3, <1>4, <1>5, <1>6 DEF StepState, Op, OpAt, Ops
<1>7. ASSUME Shape(J), NEW i \in (Current + 1)..NSteps(a)
      PROVE  journal[a].steps[i] = "intent_recorded"
  BY <1>2, <1>3, <1>4, <1>7 DEF Shape
<1>. QED
  BY <1>3, <1>4, <1>5, <1>6, <1>7

Journals == JournalsUpTo(NFiles + 1) \cup {NoJournal}

\* What an append leaves of the journals: one step of one of them has moved.
LEMMA Written ==
    ASSUME TypeOK, NEW a \in Attempts, cli.op = a, ~ AllVerified,
           NEW state \in OpStates, NEW step \in StepStates, Write(state, step)
    PROVE  /\ journal' \in [Attempts -> Journals]
           /\ \A b \in Attempts : b # a => journal'[b] = journal[b]
           /\ journal'[a].state = state
           /\ journal'[a].steps \in [1..NSteps(a) -> StepStates]
           /\ journal'[a].steps[Current] = step
           /\ \A i \in 1..NSteps(a) : i # Current =>
                  journal'[a].steps[i] = journal[a].steps[i]
<1>. DEFINE n == NSteps(a)
            steps == [J.steps EXCEPT ![Current] = step]
            new == [state |-> state, steps |-> steps]
<1>1. n \in 0..(NFiles + 1) /\ journal[a].steps \in [1..n -> StepStates] /\ Current \in 1..n
  BY JournalType, Here
<1>2. J = journal[a]
  BY DEF J
<1>3. /\ steps \in [1..n -> StepStates] /\ steps[Current] = step
      /\ \A i \in 1..n : i # Current => steps[i] = journal[a].steps[i]
  BY <1>1, <1>2
<1>4. new \in JournalsUpTo(NFiles + 1)
  <2>. HIDE DEF steps, n
  <2>. QED
    BY <1>1, <1>3 DEF JournalsUpTo
<1>5. journal' = [journal EXCEPT ![a] = new] /\ journal \in [Attempts -> Journals]
  BY DEF Write, TypeOK, Journals
<1>6. /\ journal'[a] = new
      /\ \A b \in Attempts : b # a => journal'[b] = journal[b]
      /\ journal' \in [Attempts -> Journals]
  <2>. HIDE DEF new
  <2>. QED
    BY <1>4, <1>5 DEF Journals
<1>7. journal'[a].state = state /\ journal'[a].steps = steps
  <2>. HIDE DEF steps
  <2>. QED
    BY <1>6
<1>. HIDE DEF n, steps, new
<1>. QED
  BY <1>3, <1>6, <1>7 DEF n

LEMMA StateWritten ==
    ASSUME TypeOK, NEW a \in Attempts, cli.op = a, journal[a].state # "none",
           NEW state \in OpStates, WriteState(state)
    PROVE  /\ journal' \in [Attempts -> Journals]
           /\ \A b \in Attempts : b # a => journal'[b] = journal[b]
           /\ journal'[a].state = state
           /\ journal'[a].steps = journal[a].steps
<1>1. journal[a] \in JournalsUpTo(NFiles + 1)
  BY DEF TypeOK, NoJournal
<1>2. [journal[a] EXCEPT !.state = state] \in JournalsUpTo(NFiles + 1)
  BY <1>1 DEF JournalsUpTo
<1>3. /\ [journal[a] EXCEPT !.state = state].state = state
      /\ [journal[a] EXCEPT !.state = state].steps = journal[a].steps
  BY <1>1 DEF JournalsUpTo
<1>4. journal' = [journal EXCEPT ![a] = [journal[a] EXCEPT !.state = state]]
  BY DEF WriteState
<1>5. journal \in [Attempts -> Journals]
  BY DEF TypeOK, Journals
<1>. QED
  BY <1>2, <1>3, <1>4, <1>5 DEF Journals

Commands == [at : Points, op : Attempts \cup {0},
             mode : {"none", "apply", "reconcile", "resubmit"}, fence : 0..MaxFence,
             answer : Native!Verdicts \cup {"none", "rejected", "lost"}]

JournalTypeOK ==
    /\ journal \in [Attempts -> Journals]
    /\ \A a \in Attempts : plan[a] \in [DOMAIN journal[a].steps -> Targets]

\* An append of the driver or the recovery keeps the journals of their type.
LEMMA AppendType ==
    ASSUME TypeOK, cli.op \in Attempts, UNCHANGED plan,
           \/ journal' = journal
           \/ /\ ~ AllVerified
              /\ \E state \in OpStates, step \in StepStates : Write(state, step)
           \/ /\ J.state # "none"
              /\ \E state \in OpStates : WriteState(state)
    PROVE  JournalTypeOK'
<1>. DEFINE a == cli.op
<1>1. CASE journal' = journal
  BY <1>1 DEF TypeOK, JournalTypeOK, Journals
<1>2. ASSUME ~ AllVerified, NEW state \in OpStates, NEW step \in StepStates, Write(state, step)
      PROVE  JournalTypeOK'
  <2>1. /\ journal' \in [Attempts -> Journals]
        /\ \A b \in Attempts : b # a => journal'[b] = journal[b]
        /\ journal'[a].steps \in [1..NSteps(a) -> StepStates]
    BY <1>2, Written
  <2>2. DOMAIN journal'[a].steps = DOMAIN journal[a].steps
    BY <2>1, JournalType
  <2>3. \A b \in Attempts : DOMAIN journal'[b].steps = DOMAIN journal[b].steps
    BY <2>1, <2>2
  <2>. QED
    BY <2>1, <2>3 DEF TypeOK, JournalTypeOK
<1>3. ASSUME J.state # "none", NEW state \in OpStates, WriteState(state)
      PROVE  JournalTypeOK'
  <2>1. journal[a].state # "none"
    BY <1>3 DEF J
  <2>2. /\ journal' \in [Attempts -> Journals]
        /\ \A b \in Attempts : b # a => journal'[b] = journal[b]
        /\ journal'[a].steps = journal[a].steps
    BY <1>3, <2>1, StateWritten
  <2>3. \A b \in Attempts : DOMAIN journal'[b].steps = DOMAIN journal[b].steps
    BY <2>2
  <2>. QED
    BY <2>2, <2>3 DEF TypeOK, JournalTypeOK
<1>. QED
  BY <1>1, <1>2, <1>3

\* A plan is what is missing, in order, and the note.
LEMMA StartType ==
    ASSUME TypeOK, PlanFits, NEW a \in Attempts, StartApply(a)
    PROVE  /\ JournalTypeOK'
           /\ \A b \in Attempts : b # a => journal'[b] = journal[b] /\ plan'[b] = plan[b]
           /\ journal'[a].state = "prepared"
           /\ \A k \in DOMAIN plan'[a] : journal'[a].steps[k] = "intent_recorded"
           /\ journal'[a].steps # <<>>
           /\ DOMAIN journal'[a].steps = DOMAIN plan'[a]
           /\ \A i, k \in DOMAIN plan'[a] : plan'[a][i] = plan'[a][k] => i = k
<1>1. PICK files \in Uploads : plan' = [plan EXCEPT ![a] = Append(files, Note)]
  BY DEF StartApply
<1>2. PICK n \in 0..NFiles : files \in [1..n -> Missing]
  BY <1>1 DEF Uploads
<1>3. \A i, k \in 1..n : i < k => files[i] < files[k]
  BY <1>1, <1>2 DEF Uploads
<1>. DEFINE new == Append(files, Note)
<1>4. Missing \subseteq Files /\ Note \in Targets /\ Note \notin Files /\ Files \subseteq Targets
  BY DEF Missing, Note, Targets, Files
<1>5. /\ DOMAIN new = 1..(n+1) /\ new[n+1] = Note
      /\ \A i \in 1..n : new[i] = files[i] /\ new[i] \in Files
  BY <1>2, <1>4
<1>6. new \in [1..(n+1) -> Targets]
  <2>1. files \in Seq(Targets) /\ Len(files) = n
    <3>1. Missing \subseteq Targets
      BY <1>4
    <3>. QED
      BY <1>2, <3>1
  <2>2. new \in Seq(Targets) /\ Len(new) = n + 1
    <3>1. \A elt \in Targets : /\ Append(files, elt) \in Seq(Targets)
                               /\ Len(Append(files, elt)) = Len(files) + 1
      BY <2>1
    <3>. QED
      BY <1>4, <2>1, <3>1, Zenon
  <2>. HIDE DEF new
  <2>. QED
    BY <2>2, LenProperties
<1>7. \A i, k \in 1..(n+1) : new[i] = new[k] => i = k
  <2>1. \A i \in 1..n : files[i] \in Nat
    <3>1. \A i \in 1..n : files[i] \in Files
      BY <1>2, <1>4
    <3>. QED
      BY <3>1 DEF Files
  <2>2. \A i, k \in 1..n : files[i] = files[k] => i = k
    BY <1>3, <2>1
  <2>. QED
    BY <1>4, <1>5, <2>2
<1>. HIDE DEF new
<1>8. /\ plan'[a] = new
      /\ \A b \in Attempts : b # a => plan'[b] = plan[b]
  BY <1>1 DEF new, PlanFits
<1>. DEFINE steps == [k \in DOMAIN plan'[a] |-> "intent_recorded"]
            first == [state |-> "prepared", steps |-> steps]
<1>9. steps \in [1..(n+1) -> StepStates] /\ DOMAIN steps = 1..(n+1)
  BY <1>5, <1>8 DEF StepStates
<1>10. first \in JournalsUpTo(NFiles + 1)
  <2>1. n + 1 \in 0..(NFiles + 1)
    OBVIOUS
  <2>. HIDE DEF steps
  <2>. QED
    BY <1>9, <2>1 DEF JournalsUpTo, OpStates
<1>11. journal' = [journal EXCEPT ![a] = first] /\ journal \in [Attempts -> Journals]
  BY DEF StartApply, TypeOK, Journals
<1>12. /\ journal' \in [Attempts -> Journals]
       /\ journal'[a] = first
       /\ \A b \in Attempts : b # a => journal'[b] = journal[b]
  <2>. HIDE DEF first
  <2>. QED
    BY <1>10, <1>11 DEF Journals
<1>13. journal'[a].state = "prepared" /\ journal'[a].steps = steps
  <2>. HIDE DEF steps
  <2>. QED
    BY <1>12
<1>14. steps # <<>> /\ \A k \in 1..(n+1) : steps[k] = "intent_recorded"
  BY <1>5, <1>8, <1>9
<1>15. \A b \in Attempts : plan'[b] \in [DOMAIN journal'[b].steps -> Targets]
  <2>. HIDE DEF steps
  <2>. QED
    BY <1>6, <1>8, <1>9, <1>12, <1>13 DEF TypeOK
<1>. HIDE DEF steps, first
<1>. QED
  BY <1>5, <1>7, <1>8, <1>9, <1>12, <1>13, <1>14, <1>15 DEF JournalTypeOK

-----------------------------------------------------------------------------
(* The companion's part                                                    *)

NativeTypeOK ==
    /\ verdict \in [Ops -> Native!Verdicts]
    /\ effects \in [Ops -> Nat]

Owners == [fence : 0..MaxFence, session : 0..MaxSession, released : BOOLEAN]

\* What a step of the companion, or of a new owner, may change for an operation:
\* only an open one gets a verdict or an effect, and none is opened.
Tame ==
    \A o \in Ops :
        /\ Live(o)' => Live(o)
        /\ ~ Live(o) => verdict'[o] = verdict[o] /\ effects'[o] = effects[o]
        /\ effects[o] = 1 => effects'[o] = 1
        /\ Untouched(o) => Untouched(o)'

NativeOK == NativeTypeOK' /\ NativeFits' /\ Tame

LEMMA DeliverKeeps ==
    ASSUME TypeOK, NativeFits, NEW r \in wire, Deliver(r)
    PROVE  NativeOK
<1>1. /\ r.op \in Ops /\ r.fence = owner.fence /\ r = [op |-> r.op, fence |-> r.fence]
      /\ verdict[r.op] = "absent"
      /\ verdict' = [verdict EXCEPT ![r.op] = "accepted"]
      /\ wire' = wire \ {r}
      /\ UNCHANGED <<effects, owner, session>>
  BY DEF Deliver, Native!Accept, Native!Holds, TypeOK
<1>2. NativeTypeOK'
  BY <1>1 DEF TypeOK, NativeTypeOK, Native!Verdicts
<1>3. NativeFits'
  BY <1>1 DEF TypeOK, NativeFits
<1>4. Tame
  BY <1>1 DEF TypeOK, Tame, Live, Untouched
<1>. QED
  BY <1>2, <1>3, <1>4 DEF NativeOK

LEMMA TakeEffectKeeps ==
    ASSUME TypeOK, NativeFits, NEW o \in Ops, TakeEffect(o)
    PROVE  NativeOK
<1>1. /\ verdict[o] = "accepted"
      /\ effects' = [effects EXCEPT ![o] = 1]
      /\ UNCHANGED <<verdict, owner, session, wire>>
  BY DEF TakeEffect, Native!TakeEffect
<1>2. NativeTypeOK' /\ NativeFits'
  BY <1>1 DEF TypeOK, NativeTypeOK, NativeFits
<1>3. Tame
  BY <1>1 DEF TypeOK, Tame, Live, Untouched
<1>. QED
  BY <1>2, <1>3 DEF NativeOK

LEMMA JudgeKeeps ==
    ASSUME TypeOK, NativeFits, NEW o \in Ops, Judge(o)
    PROVE  NativeOK
<1>1. PICK v \in Native!Verdict(o) : verdict' = [verdict EXCEPT ![o] = v]
  BY DEF Judge, Native!Judge
<1>2. /\ verdict[o] = "accepted"
      /\ v \in {"failed", "unknown", "verified"}
      /\ v = "failed" => effects[o] = 0
      /\ v = "verified" => effects[o] = 1
      /\ UNCHANGED <<effects, owner, session, wire>>
  BY <1>1 DEF Judge, Native!Judge, Native!Verdict
<1>3. NativeTypeOK' /\ NativeFits'
  BY <1>1, <1>2 DEF TypeOK, NativeTypeOK, NativeFits, Native!Verdicts
<1>4. Tame
  BY <1>1, <1>2 DEF TypeOK, Tame, Live, Untouched
<1>. QED
  BY <1>3, <1>4 DEF NativeOK

LEMMA NewSessionKeeps ==
    ASSUME TypeOK, NativeFits, NewSession
    PROVE  NativeOK
<1>1. /\ session' = session + 1 /\ session < MaxSession
      /\ UNCHANGED <<verdict, effects, owner, wire>>
  BY DEF NewSession, Native!SessionChange
<1>2. NativeTypeOK' /\ NativeFits'
  BY <1>1 DEF TypeOK, NativeTypeOK, NativeFits
<1>3. Tame
  BY <1>1 DEF Tame, Live, Untouched
<1>. QED
  BY <1>2, <1>3 DEF NativeOK

\* A new owner leaves nothing open.
LEMMA NewOwnerKeeps ==
    ASSUME TypeOK, NativeFits, NewOwner, UNCHANGED wire
    PROVE  /\ NativeOK
           /\ owner'.fence = owner.fence + 1
           /\ \A o \in Ops : ~ Live(o)'
<1>1. PICK lost \in [{o \in Ops : verdict[o] = "accepted"} -> {"failed", "unknown"}] :
        /\ \A o \in DOMAIN lost : lost[o] \in Native!Verdict(o)
        /\ verdict' = [o \in Ops |-> IF verdict[o] = "accepted" THEN lost[o] ELSE verdict[o]]
  BY DEF NewOwner, Native!Begin
<1>2. /\ owner.fence < MaxFence /\ UNCHANGED <<effects, session>>
      /\ owner' = [fence |-> owner.fence + 1, session |-> session, released |-> FALSE]
  BY DEF NewOwner, Native!Begin
<1>3. owner.fence \in 0..MaxFence /\ session \in 0..MaxSession
  BY DEF NativeFits
<1>4. owner' \in Owners /\ owner'.fence = owner.fence + 1
  BY <1>2, <1>3 DEF Owners
<1>5. \A o \in Ops :
        /\ verdict[o] # "accepted" => verdict'[o] = verdict[o]
        /\ verdict[o] = "accepted" =>
             /\ verdict'[o] \in {"failed", "unknown"}
             /\ verdict'[o] = "failed" => effects[o] = 0
  BY <1>1 DEF Native!Verdict
<1>6. NativeTypeOK'
  BY <1>1, <1>2, <1>5 DEF TypeOK, NativeTypeOK, Native!Verdicts
<1>7. NativeFits'
  BY <1>2, <1>3, <1>4, <1>5 DEF TypeOK, NativeFits, Owners
<1>8. \A o \in Ops : ~ Live(o)'
  <2>. SUFFICES ASSUME NEW o \in Ops, Live(o)' PROVE FALSE
    OBVIOUS
  <2>1. verdict'[o] # "accepted"
    BY <1>5
  <2>2. [op |-> o, fence |-> owner.fence + 1] \in wire
    BY <2>1, <1>4 DEF Live
  <2>. QED
    BY <2>2, <1>3 DEF NativeFits
<1>9. Tame
  BY <1>2, <1>5, <1>8 DEF Tame, Live, Untouched
<1>. QED
  BY <1>4, <1>6, <1>7, <1>8, <1>9 DEF NativeOK

Quiet == UNCHANGED <<wire, verdict, effects, owner, session>>

LEMMA QuietKeeps ==
    ASSUME TypeOK, NativeFits, Quiet
    PROVE  NativeOK
<1>1. NativeTypeOK' /\ NativeFits'
  BY DEF Quiet, TypeOK, NativeTypeOK, NativeFits
<1>2. Tame
  BY DEF Quiet, Tame, Live, Untouched
<1>. QED
  BY <1>1, <1>2 DEF NativeOK

\* What a command still reads of the wire may be taken off it.
LEMMA WaitKeeps ==
    ASSUME TypeOK, NativeFits, Wait
    PROVE  NativeOK
<1>1. wire' \subseteq wire /\ UNCHANGED <<verdict, effects, owner, session>>
  BY DEF Wait, native
<1>2. NativeTypeOK' /\ NativeFits'
  BY <1>1 DEF TypeOK, NativeTypeOK, NativeFits
<1>3. Tame
  BY <1>1 DEF Tame, Live, Untouched
<1>. QED
  BY <1>2, <1>3 DEF NativeOK

LEMMA EndKeeps ==
    ASSUME TypeOK, NativeFits, End
    PROVE  NativeOK
<1>1. /\ owner' = [owner EXCEPT !.released = TRUE] /\ owner \in Owners
      /\ UNCHANGED <<wire, verdict, effects, session>>
  BY DEF End, Native!End, NativeFits, Owners
<1>2. owner' \in Owners /\ owner'.fence = owner.fence
  BY <1>1 DEF Owners
<1>3. NativeTypeOK' /\ NativeFits'
  BY <1>1, <1>2 DEF TypeOK, NativeTypeOK, NativeFits, Owners
<1>4. Tame
  BY <1>1, <1>2 DEF Tame, Live, Untouched
<1>. QED
  BY <1>3, <1>4 DEF NativeOK

\* A request sent opens at most the operation the command is at.
LEMMA SendKeeps ==
    ASSUME IInv, Send
    PROVE  /\ NativeTypeOK' /\ NativeFits'
           /\ wire' \subseteq [op : Ops, fence : 1..MaxFence]
           /\ Op \in Ops
           /\ \A o \in Ops : o # Op => (Live(o)' <=> Live(o)) /\ (Untouched(o)' <=> Untouched(o))
           /\ UNCHANGED <<verdict, effects, owner, session>>
<1>. DEFINE r == [op |-> Op, fence |-> cli.fence]
<1>1. TypeOK /\ NativeFits
  BY DEF IInv
<1>2. cli.at = "send" /\ UNCHANGED <<verdict, effects, owner, session>> /\ wire' \subseteq wire \cup {r}
  BY DEF Send, native
<1>3. /\ cli.op \in Attempts /\ ~ AllVerified
      /\ cli.fence = owner.fence /\ cli.fence # 0
  BY <1>2 DEF IInv, CommandFits, Asking, Calm
<1>4. Op \in Ops
  BY <1>1, <1>3, Here
<1>5. r \in [op : Ops, fence : 1..MaxFence] /\ r.fence =< owner.fence /\ r.op = Op
  BY <1>1, <1>3, <1>4 DEF TypeOK
<1>. HIDE DEF r
<1>6. NativeTypeOK' /\ NativeFits'
  BY <1>1, <1>2, <1>5 DEF TypeOK, NativeTypeOK, NativeFits
<1>7. wire' \subseteq [op : Ops, fence : 1..MaxFence]
  BY <1>1, <1>2, <1>5 DEF TypeOK
<1>8. ASSUME NEW o \in Ops, o # Op
      PROVE  (Live(o)' <=> Live(o)) /\ (Untouched(o)' <=> Untouched(o))
  <2>1. wire' = wire \/ wire' = wire \cup {r}
    BY DEF Send, r
  <2>. QED
    BY <1>2, <1>5, <1>8, <2>1 DEF Live, Untouched
<1>. QED
  BY <1>2, <1>4, <1>6, <1>7, <1>8

\* Every other step is tame.
LEMMA NativeStep ==
    ASSUME IInv, [Next]_vars, ~ Send
    PROVE  NativeOK /\ wire' \subseteq wire
<1>. USE DEF native
<1>1. TypeOK /\ NativeFits
  BY DEF IInv
<1>2. CASE Quiet
  BY <1>1, <1>2, QuietKeeps DEF Quiet
<1>3. ASSUME NEW r \in wire, Deliver(r) PROVE NativeOK /\ wire' \subseteq wire
  BY <1>1, <1>3, DeliverKeeps DEF Deliver
<1>4. ASSUME NEW o \in Ops, TakeEffect(o) PROVE NativeOK /\ wire' \subseteq wire
  BY <1>1, <1>4, TakeEffectKeeps DEF TakeEffect
<1>5. ASSUME NEW o \in Ops, Judge(o) PROVE NativeOK /\ wire' \subseteq wire
  BY <1>1, <1>5, JudgeKeeps DEF Judge
<1>6. CASE NewSession
  BY <1>1, <1>6, NewSessionKeeps DEF NewSession
<1>7. CASE NewOwner /\ UNCHANGED wire
  BY <1>1, <1>7, NewOwnerKeeps
<1>8. CASE Wait
  BY <1>1, <1>8, WaitKeeps DEF Wait
<1>9. CASE End
  BY <1>1, <1>9, EndKeeps DEF End
<1>10. CASE UNCHANGED vars
  BY <1>2, <1>10 DEF vars, Quiet
<1>11. CASE Next
  <2>1. ASSUME NEW p \in Places, Edit(p) PROVE Quiet
    BY <2>1 DEF Edit, Quiet
  <2>2. ASSUME NEW a \in Attempts, StartApply(a) \/ StartReconcile(a) PROVE Quiet
    BY <2>2 DEF StartApply, StartReconcile, Quiet
  <2>3. ASSUME EnterPreflight \/ EnterCheckpointed \/ StartRequest \/ Confirm PROVE Quiet
    BY <2>3 DEF EnterPreflight, EnterCheckpointed, StartRequest, Confirm, Quiet
  <2>4. ASSUME ReadBack \/ ReadBackAgain PROVE Quiet
    BY <2>4 DEF ReadBack, ReadBackAgain, Quiet
  <2>5. ASSUME Classify PROVE Quiet
    BY <2>5 DEF Classify, Quiet
  <2>6. ASSUME ReadStatus \/ Settle \/ FinalReadBack \/ SaveReceipt \/ Close \/ Stop PROVE Quiet
    BY <2>6 DEF ReadStatus, Settle, FinalReadBack, SaveReceipt, Close, Stop, Quiet
  <2>7. CASE Begin \/ BeginFails
    BY <1>2, <1>7, <2>7 DEF Begin, BeginFails, Quiet
  <2>. QED
    BY <1>2, <1>3, <1>4, <1>5, <1>6, <1>8, <1>9, <1>11, <2>1, <2>2, <2>3, <2>4, <2>7, <2>5, <2>6
       DEF Next, Command, Anki
<1>. QED
  BY <1>10, <1>11

-----------------------------------------------------------------------------
(* The collection                                                          *)

\* What nobody but Anki and its user does.
LEMMA Outside ==
    ASSUME [Next]_vars
    PROVE  \/ UNCHANGED <<col, edits>>
           \/ \E p \in Places : Edit(p)
           \/ \E o \in Ops : TakeEffect(o)
<1>1. ASSUME NEW r \in wire, Deliver(r) PROVE UNCHANGED <<col, edits>>
  BY <1>1 DEF Deliver
<1>2. ASSUME NEW o \in Ops, Judge(o) PROVE UNCHANGED <<col, edits>>
  BY <1>2 DEF Judge
<1>3. ASSUME NEW a \in Attempts, StartApply(a) \/ StartReconcile(a) PROVE UNCHANGED <<col, edits>>
  BY <1>3 DEF StartApply, StartReconcile
<1>4. ASSUME EnterPreflight \/ Begin \/ BeginFails \/ EnterCheckpointed \/ StartRequest
      PROVE  UNCHANGED <<col, edits>>
  BY <1>4 DEF EnterPreflight, Begin, BeginFails, EnterCheckpointed, StartRequest
<1>5. ASSUME Send \/ Wait \/ ReadBack \/ ReadBackAgain \/ Confirm \/ ReadStatus
      PROVE  UNCHANGED <<col, edits>>
  BY <1>5 DEF Send, Wait, ReadBack, ReadBackAgain, Confirm, ReadStatus
<1>6. ASSUME Classify PROVE UNCHANGED <<col, edits>>
  BY <1>6 DEF Classify
<1>7. ASSUME Settle \/ FinalReadBack \/ SaveReceipt \/ Close \/ End \/ Stop \/ NewSession
      PROVE  UNCHANGED <<col, edits>>
  BY <1>7 DEF Settle, FinalReadBack, SaveReceipt, Close, End, Stop, NewSession
<1>8. ASSUME UNCHANGED vars PROVE UNCHANGED <<col, edits>>
  BY <1>8 DEF vars
<1>. QED
  BY <1>1, <1>2, <1>3, <1>4, <1>5, <1>6, <1>7, <1>8 DEF Next, Command, Anki

\* What the user does never looks like an effect.
LEMMA CollectionStep ==
    ASSUME IInv, [Next]_vars
    PROVE  /\ col' \in [Places' -> Contents]
           /\ edits' \in 0..MaxEdits
           /\ CollectionFits'
<1>1. /\ UNCHANGED kind /\ kind \in Kinds
      /\ col \in [Places -> Contents] /\ edits \in 0..MaxEdits
  BY DEF IInv, TypeOK, Next, vars
<1>2. Places' = Places /\ \A o \in Ops : Place(o)' = Place(o) /\ Place(o) \in Places
  BY <1>1 DEF Places, Place
<1>3. \A p \in Places : Pre(p[2])' = Pre(p[2]) /\ Pre(p[2]) \in Contents
  BY <1>1 DEF Pre, Contents
<1>4. \A o \in Ops : effects[o] = 1 => effects'[o] = 1
  <2>1. CASE Send
    BY <2>1 DEF Send, native
  <2>2. CASE ~ Send
    BY <2>2, NativeStep DEF NativeOK, Tame
  <2>. QED
    BY <2>1, <2>2
<1>5. CollectionFits
  BY DEF IInv
<1>6. CASE UNCHANGED <<col, edits>>
  BY <1>1, <1>2, <1>3, <1>4, <1>5, <1>6 DEF CollectionFits
<1>7. ASSUME NEW p \in Places, Edit(p)
      PROVE  /\ col' \in [Places -> Contents] /\ edits' \in 0..MaxEdits
             /\ CollectionFits'
  <2>1. PICK c \in {"absent", "other", Pre(p[2])} \ {col[p], "desired"} :
          col' = [col EXCEPT ![p] = c]
    BY <1>7 DEF Edit
  <2>2. col' \in [Places -> Contents] /\ edits' \in 0..MaxEdits
    BY <1>1, <1>3, <1>7, <2>1 DEF Edit, Contents
  <2>3. \A q \in Places : col'[q] = "desired" => col[q] = "desired"
    BY <1>1, <2>1
  <2>4. CollectionFits'
    BY <1>2, <1>3, <1>4, <1>5, <2>3 DEF CollectionFits
  <2>. QED
    BY <2>2, <2>4
<1>8. ASSUME NEW o \in Ops, TakeEffect(o)
      PROVE  /\ col' \in [Places -> Contents] /\ edits' \in 0..MaxEdits
             /\ CollectionFits'
  <2>1. /\ effects' = [effects EXCEPT ![o] = 1] /\ edits' = edits
        /\ effects \in [Ops -> Nat]
    BY <1>8 DEF TakeEffect, Native!TakeEffect, IInv, TypeOK
  <2>2. /\ col' \in [Places -> Contents]
        /\ \A q \in Places : q # Place(o) => col'[q] = col[q]
    BY <1>1, <1>2, <1>8 DEF TakeEffect, Contents
  <2>3. effects'[o] = 1
    BY <2>1
  <2>4. CollectionFits'
    BY <1>2, <1>3, <1>4, <1>5, <2>2, <2>3 DEF CollectionFits
  <2>. QED
    BY <1>1, <2>1, <2>2, <2>4
<1>. QED
  BY <1>1, <1>2, <1>6, <1>7, <1>8, Outside

-----------------------------------------------------------------------------
(* The journals                                                            *)

\* Nothing the companion does makes a step of a journal untrue.
LEMMA StepsStay ==
    ASSUME IInv, Tame, UNCHANGED <<kind, plan>>
    PROVE  /\ OnlyPlanned' /\ PlanFits'
           /\ \A o \in Ops : Supported(o) => Supported(o)'
           /\ \A a \in Attempts : \A k \in DOMAIN plan[a] :
                journal'[a].steps[k] = journal[a].steps[k] => StepFits(a, k)'
<1>1. TypeOK /\ PlanFits /\ OnlyPlanned /\ JournalFits
  BY DEF IInv
<1>2. ASSUME NEW o \in Ops, Supported(o) PROVE Supported(o)'
  <2>1. PICK b \in Attempts : effects[<<b, o[2]>>] = 1 /\ Place(<<b, o[2]>>) = Place(o)
    BY <1>2 DEF Supported
  <2>2. <<b, o[2]>> \in Ops
    BY DEF Ops
  <2>3. effects'[<<b, o[2]>>] = 1
    BY <2>1, <2>2 DEF Tame
  <2>4. Place(<<b, o[2]>>)' = Place(o)'
    BY <2>1 DEF Place
  <2>. QED
    BY <2>3, <2>4 DEF Supported
<1>3. OnlyPlanned' /\ PlanFits'
  BY <1>1 DEF OnlyPlanned, PlanFits, Tame
<1>4. ASSUME NEW a \in Attempts, NEW k \in DOMAIN plan[a],
             journal'[a].steps[k] = journal[a].steps[k]
      PROVE  StepFits(a, k)'
  <2>1. OpAt(a, k)' = OpAt(a, k) /\ OpAt(a, k) \in Ops
    BY <1>1 DEF TypeOK, OpAt, Ops
  <2>2. StepFits(a, k)
    BY <1>1 DEF JournalFits
  <2>. DEFINE o == OpAt(a, k)
              s == journal[a].steps[k]
  <2>3. s = "intent_recorded" => Untouched(o)'
    BY <2>1, <2>2 DEF StepFits, Tame
  <2>4. s \in {"observed_failure", "observed_success", "verified"} => ~ Live(o)'
    BY <2>1, <2>2 DEF StepFits, Tame
  <2>5. s = "observed_failure" => effects'[o] = 0
    BY <2>1, <2>2 DEF StepFits, Tame
  <2>6. s = "verified" => Supported(o)'
    BY <1>2, <2>1, <2>2 DEF StepFits
  <2>. HIDE DEF o
  <2>. QED
    BY <1>4, <2>1, <2>3, <2>4, <2>5, <2>6 DEF StepFits, o
<1>. QED
  BY <1>2, <1>3, <1>4

\* As long as the journals stay as they are, so does what they say.
LEMMA JournalsStay ==
    ASSUME IInv, Tame, UNCHANGED <<kind, plan, journal>>,
           \A a \in Attempts : receipt[a] => receipt'[a]
    PROVE  JournalFits' /\ OnlyPlanned' /\ PlanFits'
<1>1. JournalFits
  BY DEF IInv
<1>2. \A a \in Attempts : /\ Shape(journal'[a]) /\ StateFits(journal'[a])
                          /\ journal'[a].state = "committed" => receipt'[a]
  BY <1>1 DEF JournalFits
<1>3. \A a \in Attempts : \A k \in DOMAIN plan'[a] : StepFits(a, k)'
  BY StepsStay
<1>. QED
  BY <1>2, <1>3, StepsStay DEF JournalFits

\* The store accepts what is appended.
StoreOK ==
    \A a \in Attempts : journal'[a] # journal[a] =>
        IF journal[a].state = "none" THEN Fresh(journal'[a])
        ELSE MayFollow(journal[a], journal'[a])

JournalOK == JournalTypeOK' /\ JournalFits' /\ OnlyPlanned' /\ PlanFits' /\ StoreOK

LEMMA JournalsKeep ==
    ASSUME IInv, Tame, UNCHANGED <<kind, plan, journal>>,
           \A a \in Attempts : receipt[a] => receipt'[a]
    PROVE  JournalOK
<1>1. JournalTypeOK'
  BY DEF IInv, TypeOK, JournalTypeOK, Journals
<1>. QED
  BY <1>1, JournalsStay DEF JournalOK, StoreOK

\* One step of the journal moves.
LEMMA WriteKeeps ==
    ASSUME IInv, cli.op \in Attempts, cli'.op = cli.op, InProgress(J), ~ AllVerified,
           NEW state \in {"mutating", "needs_recovery", "failed_before_write"},
           NEW step \in StepStates \ {"intent_recorded"},
           Write(state, step), Quiet, UNCHANGED <<kind, plan, receipt>>,
           J.state = state \/ <<J.state, state>> \in StateMoves,
           <<StepState, step>> \in StepMoves,
           step = "unknown" => state = "needs_recovery",
           state = "failed_before_write" =>
               /\ step = "observed_failure"
               /\ \A i \in DOMAIN J.steps \ {Current} :
                      J.steps[i] \in {"intent_recorded", "observed_failure"},
           step = "observed_failure" => effects[Op] = 0,
           step \in {"observed_failure", "observed_success", "verified"} => ~ Live(Op),
           step = "verified" => Supported(Op)
    PROVE  /\ JournalOK
           /\ J'.state = state
           /\ step # "verified" => Current' = Current /\ Op' = Op /\ StepState' = step /\ ~ AllVerified'
           /\ step = "verified" /\ ~ AllVerified' => StepState' = "intent_recorded"
<1>. DEFINE a == cli.op
            n == NSteps(a)
            c == Current
<1>1. TypeOK /\ JournalFits /\ NativeFits /\ PlanFits
  BY DEF IInv
<1>2. J = journal[a] /\ a \in Attempts
  BY DEF J
<1>3. /\ n \in 0..(NFiles + 1)
      /\ DOMAIN journal[a].steps = 1..n /\ DOMAIN plan[a] = 1..n
      /\ journal[a].steps \in [1..n -> StepStates]
      /\ plan[a] \in [1..n -> Targets]
  BY <1>1, JournalType
<1>4. Shape(J) /\ StateFits(J)
  BY <1>1, <1>2 DEF JournalFits
<1>5. /\ c \in 1..n
      /\ \A i \in 1..(c - 1) : journal[a].steps[i] = "verified"
      /\ \A i \in (c + 1)..n : journal[a].steps[i] = "intent_recorded"
      /\ StepState = journal[a].steps[c] /\ Op = OpAt(a, c) /\ Op \in Ops
  BY <1>1, <1>4, Here
<1>6. state \in OpStates /\ step \in StepStates
  BY DEF OpStates
<1>7. /\ journal' \in [Attempts -> Journals]
      /\ \A b \in Attempts : b # a => journal'[b] = journal[b]
      /\ journal'[a].state = state
      /\ journal'[a].steps \in [1..n -> StepStates]
      /\ journal'[a].steps[c] = step
      /\ \A i \in 1..n : i # c => journal'[a].steps[i] = journal[a].steps[i]
  BY <1>1, <1>6, Written
<1>. HIDE DEF a, n, c
<1>8. DOMAIN journal'[a].steps = 1..n /\ Len(journal'[a].steps) = n
  BY <1>3, <1>7
<1>9. JournalTypeOK'
  BY <1>1, <1>6, AppendType
<1>10. Tame
  BY <1>1, QuietKeeps DEF NativeOK
<1>11. Shape(journal'[a])
  BY <1>3, <1>5, <1>7, <1>8 DEF Shape
<1>12. In(journal'[a], {"unknown"}) # {} => step = "unknown"
  BY <1>3, <1>5, <1>7, <1>8 DEF In
<1>13. state = "failed_before_write" => AllIn(journal'[a], {"intent_recorded", "observed_failure"})
  <2>. SUFFICES ASSUME state = "failed_before_write"
                PROVE  \A i \in 1..n : journal'[a].steps[i] \in {"intent_recorded", "observed_failure"}
    BY <1>8 DEF AllIn, In
  <2>. QED
    BY <1>2, <1>3, <1>7 DEF c
<1>14. StateFits(journal'[a])
  <2>1. journal'[a].steps # <<>>
    BY <1>5, <1>8
  <2>. QED
    BY <1>7, <1>12, <1>13, <2>1 DEF StateFits
<1>15. \A b \in Attempts : \A k \in DOMAIN plan'[b] : StepFits(b, k)'
  <2>. SUFFICES ASSUME NEW b \in Attempts, NEW k \in DOMAIN plan[b] PROVE StepFits(b, k)'
    OBVIOUS
  <2>1. CASE b # a \/ k # c
    <3>1. journal'[b].steps[k] = journal[b].steps[k]
      BY <1>3, <1>7, <2>1
    <3>. QED
      BY <1>10, <3>1, StepsStay
  <2>2. CASE b = a /\ k = c
    <3>1. PICK o \in Ops : o = Op
      BY <1>5
    <3>2. OpAt(b, k)' = o
      BY <1>5, <2>2, <3>1 DEF OpAt
    <3>3. Live(o)' <=> Live(Op)
      BY <3>1 DEF Quiet, Live
    <3>4. Supported(Op) => Supported(o)'
      BY <1>10, <3>1, StepsStay
    <3>5. effects'[o] = effects[Op]
      BY <3>1 DEF Quiet
    <3>6. journal'[b].steps[k] = step
      BY <1>7, <2>2
    <3>. QED
      BY <3>2, <3>3, <3>4, <3>5, <3>6 DEF StepFits
  <2>. QED
    BY <2>1, <2>2
<1>16. JournalFits'
  BY <1>1, <1>7, <1>11, <1>14, <1>15 DEF JournalFits
<1>17. OnlyPlanned' /\ PlanFits'
  BY <1>10, StepsStay
<1>18. MayFollow(journal[a], journal'[a])
  <2>1. Valid(journal'[a])
    BY <1>7, <1>13 DEF Valid
  <2>2. StateMayMove(journal[a], journal'[a]) /\ ~ Finalizing(journal[a], journal'[a])
    BY <1>2, <1>7 DEF StateMayMove, Finalizing, InProgress
  <2>3. DispatchInOrder(journal[a], journal'[a])
    <3>. SUFFICES ASSUME NEW k \in Dispatched(journal[a], journal'[a])
                  PROVE  /\ \A i \in 1..(k-1) : journal[a].steps[i] = "verified"
                         /\ InDoubt(journal[a]) = {}
      BY DEF DispatchInOrder
    <3>1. k = c /\ journal[a].steps[c] = "intent_recorded"
      BY <1>3, <1>7, <1>8 DEF Dispatched, In
    <3>2. \A i \in 1..n : journal[a].steps[i] \in {"verified", "intent_recorded"}
      BY <1>3, <1>5, <3>1
    <3>3. InDoubt(journal[a]) = {}
      BY <1>3, <3>2 DEF InDoubt, In
    <3>. QED
      BY <1>5, <3>1, <3>3
  <2>4. StepsMayMove(journal[a], journal'[a])
    <3>1. Len(journal[a].steps) = n
      BY <1>3
    <3>2. \A k \in 1..n : \/ journal[a].steps[k] = journal'[a].steps[k]
                          \/ <<journal[a].steps[k], journal'[a].steps[k]>> \in StepMoves
      BY <1>5, <1>7
    <3>. QED
      BY <1>3, <1>8, <3>1, <3>2 DEF StepsMayMove
  <2>. QED
    BY <1>7, <1>12, <2>1, <2>2, <2>3, <2>4 DEF MayFollow
<1>19. StoreOK
  <2>1. journal[a].state # "none"
    BY <1>2 DEF InProgress
  <2>. QED
    BY <1>7, <1>18, <2>1 DEF StoreOK
<1>20. J' = journal'[a] /\ Current' = FirstOpen(journal'[a].steps)
  <2>1. J' = journal'[a]
    BY DEF J, a
  <2>. QED
    BY <2>1, ZenonT(60) DEF Current, FirstOpen
<1>21. /\ Current' \in 1..(n+1)
       /\ \A i \in 1..(Current' - 1) : journal'[a].steps[i] = "verified"
       /\ Current' \in 1..n => journal'[a].steps[Current'] # "verified"
       /\ step # "verified" => Current' = c
  <2>1. n \in Nat
    BY <1>3
  <2>2. PICK steps \in [1..n -> StepStates] : steps = journal'[a].steps
    BY <1>7
  <2>3. Current' = FirstOpen(steps)
    BY <1>20, <2>2
  <2>4. /\ steps[c] = step
        /\ \A i \in 1..(c-1) : steps[i] = "verified"
    <3>1. \A i \in 1..(c-1) : i \in 1..n /\ i # c
      BY <1>5, <2>1
    <3>. QED
      BY <1>5, <1>7, <2>2, <3>1
  <2>5. c \in 1..(n+1)
    BY <1>3, <1>5
  <2>6. /\ FirstOpen(steps) \in 1..(n+1)
        /\ \A i \in 1..(FirstOpen(steps) - 1) : steps[i] = "verified"
        /\ FirstOpen(steps) \in 1..n => steps[FirstOpen(steps)] # "verified"
    BY <2>1, <2>2, FirstOpenExists
  <2>7. step # "verified" => FirstOpen(steps) = c
    BY <2>1, <2>2, <2>4, <2>5, FirstOpenIs
  <2>. QED
    BY <2>2, <2>3, <2>6, <2>7
<1>22. AllVerified' <=> Current' \notin 1..n
  BY <1>3, <1>8, <1>20, <1>21 DEF AllVerified
<1>23. /\ StepState' = journal'[a].steps[Current']
       /\ Op' = OpAt(a, Current')
  <2>1. StepState' = journal'[a].steps[Current']
    BY <1>20 DEF StepState
  <2>2. cli'.op = a /\ plan' = plan
    BY DEF a
  <2>3. Op' = <<cli'.op, plan'[cli'.op][Current']>>
    BY DEF Op
  <2>. QED
    BY <2>1, <2>2, <2>3 DEF OpAt
<1>24. ASSUME step = "verified", ~ AllVerified' PROVE StepState' = "intent_recorded"
  BY <1>3, <1>5, <1>7, <1>22, <1>23, <1>24, <1>21
<1>. QED
  BY <1>5, <1>7, <1>9, <1>16, <1>17, <1>19, <1>20, <1>22, <1>23, <1>24, <1>21 DEF JournalOK, c

\* Only the state of the operation moves.
LEMMA WriteStateKeeps ==
    ASSUME IInv, cli.op \in Attempts, InProgress(J),
           NEW state \in OpStates \ {"prepared", "compensated", "restored"},
           WriteState(state), Tame, UNCHANGED <<kind, plan, receipt>>,
           J.state = state \/ <<J.state, state>> \in StateMoves,
           state \in {"preflight", "checkpointed"} => AllIn(J, {"intent_recorded"}),
           state = "failed_before_write" => AllIn(J, {"intent_recorded", "observed_failure"}),
           state \in {"verifying", "committed"} => AllIn(J, {"verified"}),
           In(J, {"unknown"}) # {} => state = "needs_recovery",
           state = "committed" => receipt[cli.op]
    PROVE  /\ JournalOK
           /\ cli'.op = cli.op =>
                /\ J'.state = state
                /\ Current' = Current /\ Op' = Op /\ StepState' = StepState
                /\ AllVerified' <=> AllVerified
<1>. DEFINE a == cli.op
<1>1. TypeOK /\ JournalFits /\ PlanFits
  BY DEF IInv
<1>2. J = journal[a] /\ a \in Attempts /\ journal[a].state # "none"
  BY DEF J, InProgress
<1>3. /\ journal' \in [Attempts -> Journals]
      /\ \A b \in Attempts : b # a => journal'[b] = journal[b]
      /\ journal'[a].state = state
      /\ journal'[a].steps = journal[a].steps
  BY <1>1, <1>2, StateWritten
<1>. HIDE DEF a
<1>4. JournalTypeOK'
  BY <1>1, <1>2, AppendType
<1>5. Shape(journal[a]) /\ StateFits(journal[a])
  BY <1>1, <1>2 DEF JournalFits
<1>6. Shape(journal'[a])
  BY <1>3, <1>5 DEF Shape
<1>7. \A S : In(journal'[a], S) = In(journal[a], S) /\ (AllIn(journal'[a], S) <=> AllIn(journal[a], S))
  BY <1>3 DEF In, AllIn
<1>8. StateFits(journal'[a])
  <2>1. state \notin {"none", "prepared", "compensated", "restored"}
    BY DEF OpStates
  <2>2. journal'[a].steps # <<>>
    BY <1>2, <1>3, <1>5 DEF StateFits
  <2>3. state \in {"preflight", "checkpointed"} => AllIn(journal'[a], {"intent_recorded"})
    BY <1>2, <1>7
  <2>4. state = "failed_before_write" => AllIn(journal'[a], {"intent_recorded", "observed_failure"})
    BY <1>2, <1>7
  <2>5. state \in {"verifying", "committed"} => AllIn(journal'[a], {"verified"})
    BY <1>2, <1>7
  <2>6. In(journal'[a], {"unknown"}) # {} => state = "needs_recovery"
    BY <1>2, <1>7
  <2>. QED
    BY <1>3, <2>1, <2>2, <2>3, <2>4, <2>5, <2>6 DEF StateFits
<1>9. \A b \in Attempts : \A k \in DOMAIN plan'[b] : StepFits(b, k)'
  BY <1>3, StepsStay
<1>10. JournalFits'
  BY <1>1, <1>3, <1>6, <1>8, <1>9 DEF JournalFits, a
<1>11. OnlyPlanned' /\ PlanFits'
  BY StepsStay
<1>12. MayFollow(journal[a], journal'[a])
  <2>1. Valid(journal'[a])
    <3>1. state = "committed" => journal'[a].steps # <<>> /\ AllIn(journal'[a], {"verified"})
      BY <1>2, <1>3, <1>5, <1>7 DEF StateFits
    <3>2. state = "failed_before_write" => AllIn(journal'[a], {"intent_recorded", "observed_failure"})
      BY <1>2, <1>7
    <3>. QED
      BY <1>3, <3>1, <3>2 DEF Valid
  <2>2. StateMayMove(journal[a], journal'[a]) /\ ~ Finalizing(journal[a], journal'[a])
    BY <1>2, <1>3 DEF StateMayMove, Finalizing, InProgress
  <2>3. DispatchInOrder(journal[a], journal'[a])
    <3>1. Dispatched(journal[a], journal'[a]) = {}
      BY <1>3 DEF Dispatched, In
    <3>. QED
      BY <3>1 DEF DispatchInOrder
  <2>4. StepsMayMove(journal[a], journal'[a])
    <3>1. Len(journal[a].steps) \in Nat
      BY <1>1, <1>2, JournalType DEF NSteps
    <3>. QED
      BY <1>3, <3>1 DEF StepsMayMove
  <2>. QED
    BY <1>2, <1>3, <1>7, <2>1, <2>2, <2>3, <2>4 DEF MayFollow
<1>13. StoreOK
  BY <1>2, <1>3, <1>12 DEF StoreOK
<1>14. ASSUME cli'.op = cli.op
       PROVE  /\ J'.state = state
              /\ Current' = Current /\ Op' = Op /\ StepState' = StepState
              /\ AllVerified' <=> AllVerified
  <2>1. J' = journal'[a] /\ J'.steps = J.steps
    BY <1>2, <1>3, <1>14 DEF J, a
  <2>2. Current' = Current
    <3>1. Current = FirstOpen(J.steps)
      BY Zenon DEF Current, FirstOpen
    <3>2. Current' = FirstOpen(J'.steps)
      BY Zenon DEF Current, FirstOpen
    <3>. QED
      BY <2>1, <3>1, <3>2
  <2>3. AllVerified' <=> AllVerified
    BY <2>1, <2>2 DEF AllVerified
  <2>4. StepState' = StepState
    BY <2>1, <2>2 DEF StepState
  <2>5. Op' = Op
    BY <1>14, <2>2 DEF Op
  <2>. QED
    BY <1>3, <2>1, <2>2, <2>3, <2>4, <2>5
<1>. QED
  BY <1>4, <1>10, <1>11, <1>13, <1>14 DEF JournalOK

-----------------------------------------------------------------------------
(* The commands, action by action                                          *)

\* What each step of a command has to show.
StepOK ==
    /\ JournalOK
    /\ receipt' \in [Attempts -> BOOLEAN]
    /\ cli' \in Commands
    /\ CommandFits'

LEMMA IdleType ==
    /\ Idle \in Commands
    /\ Idle.at = "idle" /\ Idle.op = 0 /\ Idle.mode = "none"
    /\ Idle.fence = 0 /\ Idle.answer = "none"
BY DEF Idle, Commands, Points

\* An idle command knows nothing.
LEMMA IdleKeeps ==
    ASSUME JournalOK, receipt' \in [Attempts -> BOOLEAN], cli' = Idle
    PROVE  StepOK
<1>1. cli' \in Commands /\ cli'.at = "idle"
  BY IdleType
<1>2. CommandFits'
  BY <1>1 DEF CommandFits, Calm, Asking
<1>. QED
  BY <1>1, <1>2 DEF StepOK

\* Nor does one that is about to end.
LEMMA EndingKeeps ==
    ASSUME IInv, cli.op \in Attempts, JournalOK, UNCHANGED receipt, Goto("end")
    PROVE  StepOK
<1>1. receipt \in [Attempts -> BOOLEAN] /\ cli \in Commands
  BY DEF IInv, TypeOK, Commands
<1>2. cli' \in Commands /\ cli'.at = "end" /\ cli'.op \in Attempts
  BY <1>1 DEF Goto, Commands, Points
<1>3. CommandFits'
  BY <1>2 DEF CommandFits, Calm, Asking
<1>. QED
  BY <1>1, <1>2, <1>3 DEF StepOK

LEMMA SameHere ==
    ASSUME cli'.op = cli.op, UNCHANGED <<journal, plan>>
    PROVE  /\ J' = J /\ Current' = Current /\ Op' = Op /\ StepState' = StepState
           /\ AllVerified' <=> AllVerified
<1>1. J' = J
  BY DEF J
<1>2. Current' = Current
  <2>1. Current = FirstOpen(J.steps)
    BY Zenon DEF Current, FirstOpen
  <2>2. Current' = FirstOpen(J'.steps)
    BY Zenon DEF Current, FirstOpen
  <2>. QED
    BY <1>1, <2>1, <2>2
<1>3. AllVerified' <=> AllVerified
  BY <1>1, <1>2 DEF AllVerified
<1>4. StepState' = StepState
  BY <1>1, <1>2 DEF StepState
<1>5. Op' = Op
  BY <1>2 DEF Op
<1>. QED
  BY <1>1, <1>2, <1>3, <1>4, <1>5

\* The journal the command works on.
LEMMA Known ==
    ASSUME IInv, cli.op \in Attempts
    PROVE  /\ J = journal[cli.op] /\ Shape(J) /\ StateFits(J)
           /\ J.state \in OpStates \cup {"none"}
           /\ DOMAIN J.steps = 1..NSteps(cli.op)
           /\ ~ AllVerified =>
                /\ Current \in 1..NSteps(cli.op) /\ StepState = J.steps[Current]
                /\ StepState \in StepStates \ {"verified"}
                /\ Op \in Ops /\ Op = OpAt(cli.op, Current)
                /\ StepFits(cli.op, Current)
           /\ AllVerified => AllIn(J, {"verified"})
           /\ cli \in Commands /\ receipt \in [Attempts -> BOOLEAN]
<1>. DEFINE a == cli.op
<1>1. TypeOK /\ JournalFits
  BY DEF IInv
<1>2. J = journal[a] /\ Shape(J) /\ StateFits(J)
  BY <1>1 DEF J, JournalFits
<1>3. /\ DOMAIN journal[a].steps = 1..NSteps(a) /\ DOMAIN plan[a] = 1..NSteps(a)
      /\ journal[a].steps \in [1..NSteps(a) -> StepStates]
      /\ journal[a].state \in OpStates \cup {"none"}
  BY <1>1, JournalType
<1>4. ASSUME ~ AllVerified
      PROVE  /\ Current \in 1..NSteps(a) /\ StepState = J.steps[Current]
             /\ StepState \in StepStates \ {"verified"}
             /\ Op \in Ops /\ Op = OpAt(a, Current)
             /\ StepFits(a, Current)
  <2>1. Current \in 1..NSteps(a) /\ StepState = J.steps[Current] /\ StepState # "verified"
        /\ Op \in Ops /\ Op = OpAt(a, Current)
    BY <1>1, <1>2, <1>4, Here
  <2>. QED
    BY <1>1, <1>2, <1>3, <2>1 DEF JournalFits
<1>5. ASSUME AllVerified PROVE AllIn(J, {"verified"})
  BY <1>1, <1>2, <1>3, <1>5, Here DEF AllIn, In
<1>6. cli \in Commands /\ receipt \in [Attempts -> BOOLEAN]
  BY <1>1 DEF TypeOK, Commands
<1>. QED
  BY <1>2, <1>3, <1>4, <1>5, <1>6

\* What the state of the operation can be while a step is open.
LEMMA OpenStep ==
    ASSUME IInv, cli.op \in Attempts, ~ AllVerified, InProgress(J)
    PROVE  /\ J.state \in {"prepared", "preflight", "checkpointed"} => StepState = "intent_recorded"
           /\ J.state # "verifying"
           /\ StepState = "unknown" => J.state = "needs_recovery"
           /\ StepState # "intent_recorded" => J.state \in {"mutating", "needs_recovery"}
           /\ StepState # "unknown" => In(J, {"unknown"}) = {}
<1>1. /\ Shape(J) /\ StateFits(J) /\ J.state \in OpStates \cup {"none"}
      /\ DOMAIN J.steps = 1..NSteps(cli.op)
      /\ Current \in 1..NSteps(cli.op) /\ StepState = J.steps[Current]
      /\ StepState # "verified"
  BY Known
<1>2. J.state \in {"prepared", "preflight", "checkpointed"} => StepState = "intent_recorded"
  BY <1>1 DEF StateFits, AllIn, In
<1>3. J.state # "verifying"
  BY <1>1 DEF StateFits, AllIn, In
<1>4. StepState = "unknown" => J.state = "needs_recovery"
  BY <1>1 DEF StateFits, In
<1>5. J.state \in {"prepared", "preflight", "checkpointed", "mutating", "needs_recovery"}
  BY <1>1, <1>3 DEF InProgress, Terminal, OpStates, StateFits
<1>6. StepState # "unknown" => In(J, {"unknown"}) = {}
  <2>1. /\ J = journal[cli.op]
        /\ \A i \in 1..(Current - 1) : J.steps[i] = "verified"
        /\ \A i \in (Current + 1)..NSteps(cli.op) : J.steps[i] = "intent_recorded"
    BY <1>1, Here DEF IInv, J
  <2>2. NSteps(cli.op) \in Nat
    BY JournalType DEF IInv
  <2>3. \A i \in 1..NSteps(cli.op) : i = Current \/ J.steps[i] \in {"verified", "intent_recorded"}
    BY <1>1, <2>1, <2>2
  <2>. QED
    BY <1>1, <2>3 DEF In
<1>. QED
  BY <1>2, <1>3, <1>4, <1>5, <1>6

LEMMA StartApplyStep ==
    ASSUME IInv, NEW a \in Attempts, StartApply(a), UNCHANGED kind
    PROVE  StepOK
<1>1. TypeOK /\ PlanFits /\ JournalFits /\ OnlyPlanned /\ NativeFits
  BY DEF IInv
<1>2. /\ JournalTypeOK'
      /\ \A b \in Attempts : b # a => journal'[b] = journal[b] /\ plan'[b] = plan[b]
      /\ journal'[a].state = "prepared"
      /\ \A k \in DOMAIN plan'[a] : journal'[a].steps[k] = "intent_recorded"
      /\ journal'[a].steps # <<>>
      /\ DOMAIN journal'[a].steps = DOMAIN plan'[a]
      /\ \A i, k \in DOMAIN plan'[a] : plan'[a][i] = plan'[a][k] => i = k
  BY <1>1, StartType
<1>3. /\ journal[a].state = "none" /\ UNCHANGED receipt /\ Quiet
      /\ cli' = [Idle EXCEPT !.at = "opened", !.op = a, !.mode = "apply"]
  BY DEF StartApply, Quiet, native
<1>4. \A o \in Ops : (Live(o)' <=> Live(o)) /\ (Untouched(o)' <=> Untouched(o))
  BY <1>3 DEF Quiet, Live, Untouched
<1>5. Tame
  BY <1>1, <1>3, QuietKeeps DEF NativeOK
<1>6. \A t \in Targets : Untouched(<<a, t>>)
  <2>1. journal[a].steps = <<>>
    BY <1>1, <1>3 DEF JournalFits, StateFits
  <2>2. DOMAIN plan[a] = {}
    BY <1>1, <2>1 DEF TypeOK
  <2>. QED
    BY <1>1, <2>2 DEF OnlyPlanned, Ops
<1>7. PlanFits'
  <2>1. plan' = [b \in Attempts |-> plan'[b]]
    <3>1. PICK files \in Uploads : plan' = [plan EXCEPT ![a] = Append(files, Note)]
      BY DEF StartApply
    <3>. QED
      BY <1>1, <3>1 DEF PlanFits
  <2>. QED
    BY <1>1, <1>2, <2>1 DEF PlanFits
<1>8. OnlyPlanned'
  <2>. SUFFICES ASSUME NEW o \in Ops, \A k \in DOMAIN plan'[o[1]] : plan'[o[1]][k] # o[2]
                PROVE  Untouched(o)'
    BY DEF OnlyPlanned
  <2>1. o[1] \in Attempts /\ o[2] \in Targets /\ o = <<o[1], o[2]>>
    BY DEF Ops
  <2>2. Untouched(o)
    BY <1>1, <1>2, <1>6, <2>1 DEF OnlyPlanned
  <2>. QED
    BY <1>4, <2>2
<1>9. \A b \in Attempts : \A k \in DOMAIN plan'[b] : StepFits(b, k)'
  <2>. SUFFICES ASSUME NEW b \in Attempts, NEW k \in DOMAIN plan'[b] PROVE StepFits(b, k)'
    OBVIOUS
  <2>1. CASE b = a
    <3>1. journal'[b].steps[k] = "intent_recorded" /\ plan'[b][k] \in Targets
      BY <1>2, <2>1 DEF JournalTypeOK
    <3>2. PICK o \in Ops : o = OpAt(b, k)'
      BY <2>1, <3>1 DEF OpAt, Ops
    <3>3. Untouched(o)'
      BY <1>4, <1>6, <2>1, <3>1, <3>2 DEF OpAt
    <3>. QED
      BY <3>1, <3>2, <3>3 DEF StepFits
  <2>2. CASE b # a
    <3>1. k \in DOMAIN plan[b] /\ StepFits(b, k) /\ OpAt(b, k)' = OpAt(b, k)
      BY <1>1, <1>2, <2>2 DEF JournalFits, OpAt
    <3>2. PICK o \in Ops : o = OpAt(b, k)
      BY <1>1, <3>1 DEF OpAt, Ops, TypeOK
    <3>3. Supported(o)' <=> Supported(o)
      BY <1>3 DEF Supported, Place, Quiet
    <3>4. effects' = effects
      BY <1>3 DEF Quiet
    <3>. QED
      BY <1>2, <1>4, <2>2, <3>1, <3>2, <3>3, <3>4 DEF StepFits
  <2>. QED
    BY <2>1, <2>2
<1>10. JournalFits'
  <2>1. Shape(journal'[a])
    BY <1>2 DEF Shape
  <2>2. StateFits(journal'[a])
    BY <1>2 DEF StateFits, AllIn, In
  <2>. QED
    BY <1>1, <1>2, <1>3, <1>9, <2>1, <2>2 DEF JournalFits
<1>11. StoreOK
  BY <1>2, <1>3 DEF StoreOK, Fresh, AllIn, In
<1>12. cli' \in Commands /\ cli'.at = "opened" /\ cli'.op = a /\ cli'.mode = "apply"
  <2>. HIDE DEF Idle
  <2>. QED
    BY <1>3, IdleType DEF Commands, Points
<1>13. CommandFits'
  <2>1. J' = journal'[a]
    BY <1>12 DEF J
  <2>. QED
    BY <1>2, <1>12, <2>1 DEF CommandFits, Calm, Asking, InProgress, Terminal
<1>. QED
  BY <1>1, <1>2, <1>3, <1>7, <1>8, <1>10, <1>11, <1>12, <1>13 DEF StepOK, JournalOK, TypeOK

LEMMA StartReconcileStep ==
    ASSUME IInv, NEW a \in Attempts, StartReconcile(a), UNCHANGED kind
    PROVE  StepOK
<1>1. TypeOK /\ NativeFits /\ PlanFits
  BY DEF IInv
<1>2. /\ UNCHANGED <<journal, plan, receipt>> /\ Quiet
      /\ journal[a].state \notin Terminal \cup {"none"}
      /\ cli' = [Idle EXCEPT !.at = "begin", !.op = a, !.mode = "reconcile"]
  BY DEF StartReconcile, Quiet, native
<1>3. JournalOK
  <2>1. Tame
    BY <1>1, <1>2, QuietKeeps DEF NativeOK
  <2>. QED
    BY <1>2, <2>1, JournalsKeep
<1>4. cli' \in Commands /\ cli'.at = "begin" /\ cli'.op = a /\ cli'.mode = "reconcile"
  <2>. HIDE DEF Idle
  <2>. QED
    BY <1>2, IdleType DEF Commands, Points
<1>5. CommandFits'
  <2>1. J' = journal[a]
    BY <1>2, <1>4 DEF J
  <2>. QED
    BY <1>2, <1>4, <2>1 DEF CommandFits, Calm, Asking, InProgress
<1>. QED
  BY <1>1, <1>2, <1>3, <1>4, <1>5 DEF StepOK, TypeOK


LEMMA EnterPreflightStep ==
    ASSUME IInv, EnterPreflight, UNCHANGED kind
    PROVE  StepOK
<1>1. /\ cli.at = "opened" /\ WriteState("preflight") /\ cli' = [cli EXCEPT !.at = "begin"]
      /\ UNCHANGED <<plan, receipt>> /\ Quiet
  BY DEF EnterPreflight, Goto, Quiet, native
<1>2. /\ cli.op \in Attempts /\ InProgress(J)
      /\ cli.mode = "apply" /\ J.state = "prepared"
  BY <1>1 DEF IInv, CommandFits
<1>3. Tame
  BY <1>1, QuietKeeps DEF IInv, NativeOK
<1>4. AllIn(J, {"intent_recorded"}) /\ In(J, {"unknown"}) = {}
  BY <1>2, Known DEF StateFits
<1>5. cli' \in Commands /\ cli'.at = "begin" /\ cli'.op = cli.op /\ cli'.mode = "apply"
  BY <1>1, <1>2, Known DEF Commands, Points
<1>6. JournalOK /\ J'.state = "preflight"
  BY <1>1, <1>2, <1>3, <1>4, <1>5, WriteStateKeeps DEF OpStates, StateMoves
<1>7. CommandFits'
  BY <1>2, <1>5, <1>6 DEF CommandFits, Calm, Asking, InProgress, Terminal
<1>. QED
  BY <1>1, <1>2, <1>5, <1>6, <1>7, Known DEF StepOK

LEMMA BeginStep ==
    ASSUME IInv, Begin, UNCHANGED kind
    PROVE  StepOK
<1>1. /\ cli.at = "begin" /\ NewOwner /\ UNCHANGED <<journal, plan, receipt, wire>>
      /\ cli' = [cli EXCEPT
                   !.at = IF cli.mode = "apply" THEN "checkpoint" ELSE "step",
                   !.fence = owner.fence + 1]
  BY DEF Begin
<1>2. /\ cli.op \in Attempts /\ InProgress(J)
      /\ \/ cli.mode = "apply" /\ J.state = "preflight"
         \/ cli.mode = "reconcile"
  BY <1>1 DEF IInv, CommandFits
<1>3. /\ Tame /\ owner'.fence = owner.fence + 1
      /\ \A o \in Ops : ~ Live(o)'
  BY <1>1, NewOwnerKeeps DEF IInv, NativeOK
<1>4. JournalOK
  BY <1>1, <1>3, JournalsKeep
<1>5. owner.fence \in 0..MaxFence /\ owner.fence < MaxFence
  BY <1>1 DEF IInv, NativeFits, NewOwner
<1>6. /\ cli' \in Commands
      /\ cli'.at = IF cli.mode = "apply" THEN "checkpoint" ELSE "step"
      /\ cli'.op = cli.op /\ cli'.mode = cli.mode
      /\ cli'.fence = owner'.fence /\ cli'.fence # 0
  <2>1. owner.fence + 1 \in 0..MaxFence /\ owner.fence + 1 # 0
    BY <1>5
  <2>2. cli \in Commands
    BY <1>2, Known
  <2>3. PICK at \in Points : /\ at = IF cli.mode = "apply" THEN "checkpoint" ELSE "step"
                            /\ cli' = [cli EXCEPT !.at = at, !.fence = owner.fence + 1]
    BY <1>1 DEF Points
  <2>. QED
    BY <1>3, <2>1, <2>2, <2>3 DEF Commands
<1>7. J' = J
  BY <1>1, <1>6, SameHere
<1>8. CommandFits'
  BY <1>2, <1>3, <1>6, <1>7 DEF CommandFits, Calm, Asking, InProgress
<1>. QED
  BY <1>1, <1>2, <1>4, <1>6, <1>8, Known DEF StepOK

LEMMA BeginFailsStep ==
    ASSUME IInv, BeginFails, UNCHANGED kind
    PROVE  StepOK
<1>1. /\ cli.at = "begin"
      /\ UNCHANGED native \/ NewOwner
      /\ UNCHANGED <<plan, receipt, wire>> /\ cli' = Idle
  BY DEF BeginFails
<1>2. /\ cli.op \in Attempts /\ InProgress(J)
      /\ \/ cli.mode = "apply" /\ J.state = "preflight"
         \/ cli.mode = "reconcile"
  BY <1>1 DEF IInv, CommandFits
<1>3. Tame
  <2>1. CASE NewOwner
    BY <1>1, <2>1, NewOwnerKeeps DEF IInv, NativeOK
  <2>2. CASE UNCHANGED native
    BY <1>1, <2>2, QuietKeeps DEF IInv, NativeOK, Quiet, native
  <2>. QED
    BY <1>1, <2>1, <2>2
<1>4. JournalOK
  <2>1. CASE cli.mode = "apply"
    <3>1. /\ AllIn(J, {"intent_recorded", "observed_failure"}) /\ In(J, {"unknown"}) = {}
          /\ J.state = "preflight"
      BY <1>2, <2>1, Known DEF StateFits, AllIn, In
    <3>2. WriteState("failed_before_write")
      BY <2>1 DEF BeginFails
    <3>. QED
      BY <1>1, <1>2, <1>3, <3>1, <3>2, WriteStateKeeps DEF OpStates, StateMoves
  <2>2. CASE cli.mode # "apply"
    BY <1>1, <1>3, <2>2, JournalsKeep DEF BeginFails
  <2>. QED
    BY <2>1, <2>2
<1>. QED
  BY <1>1, <1>2, <1>4, IdleKeeps, Known

LEMMA EnterCheckpointedStep ==
    ASSUME IInv, EnterCheckpointed, UNCHANGED kind
    PROVE  StepOK
<1>1. /\ cli.at = "checkpoint" /\ WriteState("checkpointed") /\ cli' = [cli EXCEPT !.at = "step"]
      /\ UNCHANGED <<plan, receipt>> /\ Quiet
  BY DEF EnterCheckpointed, Goto, Quiet, native
<1>2. /\ cli.op \in Attempts /\ InProgress(J)
      /\ cli.mode = "apply" /\ J.state = "preflight"
      /\ cli.fence = owner.fence /\ cli.fence # 0
      /\ \A o \in Ops : ~ Live(o)
  BY <1>1 DEF IInv, CommandFits, Calm
<1>3. Tame
  BY <1>1, QuietKeeps DEF IInv, NativeOK
<1>4. AllIn(J, {"intent_recorded"}) /\ In(J, {"unknown"}) = {}
  BY <1>2, Known DEF StateFits
<1>5. cli' \in Commands /\ cli'.at = "step" /\ cli'.op = cli.op /\ cli'.mode = "apply"
      /\ cli'.fence = cli.fence
  BY <1>1, <1>2, Known DEF Commands, Points
<1>6. /\ JournalOK /\ J'.state = "checkpointed"
      /\ StepState' = StepState
      /\ AllVerified' <=> AllVerified
  BY <1>1, <1>2, <1>3, <1>4, <1>5, WriteStateKeeps DEF OpStates, StateMoves
<1>7. ~ AllVerified => StepState = "intent_recorded"
  BY <1>2, OpenStep
<1>8. owner' = owner /\ \A o \in Ops : ~ Live(o)'
  BY <1>1, <1>2, <1>3 DEF Quiet, Tame
<1>9. CommandFits'
  BY <1>2, <1>5, <1>6, <1>7, <1>8 DEF CommandFits, Calm, Asking, InProgress, Terminal
<1>. QED
  BY <1>1, <1>2, <1>5, <1>6, <1>9, Known DEF StepOK

LEMMA StartRequestStep ==
    ASSUME IInv, StartRequest, UNCHANGED kind
    PROVE  StepOK
<1>1. /\ cli.at = "step" /\ cli.mode = "apply" /\ ~ AllVerified
      /\ Write("mutating", "request_started") /\ cli' = [cli EXCEPT !.at = "send"]
      /\ UNCHANGED <<plan, receipt>> /\ Quiet
  BY DEF StartRequest, At, Goto, Quiet, native
<1>2. /\ cli.op \in Attempts /\ InProgress(J)
      /\ J.state \in {"checkpointed", "mutating"} /\ StepState = "intent_recorded"
      /\ cli.fence = owner.fence /\ cli.fence # 0
      /\ \A o \in Ops : ~ Live(o)
  BY <1>1 DEF IInv, CommandFits, Calm
<1>3. Tame
  BY <1>1, QuietKeeps DEF IInv, NativeOK
<1>4. cli' \in Commands /\ cli'.at = "send" /\ cli'.op = cli.op /\ cli'.mode = "apply"
      /\ cli'.fence = cli.fence
  BY <1>1, <1>2, Known DEF Commands, Points
<1>5. /\ JournalOK /\ J'.state = "mutating"
      /\ StepState' = "request_started" /\ ~ AllVerified'
  BY <1>1, <1>2, <1>4, WriteKeeps DEF StepStates, StateMoves, StepMoves
<1>6. owner' = owner /\ \A o \in Ops : ~ Live(o)'
  BY <1>1, <1>2, <1>3 DEF Quiet, Tame
<1>7. CommandFits'
  BY <1>2, <1>4, <1>5, <1>6 DEF CommandFits, Calm, Asking, InProgress, Terminal
<1>. QED
  BY <1>1, <1>2, <1>4, <1>5, <1>7, Known DEF StepOK

\* What the command knows while it sends and waits.
LEMMA AskingKnown ==
    ASSUME IInv, cli.at \in Asking
    PROVE  /\ cli.op \in Attempts /\ InProgress(J) /\ ~ AllVerified
           /\ \/ /\ cli.mode \in {"apply", "reconcile"}
                 /\ J.state = "mutating" /\ StepState = "request_started"
              \/ /\ cli.mode = "resubmit"
                 /\ J.state = "needs_recovery" /\ StepState = "unknown"
           /\ cli.fence = owner.fence /\ cli.fence # 0
           /\ \A o \in Ops : Live(o) => o = Op
<1>1. /\ cli.op \in Attempts /\ InProgress(J) /\ ~ AllVerified
      /\ \/ /\ cli.mode \in {"apply", "reconcile"}
            /\ J.state = "mutating" /\ StepState = "request_started"
         \/ cli.mode = "resubmit" /\ StepState = "unknown"
      /\ cli.fence = owner.fence /\ cli.fence # 0
  BY DEF IInv, CommandFits, Asking, Calm
<1>2. StepState = "unknown" => J.state = "needs_recovery"
  BY <1>1, OpenStep
<1>3. \A o \in Ops : Live(o) => o = Op
  BY DEF IInv, CommandFits, Asking, Calm
<1>. QED
  BY <1>1, <1>2, <1>3

LEMMA SendStep ==
    ASSUME IInv, Send, UNCHANGED kind
    PROVE  StepOK
<1>1. TypeOK /\ PlanFits /\ JournalFits /\ OnlyPlanned
  BY DEF IInv
<1>2. /\ cli.at = "send" /\ cli' = [cli EXCEPT !.at = "wait"]
      /\ UNCHANGED <<journal, plan, receipt>>
  BY DEF Send, Goto
<1>3. /\ Op \in Ops
      /\ \A o \in Ops : o # Op => (Live(o)' <=> Live(o)) /\ (Untouched(o)' <=> Untouched(o))
      /\ UNCHANGED <<verdict, effects, owner, session>>
  BY SendKeeps
<1>4. /\ cli.op \in Attempts /\ InProgress(J) /\ ~ AllVerified
      /\ \/ /\ cli.mode \in {"apply", "reconcile"}
            /\ J.state = "mutating" /\ StepState = "request_started"
         \/ /\ cli.mode = "resubmit"
            /\ J.state = "needs_recovery" /\ StepState = "unknown"
      /\ cli.fence = owner.fence /\ cli.fence # 0
  BY <1>2, AskingKnown DEF Asking
<1>5. \A o \in Ops : ~ Live(o)
  BY <1>2 DEF IInv, CommandFits, Calm
<1>6. /\ Current \in 1..NSteps(cli.op) /\ StepState = journal[cli.op].steps[Current]
      /\ Op = OpAt(cli.op, Current) /\ DOMAIN plan[cli.op] = 1..NSteps(cli.op)
  BY <1>1, <1>4, Known, JournalType
<1>7. PlanFits'
  BY <1>1, <1>2 DEF PlanFits
<1>8. OnlyPlanned'
  <2>. SUFFICES ASSUME NEW o \in Ops, \A k \in DOMAIN plan[o[1]] : plan[o[1]][k] # o[2]
                PROVE  Untouched(o)'
    BY <1>2 DEF OnlyPlanned
  <2>1. Untouched(o)
    BY <1>1 DEF OnlyPlanned
  <2>2. o # Op
    <3>1. Op = <<cli.op, plan[cli.op][Current]>> /\ Current \in DOMAIN plan[cli.op]
      BY <1>6 DEF OpAt
    <3>2. Op[1] = cli.op /\ Op[2] = plan[cli.op][Current]
      BY <3>1
    <3>. QED
      BY <3>1, <3>2
  <2>. QED
    BY <1>3, <2>1, <2>2
<1>9. ASSUME NEW a \in Attempts, NEW k \in DOMAIN plan[a]
      PROVE  StepFits(a, k)'
  <2>1. StepFits(a, k) /\ OpAt(a, k)' = OpAt(a, k) /\ journal' = journal
    BY <1>1, <1>2 DEF JournalFits, OpAt
  <2>2. PICK o \in Ops : o = OpAt(a, k)
    BY <1>1 DEF OpAt, Ops, TypeOK
  <2>3. CASE o = Op
    <3>1. a = cli.op /\ plan[a][k] = plan[a][Current]
      BY <1>6, <2>2, <2>3 DEF OpAt
    <3>2. k = Current
      BY <1>1, <1>6, <3>1 DEF PlanFits
    <3>3. journal[a].steps[k] \in {"request_started", "unknown"}
      BY <1>4, <1>6, <3>1, <3>2
    <3>. QED
      BY <2>1, <3>3 DEF StepFits
  <2>4. CASE o # Op
    <3>1. Supported(o)' <=> Supported(o)
      BY <1>3 DEF Supported, Place
    <3>. QED
      BY <1>3, <2>1, <2>2, <2>4, <3>1 DEF StepFits
  <2>. QED
    BY <2>3, <2>4
<1>10. JournalFits'
  BY <1>1, <1>2, <1>9 DEF JournalFits
<1>11. JournalOK
  BY <1>1, <1>2, <1>7, <1>8, <1>10 DEF JournalOK, JournalTypeOK, TypeOK, StoreOK, Journals
<1>12. /\ cli' \in Commands /\ cli'.at = "wait" /\ cli'.op = cli.op /\ cli'.mode = cli.mode
       /\ cli'.fence = cli.fence
  BY <1>2, <1>4, Known DEF Commands, Points
<1>13. /\ J' = J /\ Op' = Op /\ StepState' = StepState
       /\ AllVerified' <=> AllVerified
  BY <1>2, <1>12, SameHere
<1>14. \A o \in Ops : Live(o)' => o = Op
  BY <1>3, <1>5
<1>15. CommandFits'
  BY <1>3, <1>4, <1>12, <1>13, <1>14 DEF CommandFits, Calm, Asking, InProgress
<1>. QED
  BY <1>2, <1>4, <1>11, <1>12, <1>15, Known DEF StepOK

LEMMA WaitStep ==
    ASSUME IInv, Wait, UNCHANGED kind
    PROVE  StepOK
<1>1. /\ cli.at = "wait" /\ UNCHANGED <<journal, plan, receipt, verdict, effects, owner>>
  BY DEF Wait, native
<1>2. /\ cli.op \in Attempts /\ InProgress(J) /\ ~ AllVerified
      /\ \/ /\ cli.mode \in {"apply", "reconcile"}
            /\ J.state = "mutating" /\ StepState = "request_started"
         \/ /\ cli.mode = "resubmit"
            /\ J.state = "needs_recovery" /\ StepState = "unknown"
      /\ cli.fence = owner.fence /\ cli.fence # 0
      /\ \A o \in Ops : Live(o) => o = Op
  BY <1>1, AskingKnown DEF Asking
<1>3. Tame
  BY WaitKeeps DEF IInv, NativeOK
<1>4. JournalOK
  BY <1>1, <1>3, JournalsKeep
<1>5. Op \in Ops /\ verdict[Op] \in Native!Verdicts
  BY <1>2, Known DEF IInv, TypeOK
<1>6. PICK answer \in {"verified", "failed", "rejected", "lost"} :
        /\ cli' = [cli EXCEPT !.at = "look", !.answer = answer]
        /\ answer \in {"verified", "failed"} => verdict[Op] = answer
        /\ answer = "rejected" =>
             verdict[Op] = "absent" /\ wire' = wire \ {[op |-> Op, fence |-> cli.fence]}
  <2>1. CASE verdict[Op] \in {"verified", "failed"} /\ cli' = [cli EXCEPT !.at = "look", !.answer = verdict[Op]]
    BY <2>1
  <2>. QED
    BY <2>1 DEF Wait
<1>7. /\ cli' \in Commands /\ cli'.at = "look" /\ cli'.op = cli.op /\ cli'.mode = cli.mode
      /\ cli'.fence = cli.fence /\ cli'.answer = answer
  <2>1. cli \in Commands
    BY <1>2, Known
  <2>. QED
    BY <1>6, <2>1 DEF Commands, Points, Native!Verdicts
<1>8. /\ J' = J /\ Op' = Op /\ StepState' = StepState
      /\ AllVerified' <=> AllVerified
  BY <1>1, <1>7, SameHere
<1>9. PICK op \in Ops : op = Op
  BY <1>5
<1>10. \A o \in Ops : Live(o)' => o = op
  BY <1>2, <1>3, <1>9 DEF Tame
<1>11. answer = "rejected" => verdict'[op] = "absent" /\ ~ Live(op)'
  BY <1>1, <1>2, <1>6, <1>9 DEF Live
<1>12. answer \in {"verified", "failed"} => verdict'[op] = answer
  BY <1>1, <1>6, <1>9
<1>13. CommandFits'
  <2>1. Op' = op
    BY <1>8, <1>9
  <2>2. cli'.answer = "rejected" => verdict'[Op'] = "absent" /\ ~ Live(Op)'
    BY <1>7, <1>11, <2>1
  <2>. QED
    BY <1>1, <1>2, <1>7, <1>8, <1>10, <1>12, <2>1, <2>2
       DEF CommandFits, Calm, Asking, InProgress
<1>. QED
  BY <1>1, <1>2, <1>4, <1>7, <1>13, Known DEF StepOK

\* A verified operation had its effect.
LEMMA VerifiedIsSupported ==
    ASSUME NativeFits, NEW o \in Ops, verdict[o] = "verified"
    PROVE  Supported(o) /\ ~ Live(o)
<1>1. o = <<o[1], o[2]>> /\ o[1] \in Attempts /\ effects[o] = 1
  BY DEF NativeFits, Ops
<1>. QED
  BY <1>1 DEF Supported, Live

\* The state after a failure is the one the steps allow.
LEMMA AfterFailure ==
    /\ StateAfterFailure \in {"failed_before_write", "needs_recovery"}
    /\ StateAfterFailure = "failed_before_write" =>
         \A i \in DOMAIN J.steps \ {Current} :
             J.steps[i] \in {"intent_recorded", "observed_failure"}
BY DEF StateAfterFailure

LEMMA ReadBackStep ==
    ASSUME IInv, ReadBack, UNCHANGED kind
    PROVE  StepOK
<1>1. /\ cli.at = "look" /\ cli.mode # "resubmit"
      /\ UNCHANGED <<plan, receipt>> /\ Quiet
  BY DEF ReadBack, Quiet, native
<1>2. PICK view \in Readings(Op) : Outcome(view)
  BY DEF ReadBack
<1>3. /\ cli.op \in Attempts /\ InProgress(J) /\ ~ AllVerified
      /\ cli.mode \in {"apply", "reconcile"}
      /\ J.state = "mutating" /\ StepState = "request_started"
      /\ cli.fence = owner.fence /\ cli.fence # 0
      /\ \A o \in Ops : Live(o) => o = Op
  BY <1>1, AskingKnown DEF Asking
<1>4. /\ cli.answer \in {"verified", "failed", "rejected", "lost"}
      /\ cli.answer \in {"verified", "failed"} => verdict[Op] = cli.answer
      /\ cli.answer = "rejected" => verdict[Op] = "absent" /\ ~ Live(Op)
  BY <1>1 DEF IInv, CommandFits
<1>5. Op \in Ops /\ cli \in Commands
  BY <1>3, Known
<1>6. Tame
  BY <1>1, QuietKeeps DEF IInv, NativeOK
<1>7. CASE cli.answer = "verified" /\ Write(J.state, "observed_success") /\ Goto("confirm")
  <2>1. Supported(Op) /\ ~ Live(Op)
    BY <1>4, <1>5, <1>7, VerifiedIsSupported DEF IInv
  <2>2. /\ cli' \in Commands /\ cli'.at = "confirm" /\ cli'.op = cli.op /\ cli'.mode = cli.mode
        /\ cli'.fence = cli.fence
    BY <1>3, <1>5, <1>7 DEF Goto, Commands, Points
  <2>3. /\ JournalOK /\ J'.state = "mutating"
        /\ Op' = Op /\ StepState' = "observed_success" /\ ~ AllVerified'
    BY <1>1, <1>3, <1>7, <2>1, <2>2, WriteKeeps DEF StepStates, StepMoves
  <2>4. \A o \in Ops : ~ Live(o)'
    BY <1>3, <1>6, <2>1 DEF Tame
  <2>5. Supported(Op)'
    BY <1>1, <1>5, <1>6, <2>1, <2>3, StepsStay
  <2>6. owner' = owner
    BY <1>1 DEF Quiet
  <2>7. CommandFits'
    BY <1>3, <2>2, <2>3, <2>4, <2>5, <2>6 DEF CommandFits, Calm, Asking, InProgress, Terminal
  <2>. QED
    BY <1>1, <1>3, <2>2, <2>3, <2>7, Known DEF StepOK
<1>8. CASE cli.answer = "verified" /\ Write("needs_recovery", "observed_success") /\ Goto("end")
  <2>1. ~ Live(Op)
    BY <1>4, <1>5, <1>8, VerifiedIsSupported DEF IInv
  <2>2. cli'.op = cli.op
    BY <1>5, <1>8 DEF Goto, Commands
  <2>3. JournalOK
    BY <1>1, <1>3, <1>8, <2>1, <2>2, WriteKeeps DEF StepStates, StepMoves, StateMoves
  <2>. QED
    BY <1>1, <1>3, <1>8, <2>3, EndingKeeps
<1>9. CASE Refused /\ Write(StateAfterFailure, FailedStep) /\ Goto("end")
  <2>1. ~ Live(Op) /\ effects[Op] = 0
    BY <1>4, <1>5, <1>9 DEF Refused, Live, IInv, NativeFits
  <2>2. cli'.op = cli.op
    BY <1>5, <1>9 DEF Goto, Commands
  <2>3. <<J.state, StateAfterFailure>> \in StateMoves /\ <<StepState, FailedStep>> \in StepMoves
    BY <1>3, AfterFailure DEF StateMoves, StepMoves, FailedStep
  <2>4. FailedStep = "observed_failure" /\ FailedStep \in StepStates
    BY DEF FailedStep, StepStates
  <2>5. JournalOK
    BY <1>1, <1>3, <1>9, <2>1, <2>2, <2>3, <2>4, AfterFailure, WriteKeeps
  <2>. QED
    BY <1>1, <1>3, <1>9, <2>5, EndingKeeps
<1>10. CASE Write("needs_recovery", "unknown") /\ Goto("end")
  <2>1. cli'.op = cli.op
    BY <1>5, <1>10 DEF Goto, Commands
  <2>2. JournalOK
    BY <1>1, <1>3, <1>10, <2>1, WriteKeeps DEF StepStates, StepMoves, StateMoves
  <2>. QED
    BY <1>1, <1>3, <1>10, <2>2, EndingKeeps
<1>. QED
  BY <1>2, <1>7, <1>8, <1>9, <1>10 DEF Outcome

LEMMA ReadBackAgainStep ==
    ASSUME IInv, ReadBackAgain, UNCHANGED kind
    PROVE  StepOK
<1>1. /\ cli.at = "look" /\ cli.mode = "resubmit"
      /\ UNCHANGED <<plan, receipt>> /\ Quiet
  BY DEF ReadBackAgain, At, Quiet, native
<1>2. /\ cli.op \in Attempts /\ InProgress(J) /\ ~ AllVerified
      /\ J.state = "needs_recovery" /\ StepState = "unknown"
      /\ cli.fence = owner.fence /\ cli.fence # 0
      /\ \A o \in Ops : Live(o) => o = Op
  BY <1>1, AskingKnown DEF Asking
<1>3. cli.answer \in {"verified", "failed"} => verdict[Op] = cli.answer
  BY <1>1 DEF IInv, CommandFits
<1>4. Op \in Ops /\ cli \in Commands
  BY <1>2, Known
<1>5. Tame
  BY <1>1, QuietKeeps DEF IInv, NativeOK
<1>6. CASE /\ cli.answer = "verified" /\ Write(J.state, "verified")
           /\ cli' = [cli EXCEPT !.at = "step", !.mode = "reconcile"]
  <2>1. Supported(Op) /\ ~ Live(Op)
    BY <1>3, <1>4, <1>6, VerifiedIsSupported DEF IInv
  <2>2. /\ cli' \in Commands /\ cli'.at = "step" /\ cli'.op = cli.op /\ cli'.mode = "reconcile"
        /\ cli'.fence = cli.fence
    BY <1>4, <1>6 DEF Commands, Points
  <2>3. JournalOK /\ J'.state = "needs_recovery"
    BY <1>1, <1>2, <1>6, <2>1, <2>2, WriteKeeps DEF StepStates, StepMoves
  <2>4. owner' = owner /\ \A o \in Ops : ~ Live(o)'
    BY <1>1, <1>2, <1>5, <2>1 DEF Tame, Quiet
  <2>5. CommandFits'
    BY <1>2, <2>2, <2>3, <2>4 DEF CommandFits, Calm, Asking, InProgress, Terminal
  <2>. QED
    BY <1>1, <1>2, <2>2, <2>3, <2>5, Known DEF StepOK
<1>7. CASE WriteState("needs_recovery") /\ Goto("end")
  <2>1. JournalOK
    BY <1>1, <1>2, <1>5, <1>7, WriteStateKeeps DEF OpStates
  <2>. QED
    BY <1>1, <1>2, <1>7, <2>1, EndingKeeps
<1>. QED
  BY <1>6, <1>7 DEF ReadBackAgain

LEMMA ConfirmStep ==
    ASSUME IInv, Confirm, UNCHANGED kind
    PROVE  StepOK
<1>1. /\ cli.at = "confirm" /\ Write(J.state, "verified") /\ cli' = [cli EXCEPT !.at = "step"]
      /\ UNCHANGED <<plan, receipt>> /\ Quiet
  BY DEF Confirm, Goto, Quiet, native
<1>2. /\ cli.op \in Attempts /\ InProgress(J) /\ ~ AllVerified /\ Supported(Op)
      /\ \/ cli.mode = "apply" /\ J.state = "mutating"
         \/ cli.mode = "reconcile"
      /\ StepState \in {"observed_success", "unknown"}
      /\ cli.fence = owner.fence /\ cli.fence # 0
      /\ \A o \in Ops : ~ Live(o)
  BY <1>1 DEF IInv, CommandFits, Calm
<1>3. J.state \in {"mutating", "needs_recovery"}
  BY <1>2, OpenStep
<1>4. Op \in Ops /\ cli \in Commands
  BY <1>2, Known
<1>5. Tame
  BY <1>1, QuietKeeps DEF IInv, NativeOK
<1>6. /\ cli' \in Commands /\ cli'.at = "step" /\ cli'.op = cli.op /\ cli'.mode = cli.mode
      /\ cli'.fence = cli.fence
  BY <1>1, <1>4 DEF Commands, Points
<1>7. <<StepState, "verified">> \in StepMoves
  BY <1>2 DEF StepMoves
<1>8. /\ JournalOK /\ J'.state = J.state
      /\ ~ AllVerified' => StepState' = "intent_recorded"
  BY <1>1, <1>2, <1>3, <1>4, <1>6, <1>7, WriteKeeps DEF StepStates
<1>9. owner' = owner /\ \A o \in Ops : ~ Live(o)'
  BY <1>1, <1>2, <1>5 DEF Tame, Quiet
<1>10. CommandFits'
  BY <1>2, <1>3, <1>6, <1>8, <1>9 DEF CommandFits, Calm, Asking, InProgress, Terminal
<1>. QED
  BY <1>1, <1>2, <1>6, <1>8, <1>10, Known DEF StepOK

LEMMA ReadStatusStep ==
    ASSUME IInv, ReadStatus, UNCHANGED kind
    PROVE  StepOK
<1>1. /\ cli.at = "step" /\ cli.mode = "reconcile" /\ ~ AllVerified
      /\ UNCHANGED <<journal, plan, receipt>> /\ Quiet
  BY DEF ReadStatus, At, Quiet, native
<1>2. /\ cli.op \in Attempts /\ InProgress(J)
      /\ cli.fence = owner.fence /\ cli.fence # 0
      /\ \A o \in Ops : ~ Live(o)
  BY <1>1 DEF IInv, CommandFits, Calm
<1>3. Op \in Ops /\ cli \in Commands /\ StepState \in StepStates
  BY <1>1, <1>2, Known
<1>4. Tame
  BY <1>1, QuietKeeps DEF IInv, NativeOK
<1>5. JournalOK
  BY <1>1, <1>4, JournalsKeep
<1>6. CASE StepState = "observed_failure"
  BY <1>1, <1>2, <1>5, <1>6, EndingKeeps DEF ReadStatus
<1>7. CASE StepState # "observed_failure"
  <2>1. PICK answer : answer = IF StepState = "intent_recorded" THEN "none" ELSE verdict[Op]
    OBVIOUS
  <2>2. answer \in Native!Verdicts \cup {"none"}
    BY <1>3, <2>1 DEF IInv, TypeOK
  <2>3. cli' = [cli EXCEPT !.at = "classify", !.answer = answer]
    BY <1>7, <2>1 DEF ReadStatus
  <2>4. /\ cli' \in Commands /\ cli'.at = "classify" /\ cli'.op = cli.op /\ cli'.mode = cli.mode
        /\ cli'.fence = cli.fence /\ cli'.answer = answer
    BY <1>3, <2>2, <2>3 DEF Commands, Points
  <2>5. /\ J' = J /\ Op' = Op /\ StepState' = StepState
        /\ AllVerified' <=> AllVerified
    BY <1>1, <2>4, SameHere
  <2>6. owner' = owner /\ verdict' = verdict /\ \A o \in Ops : ~ Live(o)'
    BY <1>1, <1>2, <1>4 DEF Tame, Quiet
  <2>7. CommandFits'
    BY <1>1, <1>2, <1>7, <2>1, <2>4, <2>5, <2>6 DEF CommandFits, Calm, Asking, InProgress
  <2>. QED
    BY <1>1, <1>2, <1>5, <2>4, <2>7, Known DEF StepOK
<1>. QED
  BY <1>6, <1>7

\* A collection that reads as expected shows an effect.
LEMMA ExpectedIsSupported ==
    ASSUME TypeOK, CollectionFits, NEW o \in Ops, ReadStep(o) = "expected"
    PROVE  Supported(o)
<1>1. Place(o) \in Places /\ Place(o)[2] = o[2]
  BY DEF Places, Place, Ops
<1>2. col[Place(o)] = "desired" /\ Pre(Place(o)[2]) # "desired"
  BY <1>1 DEF ReadStep
<1>3. PICK p \in Ops : effects[p] = 1 /\ Place(p) = Place(o)
  BY <1>1, <1>2 DEF CollectionFits
<1>4. p = <<p[1], p[2]>> /\ p[1] \in Attempts /\ Place(p)[2] = p[2]
  BY DEF Ops, Place
<1>5. p = <<p[1], o[2]>>
  BY <1>1, <1>3, <1>4
<1>. QED
  BY <1>3, <1>4, <1>5 DEF Supported

LEMMA ClassifyStep ==
    ASSUME IInv, Classify, UNCHANGED kind
    PROVE  StepOK
<1>. DEFINE view == ReadStep(Op)
            action == EvidenceAction(cli.answer, view, StepState)
<1>1. /\ cli.at = "classify" /\ UNCHANGED <<plan, receipt>> /\ Quiet
  BY DEF Classify, Quiet, native
<1>2. /\ cli.op \in Attempts /\ InProgress(J)
      /\ cli.mode = "reconcile" /\ ~ AllVerified
      /\ StepState # "observed_failure"
      /\ cli.answer = IF StepState = "intent_recorded" THEN "none" ELSE verdict[Op]
      /\ cli.fence = owner.fence /\ cli.fence # 0
      /\ \A o \in Ops : ~ Live(o)
  BY <1>1 DEF IInv, CommandFits, Calm
<1>3. /\ Op \in Ops /\ cli \in Commands
      /\ StepState \in StepStates \ {"verified", "observed_failure"}
  BY <1>2, Known
<1>4. /\ verdict[Op] \in Native!Verdicts
      /\ cli.answer = "none" <=> StepState = "intent_recorded"
  BY <1>2, <1>3 DEF IInv, TypeOK, Native!Verdicts
<1>5. Tame
  BY <1>1, QuietKeeps DEF IInv, NativeOK
<1>6. owner' = owner /\ verdict' = verdict /\ \A o \in Ops : ~ Live(o)'
  BY <1>1, <1>2, <1>5 DEF Tame, Quiet
<1>. HIDE DEF view, action

\* A started request is recorded as unknown first.
<1>7. ASSUME MarkUnknownIfStarted, cli'.op = cli.op, StepState # "intent_recorded"
      PROVE  /\ JournalOK /\ InProgress(J)' /\ Op' = Op /\ ~ AllVerified'
             /\ StepState \in {"request_started", "unknown"} => StepState' = "unknown"
             /\ StepState \notin {"request_started", "unknown"} => StepState' = StepState
  <2>1. CASE StepState = "request_started"
    <3>1. Write("needs_recovery", "unknown") /\ <<StepState, "unknown">> \in StepMoves
      BY <1>7, <2>1 DEF MarkUnknownIfStarted, StepMoves
    <3>2. J.state \in {"mutating", "needs_recovery"}
      BY <1>2, <2>1, OpenStep
    <3>3. J.state = "needs_recovery" \/ <<J.state, "needs_recovery">> \in StateMoves
      BY <3>2 DEF StateMoves
    <3>4. JournalOK /\ Op' = Op /\ ~ AllVerified' /\ StepState' = "unknown" /\ J'.state = "needs_recovery"
      BY <1>1, <1>2, <1>7, <3>1, <3>3, WriteKeeps DEF StepStates
    <3>. QED
      BY <2>1, <3>4 DEF InProgress, Terminal
  <2>2. CASE StepState # "request_started"
    <3>1. UNCHANGED journal
      BY <2>2, <1>7 DEF MarkUnknownIfStarted
    <3>2. /\ J' = J /\ Op' = Op /\ StepState' = StepState
          /\ AllVerified' <=> AllVerified
      BY <1>1, <1>7, <3>1, SameHere
    <3>3. JournalOK
      BY <1>1, <1>5, <3>1, JournalsKeep
    <3>4. InProgress(J)' /\ ~ AllVerified'
      BY <1>2, <3>2 DEF InProgress
    <3>. QED
      BY <2>2, <3>2, <3>3, <3>4
  <2>. QED
    BY <2>1, <2>2

<1>8. ASSUME action = "adopt", MarkUnknownIfStarted, Goto("confirm")
      PROVE  StepOK
  <2>1. view = "expected" /\ StepState # "intent_recorded"
    BY <1>4, <1>8 DEF action, EvidenceAction
  <2>2. Supported(Op)
    BY <1>3, <2>1, ExpectedIsSupported DEF IInv, view
  <2>3. /\ cli' \in Commands /\ cli'.at = "confirm" /\ cli'.op = cli.op /\ cli'.mode = "reconcile"
        /\ cli'.fence = cli.fence
    BY <1>2, <1>3, <1>8 DEF Goto, Commands, Points
  <2>4. /\ JournalOK /\ InProgress(J)' /\ Op' = Op /\ ~ AllVerified'
        /\ StepState' \in {"unknown", "observed_success"}
    BY <1>3, <1>7, <1>8, <2>1, <2>3 DEF StepStates
  <2>5. Supported(Op)'
    BY <1>1, <1>3, <1>5, <2>2, <2>4, StepsStay
  <2>6. CommandFits'
    BY <1>2, <1>6, <2>3, <2>4, <2>5 DEF CommandFits, Calm, Asking
  <2>. QED
    BY <1>1, <1>2, <2>3, <2>4, <2>6, Known DEF StepOK
<1>9. ASSUME action = "record_failure", MarkUnknownIfStarted, Goto("settle")
      PROVE  StepOK
  <2>1. cli.answer = "failed" /\ StepState \in {"request_started", "unknown"}
    BY <1>9 DEF action, EvidenceAction
  <2>2. verdict[Op] = "failed"
    BY <1>2, <2>1
  <2>3. /\ cli' \in Commands /\ cli'.at = "settle" /\ cli'.op = cli.op /\ cli'.mode = "reconcile"
        /\ cli'.fence = cli.fence
    BY <1>2, <1>3, <1>9 DEF Goto, Commands, Points
  <2>4. /\ JournalOK /\ InProgress(J)' /\ Op' = Op /\ ~ AllVerified'
        /\ StepState' = "unknown"
    BY <1>7, <1>9, <2>1, <2>3
  <2>5. CommandFits'
    BY <1>2, <1>6, <2>2, <2>3, <2>4 DEF CommandFits, Calm, Asking
  <2>. QED
    BY <1>1, <1>2, <2>3, <2>4, <2>5, Known DEF StepOK
<1>10. ASSUME action = "resubmit", MarkUnknownIfStarted,
              cli' = [cli EXCEPT !.at = "send", !.mode = "resubmit"]
       PROVE  StepOK
  <2>1. StepState \in {"request_started", "unknown"}
    BY <1>10 DEF action, EvidenceAction
  <2>2. /\ cli' \in Commands /\ cli'.at = "send" /\ cli'.op = cli.op /\ cli'.mode = "resubmit"
        /\ cli'.fence = cli.fence
    BY <1>3, <1>10 DEF Commands, Points
  <2>3. /\ JournalOK /\ InProgress(J)' /\ ~ AllVerified' /\ StepState' = "unknown"
    BY <1>7, <1>10, <2>1, <2>2
  <2>4. CommandFits'
    BY <1>2, <1>6, <2>2, <2>3 DEF CommandFits, Calm, Asking
  <2>. QED
    BY <1>1, <1>2, <2>2, <2>3, <2>4, Known DEF StepOK
<1>11. ASSUME MarkUnknownIfStarted, Goto("end")
       PROVE  StepOK
  <2>1. cli'.op = cli.op
    BY <1>3, <1>11 DEF Goto, Commands
  <2>2. JournalOK
    <3>1. CASE StepState = "intent_recorded"
      BY <1>1, <1>5, <1>11, <3>1, JournalsKeep DEF MarkUnknownIfStarted
    <3>. QED
      BY <1>7, <1>11, <2>1, <3>1
  <2>. QED
    BY <1>1, <1>2, <1>11, <2>2, EndingKeeps
<1>12. action = "dispatch" => StepState = "intent_recorded"
  BY <1>4 DEF action, EvidenceAction
<1>13. ASSUME action = "dispatch", J.state \in {"needs_recovery", "checkpointed", "mutating"},
              Write("mutating", "request_started"), Goto("send")
       PROVE  StepOK
  <2>1. /\ cli' \in Commands /\ cli'.at = "send" /\ cli'.op = cli.op /\ cli'.mode = "reconcile"
        /\ cli'.fence = cli.fence
    BY <1>2, <1>3, <1>13 DEF Goto, Commands, Points
  <2>2. /\ J.state = "mutating" \/ <<J.state, "mutating">> \in StateMoves
        /\ <<StepState, "request_started">> \in StepMoves
    BY <1>12, <1>13 DEF StateMoves, StepMoves
  <2>3. /\ JournalOK /\ J'.state = "mutating"
        /\ StepState' = "request_started" /\ ~ AllVerified'
    BY <1>1, <1>2, <1>13, <2>1, <2>2, WriteKeeps DEF StepStates
  <2>4. CommandFits'
    BY <1>2, <1>6, <2>1, <2>3 DEF CommandFits, Calm, Asking, InProgress, Terminal
  <2>. QED
    BY <1>1, <1>2, <2>1, <2>3, <2>4, Known DEF StepOK
<1>14. ASSUME action = "dispatch", J.state \notin {"needs_recovery", "checkpointed", "mutating"},
              WriteState("failed_before_write"), Goto("end")
       PROVE  StepOK
  <2>1. J.state \in {"prepared", "preflight"}
    BY <1>2, <1>14, OpenStep, Known DEF InProgress, Terminal, OpStates, StateFits
  <2>2. /\ AllIn(J, {"intent_recorded", "observed_failure"}) /\ In(J, {"unknown"}) = {}
        /\ <<J.state, "failed_before_write">> \in StateMoves
    BY <1>2, <2>1, Known DEF StateFits, AllIn, In, StateMoves
  <2>3. JournalOK
    BY <1>1, <1>2, <1>5, <1>14, <2>2, WriteStateKeeps DEF OpStates
  <2>. QED
    BY <1>1, <1>2, <1>14, <2>3, EndingKeeps
<1>. QED
  <2>1. \/ action = "adopt" /\ MarkUnknownIfStarted /\ Goto("confirm")
        \/ action = "record_failure" /\ MarkUnknownIfStarted /\ Goto("settle")
        \/ /\ action = "resubmit" /\ MarkUnknownIfStarted
           /\ cli' = [cli EXCEPT !.at = "send", !.mode = "resubmit"]
        \/ MarkUnknownIfStarted /\ Goto("end")
        \/ /\ action = "dispatch" /\ J.state \in {"needs_recovery", "checkpointed", "mutating"}
           /\ Write("mutating", "request_started") /\ Goto("send")
        \/ /\ action = "dispatch" /\ J.state \notin {"needs_recovery", "checkpointed", "mutating"}
           /\ WriteState("failed_before_write") /\ Goto("end")
    BY Zenon DEF Classify, action, view
  <2>. QED
    BY <1>8, <1>9, <1>10, <1>11, <1>13, <1>14, <2>1

LEMMA SettleStep ==
    ASSUME IInv, Settle, UNCHANGED kind
    PROVE  StepOK
<1>1. /\ cli.at = "settle" /\ Write(StateAfterFailure, FailedStep) /\ Goto("end")
      /\ UNCHANGED <<plan, receipt>> /\ Quiet
  BY DEF Settle, Quiet, native
<1>2. /\ cli.op \in Attempts /\ InProgress(J) /\ ~ AllVerified
      /\ StepState = "unknown" /\ verdict[Op] = "failed"
      /\ \A o \in Ops : ~ Live(o)
  BY <1>1 DEF IInv, CommandFits, Calm
<1>3. Op \in Ops /\ cli \in Commands /\ J.state = "needs_recovery"
  BY <1>2, Known, OpenStep
<1>4. cli'.op = cli.op
  BY <1>1, <1>3 DEF Goto, Commands
<1>5. ~ Live(Op) /\ effects[Op] = 0
  BY <1>2, <1>3 DEF IInv, NativeFits
<1>6. /\ J.state = StateAfterFailure \/ <<J.state, StateAfterFailure>> \in StateMoves
      /\ <<StepState, FailedStep>> \in StepMoves
  BY <1>2, <1>3, AfterFailure DEF StateMoves, StepMoves, FailedStep
<1>7. FailedStep = "observed_failure" /\ FailedStep \in StepStates
  BY DEF FailedStep, StepStates
<1>8. JournalOK
  BY <1>1, <1>2, <1>4, <1>5, <1>6, <1>7, AfterFailure, WriteKeeps
<1>. QED
  BY <1>1, <1>2, <1>8, EndingKeeps

LEMMA FinalReadBackStep ==
    ASSUME IInv, FinalReadBack, UNCHANGED kind
    PROVE  StepOK
<1>1. /\ cli.at = "step" /\ AllVerified /\ UNCHANGED <<plan, receipt>> /\ Quiet
      /\ \/ WriteState("verifying") /\ cli' = [cli EXCEPT !.at = "receipt"]
         \/ WriteState("needs_recovery") /\ cli' = Idle
  BY DEF FinalReadBack, Goto, Quiet, native
<1>2. /\ cli.op \in Attempts /\ InProgress(J)
      /\ cli.fence = owner.fence /\ cli.fence # 0
      /\ \A o \in Ops : ~ Live(o)
  BY <1>1 DEF IInv, CommandFits, Calm
<1>3. /\ cli \in Commands /\ StateFits(J) /\ AllIn(J, {"verified"})
      /\ J.state \in OpStates \cup {"none"}
  BY <1>1, <1>2, Known
<1>4. DOMAIN J.steps # {}
  <2>1. J.steps # <<>>
    BY <1>2, <1>3 DEF InProgress, StateFits
  <2>2. J.steps \in [1..NSteps(cli.op) -> StepStates] /\ NSteps(cli.op) \in Nat
    BY <1>2, JournalType DEF IInv, J
  <2>3. NSteps(cli.op) # 0
    BY <2>1, <2>2
  <2>4. DOMAIN J.steps = 1..NSteps(cli.op) /\ 1 \in 1..NSteps(cli.op)
    BY <2>2, <2>3
  <2>. QED
    BY <2>4
<1>5. J.state \in {"mutating", "verifying", "needs_recovery"} /\ In(J, {"unknown"}) = {}
  BY <1>2, <1>3, <1>4 DEF InProgress, Terminal, OpStates, StateFits, AllIn, In
<1>6. Tame
  BY <1>1, QuietKeeps DEF IInv, NativeOK
<1>7. CASE WriteState("verifying") /\ cli' = [cli EXCEPT !.at = "receipt"]
  <2>1. /\ cli' \in Commands /\ cli'.at = "receipt" /\ cli'.op = cli.op /\ cli'.fence = cli.fence
    BY <1>3, <1>7 DEF Commands, Points
  <2>2. JournalOK /\ J'.state = "verifying"
    BY <1>1, <1>2, <1>3, <1>5, <1>6, <1>7, <2>1, WriteStateKeeps DEF OpStates, StateMoves
  <2>3. owner' = owner /\ \A o \in Ops : ~ Live(o)'
    BY <1>1, <1>2, <1>6 DEF Tame, Quiet
  <2>4. CommandFits'
    BY <1>2, <2>1, <2>2, <2>3 DEF CommandFits, Calm, Asking, InProgress, Terminal
  <2>. QED
    BY <1>1, <1>2, <2>1, <2>2, <2>4, Known DEF StepOK
<1>8. CASE WriteState("needs_recovery") /\ cli' = Idle
  <2>1. JournalOK
    BY <1>1, <1>2, <1>5, <1>6, <1>8, WriteStateKeeps DEF OpStates, StateMoves
  <2>. QED
    BY <1>1, <1>2, <1>8, <2>1, IdleKeeps, Known
<1>. QED
  BY <1>1, <1>7, <1>8

LEMMA SaveReceiptStep ==
    ASSUME IInv, SaveReceipt, UNCHANGED kind
    PROVE  StepOK
<1>1. /\ cli.at = "receipt" /\ receipt' = [receipt EXCEPT ![cli.op] = TRUE]
      /\ cli' = [cli EXCEPT !.at = "close"] /\ UNCHANGED <<journal, plan>> /\ Quiet
  BY DEF SaveReceipt, Goto, Quiet, native
<1>2. /\ cli.op \in Attempts /\ InProgress(J) /\ J.state = "verifying"
      /\ cli.fence = owner.fence /\ cli.fence # 0
      /\ \A o \in Ops : ~ Live(o)
  BY <1>1 DEF IInv, CommandFits, Calm
<1>3. cli \in Commands /\ receipt \in [Attempts -> BOOLEAN]
  BY <1>2, Known
<1>4. /\ receipt' \in [Attempts -> BOOLEAN] /\ receipt'[cli.op]
      /\ \A a \in Attempts : receipt[a] => receipt'[a]
  BY <1>1, <1>2, <1>3
<1>5. Tame
  BY <1>1, QuietKeeps DEF IInv, NativeOK
<1>6. JournalOK
  BY <1>1, <1>4, <1>5, JournalsKeep
<1>7. cli' \in Commands /\ cli'.at = "close" /\ cli'.op = cli.op /\ cli'.fence = cli.fence
  BY <1>1, <1>3 DEF Commands, Points
<1>8. J' = J
  BY <1>1, <1>7, SameHere
<1>9. owner' = owner /\ \A o \in Ops : ~ Live(o)'
  BY <1>1, <1>2, <1>5 DEF Tame, Quiet
<1>10. CommandFits'
  BY <1>2, <1>4, <1>7, <1>8, <1>9 DEF CommandFits, Calm, Asking, InProgress
<1>. QED
  BY <1>4, <1>6, <1>7, <1>10 DEF StepOK

LEMMA CloseStep ==
    ASSUME IInv, Close, UNCHANGED kind
    PROVE  StepOK
<1>1. /\ cli.at = "close" /\ WriteState("committed") /\ Goto("end")
      /\ UNCHANGED <<plan, receipt>> /\ Quiet
  BY DEF Close, Quiet, native
<1>2. cli.op \in Attempts /\ InProgress(J) /\ J.state = "verifying" /\ receipt[cli.op]
  BY <1>1 DEF IInv, CommandFits
<1>3. AllIn(J, {"verified"}) /\ In(J, {"unknown"}) = {}
  BY <1>2, Known DEF StateFits, AllIn, In
<1>4. Tame
  BY <1>1, QuietKeeps DEF IInv, NativeOK
<1>5. JournalOK
  BY <1>1, <1>2, <1>3, <1>4, WriteStateKeeps DEF OpStates, StateMoves
<1>. QED
  BY <1>1, <1>2, <1>5, EndingKeeps

\* A command that ends leaves the journals as they are.
LEMMA LeavingStep ==
    ASSUME IInv, End \/ Stop, UNCHANGED kind
    PROVE  StepOK
<1>1. /\ cli' = Idle /\ UNCHANGED <<journal, plan, receipt>>
      /\ receipt \in [Attempts -> BOOLEAN]
  BY DEF End, Stop, IInv, TypeOK
<1>2. Tame
  <2>1. CASE End
    BY <2>1, EndKeeps DEF IInv, NativeOK
  <2>2. CASE Stop
    <3>1. Quiet
      BY <2>2 DEF Stop, Quiet, native
    <3>. QED
      BY <3>1, QuietKeeps DEF IInv, NativeOK
  <2>. QED
    BY <2>1, <2>2
<1>3. JournalOK
  BY <1>1, <1>2, JournalsKeep
<1>. QED
  BY <1>1, <1>3, IdleKeeps

\* What the companion and the user do takes nothing a command knows away.
LEMMA AnkiStep ==
    ASSUME IInv, Anki \/ UNCHANGED vars, UNCHANGED kind
    PROVE  StepOK
<1>1. UNCHANGED <<journal, plan, receipt, cli, owner>> /\ Tame
  <2>1. UNCHANGED <<journal, plan, receipt, cli, owner>> /\ [Next]_vars
    <3>1. ASSUME NEW r \in wire, Deliver(r) PROVE UNCHANGED <<journal, plan, receipt, cli, owner>>
      BY <3>1 DEF Deliver, Native!Accept
    <3>2. ASSUME NEW o \in Ops, TakeEffect(o) PROVE UNCHANGED <<journal, plan, receipt, cli, owner>>
      BY <3>2 DEF TakeEffect, Native!TakeEffect
    <3>3. ASSUME NEW o \in Ops, Judge(o) PROVE UNCHANGED <<journal, plan, receipt, cli, owner>>
      BY <3>3 DEF Judge, Native!Judge
    <3>4. ASSUME NewSession PROVE UNCHANGED <<journal, plan, receipt, cli, owner>>
      BY <3>4 DEF NewSession, Native!SessionChange
    <3>5. ASSUME NEW p \in Places, Edit(p) PROVE UNCHANGED <<journal, plan, receipt, cli, owner>>
      BY <3>5 DEF Edit, native
    <3>6. ASSUME UNCHANGED vars PROVE UNCHANGED <<journal, plan, receipt, cli, owner>>
      BY <3>6 DEF vars, native
    <3>7. [Next]_vars
      BY DEF Next
    <3>. QED
      BY <3>1, <3>2, <3>3, <3>4, <3>5, <3>6, <3>7 DEF Anki
  <2>2. CASE Send
    <3>1. cli.at = "send" /\ cli' = [cli EXCEPT !.at = "wait"] /\ cli \in Commands
      BY <2>2 DEF Send, Goto, IInv, TypeOK, Commands
    <3>2. cli'.at = "wait"
      BY <3>1 DEF Commands
    <3>. QED
      BY <2>1, <3>1, <3>2
  <2>. QED
    BY <2>1, <2>2, NativeStep DEF NativeOK
<1>2. JournalOK
  BY <1>1, JournalsKeep
<1>3. cli \in Commands /\ receipt \in [Attempts -> BOOLEAN] /\ verdict \in [Ops -> Native!Verdicts]
  BY DEF IInv, TypeOK, Commands
<1>4. /\ J' = J /\ Op' = Op /\ StepState' = StepState
      /\ AllVerified' <=> AllVerified
  BY <1>1, SameHere
<1>5. CommandFits
  BY DEF IInv
<1>6. cli.at \in {"look", "classify", "settle", "confirm"} => cli.op \in Attempts /\ Op \in Ops
  BY <1>5, Known DEF CommandFits, Asking
<1>7. \A o \in Ops : Live(o)' => Live(o)
  BY <1>1 DEF Tame
<1>8. \A o \in Ops : ~ Live(o) => verdict'[o] = verdict[o]
  BY <1>1 DEF Tame
<1>9. cli.at = "confirm" => Supported(Op)'
  BY <1>1, <1>4, <1>5, <1>6, StepsStay DEF CommandFits
<1>10. cli.at = "look" => /\ cli.answer \in {"verified", "failed"} => verdict'[Op] = cli.answer
                          /\ cli.answer = "rejected" => verdict'[Op] = "absent" /\ ~ Live(Op)'
  <2>. SUFFICES ASSUME cli.at = "look"
                PROVE  /\ cli.answer \in {"verified", "failed"} => verdict'[Op] = cli.answer
                       /\ cli.answer = "rejected" => verdict'[Op] = "absent" /\ ~ Live(Op)'
    OBVIOUS
  <2>1. /\ cli.answer \in {"verified", "failed"} => verdict[Op] = cli.answer
        /\ cli.answer = "rejected" => verdict[Op] = "absent" /\ ~ Live(Op)
    BY <1>5 DEF CommandFits
  <2>2. PICK o \in Ops : o = Op
    BY <1>6
  <2>3. cli.answer \in {"verified", "failed"} => ~ Live(o)
    BY <2>1, <2>2 DEF Live
  <2>4. cli.answer = "rejected" => verdict'[o] = "absent" /\ ~ Live(o)'
    BY <1>7, <1>8, <2>1, <2>2
  <2>. QED
    BY <1>4, <1>8, <2>1, <2>2, <2>3, <2>4
<1>11. cli.at \in {"classify", "settle"} => verdict'[Op] = verdict[Op]
  BY <1>5, <1>6, <1>8 DEF CommandFits, Calm
<1>12. cli.at \in Calm => \A o \in Ops : ~ Live(o)'
  BY <1>5, <1>7 DEF CommandFits
<1>13. cli.at \in {"wait", "look"} => \A o \in Ops : Live(o)' => o = Op
  BY <1>5, <1>7 DEF CommandFits
<1>14. CommandFits'
  <2>. USE <1>1, <1>4, <1>5
  <2>1. /\ cli.at # "idle" => cli.op \in Attempts
        /\ cli.at \notin {"idle", "end"} => InProgress(J)'
        /\ cli.at \in Calm \cup {"wait", "look"} => cli.fence = owner'.fence /\ cli.fence # 0
    BY DEF CommandFits, InProgress
  <2>2. /\ cli.at = "opened" => cli.mode = "apply" /\ J'.state = "prepared"
        /\ cli.at = "begin" =>
             \/ cli.mode = "apply" /\ J'.state = "preflight"
             \/ cli.mode = "reconcile"
        /\ cli.at = "checkpoint" => cli.mode = "apply" /\ J'.state = "preflight"
        /\ cli.at = "step" =>
             \/ /\ cli.mode = "apply" /\ J'.state \in {"checkpointed", "mutating"}
                /\ ~ AllVerified' => StepState' = "intent_recorded"
             \/ cli.mode = "reconcile"
    BY DEF CommandFits
  <2>3. cli.at \in Asking =>
          /\ ~ AllVerified'
          /\ \/ /\ cli.mode \in {"apply", "reconcile"}
                /\ J'.state = "mutating" /\ StepState' = "request_started"
             \/ cli.mode = "resubmit" /\ StepState' = "unknown"
    BY DEF CommandFits
  <2>4. cli.at = "look" => cli.answer \in {"verified", "failed", "rejected", "lost"}
    BY DEF CommandFits
  <2>5. cli.at = "confirm" =>
          /\ ~ AllVerified' /\ Supported(Op)'
          /\ \/ cli.mode = "apply" /\ J'.state = "mutating" /\ StepState' = "observed_success"
             \/ cli.mode = "reconcile" /\ StepState' \in {"observed_success", "unknown"}
    BY <1>9 DEF CommandFits
  <2>6. cli.at = "classify" =>
          /\ cli.mode = "reconcile" /\ ~ AllVerified'
          /\ StepState' # "observed_failure"
          /\ cli.answer = IF StepState' = "intent_recorded" THEN "none" ELSE verdict'[Op']
    BY <1>11 DEF CommandFits
  <2>7. cli.at = "settle" =>
          /\ cli.mode = "reconcile" /\ ~ AllVerified'
          /\ StepState' = "unknown" /\ verdict'[Op'] = "failed"
    BY <1>11 DEF CommandFits
  <2>8. /\ cli.at \in {"receipt", "close"} => J'.state = "verifying"
        /\ cli.at = "close" => receipt[cli.op]
    BY DEF CommandFits
  <2>. QED
    BY <1>10, <1>12, <1>13, <2>1, <2>2, <2>3, <2>4, <2>5, <2>6, <2>7, <2>8
       DEF CommandFits, Calm, Asking
<1>. QED
  BY <1>1, <1>2, <1>3, <1>14 DEF StepOK

-----------------------------------------------------------------------------
(* The theorems                                                            *)

LEMMA EveryStep ==
    ASSUME IInv, [Next]_vars
    PROVE  StepOK
<1>1. UNCHANGED kind
  BY DEF Next, vars
<1>2. ASSUME Command PROVE StepOK
  <2>1. ASSUME NEW a \in Attempts, StartApply(a) \/ StartReconcile(a) PROVE StepOK
    BY <1>1, <2>1, StartApplyStep, StartReconcileStep
  <2>2. CASE EnterPreflight \/ Begin \/ BeginFails \/ EnterCheckpointed
    BY <1>1, <2>2, EnterPreflightStep, BeginStep, BeginFailsStep, EnterCheckpointedStep
  <2>3. CASE StartRequest \/ Send \/ Wait \/ ReadBack \/ ReadBackAgain \/ Confirm
    BY <1>1, <2>3, StartRequestStep, SendStep, WaitStep, ReadBackStep, ReadBackAgainStep, ConfirmStep
  <2>4. CASE ReadStatus \/ Classify \/ Settle
    BY <1>1, <2>4, ReadStatusStep, ClassifyStep, SettleStep
  <2>5. CASE FinalReadBack \/ SaveReceipt \/ Close \/ End \/ Stop
    BY <1>1, <2>5, FinalReadBackStep, SaveReceiptStep, CloseStep, LeavingStep
  <2>. QED
    BY <1>2, <2>1, <2>2, <2>3, <2>4, <2>5 DEF Command
<1>. QED
  BY <1>1, <1>2, AnkiStep DEF Next

LEMMA TypeParts ==
    TypeOK <=>
      /\ kind \in Kinds
      /\ JournalTypeOK
      /\ receipt \in [Attempts -> BOOLEAN]
      /\ cli \in Commands
      /\ wire \subseteq [op : Ops, fence : 1..MaxFence]
      /\ col \in [Places -> Contents]
      /\ edits \in 0..MaxEdits
      /\ NativeTypeOK
BY DEF TypeOK, JournalTypeOK, NativeTypeOK, Commands, Journals

LEMMA Initially == Init => IInv
<1>. SUFFICES ASSUME Init PROVE IInv
  OBVIOUS
<1>1. NoJournal.state = "none" /\ NoJournal.steps = <<>> /\ DOMAIN NoJournal.steps = {}
  BY DEF NoJournal
<1>2. \A a \in Attempts : journal[a] = NoJournal /\ plan[a] = <<>> /\ DOMAIN plan[a] = {}
  BY DEF Init
<1>3. TypeOK
  <2>1. JournalTypeOK
    <3>1. <<>> \in [{} -> Targets]
      OBVIOUS
    <3>. QED
      BY <1>1, <1>2, <3>1 DEF Init, JournalTypeOK, Journals
  <2>2. \A p \in Places : Pre(p[2]) \in Contents
    BY DEF Pre, Contents
  <2>3. cli \in Commands
    BY IdleType DEF Init
  <2>4. NativeTypeOK
    BY DEF Init, NativeTypeOK, Native!Verdicts
  <2>. QED
    BY <2>1, <2>2, <2>3, <2>4, TypeParts DEF Init
<1>4. NativeFits
  BY DEF Init, NativeFits
<1>5. CollectionFits
  BY DEF Init, CollectionFits
<1>6. PlanFits
  <2>1. plan = [a \in Attempts |-> plan[a]]
    BY DEF Init
  <2>. QED
    BY <1>2, <2>1 DEF PlanFits
<1>7. JournalFits
  BY <1>1, <1>2 DEF JournalFits, Shape, StateFits, AllIn, In
<1>8. OnlyPlanned
  BY DEF Init, OnlyPlanned, Untouched
<1>9. CommandFits
  BY IdleType DEF Init, CommandFits, Calm, Asking
<1>. QED
  BY <1>3, <1>4, <1>5, <1>6, <1>7, <1>8, <1>9 DEF IInv

LEMMA Inductive == IInv /\ [Next]_vars => IInv'
<1>. SUFFICES ASSUME IInv, [Next]_vars PROVE IInv'
  OBVIOUS
<1>1. StepOK
  BY EveryStep
<1>2. NativeTypeOK' /\ NativeFits' /\ wire' \subseteq [op : Ops, fence : 1..MaxFence]
  <2>1. wire \subseteq [op : Ops, fence : 1..MaxFence]
    BY DEF IInv, TypeOK
  <2>. QED
    BY <2>1, SendKeeps, NativeStep DEF NativeOK
<1>3. /\ col' \in [Places' -> Contents] /\ edits' \in 0..MaxEdits
      /\ CollectionFits'
  BY CollectionStep
<1>4. kind' \in Kinds
  BY DEF IInv, TypeOK, Next, vars
<1>5. TypeOK'
  <2>1. /\ kind' \in Kinds
        /\ JournalTypeOK'
        /\ receipt' \in [Attempts -> BOOLEAN]
        /\ cli' \in Commands
        /\ wire' \subseteq [op : Ops, fence : 1..MaxFence]
        /\ col' \in [Places' -> Contents]
        /\ edits' \in 0..MaxEdits
        /\ NativeTypeOK'
    BY <1>1, <1>2, <1>3, <1>4 DEF StepOK, JournalOK
  <2>. QED
    BY <2>1 DEF TypeOK, JournalTypeOK, NativeTypeOK, Commands, Journals
<1>. QED
  BY <1>1, <1>2, <1>3, <1>5 DEF IInv, StepOK, JournalOK

\* The invariant the other theorems rest on.
THEOREM Invariant == Spec => []IInv
<1>. QED
  BY Initially, Inductive, PTL DEF Spec

\* Every variable of the driver, the recovery, the companion and the collection
\* keeps its type.
THEOREM TypeCorrect == Spec => []TypeOK
<1>1. IInv => TypeOK
  BY DEF IInv
<1>. QED
  BY <1>1, Invariant, PTL

\* What was sent, or had an effect, is a step of its attempt's plan; the step is
\* recorded as started.
LEMMA SentIsPlanned ==
    ASSUME IInv, NEW o \in Ops, ~ Untouched(o)
    PROVE  \E k \in DOMAIN plan[o[1]] :
             /\ o = OpAt(o[1], k)
             /\ StepFits(o[1], k)
             /\ k \in DOMAIN journal[o[1]].steps
             /\ journal[o[1]].steps[k] \in StepStates \ {"intent_recorded"}
<1>. DEFINE a == o[1]
<1>1. a \in Attempts /\ o = <<o[1], o[2]>>
  BY DEF Ops
<1>2. PICK k \in DOMAIN plan[a] : plan[a][k] = o[2]
  BY <1>1 DEF IInv, OnlyPlanned
<1>3. o = OpAt(a, k) /\ StepFits(a, k)
  BY <1>1, <1>2 DEF OpAt, IInv, JournalFits
<1>4. /\ DOMAIN plan[a] = DOMAIN journal[a].steps
      /\ journal[a].steps \in [DOMAIN journal[a].steps -> StepStates]
  BY <1>1, JournalType DEF IInv
<1>5. journal[a].steps[k] # "intent_recorded"
  BY <1>3 DEF StepFits
<1>. QED
  BY <1>2, <1>3, <1>4, <1>5

\* An operation that changed the collection is committed or pending, at every
\* point where a command may have died.
THEOREM Accounted == Spec => []EffectsAreAccounted
<1>1. ASSUME IInv, NEW o \in Ops, effects[o] > 0
      PROVE  journal[o[1]].state = "committed" \/ Pending(journal[o[1]])
  <2>. DEFINE j == journal[o[1]]
  <2>1. ~ Untouched(o)
    BY <1>1 DEF Untouched
  <2>2. PICK k \in DOMAIN j.steps :
          /\ o = OpAt(o[1], k) /\ StepFits(o[1], k)
          /\ j.steps[k] \in StepStates \ {"intent_recorded"}
    BY <1>1, <2>1, SentIsPlanned
  <2>3. j.steps[k] # "observed_failure"
    BY <1>1, <2>2 DEF StepFits
  <2>4. o[1] \in Attempts /\ StateFits(j) /\ j.state \in OpStates \cup {"none"}
    BY <1>1, JournalType DEF Ops, IInv, JournalFits
  <2>. HIDE DEF j
  <2>5. j.state \notin {"prepared", "preflight", "checkpointed", "failed_before_write"}
    BY <2>2, <2>3, <2>4 DEF StateFits, AllIn, In
  <2>6. j.state \notin {"none", "compensated", "restored"}
    <3>1. j.steps # <<>>
      BY <2>2
    <3>. QED
      BY <2>4, <3>1 DEF StateFits
  <2>7. j.state = "committed" \/ Pending(j)
    BY <2>4, <2>5, <2>6 DEF OpStates, Pending
  <2>. QED
    BY <2>7 DEF j
<1>2. IInv => EffectsAreAccounted
  BY <1>1 DEF EffectsAreAccounted
<1>. QED
  BY <1>2, Invariant, PTL

\* A committed operation has its receipt, and each of its steps is an effect
\* the companion really had.
THEOREM CommitIsReal == Spec => []CommittedIsReal
<1>1. ASSUME IInv, NEW a \in Attempts, journal[a].state = "committed"
      PROVE  /\ receipt[a]
             /\ \A k \in DOMAIN plan[a] :
                  \E b \in Attempts :
                    /\ effects[<<b, plan[a][k]>>] = 1
                    /\ Place(<<b, plan[a][k]>>) = Place(<<a, plan[a][k]>>)
  <2>1. receipt[a] /\ AllIn(journal[a], {"verified"})
    BY <1>1 DEF IInv, JournalFits, StateFits
  <2>2. DOMAIN plan[a] = DOMAIN journal[a].steps
    BY JournalType, <1>1 DEF IInv
  <2>3. ASSUME NEW k \in DOMAIN plan[a] PROVE Supported(OpAt(a, k))
    <3>1. journal[a].steps[k] = "verified"
      BY <2>1, <2>2 DEF AllIn, In
    <3>2. StepFits(a, k)
      BY <1>1 DEF IInv, JournalFits
    <3>. QED
      BY <3>1, <3>2 DEF StepFits
  <2>4. ASSUME NEW k \in DOMAIN plan[a]
        PROVE  \E b \in Attempts :
                 /\ effects[<<b, plan[a][k]>>] = 1
                 /\ Place(<<b, plan[a][k]>>) = Place(<<a, plan[a][k]>>)
    <3>1. OpAt(a, k) = <<a, plan[a][k]>> /\ OpAt(a, k)[2] = plan[a][k]
      BY DEF OpAt
    <3>. QED
      BY <2>3, <3>1 DEF Supported
  <2>. QED
    BY <2>1, <2>4
<1>2. IInv => CommittedIsReal
  BY <1>1 DEF CommittedIsReal
<1>. QED
  BY <1>2, Invariant, PTL

\* The collection changes only for a step on record whose outcome is open: a
\* request written off, or confirmed, has lost its way to the collection.
THEOREM NothingLate == Spec => NoLateEffect
<1>1. ASSUME IInv, [Next]_vars, NEW o \in Ops, effects'[o] # effects[o]
      PROVE  StepOf(o) \in {"request_started", "unknown"}
  <2>1. ~ Send
    BY <1>1 DEF Send, native
  <2>2. Live(o)
    BY <1>1, <2>1, NativeStep DEF NativeOK, Tame
  <2>3. ~ Untouched(o)
    BY <2>2 DEF Live, Untouched
  <2>. DEFINE a == o[1]
              K == {k \in DOMAIN journal[a].steps : plan[a][k] = o[2]}
  <2>4. PICK k \in DOMAIN plan[a] :
          /\ o = OpAt(a, k) /\ StepFits(a, k)
          /\ k \in DOMAIN journal[a].steps
          /\ journal[a].steps[k] \in StepStates \ {"intent_recorded"}
    BY <1>1, <2>3, SentIsPlanned
  <2>5. a \in Attempts /\ plan[a][k] = o[2] /\ DOMAIN plan[a] = DOMAIN journal[a].steps
    BY <1>1, <2>4, JournalType DEF Ops, OpAt, IInv
  <2>6. K = {k}
    BY <1>1, <2>4, <2>5 DEF IInv, PlanFits
  <2>7. journal[a].steps[k] \in {"request_started", "unknown"}
    BY <2>2, <2>4 DEF StepFits, StepStates
  <2>8. StepOf(o) = journal[a].steps[CHOOSE i \in K : TRUE]
    <3>1. StepOf(o) = IF K = {} THEN "none" ELSE journal[a].steps[CHOOSE i \in K : TRUE]
      BY Zenon DEF StepOf
    <3>. HIDE DEF K
    <3>. QED
      BY <2>6, <3>1
  <2>9. (CHOOSE i \in K : TRUE) = k
    <3>. HIDE DEF K
    <3>. QED
      BY <2>6
  <2>. QED
    BY <2>7, <2>8, <2>9
<1>2. IInv /\ [Next]_vars => [\A o \in Ops : effects'[o] # effects[o] =>
                                 StepOf(o) \in {"request_started", "unknown"}]_vars
  BY <1>1
<1>. QED
  BY <1>2, Invariant, PTL DEF Spec, NoLateEffect

\* The store accepts every append of the driver and of the recovery.
THEOREM NothingRefused == Spec => StoreAccepts
<1>1. IInv /\ [Next]_vars => [StoreOK]_vars
  BY EveryStep DEF StepOK, JournalOK
<1>2. [StoreOK]_vars => [\A a \in Attempts : journal'[a] # journal[a] =>
          IF journal[a].state = "none" THEN Fresh(journal'[a])
          ELSE MayFollow(journal[a], journal'[a])]_vars
  BY DEF StoreOK
<1>. QED
  BY <1>1, <1>2, Invariant, PTL DEF Spec, StoreAccepts

=============================================================================
