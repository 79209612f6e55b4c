--------------------------- MODULE ApplyJobProofs ---------------------------
(***************************************************************************)
(* Proofs about module ApplyJob, for any number of items, attempts and     *)
(* controls, and about module Review, which settles the plan such a job    *)
(* applies: for any documents, any issues of theirs, any orders of a       *)
(* decisions file and any number of passes, revisions and changes.         *)
(***************************************************************************)
EXTENDS ApplyJob, Review, TLAPS, WellFoundedInduction

Working == Places \ {"none", "called"}

\* Where the worker knows that nothing is in flight.
Clear == {"control", "acknowledge", "select", "dispatch", "blocked", "stop", "end"}
Attempting == {"apply", "applying", "report"}

Started == In({"started"})

\* Who works has the lease, or had it; what it acknowledges was requested.
WorkerHolds ==
    /\ worker.at \in Working => lease \in {"held", "expired"}
    /\ worker.ack =< control.number

\* What is unfinished is on the worker's list until it is accounted for; then
\* there is nothing but the item it is at.
WorkerKnows ==
    /\ worker.at \in {"account", "accounted"} =>
           Started \subseteq worker.todo /\ worker.todo \subseteq Unaccounted
    /\ worker.at \in Clear => Started = {}
    /\ worker.at \in Attempting \cup {"accounted"} => worker.todo # {}
    /\ worker.at \in Attempting => Started = {Current}
    /\ worker.at \in {"accounted", "report"} => worker.outcome.state # "started"

Attempted == \A i \in Items : item[i].state # "pending" => item[i].attempt \in Attempts

OpOf(i) == operation[i][item[i].attempt]

\* A committed outcome, recorded or about to be, has a committed operation, and
\* nothing on the worker's list is committed.
CommittedSound ==
    /\ \A i \in Items : item[i].state = "committed" =>
           OpOf(i) \in {"committed", "restored"} /\ ~ item[i].eligible
    /\ worker.at \in {"accounted", "report"} /\ worker.outcome.state = "committed" =>
           OpOf(Current) \in {"committed", "restored"} /\ worker.outcome.class = "none"
    /\ worker.at \in {"dispatch"} \cup Attempting =>
           \A i \in worker.todo : item[i].state # "committed"

IInv ==
    /\ TypeOK
    /\ WorkerHolds
    /\ WorkerKnows
    /\ Attempted
    /\ CommittedSound
    /\ OneStarted
    /\ ConfirmedIsStopped

-----------------------------------------------------------------------------
(* Types                                                                   *)

\* The item the worker is at is on its list (Min of a non-empty set of items).
LEMMA CurrentOnList ==
    ASSUME worker.todo \subseteq Items, worker.todo # {}
    PROVE  Current \in worker.todo
<1>. DEFINE Less == {ss \in Nat \X Nat : ss[1] < ss[2]}
<1>1. worker.todo \subseteq Nat
  BY BoundsAssumption DEF Items
<1>2. Less = OpToRel(<, Nat)
  BY Zenon DEF OpToRel
<1>3. PICK x \in worker.todo : \A y \in worker.todo : <<y, x>> \notin Less
  <2>1. IsWellFoundedOn(Less, Nat)
    BY <1>2, NatLessThanWellFounded
  <2>. QED
    BY <1>1, <2>1, WFMin
<1>4. ASSUME NEW y \in worker.todo PROVE ~ (y < x)
  <2>1. y < x => <<y, x>> \in Less
    BY <1>1, Zenon
  <2>. QED
    BY <1>3, <2>1
<1>5. \A y \in worker.todo : x =< y
  <2>. HIDE DEF Less
  <2>. QED
    BY <1>1, <1>4
<1>. QED
  BY <1>5 DEF Current, Min

LEMMA AccountedType ==
    ASSUME NEW standing PROVE Accounted(standing) \in Outcomes
BY DEF Accounted, Outcomes, ItemStates, Classes

LEMMA ReconciledType ==
    ASSUME NEW s \in Operations PROVE Reconciled(s) \subseteq Operations
BY DEF Reconciled, Operations

LEMMA NoWorkerType ==
    /\ NoWorker \in Workers
    /\ NoWorker.at = "none" /\ NoWorker.todo = {} /\ NoWorker.ack = 0
BY BoundsAssumption
   DEF NoWorker, NoOutcome, Workers, Places, Reasons, Outcomes, ItemStates, Classes

LEMMA FreshType == Fresh \in ItemRecords
BY BoundsAssumption DEF Fresh, ItemRecords, ItemStates

\* Everything the job's log, its worker and its operations hold stays of its
\* type, and an acknowledgement names a control that was requested.
LEMMA TypeStep == IInv /\ [Next]_vars => TypeOK'
<1>. SUFFICES ASSUME IInv, [Next]_vars PROVE TypeOK'
  OBVIOUS
<1>. USE BoundsAssumption, NoWorkerType, FreshType
<1>. USE DEF IInv, TypeOK, log, definition
<1>a. worker.todo # {} => Current \in worker.todo /\ Current \in Items
  BY CurrentOnList DEF Workers
<1>b. ASSUME NEW at \in Places PROVE [worker EXCEPT !.at = at] \in Workers
  BY DEF Workers
<1>c. ASSUME NEW reason \in Reasons
      PROVE  [NoWorker EXCEPT !.at = "stop", !.reason = reason] \in Workers
  BY DEF Workers, Places
<1>d. [NoWorker EXCEPT !.at = "end"] \in Workers
  BY DEF Workers, Places
<1>e. ASSUME NEW i \in Items, NEW outcome \in Outcomes, AppendFinished(i, outcome)
      PROVE  item' \in [Items -> ItemRecords]
  <2>1. [state |-> outcome.state, attempt |-> item[i].attempt,
         eligible |-> outcome.class \in {"transient", "halt"},
         retry |-> FALSE, interrupted |-> outcome.interrupted] \in ItemRecords
    BY DEF Outcomes, ItemRecords
  <2>. QED
    BY <1>e, <2>1 DEF AppendFinished
<1>f. worker.outcome \in Outcomes
  BY DEF Workers
<1>g. ASSUME NEW reason, NEW number, AppendStopped(reason, number)
      PROVE  stopped' \in BOOLEAN /\ halted' \in BOOLEAN /\ acked' \in {acked, number}
  <2>1. halted' \in BOOLEAN
    BY <1>g, Zenon DEF AppendStopped
  <2>. QED
    BY <1>g, <2>1 DEF AppendStopped
<1>1. CASE Run
  BY <1>1, <1>b DEF Run, Goto, Places
<1>2. CASE AcquireLease
  <2>1. Unaccounted \subseteq Items
    BY DEF Unaccounted, In
  <2>. QED
    BY <1>2, <2>1 DEF AcquireLease, Places, Workers
<1>3. CASE Account
  <2>1. PICK standing \in Reconciled(operation[Current][item[Current].attempt]) :
             /\ operation' = [operation EXCEPT ![Current][item[Current].attempt] = standing]
             /\ worker' = [worker EXCEPT !.at = "accounted", !.outcome = Accounted(standing)]
    BY <1>3 DEF Account
  <2>2. Current \in Items /\ item[Current].attempt \in Attempts
    BY <1>3, <1>a DEF Account, WorkerKnows, At, Unaccounted, In, Attempted
  <2>3. standing \in Operations
    BY <2>2, ReconciledType
  <2>4. worker' \in Workers
    BY <2>1, AccountedType DEF Workers, Places
  <2>5. operation' \in [Items -> [Attempts -> Operations]]
    BY <2>1, <2>2, <2>3
  <2>. QED
    BY <1>3, <2>4, <2>5 DEF Account
<1>4. CASE RecordAccount
  <2>1. worker' \in Workers
    BY <1>4 DEF RecordAccount, Workers, Places, Outcomes, NoOutcome, ItemStates, Classes
  <2>2. item' \in [Items -> ItemRecords]
    BY <1>4, <1>a, <1>e, <1>f DEF RecordAccount, WorkerKnows, At
  <2>. QED
    BY <1>4, <2>1, <2>2 DEF RecordAccount
<1>5. CASE FinishAccounting
  BY <1>5, <1>b, <1>c DEF FinishAccounting, Goto, StopWith, Places, Reasons
<1>6. ASSUME NEW blocked, ReadControl(blocked) PROVE worker' \in Workers
  BY <1>6 DEF ReadControl, Workers, Places, Reasons
<1>7. CASE HonourControl
  BY <1>7, <1>6, <1>b DEF HonourControl, Goto, Places
<1>8. CASE Acknowledge
  <2>1. worker.ack \in 0..control.number
    BY DEF WorkerHolds, Workers
  <2>2. stopped' \in BOOLEAN /\ halted' \in BOOLEAN /\ acked' \in {acked, worker.ack}
    BY <1>8, <1>g DEF Acknowledge
  <2>. QED
    BY <1>8, <1>d, <2>1, <2>2 DEF Acknowledge, End
<1>9. CASE Select
  <2>1. Eligible \subseteq Items
    BY DEF Eligible
  <2>2. [worker EXCEPT !.at = "dispatch", !.todo = Eligible] \in Workers
    BY <2>1 DEF Workers, Places
  <2>. QED
    BY <1>9, <1>c, <2>2 DEF Select, StopWith, Reasons
<1>10. CASE Start
  <2>1. item' \in [Items -> ItemRecords]
    <3>1. Current \in Items /\ item[Current] \in ItemRecords /\ item[Current].attempt < MaxAttempts
      BY <1>10, <1>a DEF Start, AppendStarted
    <3>2. item[Current].attempt + 1 \in 0..MaxAttempts
      BY <3>1 DEF ItemRecords
    <3>3. [Fresh EXCEPT !.state = "started", !.attempt = item[Current].attempt + 1] \in ItemRecords
      BY <3>2 DEF ItemRecords, ItemStates
    <3>. QED
      BY <1>10, <3>1, <3>3 DEF Start, AppendStarted
  <2>. QED
    BY <1>10, <1>b, <2>1 DEF Start, Goto, Places
<1>11. CASE Blocked
  BY <1>11, <1>b DEF Blocked, Goto, Places
<1>12. CASE ReadBlockingControl
  BY <1>12, <1>6 DEF ReadBlockingControl
<1>13. ASSUME NEW state \in ItemStates, NEW class \in Classes, Return(state, class)
       PROVE  worker' \in Workers
  BY <1>13 DEF Return, Workers, Places, Outcomes
<1>14. Fails => worker' \in Workers
  BY <1>13 DEF Fails, ItemStates, Classes
<1>15. CASE Simulate
  BY <1>15, <1>13, <1>14 DEF Simulate, ItemStates, Classes
<1>16. CASE RefuseItem
  BY <1>16, <1>13, <1>14 DEF RefuseItem, ItemStates, Classes
<1>17. ASSUME NEW standing \in Operations, SetOp(standing)
       PROVE  operation' \in [Items -> [Attempts -> Operations]]
  BY <1>17 DEF SetOp
<1>18. CASE RecordIntent
  BY <1>18, <1>17, <1>b DEF RecordIntent, Goto, Places, Operations
<1>19. CASE SendRequest
  BY <1>19, <1>17 DEF SendRequest, Operations
<1>20. CASE ApplyReturns
  <2>1. worker' \in Workers
    BY <1>20, <1>13, <1>14 DEF ApplyReturns, ItemStates, Classes
  <2>2. operation' \in [Items -> [Attempts -> Operations]]
    BY <1>20, <1>17 DEF ApplyReturns, Operations
  <2>. QED
    BY <1>20, <2>1, <2>2 DEF ApplyReturns
<1>21. CASE Report
  <2>1. item' \in [Items -> ItemRecords]
    BY <1>21, <1>a, <1>e, <1>f DEF Report, WorkerKnows, Attempting, At
  <2>2. StopAfter(worker.outcome) \in Reasons
    BY DEF StopAfter, Reasons
  <2>3. worker' \in Workers
    <3>1. NoOutcome \in Outcomes
      BY DEF NoOutcome, Outcomes, ItemStates, Classes
    <3>2. [worker EXCEPT !.at = "dispatch", !.todo = @ \ {Current}, !.outcome = NoOutcome] \in Workers
      BY <3>1 DEF Workers, Places
    <3>. QED
      BY <1>21, <1>c, <2>2, <3>2 DEF Report, StopWith
  <2>. QED
    BY <1>21, <2>1, <2>3 DEF Report
<1>22. CASE NothingLeft
  BY <1>22, <1>c DEF NothingLeft, StopWith, Reasons
<1>23. CASE Stop
  BY <1>23, <1>d DEF Stop, End, AppendStopped
<1>24. CASE Release \/ Abort \/ Die \/ Expire
  BY <1>24 DEF Release, Abort, Die, Expire
<1>25. ASSUME NEW action \in {"pause", "resume", "cancel"}, RequestControl(action)
       PROVE  TypeOK'
  <2>1. /\ control' \in [action : {"none", "pause", "resume", "cancel"}, number : 0..MaxControls]
        /\ control'.number >= control.number
    BY <1>25 DEF RequestControl
  <2>2. /\ acked' \in 0..control'.number
        /\ stopped' \in BOOLEAN /\ halted' \in BOOLEAN
    <3>1. CASE stopped' = (control' = control /\ stopped) /\ UNCHANGED <<halted, acked>>
      <4>1. stopped' \in BOOLEAN
        BY <3>1, Zenon
      <4>. QED
        BY <3>1, <4>1, <2>1
    <3>2. CASE \E reason \in {"cancelled", "paused"} : AppendStopped(reason, control'.number)
      BY <3>2, <1>g, <2>1
    <3>. QED
      BY <1>25, <3>1, <3>2 DEF RequestControl
  <2>. QED
    BY <1>25, <2>1, <2>2 DEF RequestControl
<1>26. ASSUME NEW i \in Items, ChooseRetry(i) \/ RequestRetry(i) PROVE TypeOK'
  <2>1. item' \in [Items -> ItemRecords]
    <3>1. [item[i] EXCEPT !.retry = TRUE] \in ItemRecords
      BY DEF ItemRecords
    <3>. QED
      BY <1>26, <3>1 DEF ChooseRetry, RequestRetry
  <2>. QED
    BY <1>26, <2>1 DEF ChooseRetry, RequestRetry
<1>27. CASE JudgeDelete \/ Entomb
  BY <1>27 DEF JudgeDelete, Entomb
<1>28. ASSUME NEW i \in Items, NEW a \in Attempts, Recover(i, a) PROVE TypeOK'
  <2>1. operation' \in [Items -> [Attempts -> Operations]]
    <3>1. operation[i][a] \in Operations
      OBVIOUS
    <3>2. PICK standing \in Operations : operation' = [operation EXCEPT ![i][a] = standing]
      BY <1>28, <3>1, ReconciledType DEF Recover, Operations
    <3>. QED
      BY <3>2
  <2>. QED
    BY <1>28, <2>1 DEF Recover
<1>29. CASE UNCHANGED vars
  BY <1>29 DEF vars
<1>. QED
  BY <1>1, <1>2, <1>3, <1>4, <1>5, <1>7, <1>8, <1>9, <1>10, <1>11, <1>12, <1>15, <1>16,
     <1>18, <1>19, <1>20, <1>21, <1>22, <1>23, <1>24, <1>25, <1>26, <1>27, <1>28, <1>29
     DEF Next, Work, Commands

-----------------------------------------------------------------------------
(* What the worker knows of the items                                      *)

\* A finish changes its own item only, and takes it off the started ones.
LEMMA FinishEffect ==
    ASSUME TypeOK, NEW i \in Items, NEW outcome, AppendFinished(i, outcome)
    PROVE  /\ item[i].state \in {"started", "needs_recovery"}
           /\ item'[i].state = outcome.state /\ item'[i].attempt = item[i].attempt
           /\ item'[i].eligible = (outcome.class \in {"transient", "halt"})
           /\ \A j \in Items \ {i} : item'[j] = item[j]
           /\ outcome.state # "started" => Started' = Started \ {i}
<1>1. /\ item[i].state \in {"started", "needs_recovery"}
      /\ item'[i].state = outcome.state /\ item'[i].attempt = item[i].attempt
      /\ item'[i].eligible = (outcome.class \in {"transient", "halt"})
      /\ \A j \in Items \ {i} : item'[j] = item[j]
  BY DEF AppendFinished, TypeOK
<1>2. outcome.state # "started" => Started' = Started \ {i}
  BY <1>1 DEF Started, In
<1>. QED
  BY <1>1, <1>2

\* A start changes its own item only.
LEMMA StartEffect ==
    ASSUME TypeOK, NEW i \in Items, AppendStarted(i)
    PROVE  /\ item'[i].state = "started" /\ item'[i].attempt = item[i].attempt + 1
           /\ item'[i].eligible = FALSE
           /\ \A j \in Items \ {i} : item'[j] = item[j]
           /\ Started' = Started \cup {i}
<1>1. /\ item'[i].state = "started" /\ item'[i].attempt = item[i].attempt + 1
      /\ item'[i].eligible = FALSE
      /\ \A j \in Items \ {i} : item'[j] = item[j]
  BY DEF AppendStarted, TypeOK, Fresh
<1>2. Started' = Started \cup {i}
  BY <1>1 DEF Started, In
<1>. QED
  BY <1>1, <1>2

\* A retry changes no state and no attempt.
LEMMA RetryEffect ==
    ASSUME TypeOK, NEW i \in Items, ChooseRetry(i) \/ RequestRetry(i)
    PROVE  /\ \A j \in Items : /\ item'[j].state = item[j].state
                               /\ item'[j].attempt = item[j].attempt
                               /\ item'[j].eligible = item[j].eligible
           /\ Started' = Started /\ Unaccounted' = Unaccounted
<1>1. \A j \in Items : /\ item'[j].state = item[j].state
                       /\ item'[j].attempt = item[j].attempt
                       /\ item'[j].eligible = item[j].eligible
  BY DEF ChooseRetry, RequestRetry, log, TypeOK, ItemRecords
<1>. QED
  BY <1>1 DEF Started, Unaccounted, In

\* An unchanged log says the same of every item.
LEMMA SameItems ==
    ASSUME UNCHANGED item PROVE Started' = Started /\ Unaccounted' = Unaccounted
BY DEF Started, Unaccounted, In

\* Where each step of the worker leaves it.
LEMMA Moves ==
    ASSUME TypeOK
    PROVE  /\ Run => worker'.at = "called" /\ worker'.todo = worker.todo /\ worker'.ack = worker.ack
           /\ AcquireLease =>
                worker'.at = "account" /\ worker'.todo = Unaccounted /\ worker'.ack = 0
           /\ Account =>
                worker'.at = "accounted" /\ worker'.todo = worker.todo /\ worker'.ack = worker.ack
           /\ RecordAccount =>
                /\ worker'.at = "account" /\ worker'.todo = worker.todo \ {Current}
                /\ worker'.ack = worker.ack
           /\ FinishAccounting =>
                worker'.at \in {"control", "stop"} /\ worker'.ack \in {0, worker.ack}
           /\ HonourControl =>
                /\ worker'.at \in {"acknowledge", "select"}
                /\ worker'.ack \in {0, worker.ack, control.number}
           /\ ReadBlockingControl =>
                worker'.at = "acknowledge" /\ worker'.ack \in {0, control.number}
           /\ Acknowledge \/ Stop => worker'.at = "end" /\ worker'.ack = 0
           /\ Select =>
                /\ worker'.at \in {"dispatch", "stop"} /\ worker'.ack \in {0, worker.ack}
                /\ worker'.at = "dispatch" => worker'.todo = Eligible
           /\ Start => worker'.at = "apply" /\ worker'.todo = worker.todo /\ worker'.ack = worker.ack
           /\ Blocked => worker'.at = "blocked" /\ worker'.ack = worker.ack
           /\ NothingLeft => worker'.at = "stop" /\ worker'.ack = 0
           /\ Simulate \/ RefuseItem \/ RecordIntent \/ SendRequest \/ ApplyReturns =>
                /\ worker'.at \in Attempting
                /\ worker'.todo = worker.todo /\ worker'.ack = worker.ack
           /\ Report =>
                /\ worker'.at \in {"dispatch", "stop"} /\ worker'.ack \in {0, worker.ack}
                /\ worker'.at = "dispatch" => worker'.todo = worker.todo \ {Current}
           /\ Release \/ Abort \/ Die => worker' = NoWorker
<1>. USE NoWorkerType
<1>. USE DEF TypeOK, At, Goto
<1>k. worker \in Workers
  OBVIOUS
<1>1. ASSUME NEW state, NEW class, Return(state, class)
      PROVE  worker'.at = "report" /\ worker'.todo = worker.todo /\ worker'.ack = worker.ack
  BY <1>k, <1>1 DEF Return, Workers
<1>2. Fails => worker'.at = "report" /\ worker'.todo = worker.todo /\ worker'.ack = worker.ack
  BY <1>1, Zenon DEF Fails
<1>3. ASSUME NEW reason, StopWith(reason)
       PROVE  worker'.at = "stop" /\ worker'.ack = 0
  BY <1>3 DEF StopWith, Workers
<1>4. ASSUME NEW blocked, ReadControl(blocked)
       PROVE  worker'.at = "acknowledge" /\ worker'.ack \in {0, control.number}
  BY <1>4 DEF ReadControl, Workers
<1>5. ASSUME NEW place, worker' = [worker EXCEPT !.at = place]
       PROVE  worker'.at = place /\ worker'.todo = worker.todo /\ worker'.ack = worker.ack
  BY <1>k, <1>5 DEF Workers
<1>6. Run => worker'.at = "called" /\ worker'.todo = worker.todo /\ worker'.ack = worker.ack
  BY <1>5 DEF Run
<1>7. AcquireLease =>
        worker'.at = "account" /\ worker'.todo = Unaccounted /\ worker'.ack = 0
  BY DEF AcquireLease, Workers
<1>8. Account =>
        worker'.at = "accounted" /\ worker'.todo = worker.todo /\ worker'.ack = worker.ack
  BY <1>k DEF Account, Workers
<1>9. RecordAccount =>
        /\ worker'.at = "account" /\ worker'.todo = worker.todo \ {Current}
        /\ worker'.ack = worker.ack
  <2>. SUFFICES ASSUME RecordAccount
                PROVE  /\ worker'.at = "account" /\ worker'.todo = worker.todo \ {Current}
                       /\ worker'.ack = worker.ack
    OBVIOUS
  <2>1. PICK f : worker' = [worker EXCEPT !.at = "account", !.todo = @ \ {Current},
                                          !.outcome = NoOutcome, !.found = f]
    BY <1>k DEF RecordAccount, Workers
  <2>. QED
    BY <1>k, <2>1 DEF Workers
<1>10. FinishAccounting =>
        worker'.at \in {"control", "stop"} /\ worker'.ack \in {0, worker.ack}
  BY <1>3, <1>5 DEF FinishAccounting
<1>11. HonourControl =>
        /\ worker'.at \in {"acknowledge", "select"}
        /\ worker'.ack \in {0, worker.ack, control.number}
  BY <1>4, <1>5 DEF HonourControl
<1>12. ReadBlockingControl =>
        worker'.at = "acknowledge" /\ worker'.ack \in {0, control.number}
  BY <1>4 DEF ReadBlockingControl
<1>13. Acknowledge \/ Stop => worker'.at = "end" /\ worker'.ack = 0
  BY DEF Acknowledge, Stop, End, Workers
<1>14. Select =>
        /\ worker'.at \in {"dispatch", "stop"} /\ worker'.ack \in {0, worker.ack}
        /\ worker'.at = "dispatch" => worker'.todo = Eligible
  <2>1. ASSUME worker' = [worker EXCEPT !.at = "dispatch", !.todo = Eligible]
        PROVE  worker'.at = "dispatch" /\ worker'.ack = worker.ack /\ worker'.todo = Eligible
    BY <1>k, <2>1 DEF Workers
  <2>. QED
    BY <1>3, <2>1 DEF Select
<1>15. Start => worker'.at = "apply" /\ worker'.todo = worker.todo /\ worker'.ack = worker.ack
  BY <1>5 DEF Start
<1>16. Blocked => worker'.at = "blocked" /\ worker'.ack = worker.ack
  BY <1>5 DEF Blocked
<1>17. NothingLeft => worker'.at = "stop" /\ worker'.ack = 0
  BY <1>3 DEF NothingLeft
<1>18. Simulate \/ RefuseItem \/ RecordIntent \/ SendRequest \/ ApplyReturns =>
         /\ worker'.at \in Attempting
         /\ worker'.todo = worker.todo /\ worker'.ack = worker.ack
  <2>1. Simulate \/ RefuseItem =>
          worker'.at = "report" /\ worker'.todo = worker.todo /\ worker'.ack = worker.ack
    BY <1>1, <1>2 DEF Simulate, RefuseItem
  <2>2. RecordIntent =>
          worker'.at = "applying" /\ worker'.todo = worker.todo /\ worker'.ack = worker.ack
    BY <1>5 DEF RecordIntent
  <2>3. SendRequest => worker'.at = "applying" /\ worker' = worker
    BY DEF SendRequest
  <2>4. ApplyReturns =>
          worker'.at = "report" /\ worker'.todo = worker.todo /\ worker'.ack = worker.ack
    BY <1>1, <1>2 DEF ApplyReturns
  <2>. QED
    BY <2>1, <2>2, <2>3, <2>4 DEF Attempting
<1>19. Report =>
         /\ worker'.at \in {"dispatch", "stop"} /\ worker'.ack \in {0, worker.ack}
         /\ worker'.at = "dispatch" => worker'.todo = worker.todo \ {Current}
  <2>1. ASSUME worker' = [worker EXCEPT !.at = "dispatch", !.todo = @ \ {Current},
                                        !.outcome = NoOutcome]
        PROVE  /\ worker'.at = "dispatch" /\ worker'.ack = worker.ack
               /\ worker'.todo = worker.todo \ {Current}
    BY <1>k, <2>1 DEF Workers
  <2>. QED
    BY <1>3, <2>1 DEF Report
<1>20. Release \/ Abort \/ Die => worker' = NoWorker
  BY DEF Release, Abort, Die
<1>. QED
  BY <1>6, <1>7, <1>8, <1>9, <1>10, <1>11, <1>12, <1>13, <1>14, <1>15, <1>16, <1>17, <1>18,
     <1>19, <1>20

\* The worker keeps its lease, or loses it with its place.
LEMMA HoldsStep == IInv /\ [Next]_vars => WorkerHolds'
<1>. SUFFICES ASSUME IInv, [Next]_vars PROVE WorkerHolds'
  OBVIOUS
<1>1. TypeOK /\ WorkerHolds
  BY DEF IInv
<1>k. control.number \in Nat /\ worker.ack \in Nat
  BY <1>1 DEF TypeOK, Workers
<1>. USE NoWorkerType, Moves, <1>1, <1>k
<1>. USE DEF WorkerHolds, Working, Places, At, log
<1>2. CASE Run
  BY <1>2 DEF Run
<1>3. CASE AcquireLease
  BY <1>3 DEF AcquireLease
<1>4. CASE Account \/ FinishAccounting \/ HonourControl \/ ReadBlockingControl
  <2>1. CASE Account
    BY <2>1 DEF Account
  <2>2. CASE FinishAccounting
    BY <2>2 DEF FinishAccounting
  <2>3. CASE HonourControl
    <3>1. worker.at = "control" /\ lease' = lease /\ control' = control
      BY <2>3 DEF HonourControl
    <3>2. worker'.at \in {"acknowledge", "select"} /\ worker'.ack \in {0, worker.ack, control.number}
      BY <2>3
    <3>. QED
      BY <3>1, <3>2
  <2>4. CASE ReadBlockingControl
    BY <2>4 DEF ReadBlockingControl
  <2>. QED
    BY <1>4, <2>1, <2>2, <2>3, <2>4
<1>5. CASE RecordAccount \/ Select \/ Start \/ Blocked \/ NothingLeft
  BY <1>5 DEF RecordAccount, Select, Start, Blocked, NothingLeft
<1>6. CASE Acknowledge \/ Stop
  BY <1>6 DEF Acknowledge, Stop
<1>7. CASE Simulate \/ RefuseItem \/ RecordIntent \/ SendRequest \/ ApplyReturns
  BY <1>7 DEF Attempting, Simulate, RefuseItem, RecordIntent, SendRequest, ApplyReturns
<1>8. CASE Report
  BY <1>8 DEF Report
<1>9. CASE Release \/ Abort \/ Die
  BY <1>9 DEF Release, Abort, Die
<1>10. CASE Expire
  BY <1>10 DEF Expire
<1>11. ASSUME NEW action \in {"pause", "resume", "cancel"}, RequestControl(action)
       PROVE  WorkerHolds'
  <2>1. control'.number \in Nat /\ control'.number >= control.number
    BY <1>11 DEF RequestControl
  <2>. QED
    BY <1>11, <2>1 DEF RequestControl
<1>12. ASSUME NEW i \in Items, ChooseRetry(i) \/ RequestRetry(i) PROVE WorkerHolds'
  BY <1>12 DEF ChooseRetry, RequestRetry
<1>13. CASE JudgeDelete \/ Entomb
  BY <1>13 DEF JudgeDelete, Entomb
<1>14. ASSUME NEW i \in Items, NEW a \in Attempts, Recover(i, a) PROVE WorkerHolds'
  BY <1>14 DEF Recover
<1>15. CASE UNCHANGED vars
  BY <1>15 DEF vars
<1>. QED
  BY <1>2, <1>3, <1>4, <1>5, <1>6, <1>7, <1>8, <1>9, <1>10, <1>11, <1>12, <1>13, <1>14, <1>15
     DEF Next, Work, Commands

\* Only a start, a finish and a retry change an item; each changes one.
LEMMA ItemStep ==
    ASSUME IInv, [Next]_vars
    PROVE  \/ UNCHANGED item
           \/ Start /\ Current \in Items
           \/ /\ RecordAccount \/ Report
              /\ Current \in Items /\ AppendFinished(Current, worker.outcome)
           \/ \E i \in Items : RequestRetry(i)
<1>a. worker.todo # {} => Current \in Items
  BY CurrentOnList DEF IInv, TypeOK, Workers
<1>. USE DEF log, definition
<1>1. Start => Current \in Items
  BY <1>a DEF Start
<1>2. RecordAccount =>
        \/ UNCHANGED item
        \/ Current \in Items /\ AppendFinished(Current, worker.outcome)
  <2>1. RecordAccount => worker.at = "accounted"
    BY DEF RecordAccount, At
  <2>2. RecordAccount => Current \in Items
    BY <1>a, <2>1 DEF IInv, WorkerKnows
  <2>3. RecordAccount => UNCHANGED item \/ AppendFinished(Current, worker.outcome)
    BY Zenon DEF RecordAccount
  <2>. QED
    BY <2>2, <2>3
<1>3. Report => Current \in Items /\ AppendFinished(Current, worker.outcome)
  BY <1>a DEF Report, IInv, WorkerKnows, At, Attempting
<1>4. ASSUME \/ Run \/ AcquireLease \/ Account \/ FinishAccounting \/ HonourControl
             \/ Acknowledge \/ Select \/ Blocked \/ ReadBlockingControl
      PROVE  UNCHANGED item
  BY <1>4 DEF Run, AcquireLease, Account, FinishAccounting, HonourControl, Acknowledge,
              Select, Blocked, ReadBlockingControl
<1>5. ASSUME \/ Simulate \/ RefuseItem \/ RecordIntent \/ SendRequest \/ ApplyReturns
             \/ NothingLeft \/ Stop \/ Release \/ Abort \/ Die \/ Expire
      PROVE  UNCHANGED item
  BY <1>5 DEF Simulate, RefuseItem, RecordIntent, SendRequest, ApplyReturns, NothingLeft,
              Stop, Release, Abort, Die, Expire
<1>6. ASSUME NEW action, RequestControl(action) PROVE UNCHANGED item
  BY <1>6 DEF RequestControl
<1>7. ASSUME NEW i, ChooseRetry(i) PROVE UNCHANGED item
  BY <1>7 DEF ChooseRetry
<1>8. JudgeDelete \/ Entomb => UNCHANGED item
  BY DEF JudgeDelete, Entomb
<1>9. ASSUME NEW i, NEW a, Recover(i, a) PROVE UNCHANGED item
  BY <1>9 DEF Recover
<1>10. UNCHANGED vars => UNCHANGED item
  BY DEF vars
<1>. QED
  BY <1>1, <1>2, <1>3, <1>4, <1>5, <1>6, <1>7, <1>8, <1>9, <1>10 DEF Next, Work, Commands

\* What an item attempt returns is never "started"; and "committed" only for an
\* operation it committed, or found committed.
LEMMA Outcome ==
    ASSUME TypeOK
    PROVE  /\ Account => \E standing \in Reconciled(OpOf(Current)) :
                /\ operation' = [operation EXCEPT ![Current][item[Current].attempt] = standing]
                /\ worker'.outcome = Accounted(standing)
           /\ Simulate \/ RefuseItem => worker'.outcome.state \notin {"started", "committed"}
           /\ RecordIntent \/ SendRequest => worker'.at = "applying"
           /\ ApplyReturns =>
                /\ worker'.outcome.state # "started"
                /\ worker'.outcome.state = "committed" =>
                     worker'.outcome.class = "none" /\ SetOp("committed")
<1>. USE DEF TypeOK, At, Goto
<1>k. worker \in Workers
  OBVIOUS
<1>1. ASSUME NEW state, NEW class, Return(state, class)
      PROVE  worker'.outcome.state = state /\ worker'.outcome.class = class
  BY <1>k, <1>1 DEF Return, Workers
<1>2. Fails => worker'.outcome.state = "failed"
  BY <1>1, Zenon DEF Fails
<1>3. Account => \E standing \in Reconciled(OpOf(Current)) :
        /\ operation' = [operation EXCEPT ![Current][item[Current].attempt] = standing]
        /\ worker'.outcome = Accounted(standing)
  BY <1>k DEF Account, Workers, OpOf
<1>4. Simulate \/ RefuseItem => worker'.outcome.state \notin {"started", "committed"}
  BY <1>1, <1>2 DEF Simulate, RefuseItem
<1>5. RecordIntent \/ SendRequest => worker'.at = "applying"
  BY <1>k DEF RecordIntent, SendRequest, Workers
<1>6. ApplyReturns =>
        /\ worker'.outcome.state # "started"
        /\ worker'.outcome.state = "committed" =>
             worker'.outcome.class = "none" /\ SetOp("committed")
  BY <1>1, <1>2 DEF ApplyReturns
<1>. QED
  BY <1>3, <1>4, <1>5, <1>6

\* The worker's list holds all that is unfinished until it is accounted for, and
\* it never has more than the item it is at in flight.
LEMMA KnowsStep == IInv /\ [Next]_vars => WorkerKnows'
<1>. SUFFICES ASSUME IInv, [Next]_vars PROVE WorkerKnows'
  OBVIOUS
<1>1. TypeOK /\ WorkerKnows
  BY DEF IInv
<1>a. worker.todo # {} => Current \in Items
  BY CurrentOnList DEF IInv, TypeOK, Workers
<1>c. worker'.todo = worker.todo => Current' = Current
  BY DEF Current
<1>s. Started \subseteq Unaccounted /\ Started \subseteq Items
  BY DEF Started, Unaccounted, In
<1>. USE NoWorkerType, Moves, SameItems, <1>1
<1>. USE DEF WorkerKnows, Clear, Attempting, At
<1>2. CASE UNCHANGED <<item, worker>>
  BY <1>2, <1>c
<1>3. CASE Run
  <2>1. worker'.at = "called"
    BY <1>3
  <2>. QED
    BY <2>1
<1>4. CASE AcquireLease
  <2>1. worker'.at = "account" /\ worker'.todo = Unaccounted /\ UNCHANGED item
    BY <1>4 DEF AcquireLease, log
  <2>. QED
    BY <2>1, <1>s
<1>5. CASE Account
  <2>1. /\ worker.at = "account" /\ worker'.at = "accounted" /\ worker'.todo = worker.todo
        /\ worker.todo # {} /\ UNCHANGED item
    BY <1>5 DEF Account, log
  <2>2. worker'.outcome.state # "started"
    BY <1>5, Outcome DEF Accounted
  <2>. QED
    BY <2>1, <2>2
<1>6. CASE RecordAccount
  <2>1. /\ worker.at = "accounted" /\ worker'.at = "account"
        /\ worker'.todo = worker.todo \ {Current} /\ Current \in Items
    BY <1>6, <1>a DEF RecordAccount
  <2>2. /\ Started' \subseteq Started \ {Current}
        /\ \A j \in Items \ {Current} : item'[j] = item[j]
    <3>1. CASE AppendFinished(Current, worker.outcome)
      BY <2>1, <3>1, FinishEffect
    <3>2. CASE item[Current].state = "needs_recovery" /\ UNCHANGED item
      BY <3>2 DEF Started, In
    <3>. QED
      BY <1>6, <3>1, <3>2 DEF RecordAccount
  <2>3. worker'.todo \subseteq Unaccounted'
    BY <2>1, <2>2 DEF Unaccounted, In
  <2>. QED
    BY <2>1, <2>2, <2>3
<1>7. CASE FinishAccounting
  <2>1. /\ worker.at = "account" /\ worker.todo = {} /\ UNCHANGED item
        /\ worker'.at \in {"control", "stop"}
    BY <1>7 DEF FinishAccounting, log
  <2>. QED
    BY <2>1
<1>8. CASE HonourControl \/ Acknowledge \/ Select \/ Blocked \/ ReadBlockingControl \/ NothingLeft \/ Stop
  <2>1. worker.at \in Clear /\ UNCHANGED item
    BY <1>8 DEF HonourControl, Acknowledge, Select, Blocked, ReadBlockingControl, NothingLeft, Stop, log
  <2>2. worker'.at \in Clear
    BY <1>8
  <2>. QED
    BY <2>1, <2>2
<1>9. CASE Start
  <2>1. /\ worker.at = "dispatch" /\ worker.todo # {} /\ worker'.at = "apply"
        /\ worker'.todo = worker.todo /\ Current \in Items /\ AppendStarted(Current)
    BY <1>9, <1>a DEF Start
  <2>2. Started' = {Current}
    BY <2>1, StartEffect
  <2>. QED
    BY <2>1, <2>2, <1>c
<1>10. CASE Simulate \/ RefuseItem \/ RecordIntent \/ SendRequest \/ ApplyReturns
  <2>1. worker.at \in Attempting /\ UNCHANGED item
    BY <1>10 DEF Simulate, RefuseItem, RecordIntent, SendRequest, ApplyReturns, log
  <2>2. worker'.at \in Attempting /\ worker'.todo = worker.todo
    BY <1>10
  <2>3. worker'.at = "report" => worker'.outcome.state # "started"
    BY <1>10, Outcome
  <2>. QED
    BY <2>1, <2>2, <2>3, <1>c
<1>11. CASE Report
  <2>1. /\ worker.at = "report" /\ worker'.at \in {"dispatch", "stop"}
        /\ Current \in Items /\ AppendFinished(Current, worker.outcome)
    BY <1>11, <1>a DEF Report
  <2>2. Started' = {}
    BY <2>1, FinishEffect
  <2>. QED
    BY <2>1, <2>2
<1>12. CASE Release \/ Abort \/ Die
  BY <1>12
<1>13. ASSUME NEW i \in Items, ChooseRetry(i) \/ RequestRetry(i) PROVE WorkerKnows'
  <2>1. worker' = worker /\ Started' = Started /\ Unaccounted' = Unaccounted
    BY <1>13, RetryEffect DEF ChooseRetry, RequestRetry
  <2>. QED
    BY <2>1, <1>c
<1>14. ASSUME \/ Expire \/ JudgeDelete \/ Entomb \/ UNCHANGED vars
              \/ \E action \in {"pause", "resume", "cancel"} : RequestControl(action)
              \/ \E i \in Items, a \in Attempts : Recover(i, a)
       PROVE  UNCHANGED <<item, worker>>
  BY <1>14 DEF Expire, JudgeDelete, Entomb, vars, RequestControl, Recover, log
<1>. QED
  BY <1>2, <1>3, <1>4, <1>5, <1>6, <1>7, <1>8, <1>9, <1>10, <1>11, <1>12, <1>13, <1>14
     DEF Next, Work, Commands

-----------------------------------------------------------------------------
(* The invariant                                                           *)

\* An item that was ever started keeps the number of an attempt.
LEMMA AttemptedStep == IInv /\ [Next]_vars => Attempted'
<1>. SUFFICES ASSUME IInv, [Next]_vars PROVE Attempted'
  OBVIOUS
<1>1. TypeOK /\ Attempted
  BY DEF IInv
<1>. USE DEF Attempted
<1>2. CASE UNCHANGED item
  BY <1>1, <1>2
<1>3. CASE Start /\ Current \in Items
  <2>1. AppendStarted(Current)
    BY <1>3 DEF Start
  <2>2. item[Current].attempt \in Nat /\ item[Current].attempt < MaxAttempts
    BY <1>1, <1>3, <2>1 DEF AppendStarted, TypeOK, ItemRecords
  <2>3. item[Current].attempt + 1 \in Attempts
    BY <2>2, BoundsAssumption DEF Attempts
  <2>. QED
    BY <1>1, <1>3, <2>1, <2>3, StartEffect
<1>4. CASE Current \in Items /\ AppendFinished(Current, worker.outcome)
  BY <1>1, <1>4, FinishEffect
<1>5. CASE \E i \in Items : RequestRetry(i)
  BY <1>1, <1>5, RetryEffect
<1>. QED
  BY <1>2, <1>3, <1>4, <1>5, ItemStep

\* A start needs that nothing is in flight.
LEMMA OneStartedStep == IInv /\ [Next]_vars => OneStarted'
<1>. SUFFICES ASSUME IInv, [Next]_vars PROVE OneStarted'
  OBVIOUS
<1>1. TypeOK /\ WorkerKnows /\ \A i, j \in Started : i = j
  BY DEF IInv, OneStarted, Started
<1>2. SUFFICES Started' \subseteq Started \/ \E i : Started' \subseteq {i}
  BY <1>1 DEF OneStarted, Started
<1>3. CASE UNCHANGED item
  BY <1>3, SameItems
<1>4. CASE Start /\ Current \in Items
  <2>1. AppendStarted(Current) /\ Started = {}
    BY <1>1, <1>4 DEF Start, WorkerKnows, Clear, At
  <2>. QED
    BY <1>1, <1>4, <2>1, StartEffect
<1>5. CASE (RecordAccount \/ Report) /\ Current \in Items /\ AppendFinished(Current, worker.outcome)
  <2>1. worker.outcome.state # "started"
    BY <1>1, <1>5 DEF RecordAccount, Report, WorkerKnows, At
  <2>. QED
    BY <1>1, <1>5, <2>1, FinishEffect
<1>6. CASE \E i \in Items : RequestRetry(i)
  BY <1>1, <1>6, RetryEffect
<1>. QED
  BY <1>3, <1>4, <1>5, <1>6, ItemStep

\* A stop is confirmed where nothing is in flight, and while it is confirmed
\* nothing is started.
LEMMA ConfirmedStep == IInv /\ [Next]_vars => ConfirmedIsStopped'
<1>. SUFFICES ASSUME IInv, [Next]_vars PROVE ConfirmedIsStopped'
  OBVIOUS
<1>1. /\ TypeOK /\ WorkerHolds /\ WorkerKnows
      /\ Confirmed => Started = {} /\ worker.at \notin Attempting
  BY DEF IInv, ConfirmedIsStopped, Started, Attempting
<1>a. acked \in Nat /\ control.number \in Nat /\ acked =< control.number
  BY <1>1 DEF TypeOK
<1>2. SUFFICES Confirmed' => Started' = {} /\ worker'.at \notin Attempting
  BY DEF ConfirmedIsStopped, Started, Attempting
<1>. USE DEF At, log, definition
<1>3. ASSUME UNCHANGED <<control, acked>>, Started' \subseteq Started,
             worker'.at \in Attempting => worker.at \in Attempting
      PROVE  Confirmed' => Started' = {} /\ worker'.at \notin Attempting
  BY <1>1, <1>3 DEF Confirmed, Stopping
<1>4. CASE Run \/ AcquireLease \/ Account \/ FinishAccounting \/ HonourControl \/ Select
           \/ Blocked \/ ReadBlockingControl \/ NothingLeft
  <2>1. UNCHANGED <<control, acked>> /\ UNCHANGED item
    BY <1>4 DEF Run, AcquireLease, Account, FinishAccounting, HonourControl, Select,
                Blocked, ReadBlockingControl, NothingLeft
  <2>2. worker'.at \notin Attempting
    BY <1>1, <1>4, Moves DEF Attempting
  <2>. QED
    BY <1>3, <2>1, <2>2, SameItems
<1>5. CASE Acknowledge \/ Stop
  <2>1. worker.at \in Clear /\ worker'.at = "end" /\ UNCHANGED item
    BY <1>1, <1>5, Moves DEF Acknowledge, Stop, Clear
  <2>. QED
    BY <1>1, <2>1, SameItems DEF WorkerKnows, Attempting
<1>6. CASE Start
  <2>1. ~ Stopping /\ UNCHANGED control
    BY <1>6 DEF Start, AppendStarted, MayStart
  <2>. QED
    BY <2>1 DEF Confirmed, Stopping
<1>7. CASE RecordAccount \/ Report
  <2>1. UNCHANGED <<control, acked>>
    BY <1>7 DEF RecordAccount, Report
  <2>2. worker'.at \notin Attempting
    BY <1>1, <1>7, Moves DEF Attempting
  <2>3. Started' \subseteq Started
    <3>1. CASE UNCHANGED item
      BY <3>1, SameItems
    <3>2. CASE Current \in Items /\ AppendFinished(Current, worker.outcome)
      <4>1. worker.outcome.state # "started"
        BY <1>1, <1>7 DEF RecordAccount, Report, WorkerKnows
      <4>. QED
        BY <1>1, <3>2, <4>1, FinishEffect
    <3>3. Start \/ (\E i \in Items : RequestRetry(i)) => FALSE
      BY <1>1, <1>7, Moves DEF RecordAccount, Report, Start, RequestRetry
    <3>. QED
      BY <3>1, <3>2, <3>3, ItemStep
  <2>. QED
    BY <1>3, <2>1, <2>2, <2>3
<1>8. CASE Simulate \/ RefuseItem \/ RecordIntent \/ SendRequest \/ ApplyReturns
  <2>1. UNCHANGED <<control, acked>> /\ UNCHANGED item /\ worker.at \in Attempting
    BY <1>8 DEF Simulate, RefuseItem, RecordIntent, SendRequest, ApplyReturns, Attempting
  <2>. QED
    BY <1>3, <2>1, SameItems
<1>9. CASE Release \/ Abort \/ Die
  <2>1. UNCHANGED <<control, acked>> /\ UNCHANGED item /\ worker'.at = "none"
    BY <1>9, NoWorkerType DEF Release, Abort, Die
  <2>. QED
    BY <1>3, <2>1, SameItems DEF Attempting
<1>10. ASSUME NEW action \in {"pause", "resume", "cancel"}, RequestControl(action)
      PROVE  Confirmed' => Started' = {} /\ worker'.at \notin Attempting
  <2>1. UNCHANGED item /\ UNCHANGED worker
    BY <1>10 DEF RequestControl
  <2>2. CASE IdleJob
    <3>1. Started = {} /\ worker.at \notin Attempting
      BY <1>1, <2>2 DEF IdleJob, Started, WorkerHolds, Working, Places, Attempting
    <3>. QED
      BY <2>1, <3>1, SameItems
  <2>3. CASE ~ IdleJob
    <3>1. UNCHANGED acked
      BY <1>10, <2>3 DEF RequestControl
    <3>2. control' = control \/ control'.number = control.number + 1
      BY <1>10 DEF RequestControl
    <3>3. CASE control' = control
      BY <1>3, <2>1, <3>1, <3>3, SameItems
    <3>4. CASE control'.number = control.number + 1
      BY <1>a, <3>1, <3>4 DEF Confirmed
    <3>. QED
      BY <3>2, <3>3, <3>4
  <2>. QED
    BY <2>2, <2>3
<1>11. ASSUME NEW i \in Items, ChooseRetry(i) \/ RequestRetry(i)
       PROVE  Confirmed' => Started' = {} /\ worker'.at \notin Attempting
  <2>1. UNCHANGED <<control, acked, worker>>
    BY <1>11 DEF ChooseRetry, RequestRetry
  <2>. QED
    BY <1>1, <1>3, <1>11, <2>1, RetryEffect
<1>12. CASE Expire \/ JudgeDelete \/ Entomb \/ UNCHANGED vars
            \/ \E i \in Items, a \in Attempts : Recover(i, a)
  <2>1. UNCHANGED <<control, acked, item, worker>>
    BY <1>12 DEF Expire, JudgeDelete, Entomb, vars, Recover
  <2>. QED
    BY <1>3, <2>1, SameItems
<1>. QED
  BY <1>4, <1>5, <1>6, <1>7, <1>8, <1>9, <1>10, <1>11, <1>12 DEF Next, Work, Commands

\* A step changes the operation of the item the worker is at, which is not
\* committed, or, with no worker, one that stays committed or restored.
LEMMA OperationStep ==
    ASSUME IInv, [Next]_vars, NEW i \in Items, item[i].state = "committed"
    PROVE  operation'[i][item[i].attempt] \in {"committed", "restored"}
<1>1. TypeOK /\ WorkerKnows /\ OpOf(i) \in {"committed", "restored"}
  BY DEF IInv, CommittedSound
<1>a. worker.todo # {} => Current \in worker.todo /\ Current \in Items
  BY CurrentOnList, <1>1 DEF TypeOK, Workers
<1>. USE DEF At, log, OpOf
<1>2. CASE UNCHANGED operation
  BY <1>1, <1>2
<1>3. ASSUME Current \in Items, Current # i, NEW a, NEW s,
             operation' = [operation EXCEPT ![Current][a] = s]
      PROVE  operation'[i] = operation[i]
  BY <1>1, <1>3 DEF TypeOK
<1>4. CASE Account
  <2>1. Current \in Items /\ Current # i
    BY <1>1, <1>4, <1>a DEF Account, WorkerKnows, Unaccounted, In
  <2>2. PICK s : operation' = [operation EXCEPT ![Current][item[Current].attempt] = s]
    BY <1>4 DEF Account
  <2>. QED
    BY <1>1, <1>3, <2>1, <2>2
<1>5. CASE RecordIntent \/ SendRequest \/ ApplyReturns
  <2>1. Current \in Items /\ Current # i
    <3>1. worker.at \in Attempting
      BY <1>5 DEF RecordIntent, SendRequest, ApplyReturns, Attempting
    <3>. QED
      BY <1>1, <1>a, <3>1 DEF IInv, CommittedSound, WorkerKnows
  <2>2. UNCHANGED operation \/ \E s : operation' = [operation EXCEPT ![Current][Attempt] = s]
    BY <1>5 DEF RecordIntent, SendRequest, ApplyReturns, SetOp
  <2>. QED
    BY <1>1, <1>2, <1>3, <2>1, <2>2
<1>6. ASSUME NEW j \in Items, NEW a \in Attempts, Recover(j, a)
      PROVE  operation'[i][item[i].attempt] \in {"committed", "restored"}
  <2>1. PICK s \in Reconciled(operation[j][a]) \cup {"restored"} :
             operation' = [operation EXCEPT ![j][a] = s]
    BY <1>6 DEF Recover
  <2>2. CASE i = j /\ item[i].attempt = a
    <3>1. s \in {"committed", "restored"}
      BY <1>1, <2>1, <2>2 DEF Reconciled
    <3>. QED
      BY <1>1, <2>1, <2>2, <3>1 DEF TypeOK
  <2>3. CASE ~ (i = j /\ item[i].attempt = a)
    BY <1>1, <2>1, <2>3 DEF TypeOK
  <2>. QED
    BY <2>2, <2>3
<1>7. ASSUME \/ Run \/ AcquireLease \/ RecordAccount \/ FinishAccounting \/ HonourControl
             \/ Acknowledge \/ Select \/ Start \/ Blocked \/ ReadBlockingControl
             \/ Simulate \/ RefuseItem
      PROVE  UNCHANGED operation
  BY <1>7 DEF Run, AcquireLease, RecordAccount, FinishAccounting, HonourControl, Acknowledge,
              Select, Start, Blocked, ReadBlockingControl, Simulate, RefuseItem
<1>8. ASSUME \/ Report \/ NothingLeft \/ Stop \/ Release \/ Abort \/ Die \/ Expire
             \/ JudgeDelete \/ Entomb \/ UNCHANGED vars
             \/ \E action \in {"pause", "resume", "cancel"} : RequestControl(action)
             \/ \E j \in Items : ChooseRetry(j) \/ RequestRetry(j)
      PROVE  UNCHANGED operation
  BY <1>8 DEF Report, NothingLeft, Stop, Release, Abort, Die, Expire, JudgeDelete, Entomb,
              vars, RequestControl, ChooseRetry, RequestRetry
<1>. QED
  BY <1>2, <1>4, <1>5, <1>6, <1>7, <1>8 DEF Next, Work, Commands

\* A committed item is neither started nor finished again.
LEMMA CommittedKept ==
    ASSUME IInv, [Next]_vars, NEW i \in Items, item[i].state = "committed"
    PROVE  /\ item'[i].state = "committed" /\ item'[i].attempt = item[i].attempt
           /\ item'[i].eligible = item[i].eligible
<1>1. TypeOK /\ CommittedSound
  BY DEF IInv
<1>2. CASE UNCHANGED item
  BY <1>2
<1>3. CASE Start /\ Current \in Items
  <2>1. Current \in worker.todo
    BY <1>1, <1>3, CurrentOnList DEF Start, TypeOK, Workers
  <2>2. Current # i /\ AppendStarted(Current)
    BY <1>1, <1>3, <2>1 DEF Start, At, CommittedSound
  <2>. QED
    BY <1>1, <1>3, <2>2, StartEffect
<1>4. CASE Current \in Items /\ AppendFinished(Current, worker.outcome)
  <2>1. Current # i
    BY <1>1, <1>4, FinishEffect
  <2>. QED
    BY <1>1, <1>4, <2>1, FinishEffect
<1>5. CASE \E j \in Items : RequestRetry(j)
  BY <1>1, <1>5, RetryEffect
<1>. QED
  BY <1>2, <1>3, <1>4, <1>5, ItemStep

\* A committed outcome is recorded only where the worker has one to record, and
\* that is only for an operation that is committed or restored.
LEMMA CommittedRecorded ==
    ASSUME IInv, [Next]_vars, NEW i \in Items, item'[i].state = "committed"
    PROVE  OpOf(i)' \in {"committed", "restored"} /\ ~ item'[i].eligible
<1>1. TypeOK /\ CommittedSound
  BY DEF IInv
<1>2. CASE item[i].state = "committed"
  BY <1>1, <1>2, OperationStep, CommittedKept DEF CommittedSound, OpOf
<1>3. CASE item[i].state # "committed"
  <2>1. CASE UNCHANGED item
    BY <1>3, <2>1
  <2>2. CASE Start /\ Current \in Items
    BY <1>1, <1>3, <2>2, StartEffect DEF Start
  <2>3. CASE /\ RecordAccount \/ Report
             /\ Current \in Items /\ AppendFinished(Current, worker.outcome)
    <3>1. /\ Current = i /\ worker.outcome.state = "committed"
          /\ item'[i].attempt = item[i].attempt
          /\ item'[i].eligible = (worker.outcome.class \in {"transient", "halt"})
      BY <1>1, <1>3, <2>3, FinishEffect
    <3>2. worker.at \in {"accounted", "report"} /\ UNCHANGED operation
      BY <2>3 DEF RecordAccount, Report, At
    <3>3. OpOf(i) \in {"committed", "restored"} /\ worker.outcome.class = "none"
      BY <1>1, <3>1, <3>2 DEF CommittedSound
    <3>4. ~ item'[i].eligible
      BY <3>1, <3>3, Zenon
    <3>. QED
      BY <3>1, <3>2, <3>3, <3>4 DEF OpOf
  <2>4. CASE \E j \in Items : RequestRetry(j)
    BY <1>1, <1>3, <2>4, RetryEffect
  <2>. QED
    BY <2>1, <2>2, <2>3, <2>4, ItemStep
<1>. QED
  BY <1>2, <1>3

\* Where the outcome or the list of the worker is what it was, and its item.
LEMMA OutcomeKept ==
    ASSUME IInv, UNCHANGED <<worker, operation>>,
           \A i \in Items : item'[i].attempt = item[i].attempt,
           worker'.at \in {"accounted", "report"}, worker'.outcome.state = "committed"
    PROVE  OpOf(Current)' \in {"committed", "restored"} /\ worker'.outcome.class = "none"
<1>1. Current' = Current
  BY DEF Current
<1>2. Current \in Items
  BY CurrentOnList DEF IInv, TypeOK, WorkerKnows, Attempting, Workers
<1>. QED
  BY <1>1, <1>2 DEF IInv, CommittedSound, OpOf

\* The worker reports an item committed only if it committed its operation or
\* found it committed or restored.
LEMMA CommittedReported ==
    ASSUME IInv, [Next]_vars,
           worker'.at \in {"accounted", "report"}, worker'.outcome.state = "committed"
    PROVE  OpOf(Current)' \in {"committed", "restored"} /\ worker'.outcome.class = "none"
<1>1. TypeOK /\ CommittedSound
  BY DEF IInv
<1>a. worker.todo # {} => Current \in Items
  BY CurrentOnList, <1>1 DEF TypeOK, Workers
<1>c. worker'.todo = worker.todo => Current' = Current
  BY DEF Current
<1>. USE NoWorkerType, Moves, Outcome, <1>1
<1>. USE DEF At, log
<1>2. CASE Account
  <2>1. Current \in Items /\ item[Current].attempt \in Attempts /\ Current' = Current
    <3>1. worker.at = "account" /\ Current \in worker.todo
      BY <1>2, CurrentOnList DEF Account, TypeOK, Workers
    <3>2. Current \in Items /\ item[Current].state # "pending"
      BY <3>1 DEF IInv, WorkerKnows, Unaccounted, In
    <3>3. Current' = Current
      BY <1>2, <1>c
    <3>. QED
      BY <3>2, <3>3 DEF IInv, Attempted
  <2>2. PICK s \in Reconciled(OpOf(Current)) :
             /\ operation' = [operation EXCEPT ![Current][item[Current].attempt] = s]
             /\ worker'.outcome = Accounted(s)
    BY <1>2
  <2>3. s \in {"committed", "restored"} /\ worker'.outcome.class = "none"
    BY <2>2 DEF Accounted
  <2>4. operation'[Current][item[Current].attempt] = s /\ item' = item
    BY <1>2, <2>1, <2>2 DEF Account, TypeOK
  <2>. QED
    BY <2>1, <2>3, <2>4 DEF OpOf
<1>3. CASE ApplyReturns
  <2>1. Current \in Items /\ item[Current].attempt \in Attempts /\ Current' = Current
    <3>1. worker.at = "applying"
      BY <1>3 DEF ApplyReturns
    <3>2. worker.todo # {} /\ Started = {Current}
      BY <3>1 DEF IInv, WorkerKnows, Attempting
    <3>. QED
      BY <1>3, <1>a, <1>c, <3>2 DEF IInv, Started, In, Attempted
  <2>2. SetOp("committed") /\ worker'.outcome.class = "none"
    BY <1>3
  <2>3. operation'[Current][item[Current].attempt] = "committed" /\ item' = item
    BY <1>3, <2>1, <2>2 DEF ApplyReturns, SetOp, Attempt, TypeOK
  <2>. QED
    BY <2>1, <2>2, <2>3 DEF OpOf
<1>4. CASE Simulate \/ RefuseItem \/ RecordIntent \/ SendRequest
  BY <1>4
<1>5. CASE \/ Run \/ AcquireLease \/ RecordAccount \/ FinishAccounting \/ HonourControl
           \/ Acknowledge \/ Select \/ Start \/ Blocked \/ ReadBlockingControl
           \/ Report \/ NothingLeft \/ Stop \/ Release \/ Abort \/ Die
  BY <1>5
<1>6. ASSUME \/ Expire \/ JudgeDelete \/ Entomb \/ UNCHANGED vars
             \/ \E action \in {"pause", "resume", "cancel"} : RequestControl(action)
      PROVE  UNCHANGED <<worker, operation, item>>
  BY <1>6 DEF Expire, JudgeDelete, Entomb, vars, RequestControl
<1>7. ASSUME NEW i \in Items, ChooseRetry(i) \/ RequestRetry(i)
      PROVE  UNCHANGED <<worker, operation>> /\ \A j \in Items : item'[j].attempt = item[j].attempt
  BY <1>7, RetryEffect DEF ChooseRetry, RequestRetry
<1>8. ASSUME NEW i \in Items, NEW a \in Attempts, Recover(i, a) PROVE FALSE
  <2>1. worker'.at = "none"
    BY <1>8 DEF Recover
  <2>. QED
    BY <2>1
<1>. QED
  BY <1>2, <1>3, <1>4, <1>5, <1>6, <1>7, <1>8, OutcomeKept DEF Next, Work, Commands

\* No committed item is on the list the worker starts items from.
LEMMA CommittedNotListed ==
    ASSUME IInv, [Next]_vars, worker'.at \in {"dispatch"} \cup Attempting,
           NEW i \in worker'.todo
    PROVE  item'[i].state # "committed"
<1>1. TypeOK /\ CommittedSound /\ WorkerKnows
  BY SMTT(60) DEF IInv
<1>a. worker.todo # {} => Current \in worker.todo /\ Current \in Items
  BY CurrentOnList, <1>1 DEF TypeOK, Workers
<1>b. worker.todo \subseteq Items
  BY <1>1 DEF TypeOK, Workers
<1>. USE NoWorkerType, Moves, <1>1
<1>. USE DEF At, log, Attempting
<1>2. CASE Select
  <2>1. i \in Eligible /\ UNCHANGED item
    BY <1>2 DEF Select
  <2>2. i \in Items /\ (item[i].state = "committed" => ~ item[i].eligible)
    BY <2>1 DEF CommittedSound, Eligible
  <2>. QED
    BY <2>1, <2>2 DEF Eligible, RetryEligible
<1>3. CASE Start
  <2>1. worker.at = "dispatch" /\ worker'.todo = worker.todo /\ AppendStarted(Current) /\ Current \in Items
    BY <1>3, <1>a DEF Start
  <2>. QED
    BY <1>b, <2>1, StartEffect, ZenonT(60) DEF CommittedSound
<1>4. CASE Report
  <2>1. /\ worker.at = "report" /\ worker'.todo = worker.todo \ {Current}
        /\ AppendFinished(Current, worker.outcome)
    BY <1>4 DEF Report
  <2>2. Current \in Items
    BY <1>a, <2>1 DEF WorkerKnows
  <2>. QED
    BY <1>b, <2>1, <2>2, FinishEffect DEF CommittedSound
<1>5. CASE Simulate \/ RefuseItem \/ RecordIntent \/ SendRequest \/ ApplyReturns
  <2>1. worker.at \in Attempting /\ worker'.todo = worker.todo /\ UNCHANGED item
    BY <1>5 DEF Simulate, RefuseItem, RecordIntent, SendRequest, ApplyReturns
  <2>. QED
    BY <2>1 DEF CommittedSound
<1>6. CASE \/ Run \/ AcquireLease \/ Account \/ RecordAccount \/ FinishAccounting
           \/ HonourControl \/ Acknowledge \/ Blocked \/ ReadBlockingControl
           \/ NothingLeft \/ Stop \/ Release \/ Abort \/ Die
  BY <1>6
<1>7. ASSUME UNCHANGED worker, \A j \in Items : item'[j].state = item[j].state
      PROVE  item'[i].state # "committed"
  BY <1>7, <1>b DEF CommittedSound
<1>8. ASSUME \/ Expire \/ JudgeDelete \/ Entomb \/ UNCHANGED vars
             \/ \E action \in {"pause", "resume", "cancel"} : RequestControl(action)
             \/ \E j \in Items, a \in Attempts : Recover(j, a)
      PROVE  UNCHANGED <<worker, item>>
  BY <1>8 DEF Expire, JudgeDelete, Entomb, vars, RequestControl, Recover
<1>9. ASSUME NEW j \in Items, ChooseRetry(j) \/ RequestRetry(j)
      PROVE  UNCHANGED worker /\ \A k \in Items : item'[k].state = item[k].state
  BY <1>9, RetryEffect DEF ChooseRetry, RequestRetry
<1>. QED
  BY <1>2, <1>3, <1>4, <1>5, <1>6, <1>7, <1>8, <1>9 DEF Next, Work, Commands

\* The three together.
LEMMA CommittedStep == IInv /\ [Next]_vars => CommittedSound'
BY CommittedRecorded, CommittedReported, CommittedNotListed DEF CommittedSound, OpOf

\* A new job satisfies the invariant.
LEMMA InitInv == Init => IInv
<1>. SUFFICES ASSUME Init PROVE IInv
  OBVIOUS
<1>. USE BoundsAssumption, NoWorkerType, FreshType DEF Init
<1>1. TypeOK
  <2>1. item \in [Items -> ItemRecords] /\ worker \in Workers
    OBVIOUS
  <2>2. operation \in [Items -> [Attempts -> Operations]]
    BY DEF Operations
  <2>3. mode \in Modes /\ policy \in Policies
    OBVIOUS
  <2>4. /\ control \in [action : {"none", "pause", "resume", "cancel"}, number : 0..MaxControls]
        /\ acked \in 0..control.number
    OBVIOUS
  <2>. QED
    BY <2>1, <2>2, <2>3, <2>4 DEF TypeOK
<1>2. Started = {}
  BY DEF Started, In, Fresh
<1>3. WorkerHolds /\ WorkerKnows
  BY <1>2 DEF WorkerHolds, WorkerKnows, Working, Places, Clear, Attempting
<1>4. Attempted /\ CommittedSound
  BY DEF Attempted, CommittedSound, Fresh, Attempting
<1>5. OneStarted /\ ConfirmedIsStopped
  BY <1>2 DEF OneStarted, ConfirmedIsStopped, Confirmed, Stopping, Started
<1>. QED
  BY <1>1, <1>3, <1>4, <1>5 DEF IInv

\* The invariant is inductive.
THEOREM Invariant == Spec => []IInv
<1>1. IInv /\ [Next]_vars => IInv'
  BY TypeStep, HoldsStep, KnowsStep, AttemptedStep, CommittedStep, OneStartedStep,
     ConfirmedStep DEF IInv
<1>. QED
  BY InitInv, <1>1, PTL DEF Spec

-----------------------------------------------------------------------------
(* The properties                                                          *)

\* What the job's events, its worker and its operations hold has its type, and
\* an acknowledgement names a control that was requested.
THEOREM TypeCorrect == Spec => []TypeOK
BY Invariant, PTL DEF IInv

\* The job has one item in flight at most (append_apply_job_event's start, and
\* the accounting every worker begins with).
THEOREM OneStartedHolds == Spec => []OneStarted
BY Invariant, PTL DEF IInv

\* When a pause or cancel is confirmed, by the worker or in the transaction of
\* the request, nothing is in flight, and nothing is until a resume.
THEOREM ConfirmedIsStoppedHolds == Spec => []ConfirmedIsStopped
BY Invariant, PTL DEF IInv

\* No item is started between a pause or cancel and the resume, by whichever
\* worker (APPLY_JOB_CONTROL_BLOCKS_DISPATCH).
THEOREM NoStartWhileStoppingHolds == Spec => NoStartWhileStopping
<1>1. IInv /\ [Next]_vars =>
        [\A i \in Items : item'[i].attempt # item[i].attempt => ~ Stopping]_vars
  <2>. SUFFICES ASSUME IInv, [Next]_vars, NEW i \in Items, item'[i].attempt # item[i].attempt
                PROVE  ~ Stopping
    OBVIOUS
  <2>1. TypeOK
    BY DEF IInv
  <2>2. CASE Start
    BY <2>2 DEF Start, AppendStarted, MayStart
  <2>3. CASE Current \in Items /\ AppendFinished(Current, worker.outcome)
    BY <2>1, <2>3, FinishEffect
  <2>4. CASE \E j \in Items : RequestRetry(j)
    BY <2>1, <2>4, RetryEffect
  <2>. QED
    BY <2>2, <2>3, <2>4, ItemStep
<1>. QED
  BY Invariant, <1>1, PTL DEF Spec, NoStartWhileStopping

\* What the job calls committed has a committed or restored operation, and is
\* committed for good.
THEOREM CommittedStaysHolds == Spec => CommittedStays
<1>1. IInv /\ [Next]_vars =>
        [\A i \in Items : item[i].state = "committed" =>
           /\ operation[i][item[i].attempt] \in {"committed", "restored"}
           /\ item'[i].state = "committed"]_vars
  BY CommittedKept DEF IInv, CommittedSound, OpOf
<1>. QED
  BY Invariant, <1>1, PTL DEF Spec, CommittedStays

-----------------------------------------------------------------------------
(* Reviews of a plan: the inductive invariant                              *)

Contents == [done : SUBSET Writes, text : 0..MaxChanges]
Reviews == [issue : Kinds, input : Contents, made : Contents]
Documents == [content : Contents, seen : SUBSET Observations, reviews : SUBSET Reviews]

\* A decision about a fact or a field is bound to the facts it was made on.
AsSeen(r) == r.issue \in {"fact", "field"} => Facts(r.made) = Facts(r.input)
DocFits(doc) == doc \in Documents /\ (\A r \in doc.reviews : AsSeen(r))

DocsFit(docs) == docs = [d \in Docs |-> docs[d]] /\ (\A d \in Docs : DocFits(docs[d]))

\* A batch keeps such documents, on top of some revision.
BatchPlaces == {"idle", "apply", "conflict", "draft", "unstable"}
BatchFields(b) ==
    b \in [at : {b.at}, docs : {b.docs}, on : {b.on}, all : {b.all}, queue : {b.queue},
           pass : {b.pass}]
BatchFits(b) == BatchFields(b) /\ b.at \in BatchPlaces /\ b.on \in Nat /\ DocsFit(b.docs)

ReviewInv ==
    /\ head = [number |-> head.number, docs |-> head.docs] /\ head.number \in Nat \ {0}
    /\ DocsFit(head.docs)
    /\ batch = [p \in Procs |-> batch[p]]
    /\ \A p \in Procs : BatchFits(batch[p])

USE ReviewAssumption

-----------------------------------------------------------------------------
(* What the operations on one document keep                                *)

\* Writing content and changing the text keep a content's type, and a task map
\* leaves the facts as they are.
LEMMA ContentsKept ==
    ASSUME NEW c \in Contents, NEW k \in Kinds
    PROVE  /\ Written(c, k) \in Contents
           /\ k = "history" => Facts(Written(c, k)) = Facts(c)
           /\ c.text < MaxChanges => Changed(c) \in Contents
           /\ \A S : Cleared(c, S) \in Contents /\ Cleared(c, S).text = c.text
<1>1. c.text \in 0..MaxChanges /\ c.done \in SUBSET Writes
  BY DEF Contents
<1>2. c = [done |-> c.done, text |-> c.text]
  BY DEF Contents
<1>3. Written(c, k) = [done |-> IF k \in Writes THEN c.done \cup {k} ELSE c.done, text |-> c.text]
  BY DEF Written, Contents
<1>4. Written(c, k) \in Contents
  BY <1>1, <1>3 DEF Contents
<1>5. k = "history" => Facts(Written(c, k)) = Facts(c)
  <2>1. Facts(c) = [done |-> c.done \ {"history"}, text |-> c.text]
    BY DEF Facts, Contents
  <2>2. PICK w \in Contents : w = Written(c, k)
    BY <1>4
  <2>3. Facts(w) = [done |-> w.done \ {"history"}, text |-> w.text]
    BY DEF Facts, Contents
  <2>4. k = "history" => w.done \ {"history"} = c.done \ {"history"}
    BY <1>3, <2>2
  <2>5. w.text = c.text
    BY <1>3, <2>2
  <2>. QED
    BY <2>1, <2>2, <2>3, <2>4, <2>5
<1>6. c.text < MaxChanges => Changed(c) \in Contents
  <2>1. Changed(c) = [done |-> c.done, text |-> c.text + 1]
    BY DEF Changed, Contents
  <2>. QED
    BY <1>1, <2>1 DEF Contents
<1>7. ASSUME NEW S
      PROVE  Cleared(c, S) \in Contents /\ Cleared(c, S).text = c.text
  <2>1. Cleared(c, S) = [done |-> c.done \ S, text |-> c.text]
    BY DEF Cleared, Contents
  <2>. QED
    BY <1>1, <2>1 DEF Contents
<1>. QED
  BY <1>4, <1>5, <1>6, <1>7

Fields(doc) == doc \in [content : {doc.content}, seen : {doc.seen}, reviews : {doc.reviews}]

\* A document is fit when its fields are.
LEMMA FieldsFit ==
    ASSUME NEW doc, doc = [content |-> doc.content, seen |-> doc.seen, reviews |-> doc.reviews],
           doc.content \in Contents, doc.seen \subseteq Observations,
           \A r \in doc.reviews : r \in Reviews /\ AsSeen(r)
    PROVE  DocFits(doc)
<1>1. doc.reviews \subseteq Reviews
  OBVIOUS
<1>2. doc \in Documents
  BY <1>1 DEF Documents
<1>. QED
  BY <1>2 DEF DocFits

\* A fit document has these fields.
LEMMA FitFields ==
    ASSUME NEW doc, DocFits(doc)
    PROVE  /\ doc \in Documents
           /\ doc = [content |-> doc.content, seen |-> doc.seen, reviews |-> doc.reviews]
           /\ doc.content \in Contents /\ doc.seen \subseteq Observations
           /\ \A r \in doc.reviews : r \in Reviews /\ AsSeen(r)
  BY DEF DocFits, Documents

\* Changing one field of a document leaves the others.
LEMMA FieldsKept ==
    ASSUME NEW doc, Fields(doc)
    PROVE  /\ \A c, R : [doc EXCEPT !.content = c, !.reviews = R] =
                            [content |-> c, seen |-> doc.seen, reviews |-> R]
           /\ \A R : [doc EXCEPT !.reviews = R] =
                         [content |-> doc.content, seen |-> doc.seen, reviews |-> R]
           /\ \A c, s : [doc EXCEPT !.content = c, !.seen = s] =
                            [content |-> c, seen |-> s, reviews |-> doc.reviews]
           /\ \A c, s, R : [doc EXCEPT !.content = c, !.seen = s, !.reviews = R] =
                               [content |-> c, seen |-> s, reviews |-> R]
           /\ \A c : [doc EXCEPT !.content = c] =
                         [content |-> c, seen |-> doc.seen, reviews |-> doc.reviews]
<1>1. PICK C, S, Q : C = doc.content /\ S = doc.seen /\ Q = doc.reviews
  OBVIOUS
<1>. doc \in [content : {C}, seen : {S}, reviews : {Q}]
  BY <1>1 DEF Fields
<1>2. ASSUME NEW c, NEW R
      PROVE  [doc EXCEPT !.content = c, !.reviews = R] =
                 [content |-> c, seen |-> doc.seen, reviews |-> R]
  <2>1. [doc EXCEPT !.content = c, !.reviews = R] \in [content : {c}, seen : {S}, reviews : {R}]
    OBVIOUS
  <2>2. PICK new \in [content : {c}, seen : {S}, reviews : {R}] :
           new = [doc EXCEPT !.content = c, !.reviews = R]
    BY <2>1
  <2>. QED
    BY <1>1, <2>2
<1>3. ASSUME NEW R
      PROVE  [doc EXCEPT !.reviews = R] = [content |-> doc.content, seen |-> doc.seen, reviews |-> R]
  BY <1>1
<1>4. ASSUME NEW c, NEW s
      PROVE  [doc EXCEPT !.content = c, !.seen = s] =
                 [content |-> c, seen |-> s, reviews |-> doc.reviews]
  <2>1. [doc EXCEPT !.content = c, !.seen = s] \in [content : {c}, seen : {s}, reviews : {Q}]
    OBVIOUS
  <2>2. PICK new \in [content : {c}, seen : {s}, reviews : {Q}] :
           new = [doc EXCEPT !.content = c, !.seen = s]
    BY <2>1
  <2>. QED
    BY <1>1, <2>2
<1>5. ASSUME NEW c, NEW s, NEW R
      PROVE  [doc EXCEPT !.content = c, !.seen = s, !.reviews = R] =
                 [content |-> c, seen |-> s, reviews |-> R]
  <2>1. [doc EXCEPT !.content = c, !.seen = s, !.reviews = R] \in
            [content : {c}, seen : {s}, reviews : {R}]
    OBVIOUS
  <2>2. PICK new \in [content : {c}, seen : {s}, reviews : {R}] :
           new = [doc EXCEPT !.content = c, !.seen = s, !.reviews = R]
    BY <2>1
  <2>. QED
    BY <1>1, <2>2
<1>6. ASSUME NEW c
      PROVE  [doc EXCEPT !.content = c] = [content |-> c, seen |-> doc.seen, reviews |-> doc.reviews]
  BY <1>1
<1>. QED
  BY <1>2, <1>3, <1>4, <1>5, <1>6

\* A decision that moves to the content another one wrote is about the same facts.
LEMMA ReboundFits ==
    ASSUME NEW doc, DocFits(doc), NEW k \in Kinds, NEW q \in Rebound(doc, k)
    PROVE  q \in Reviews /\ AsSeen(q)
<1>1. Survivors(doc, k) \subseteq doc.reviews
  BY DEF Survivors
<1>2. PICK r \in doc.reviews :
         q = [r EXCEPT !.input = IF Follows(doc, k, r) THEN Written(doc.content, k) ELSE @]
  BY <1>1 DEF Rebound
<1>3. r \in Reviews /\ AsSeen(r) /\ doc.content \in Contents
  BY FitFields
<1>4. PICK w \in Contents : w = Written(doc.content, k)
  BY <1>3, ContentsKept
<1>5. CASE ~ Follows(doc, k, r)
  <2>1. q = r
    BY <1>2, <1>3, <1>5 DEF Reviews
  <2>. QED
    BY <1>3, <2>1
<1>6. CASE Follows(doc, k, r)
  <2>1. /\ q \in Reviews /\ q.issue = r.issue /\ q.made = r.made /\ q.input = w
    BY <1>2, <1>3, <1>4, <1>6 DEF Reviews
  <2>2. ASSUME r.issue \in {"fact", "field"}
        PROVE  Facts(r.made) = Facts(w)
    <3>1. k = "history" /\ r.input = doc.content
      BY <1>6, <2>2 DEF Follows, Rebindable, SourceOnly, Roles
    <3>2. Facts(w) = Facts(r.input)
      BY <1>3, <1>4, <3>1, ContentsKept
    <3>. QED
      BY <1>3, <2>2, <3>2 DEF AsSeen
  <2>. QED
    BY <2>1, <2>2 DEF AsSeen
<1>. QED
  BY <1>5, <1>6

\* A decision leaves a fit document fit.
LEMMA DecidedFits ==
    ASSUME NEW d, NEW doc, DocFits(doc), NEW k \in Kinds
    PROVE  DocFits(Decided(d, doc, k))
<1>. DEFINE now == [doc EXCEPT !.content = Written(@, k), !.reviews = Rebound(doc, k)]
            kept == {r \in now.reviews : r.issue \in Rebindable => ~Open(d, now, r.issue)}
            own == [issue |-> k, input |-> now.content, made |-> now.content]
            all == kept \cup {own}
<1>1. PICK w \in Contents : w = Written(doc.content, k)
  BY FitFields, ContentsKept
<1>2. \A e, R : [doc EXCEPT !.content = e, !.reviews = R] =
                  [content |-> e, seen |-> doc.seen, reviews |-> R]
  <2>1. Fields(doc)
    BY FitFields DEF Documents, Fields
  <2>. QED
    BY <2>1, FieldsKept
<1>3. now = [content |-> w, seen |-> doc.seen, reviews |-> Rebound(doc, k)]
  BY <1>2, <1>1
<1>4. own \in Reviews /\ AsSeen(own)
  BY <1>3 DEF Reviews, AsSeen
<1>5. \A r \in all : r \in Reviews /\ AsSeen(r)
  <2>1. \A r \in kept : r \in Rebound(doc, k)
    BY <1>3
  <2>. QED
    BY <1>4, <2>1, ReboundFits
<1>6. Decided(d, doc, k) = [content |-> w, seen |-> doc.seen, reviews |-> all]
  <2>1. Decided(d, doc, k) = [now EXCEPT !.reviews = all]
    BY DEF Decided
  <2>2. Fields(now) /\ now.content = w /\ now.seen = doc.seen
    BY <1>3 DEF Fields
  <2>. HIDE DEF now, all
  <2>3. \A R : [now EXCEPT !.reviews = R] =
                 [content |-> now.content, seen |-> now.seen, reviews |-> R]
    BY <2>2, FieldsKept
  <2>. QED
    BY <2>1, <2>2, <2>3
<1>7. doc.seen \subseteq Observations
  BY FitFields
<1>. HIDE DEF all
<1>. QED
  BY <1>1, <1>5, <1>6, <1>7, FieldsFit

\* So does computing its issues again.
LEMMA ValidatedFits ==
    ASSUME NEW d, NEW doc, DocFits(doc)
    PROVE  DocFits(Validated(d, doc))
<1>1. Validated(d, doc) = [content |-> doc.content, seen |-> {k \in doc.seen : Open(d, doc, k)},
                           reviews |-> doc.reviews]
  BY FitFields DEF Validated, Documents
<1>. QED
  BY <1>1, FitFields, FieldsFit

\* New content keeps decisions about the source alone.
LEMMA SourceDecisionsFit ==
    ASSUME NEW d, NEW doc, DocFits(doc), NEW c \in Contents
    PROVE  DocFits(WithSourceDecisions(d, doc, c))
<1>. DEFINE moved == {[r EXCEPT !.input = c] : r \in {s \in doc.reviews : s.issue \in SourceOnly}}
            new == [doc EXCEPT !.content = c,
                        !.reviews = {[r EXCEPT !.input = c]
                                        : r \in {s \in @ : s.issue \in SourceOnly}}]
            kept == {r \in new.reviews : ~Open(d, new, r.issue)}
<1>1. \A e, R : [doc EXCEPT !.content = e, !.reviews = R] =
                  [content |-> e, seen |-> doc.seen, reviews |-> R]
  <2>1. Fields(doc)
    BY FitFields DEF Documents, Fields
  <2>. QED
    BY <2>1, FieldsKept
<1>2. new = [content |-> c, seen |-> doc.seen, reviews |-> moved]
  BY <1>1
<1>3. \A q \in moved : q \in Reviews /\ AsSeen(q)
  <2>1. SUFFICES ASSUME NEW r \in doc.reviews, r.issue \in SourceOnly,
                        NEW q, q = [r EXCEPT !.input = c]
                 PROVE  q \in Reviews /\ AsSeen(q)
    OBVIOUS
  <2>2. r \in Reviews
    BY FitFields
  <2>3. q \in Reviews /\ q.issue = r.issue
    BY <2>1, <2>2 DEF Reviews
  <2>. QED
    BY <2>1, <2>3 DEF AsSeen, SourceOnly, Roles
<1>4. \A q \in kept : q \in Reviews /\ AsSeen(q)
  BY <1>2, <1>3
<1>5. WithSourceDecisions(d, doc, c) = [content |-> c, seen |-> doc.seen, reviews |-> kept]
  <2>1. WithSourceDecisions(d, doc, c) = [new EXCEPT !.reviews = kept]
    BY DEF WithSourceDecisions
  <2>. QED
    BY <1>2, <2>1
<1>6. doc.seen \subseteq Observations
  BY FitFields
<1>. HIDE DEF kept
<1>. QED
  BY <1>4, <1>5, <1>6, FieldsFit

\* A draft on top of a fit document is fit.
LEMMA DraftedFits ==
    ASSUME NEW d, NEW doc, DocFits(doc), doc.content.text < MaxChanges
    PROVE  DocFits(Drafted(d, doc))
<1>1. PICK kept : kept = [doc EXCEPT !.reviews = {r \in doc.reviews : Raised(d, doc, r.issue)}]
  OBVIOUS
<1>2. kept = [content |-> doc.content, seen |-> doc.seen,
              reviews |-> {r \in doc.reviews : Raised(d, doc, r.issue)}]
  BY <1>1, FitFields DEF Documents
<1>3. DocFits(kept)
  BY <1>2, FitFields, FieldsFit
<1>4. Changed(doc.content) \in Contents
  BY FitFields, ContentsKept DEF Kinds
<1>5. PICK c \in Contents : c = Cleared(Changed(doc.content), {"claim"})
  BY <1>4, ContentsKept DEF Kinds
<1>6. Drafted(d, doc) = WithSourceDecisions(d, kept, c)
  BY <1>1, <1>5 DEF Drafted
<1>. QED
  BY <1>3, <1>6, SourceDecisionsFit

\* A stage that is cleared and runs again leaves a fit document.
LEMMA EnrichedFits ==
    ASSUME NEW doc, DocFits(doc), doc.content.text < MaxChanges, NEW stage,
           NEW named \in BOOLEAN, NEW found \in BOOLEAN
    PROVE  DocFits(Enriched(Prepared(doc, stage, named), found))
<1>1. PICK gone : gone = IF named THEN IF stage = "dictionary" THEN {"sense"} ELSE {"media"} ELSE {}
  OBVIOUS
<1>2. PICK s : s = IF stage = "enrichment" THEN doc.seen \ {"media"} ELSE doc.seen
  OBVIOUS
<1>3. PICK c \in Contents : c = Cleared(doc.content, gone)
  BY FitFields, ContentsKept DEF Kinds
<1>4. PICK prepared : prepared = Prepared(doc, stage, named)
  OBVIOUS
<1>5. Fields(doc)
  BY FitFields DEF Documents, Fields
<1>6. prepared = [content |-> c, seen |-> s, reviews |-> doc.reviews]
  <2>1. \A x, y : [doc EXCEPT !.content = x, !.seen = y] =
                   [content |-> x, seen |-> y, reviews |-> doc.reviews]
    BY <1>5, FieldsKept
  <2>2. prepared = [doc EXCEPT !.content = c, !.seen = s]
    BY <1>1, <1>2, <1>3, <1>4, Zenon DEF Prepared
  <2>. QED
    BY <2>1, <2>2, Zenon
<1>7. Fields(prepared) /\ prepared.content = c /\ prepared.seen = s /\ prepared.reviews = doc.reviews
  BY <1>6 DEF Fields
<1>8. c.text < MaxChanges
  BY <1>3, FitFields, ContentsKept DEF Kinds
<1>9. Changed(c) \in Contents
  BY <1>8, ContentsKept DEF Kinds
<1>10. PICK e \in Contents : e = Cleared(Changed(c), IF found THEN {"media"} ELSE {})
  BY <1>9, ContentsKept DEF Kinds
<1>11. PICK now : now = IF found THEN s \cup {"media"} ELSE s
  OBVIOUS
<1>12. now \subseteq Observations
  BY <1>2, <1>11, FitFields DEF Observations, Captured
<1>13. Enriched(prepared, found) = [content |-> e, seen |-> now, reviews |-> doc.reviews]
  <2>1. \A x, y : [prepared EXCEPT !.content = x, !.seen = y] =
                   [content |-> x, seen |-> y, reviews |-> prepared.reviews]
    BY <1>7, FieldsKept
  <2>2. Enriched(prepared, found) = [prepared EXCEPT !.content = e, !.seen = now]
    BY <1>7, <1>10, <1>11, Zenon DEF Enriched
  <2>. QED
    BY <1>7, <2>1, <2>2, Zenon
<1>. QED
  BY <1>4, <1>12, <1>13, FitFields, FieldsFit

\* So are one whose text is edited, one whose duplicates are reported, and one that
\* got the notes merged into it.
LEMMA EditedFits ==
    ASSUME NEW doc, DocFits(doc), doc.content.text < MaxChanges
    PROVE  /\ DocFits(Edited(doc))
           /\ DocFits([doc EXCEPT !.content = Changed(@), !.seen = @ \cup {"duplicate"},
                          !.reviews = {r \in @ : r.issue # "duplicate"}])
           /\ DocFits([doc EXCEPT !.content = Changed(@)])
<1>1. Fields(doc)
  BY FitFields DEF Documents, Fields
<1>2. PICK c \in Contents : c = Changed(doc.content)
  BY FitFields, ContentsKept DEF Kinds
<1>3. DocFits(Edited(doc))
  <2>1. Edited(doc) = [doc EXCEPT !.content = c, !.reviews = {}]
    BY <1>2, Zenon DEF Edited
  <2>2. Edited(doc) = [content |-> c, seen |-> doc.seen, reviews |-> {}]
    BY <1>1, <2>1, FieldsKept
  <2>. QED
    BY <2>2, FitFields, FieldsFit
<1>4. ASSUME NEW new, new = [doc EXCEPT !.content = Changed(@), !.seen = @ \cup {"duplicate"},
                               !.reviews = {r \in @ : r.issue # "duplicate"}]
      PROVE  DocFits(new)
  <2>1. PICK s : s = doc.seen \cup {"duplicate"}
    OBVIOUS
  <2>2. PICK R : R = {r \in doc.reviews : r.issue # "duplicate"}
    OBVIOUS
  <2>3. \A x, y, z : [doc EXCEPT !.content = x, !.seen = y, !.reviews = z] =
                      [content |-> x, seen |-> y, reviews |-> z]
    BY <1>1, FieldsKept
  <2>4. new = [content |-> c, seen |-> s, reviews |-> R]
    BY <1>2, <1>4, <2>1, <2>2, <2>3
  <2>5. s \subseteq Observations
    BY <2>1, FitFields DEF Observations
  <2>. QED
    BY <2>2, <2>4, <2>5, FitFields, FieldsFit
<1>5. ASSUME NEW new, new = [doc EXCEPT !.content = Changed(@)]
      PROVE  DocFits(new)
  <2>1. new = [content |-> c, seen |-> doc.seen, reviews |-> doc.reviews]
    BY <1>1, <1>2, <1>5, FieldsKept
  <2>. QED
    BY <2>1, FitFields, FieldsFit
<1>. QED
  BY <1>3, <1>4, <1>5

\* Changing one document leaves the others fit.
LEMMA OneDocFits ==
    ASSUME NEW docs, DocsFit(docs), NEW d, NEW doc, d \in Docs => DocFits(doc)
    PROVE  DocsFit([docs EXCEPT ![d] = doc])
<1>1. PICK new : new = [docs EXCEPT ![d] = doc]
  OBVIOUS
<1>2. new = [e \in Docs |-> IF e = d THEN doc ELSE docs[e]]
  BY <1>1 DEF DocsFit
<1>3. \A e \in Docs : new[e] = IF e = d THEN doc ELSE docs[e]
  BY <1>2
<1>. QED
  BY <1>1, <1>2, <1>3 DEF DocsFit

\* The steps of a batch leave its other fields.
LEMMA BatchKept ==
    ASSUME NEW b, BatchFits(b)
    PROVE  /\ \A s \in BatchPlaces : BatchFits([b EXCEPT !.at = s])
           /\ \A q : BatchFits([b EXCEPT !.queue = q])
           /\ \A d, doc, q : (d \in Docs => DocFits(doc)) =>
                 BatchFits([b EXCEPT !.docs[d] = doc, !.queue = q])
           /\ \A d, doc, q, n : (d \in Docs => DocFits(doc)) =>
                 BatchFits([b EXCEPT !.docs[d] = doc, !.queue = q, !.pass = n])
           /\ \A q, n, m : m \in Nat => BatchFits([b EXCEPT !.queue = q, !.pass = n, !.on = m])
           /\ \A n, m : m \in Nat => BatchFits([b EXCEPT !.pass = n, !.on = m])
           /\ \A D, m, q : m \in Nat /\ DocsFit(D) =>
                 BatchFits([b EXCEPT !.at = "draft", !.docs = D, !.on = m, !.queue = q])
<1>1. PICK A, D, O, L, Q, P :
         A = b.at /\ D = b.docs /\ O = b.on /\ L = b.all /\ Q = b.queue /\ P = b.pass
  OBVIOUS
<1>2. /\ b \in [at : {A}, docs : {D}, on : {O}, all : {L}, queue : {Q}, pass : {P}]
      /\ A \in BatchPlaces /\ O \in Nat /\ DocsFit(D)
  BY <1>1 DEF BatchFits, BatchFields
<1>3. ASSUME NEW s \in BatchPlaces PROVE BatchFits([b EXCEPT !.at = s])
  <2>1. [b EXCEPT !.at = s] \in
            [at : {s}, docs : {D}, on : {O}, all : {L}, queue : {Q}, pass : {P}]
    BY <1>2
  <2>2. PICK new \in [at : {s}, docs : {D}, on : {O}, all : {L}, queue : {Q}, pass : {P}] :
           new = [b EXCEPT !.at = s]
    BY <2>1
  <2>. QED
    BY <1>2, <2>2 DEF BatchFits, BatchFields
<1>4. ASSUME NEW q PROVE BatchFits([b EXCEPT !.queue = q])
  <2>1. [b EXCEPT !.queue = q] \in
            [at : {A}, docs : {D}, on : {O}, all : {L}, queue : {q}, pass : {P}]
    BY <1>2
  <2>2. PICK new \in [at : {A}, docs : {D}, on : {O}, all : {L}, queue : {q}, pass : {P}] :
           new = [b EXCEPT !.queue = q]
    BY <2>1
  <2>. QED
    BY <1>2, <2>2 DEF BatchFits, BatchFields
<1>5. ASSUME NEW d, NEW doc, NEW q, d \in Docs => DocFits(doc)
      PROVE  BatchFits([b EXCEPT !.docs[d] = doc, !.queue = q])
  <2>1. PICK docs : docs = [D EXCEPT ![d] = doc]
    OBVIOUS
  <2>2. [b EXCEPT !.docs[d] = doc, !.queue = q] \in
            [at : {A}, docs : {docs}, on : {O}, all : {L}, queue : {q}, pass : {P}]
    BY <1>2, <2>1
  <2>3. PICK new \in [at : {A}, docs : {docs}, on : {O}, all : {L}, queue : {q}, pass : {P}] :
           new = [b EXCEPT !.docs[d] = doc, !.queue = q]
    BY <2>2
  <2>4. DocsFit(docs)
    BY <1>2, <1>5, <2>1, OneDocFits
  <2>. QED
    BY <1>2, <2>4, <2>3 DEF BatchFits, BatchFields
<1>6. ASSUME NEW d, NEW doc, NEW q, NEW n, d \in Docs => DocFits(doc)
      PROVE  BatchFits([b EXCEPT !.docs[d] = doc, !.queue = q, !.pass = n])
  <2>1. PICK docs : docs = [D EXCEPT ![d] = doc]
    OBVIOUS
  <2>2. [b EXCEPT !.docs[d] = doc, !.queue = q, !.pass = n] \in
            [at : {A}, docs : {docs}, on : {O}, all : {L}, queue : {q}, pass : {n}]
    BY <1>2, <2>1
  <2>3. PICK new \in [at : {A}, docs : {docs}, on : {O}, all : {L}, queue : {q}, pass : {n}] :
           new = [b EXCEPT !.docs[d] = doc, !.queue = q, !.pass = n]
    BY <2>2
  <2>4. DocsFit(docs)
    BY <1>2, <1>6, <2>1, OneDocFits
  <2>. QED
    BY <1>2, <2>4, <2>3 DEF BatchFits, BatchFields
<1>7. ASSUME NEW q, NEW n, NEW m \in Nat
      PROVE  BatchFits([b EXCEPT !.queue = q, !.pass = n, !.on = m])
  <2>1. [b EXCEPT !.queue = q, !.pass = n, !.on = m] \in
            [at : {A}, docs : {D}, on : {m}, all : {L}, queue : {q}, pass : {n}]
    BY <1>2
  <2>2. PICK new \in [at : {A}, docs : {D}, on : {m}, all : {L}, queue : {q}, pass : {n}] :
           new = [b EXCEPT !.queue = q, !.pass = n, !.on = m]
    BY <2>1
  <2>. QED
    BY <1>2, <2>2 DEF BatchFits, BatchFields
<1>8. ASSUME NEW n, NEW m \in Nat PROVE BatchFits([b EXCEPT !.pass = n, !.on = m])
  <2>1. [b EXCEPT !.pass = n, !.on = m] \in
            [at : {A}, docs : {D}, on : {m}, all : {L}, queue : {Q}, pass : {n}]
    BY <1>2
  <2>2. PICK new \in [at : {A}, docs : {D}, on : {m}, all : {L}, queue : {Q}, pass : {n}] :
           new = [b EXCEPT !.pass = n, !.on = m]
    BY <2>1
  <2>. QED
    BY <1>2, <2>2 DEF BatchFits, BatchFields
<1>9. ASSUME NEW docs, NEW m \in Nat, NEW q, DocsFit(docs)
       PROVE  BatchFits([b EXCEPT !.at = "draft", !.docs = docs, !.on = m, !.queue = q])
  <2>1. [b EXCEPT !.at = "draft", !.docs = docs, !.on = m, !.queue = q] \in
            [at : {"draft"}, docs : {docs}, on : {m}, all : {L}, queue : {q}, pass : {P}]
    BY <1>2
  <2>2. PICK new \in [at : {"draft"}, docs : {docs}, on : {m}, all : {L}, queue : {q}, pass : {P}] :
           new = [b EXCEPT !.at = "draft", !.docs = docs, !.on = m, !.queue = q]
    BY <2>1
  <2>3. "draft" \in BatchPlaces
    BY DEF BatchPlaces
  <2>. QED
    BY <1>2, <1>9, <2>3, <2>2 DEF BatchFits, BatchFields
<1>. QED
  BY <1>3, <1>4, <1>5, <1>6, <1>7, <1>8, <1>9, Zenon

-----------------------------------------------------------------------------
(* The invariant is inductive                                              *)

\* A document as it is captured, and the batch a process starts with.
LEMMA StagedFits ==
    ASSUME NEW d \in Docs
    PROVE  DocFits(Staged(d))
<1>1. PICK S : S = Due[d] \cap Captured
  OBVIOUS
<1>2. PICK c \in Contents : c = [done |-> {}, text |-> 0]
  <2>1. 0 \in 0..MaxChanges
    BY DEF ReviewAssumption
  <2>. QED
    BY <2>1 DEF Contents
<1>3. S \subseteq Observations
  BY <1>1 DEF Observations
<1>4. Staged(d) = [content |-> c, seen |-> S, reviews |-> {}]
  BY <1>1, <1>2, Zenon DEF Staged
<1>. QED
  BY <1>3, <1>4, FieldsFit

LEMMA NoBatchFits == BatchFits(NoBatch) /\ BatchFits([NoBatch EXCEPT !.at = "unstable"])
<1>1. PICK docs : docs = [d \in Docs |-> Staged(d)]
  OBVIOUS
<1>2. DocsFit(docs)
  <2>1. \A d \in Docs : docs[d] = Staged(d)
    BY <1>1
  <2>. QED
    BY <1>1, <2>1, StagedFits DEF DocsFit
<1>3. NoBatch = [at |-> "idle", docs |-> docs, on |-> 0, all |-> <<>>, queue |-> <<>>, pass |-> 0]
  BY <1>1 DEF NoBatch
<1>4. BatchFits(NoBatch)
  BY <1>2, <1>3 DEF BatchFits, BatchFields, BatchPlaces
<1>. QED
  BY <1>4, BatchKept DEF BatchPlaces

\* It holds of the captured plan.
LEMMA ReviewInitially == ReviewInit => ReviewInv
<1>. SUFFICES ASSUME ReviewInit PROVE ReviewInv
  OBVIOUS
<1>1. PICK docs : docs = [d \in Docs |-> Staged(d)]
  OBVIOUS
<1>2. DocsFit(docs)
  <2>1. \A d \in Docs : docs[d] = Staged(d)
    BY <1>1
  <2>. QED
    BY <1>1, <2>1, StagedFits DEF DocsFit
<1>3. head = [number |-> 1, docs |-> docs]
  BY <1>1 DEF ReviewInit
<1>4. batch = [p \in Procs |-> NoBatch]
  BY DEF ReviewInit
<1>5. \A p \in Procs : BatchFits(batch[p])
  BY <1>4, NoBatchFits
<1>. QED
  BY <1>2, <1>3, <1>4, <1>5 DEF ReviewInv

\* Publishing fit documents keeps the invariant.
LEMMA PublishKeeps ==
    ASSUME ReviewInv, NEW docs, DocsFit(docs), Publish(docs), batch' = batch
    PROVE  ReviewInv'
<1>1. head' = [number |-> head.number + 1, docs |-> docs]
  BY DEF Publish
<1>2. /\ head'.number = head.number + 1 /\ head'.docs = docs
      /\ head' = [number |-> head'.number, docs |-> head'.docs]
  BY <1>1
<1>3. head'.number \in Nat \ {0}
  BY <1>2 DEF ReviewInv
<1>4. DocsFit(head'.docs)
  BY <1>2
<1>5. batch' = [p \in Procs |-> batch'[p]] /\ (\A p \in Procs : BatchFits(batch'[p]))
  BY DEF ReviewInv
<1>. QED
  BY <1>2, <1>3, <1>4, <1>5 DEF ReviewInv

\* So does a step of a batch, which may publish what the batch holds.
LEMMA GoesKeeps ==
    ASSUME ReviewInv, NEW p \in Procs, NEW b, BatchFits(b), Goes(p, b),
           head' = head \/ head' = [number |-> batch[p].on + 1, docs |-> batch[p].docs]
    PROVE  ReviewInv'
<1>1. batch' = [q \in Procs |-> IF q = p THEN b ELSE batch[q]]
  BY DEF Goes, ReviewInv
<1>2. \A q \in Procs : batch'[q] = IF q = p THEN b ELSE batch[q]
  BY <1>1
<1>3. batch' = [q \in Procs |-> batch'[q]]
  BY <1>1
<1>4. \A q \in Procs : BatchFits(batch'[q])
  BY <1>2 DEF ReviewInv
<1>5. /\ head' = [number |-> head'.number, docs |-> head'.docs]
      /\ head'.number \in Nat \ {0} /\ DocsFit(head'.docs)
  <2>1. CASE head' = head
    BY <2>1 DEF ReviewInv
  <2>2. CASE head' = [number |-> batch[p].on + 1, docs |-> batch[p].docs]
    <3>1. head'.number = batch[p].on + 1 /\ head'.docs = batch[p].docs
      BY <2>2
    <3>2. batch[p].on \in Nat /\ DocsFit(batch[p].docs)
      BY DEF ReviewInv, BatchFits
    <3>. QED
      BY <2>2, <3>1, <3>2
  <2>. QED
    BY <2>1, <2>2
<1>. QED
  BY <1>3, <1>4, <1>5 DEF ReviewInv

\* The documents of the newest revision, each fit, with one of them changed.
LEMMA HeadFits ==
    ASSUME ReviewInv
    PROVE  /\ DocsFit(head.docs) /\ (\A d \in Docs : DocFits(head.docs[d]))
           /\ \A d, doc : DocFits(doc) => DocsFit([head.docs EXCEPT ![d] = doc])
           /\ \A p \in Procs : BatchFits(batch[p])
<1>1. DocsFit(head.docs)
  BY DEF ReviewInv
<1>. QED
  BY <1>1, OneDocFits DEF ReviewInv, DocsFit

\* Commands that publish one revision.
LEMMA CommandsKeep ==
    ASSUME ReviewInv, NEW d \in Docs,
           \/ \E k \in Kinds : Resolve(d, k)
           \/ Edit(d)
           \/ Generate(d)
           \/ \E stage, named, found : named \in BOOLEAN /\ found \in BOOLEAN
                                         /\ Regenerate(d, stage, named, found)
           \/ RecordDuplicates(d)
           \/ AddMergedNotes(d)
           \/ Bind
    PROVE  ReviewInv'
<1>1. PICK doc : doc = head.docs[d] /\ DocFits(doc)
  BY HeadFits
<1>2. ASSUME NEW k \in Kinds, Resolve(d, k) PROVE ReviewInv'
  <2>1. DocsFit([head.docs EXCEPT ![d] = Decided(d, head.docs[d], k)])
    BY <1>1, DecidedFits, HeadFits
  <2>. QED
    BY <1>2, <2>1, PublishKeeps DEF Resolve
<1>3. ASSUME Edit(d) PROVE ReviewInv'
  <2>1. DocFits(Edited(doc))
    BY <1>1, <1>3, EditedFits DEF Edit
  <2>2. PICK edited : edited = [head.docs EXCEPT ![d] = Edited(head.docs[d])]
    OBVIOUS
  <2>3. DocsFit(edited)
    BY <1>1, <2>1, <2>2, HeadFits
  <2>4. PICK docs : docs = [e \in Docs |-> Validated(e, edited[e])]
    OBVIOUS
  <2>5. \A e \in Docs : docs[e] = Validated(e, edited[e])
    BY <2>4
  <2>6. \A e \in Docs : DocFits(docs[e])
    BY <2>3, <2>5, ValidatedFits DEF DocsFit
  <2>7. DocsFit(docs)
    BY <2>4, <2>6 DEF DocsFit
  <2>8. Publish(docs) /\ batch' = batch
    BY <1>3, <2>2, <2>4 DEF Edit
  <2>. QED
    BY <2>7, <2>8, PublishKeeps
<1>4. ASSUME Generate(d) PROVE ReviewInv'
  <2>1. DocFits(Drafted(d, doc))
    BY <1>1, <1>4, DraftedFits DEF Generate
  <2>2. DocsFit([head.docs EXCEPT ![d] = Drafted(d, head.docs[d])])
    BY <1>1, <2>1, HeadFits
  <2>. QED
    BY <1>4, <2>2, PublishKeeps DEF Generate
<1>5. ASSUME NEW stage, NEW named \in BOOLEAN, NEW found \in BOOLEAN,
             Regenerate(d, stage, named, found)
      PROVE  ReviewInv'
  <2>1. PICK new : new = Enriched(Prepared(doc, stage, named), found) /\ DocFits(new)
    BY <1>1, <1>5, EnrichedFits DEF Regenerate
  <2>2. PICK kept : kept = WithSourceDecisions(d, new, new.content) /\ DocFits(kept)
    BY <2>1, SourceDecisionsFit, FitFields
  <2>3. PICK docs : docs = [head.docs EXCEPT ![d] = Validated(d, kept)] /\ DocsFit(docs)
    BY <2>2, ValidatedFits, HeadFits
  <2>4. Publish(docs) /\ batch' = batch
    BY <1>1, <1>5, <2>1, <2>2, <2>3 DEF Regenerate
  <2>. QED
    BY <2>3, <2>4, PublishKeeps
<1>6. ASSUME RecordDuplicates(d) PROVE ReviewInv'
  <2>1. PICK new : /\ new = [doc EXCEPT !.content = Changed(@), !.seen = @ \cup {"duplicate"},
                                !.reviews = {r \in @ : r.issue # "duplicate"}]
                   /\ DocFits(new)
    BY <1>1, <1>6, EditedFits DEF RecordDuplicates
  <2>2. PICK docs : docs = [head.docs EXCEPT ![d] = Validated(d, new)] /\ DocsFit(docs)
    BY <2>1, ValidatedFits, HeadFits
  <2>3. Publish(docs) /\ batch' = batch
    BY <1>1, <1>6, <2>1, <2>2 DEF RecordDuplicates
  <2>. QED
    BY <2>2, <2>3, PublishKeeps
<1>7. ASSUME AddMergedNotes(d) PROVE ReviewInv'
  <2>1. PICK new : new = [doc EXCEPT !.content = Changed(@)] /\ DocFits(new)
    BY <1>1, <1>7, EditedFits DEF AddMergedNotes
  <2>2. PICK docs : docs = [head.docs EXCEPT ![d] = Validated(d, new)] /\ DocsFit(docs)
    BY <2>1, ValidatedFits, HeadFits
  <2>3. Publish(docs) /\ batch' = batch
    BY <1>1, <1>7, <2>1, <2>2 DEF AddMergedNotes
  <2>. QED
    BY <2>2, <2>3, PublishKeeps
<1>8. ASSUME Bind PROVE ReviewInv'
  BY <1>8, HeadFits, PublishKeeps DEF Bind
<1>. QED
  BY <1>2, <1>3, <1>4, <1>5, <1>6, <1>7, <1>8

\* An open issue is one of the kinds.
LEMMA OpenKind ==
    ASSUME NEW d \in Docs, NEW doc, NEW k, Open(d, doc, k)
    PROVE  k \in Kinds
  BY DEF Open, Raised

\* Steps of batches.
LEMMA BatchesKeep ==
    ASSUME ReviewInv, NEW p \in Procs,
           \/ \E d \in Docs : \E kinds, file : StartBatch(p, d, kinds, file)
           \/ ApplyNext(p) \/ DecisionRefused(p) \/ FlushPass(p) \/ FlushConflict(p)
           \/ StartDrafts(p) \/ DraftNext(p) \/ FlushDrafts(p)
           \/ FlushRefused(p) \/ Killed(p)
    PROVE  ReviewInv'
<1>1. PICK b : b = batch[p] /\ BatchFits(b)
  BY HeadFits
<1>2. ASSUME NEW d \in Docs, NEW kinds, NEW file, StartBatch(p, d, kinds, file) PROVE ReviewInv'
  <2>1. PICK all : Goes(p, [at |-> "apply", docs |-> head.docs, on |-> head.number,
                            all |-> all, queue |-> all, pass |-> 1])
    BY <1>2 DEF StartBatch
  <2>2. PICK n : n = [at |-> "apply", docs |-> head.docs, on |-> head.number,
                      all |-> all, queue |-> all, pass |-> 1]
    OBVIOUS
  <2>3. BatchFits(n)
    BY <2>2 DEF ReviewInv, BatchFits, BatchFields, BatchPlaces
  <2>4. head' = head
    BY <1>2 DEF StartBatch
  <2>. QED
    BY <2>1, <2>2, <2>3, <2>4, GoesKeeps
<1>3. ASSUME ApplyNext(p) PROVE ReviewInv'
  <2>1. PICK e : e = Head(b.queue)
    OBVIOUS
  <2>2. PICK doc : doc = IF StillOpen(b, e) THEN Decided(e.item, b.docs[e.item], e.issue)
                         ELSE b.docs[e.item]
    OBVIOUS
  <2>3. PICK d, q : d = e.item /\ q = Tail(b.queue)
    OBVIOUS
  <2>4. ASSUME d \in Docs PROVE DocFits(doc)
    <3>1. DocFits(b.docs[d])
      BY <1>1, <2>4 DEF BatchFits, DocsFit
    <3>2. StillOpen(b, e) => e.issue \in Kinds
      BY <2>3, <2>4, OpenKind DEF StillOpen
    <3>. QED
      BY <2>2, <2>3, <3>1, <3>2, DecidedFits
  <2>5. BatchFits([b EXCEPT !.docs[d] = doc, !.queue = q])
    BY <1>1, <2>4, BatchKept
  <2>6. Goes(p, [b EXCEPT !.docs[d] = doc, !.queue = q]) /\ head' = head
    BY <1>1, <1>3, <2>1, <2>2, <2>3 DEF ApplyNext
  <2>. QED
    BY <2>5, <2>6, GoesKeeps
<1>4. ASSUME DecisionRefused(p) PROVE ReviewInv'
  <2>1. Goes(p, [b EXCEPT !.at = "conflict"]) /\ head' = head
    BY <1>1, <1>4 DEF DecisionRefused
  <2>2. BatchFits([b EXCEPT !.at = "conflict"])
    BY <1>1, BatchKept DEF BatchPlaces
  <2>. QED
    BY <2>1, <2>2, GoesKeeps
<1>5. ASSUME FlushPass(p) PROVE ReviewInv'
  <2>1. head' = head \/ head' = [number |-> b.on + 1, docs |-> b.docs]
    BY <1>1, <1>5 DEF FlushPass
  <2>2. PICK m \in Nat : m = head'.number
    BY <1>1, <2>1 DEF ReviewInv, BatchFits
  <2>3. PICK q, n : \/ Goes(p, NoBatch)
                    \/ Goes(p, [NoBatch EXCEPT !.at = "unstable"])
                    \/ Goes(p, [b EXCEPT !.queue = q, !.pass = n, !.on = m])
    BY <1>1, <1>5, <2>2 DEF FlushPass
  <2>4. BatchFits([b EXCEPT !.queue = q, !.pass = n, !.on = m])
    BY <1>1, BatchKept
  <2>. QED
    BY <1>1, <2>1, <2>3, <2>4, NoBatchFits, GoesKeeps
<1>6. ASSUME FlushConflict(p) PROVE ReviewInv'
  <2>1. /\ head' = head \/ head' = [number |-> b.on + 1, docs |-> b.docs]
        /\ Goes(p, NoBatch)
    BY <1>1, <1>6 DEF FlushConflict
  <2>. QED
    BY <1>1, <2>1, NoBatchFits, GoesKeeps
<1>7. ASSUME StartDrafts(p) PROVE ReviewInv'
  <2>1. PICK D, m, q : D = head.docs /\ m = head.number /\ q = SetToSeq(Docs)
    OBVIOUS
  <2>2. Goes(p, [NoBatch EXCEPT !.at = "draft", !.docs = D, !.on = m, !.queue = q])
        /\ head' = head
    BY <1>7, <2>1 DEF StartDrafts
  <2>3. DocsFit(D) /\ m \in Nat
    BY <2>1 DEF ReviewInv
  <2>4. BatchFits([NoBatch EXCEPT !.at = "draft", !.docs = D, !.on = m, !.queue = q])
    BY <2>3, NoBatchFits, BatchKept
  <2>. QED
    BY <2>2, <2>4, GoesKeeps
<1>8. ASSUME DraftNext(p) PROVE ReviewInv'
  <2>1. PICK d, q, n : d = Head(b.queue) /\ q = Tail(b.queue) /\ n = b.pass + 1
    OBVIOUS
  <2>2. PICK doc : doc = Drafted(d, b.docs[d])
    OBVIOUS
  <2>3. head' = head
    BY <1>8 DEF DraftNext
  <2>4. \/ /\ b.docs[d].content.text < MaxChanges
           /\ Goes(p, [b EXCEPT !.docs[d] = doc, !.queue = q, !.pass = n])
        \/ Goes(p, [b EXCEPT !.queue = q])
    BY <1>1, <1>8, <2>1, <2>2 DEF DraftNext
  <2>5. ASSUME b.docs[d].content.text < MaxChanges, d \in Docs PROVE DocFits(doc)
    BY <1>1, <2>2, <2>5, DraftedFits DEF BatchFits, DocsFit
  <2>6. CASE /\ b.docs[d].content.text < MaxChanges
             /\ Goes(p, [b EXCEPT !.docs[d] = doc, !.queue = q, !.pass = n])
    <3>1. BatchFits([b EXCEPT !.docs[d] = doc, !.queue = q, !.pass = n])
      BY <1>1, <2>5, <2>6, BatchKept
    <3>. QED
      BY <2>3, <2>6, <3>1, GoesKeeps
  <2>7. CASE Goes(p, [b EXCEPT !.queue = q])
    <3>1. BatchFits([b EXCEPT !.queue = q])
      BY <1>1, BatchKept
    <3>. QED
      BY <2>3, <2>7, <3>1, GoesKeeps
  <2>. QED
    BY <2>4, <2>6, <2>7
<1>9. ASSUME FlushDrafts(p) PROVE ReviewInv'
  <2>1. head' = head \/ head' = [number |-> b.on + 1, docs |-> b.docs]
    BY <1>1, <1>9 DEF FlushDrafts
  <2>2. PICK m \in Nat : m = head'.number
    BY <1>1, <2>1 DEF ReviewInv, BatchFits
  <2>3. PICK n : n = 0
    OBVIOUS
  <2>4. \/ Goes(p, NoBatch)
        \/ Goes(p, [b EXCEPT !.pass = n, !.on = m])
    BY <1>1, <1>9, <2>2, <2>3 DEF FlushDrafts
  <2>5. BatchFits([b EXCEPT !.pass = n, !.on = m])
    BY <1>1, BatchKept
  <2>. QED
    BY <1>1, <2>1, <2>4, <2>5, NoBatchFits, GoesKeeps
<1>10. ASSUME FlushRefused(p) \/ Killed(p) PROVE ReviewInv'
  <2>1. head' = head /\ Goes(p, NoBatch)
    BY <1>10 DEF FlushRefused, Killed
  <2>. QED
    BY <2>1, NoBatchFits, GoesKeeps
<1>. QED
  BY <1>2, <1>3, <1>4, <1>5, <1>6, <1>7, <1>8, <1>9, <1>10

\* Every command that publishes a revision and every step of a batch keeps it.
LEMMA ReviewInductive == ReviewInv /\ [ReviewNext]_reviewVars => ReviewInv'
<1>. SUFFICES ASSUME ReviewInv, [ReviewNext]_reviewVars PROVE ReviewInv'
  OBVIOUS
<1>1. CASE UNCHANGED reviewVars
  BY <1>1 DEF reviewVars, ReviewInv, BatchFits, BatchFields
<1>2. CASE Bind \/ \E items \in SUBSET Docs : Approve(items)
  <2>1. ASSUME NEW items \in SUBSET Docs, Approve(items) PROVE ReviewInv'
    BY <2>1 DEF Approve, ReviewInv, BatchFits, BatchFields
  <2>2. ASSUME Bind PROVE ReviewInv'
    BY <2>2, HeadFits, PublishKeeps DEF Bind
  <2>. QED
    BY <1>2, <2>1, <2>2
<1>3. ASSUME ReviewNext PROVE ReviewInv'
  BY <1>2, <1>3, CommandsKeep, BatchesKeep DEF ReviewNext
<1>. QED
  BY <1>1, <1>3

\* The inductive invariant holds throughout.
THEOREM ReviewInvariant == ReviewSpec => []ReviewInv
BY ReviewInitially, ReviewInductive, PTL DEF ReviewSpec

\* The documents of the newest revision and the places of the batches keep their types.
THEOREM ReviewTypesHold == ReviewSpec => []ReviewTypeOK
<1>1. ReviewInv => ReviewTypeOK
  <2>. SUFFICES ASSUME ReviewInv PROVE ReviewTypeOK
    OBVIOUS
  <2>1. ASSUME NEW d \in Docs PROVE DocOK(head.docs[d])
    <3>1. PICK doc : doc = head.docs[d] /\ DocFits(doc)
      BY HeadFits
    <3>. QED
      BY <3>1, FitFields DEF DocOK, Contents, Reviews
  <2>. QED
    BY <2>1, HeadFits DEF ReviewTypeOK, ReviewInv, BatchFits, BatchPlaces
<1>. QED
  BY <1>1, ReviewInvariant, PTL

\* For any documents, issues, batches and order of a file, however decisions are taken
\* along to new content: one about a generated fact or a dropped field settles its issue
\* only in content whose facts its reviewer saw.
THEOREM VerifiedAsSeenHolds == ReviewSpec => []VerifiedAsSeen
<1>1. ReviewInv => VerifiedAsSeen
  <2>. SUFFICES ASSUME ReviewInv, NEW d \in Docs, NEW r \in head.docs[d].reviews,
                       r.issue \in {"fact", "field"}, Settles(r, head.docs[d])
                PROVE  Facts(r.made) = Facts(head.docs[d].content)
    BY DEF VerifiedAsSeen
  <2>1. AsSeen(r)
    BY HeadFits, FitFields
  <2>2. r.input = head.docs[d].content
    BY DEF Settles
  <2>. QED
    BY <2>1, <2>2 DEF AsSeen
<1>. QED
  BY <1>1, ReviewInvariant, PTL

=============================================================================
