-------------------------- MODULE CompanionProofs --------------------------
(***************************************************************************)
(* Proofs about module Companion, for any finite set of operations, any    *)
(* exports among them, any faults, and any number of owners, sessions and  *)
(* crashes.                                                                *)
(***************************************************************************)
EXTENDS Companion, FiniteSetTheorems, TLAPS

\* What the row of an operation, its work and its effects say of each other.
RowFits(o) ==
    /\ rows[o].state = "absent" => effects[o] = 0 /\ job[o] = "none"
    /\ rows[o].state = "queued" => effects[o] = 0 /\ job[o] \in {"none", "scheduled"}
    /\ rows[o].state \in {"unknown", "verified"} => job[o] = "none"
    /\ rows[o].state = "verified" => effects[o] = 1 \/ o \in Exports
    /\ rows[o].state = "running" => job[o] # "scheduled"

\* What is true of the ledger while the work of an operation is at each place.
WorkFits(o) ==
    /\ job[o] # "none" => up /\ o \in live /\ rows[o].state \in InFlight
    /\ job[o] = "perform" =>
         /\ effects[o] = 0
         /\ ~ owner.released
         /\ epoch = rows[o].epoch
    /\ job[o] = "observed" => effects[o] = 1
    /\ job[o] \in {"perform", "observed", "unsure"} => o \notin Exports
    /\ job[o] = "exporting" => o \in Exports
    /\ o \in Exports => effects[o] = 0

\* Accepted work belongs to the latest owner, and to the session it is bound to.
AcceptedFits(o) ==
    rows[o].state \in InFlight =>
        rows[o].fence = owner.fence /\ rows[o].epoch = owner.epoch /\ owner.epoch # 0

\* One operation at most is in flight.
OneInFlight ==
    \A o, p \in Ops :
        rows[o].state \in InFlight /\ rows[p].state \in InFlight => o = p

Fits(o) ==
    /\ effects[o] =< 1
    /\ rows[o].state = "failed_before_write" => effects[o] = 0 /\ job[o] = "none"
    /\ RowFits(o) /\ WorkFits(o) /\ AcceptedFits(o)

IInv ==
    /\ TypeOK
    /\ \A o \in Ops : Fits(o)
    /\ OneInFlight

USE OpsAssumption, BoundsAssumption

-----------------------------------------------------------------------------

LEMMA FencesAreNumbers == LastFence \in Nat /\ MaxFence =< LastFence
BY FS_CardinalityType DEF LastFence

Rows == [state : RowStates, fence : Fences, epoch : 0..MaxEpoch]

\* Writing one state into one row keeps the type, and every other row.
LEMMA RecordType ==
    ASSUME TypeOK, NEW o \in Ops, NEW state \in RowStates, Try(o, state) \/ Record(o, state)
    PROVE  /\ rows' \in [Ops -> Rows]
           /\ \A p \in Ops : /\ p # o => rows'[p] = rows[p]
                             /\ rows'[p].fence = rows[p].fence
                             /\ rows'[p].epoch = rows[p].epoch
           /\ rows'[o].state \in {state, rows[o].state}
BY DEF TypeOK, Rows, Record, Try

\* The ledger, the session and the work keep their types: no fence or epoch
\* beyond its bound is ever issued.
THEOREM TypeCorrect == Spec => []TypeOK
<1>. USE FencesAreNumbers DEF TypeOK, RowStates, InFlight, Jobs, Fences
<1>1. Init => TypeOK
  BY DEF Init
<1>2. TypeOK /\ [Next]_vars => TypeOK'
  <2>. SUFFICES ASSUME TypeOK, [Next]_vars PROVE TypeOK'
    OBVIOUS
  <2>1. CASE Opened \/ Invalidated
    <3>1. epochs' \in 0..MaxEpoch /\ epoch' \in 0..MaxEpoch
      BY <2>1 DEF Opened, Invalidated
    <3>. QED
      BY <2>1, <3>1 DEF Opened, Invalidated
  <2>2. CASE Crash \/ Restart
    <3>1. crashes' \in 0..MaxCrashes /\ epoch' \in 0..MaxEpoch
      BY <2>2 DEF Crash, Restart
    <3>2. up' \in BOOLEAN
      BY <2>2, Zenon DEF Crash, Restart
    <3>3. job' \in [Ops -> Jobs] /\ live' \subseteq Ops
      BY <2>2 DEF Crash, Restart
    <3>. QED
      BY <2>2, <3>1, <3>3, <3>2 DEF Crash, Restart
  <2>3. CASE BeginOwner
    <3>1. owner.fence + 1 \in 0..LastFence
      BY <2>3 DEF BeginOwner
    <3>2. \A o \in Ops : LostVerdict(o) \in RowStates
      BY DEF LostVerdict
    <3>. QED
      BY <2>3, <3>1, <3>2 DEF BeginOwner
  <2>4. CASE EndOwner
    BY <2>4 DEF EndOwner
  <2>5. ASSUME NEW o \in Ops, NEW f \in Fences, NEW e \in 1..MaxEpoch, Mutate(o, f, e)
        PROVE  TypeOK'
    BY <2>5 DEF Mutate
  <2>6. ASSUME NEW o \in Ops, Abandon(o) PROVE TypeOK'
    BY <2>6 DEF Abandon
  <2>7. ASSUME NEW o \in Ops, Work(o) PROVE TypeOK'
    <3>1. ASSUME NEW state \in RowStates, Try(o, state) \/ Record(o, state)
          PROVE  rows' \in [Ops -> Rows]
      BY <3>1, RecordType
    <3>2. CASE Reject(o)
      BY <3>1, <3>2 DEF Reject, Done, Rows
    <3>3. CASE MarkRunning(o)
      BY <3>1, <3>3 DEF MarkRunning, Done, Rows
    <3>4. CASE Perform(o)
      BY <3>4 DEF Perform
    <3>5. CASE Close(o)
      BY <3>1, <3>5 DEF Close, Closing, Done, Rows
    <3>6. CASE StartExport(o)
      BY <3>1, <3>6 DEF StartExport, Done, Rows
    <3>7. CASE FinishExport(o)
      BY <3>1, <3>7 DEF FinishExport, Done, Rows
    <3>. QED
      BY <2>7, <3>2, <3>3, <3>4, <3>5, <3>6, <3>7 DEF Work
  <2>8. CASE UNCHANGED vars
    BY <2>8 DEF vars
  <2>. QED
    BY <2>1, <2>3, <2>4, <2>5, <2>6, <2>7, <2>8, <2>2 DEF Next
<1>. QED
  BY <1>1, <1>2, PTL DEF Spec

-----------------------------------------------------------------------------

\* Nothing is accepted before the first request.
LEMMA InitIInv == Init => IInv
<1>. SUFFICES ASSUME Init PROVE IInv
  OBVIOUS
<1>1. TypeOK
  BY FencesAreNumbers DEF Init, TypeOK, RowStates, Fences, Jobs
<1>2. ASSUME NEW o \in Ops PROVE Fits(o)
  BY DEF Init, Fits, RowFits, WorkFits, AcceptedFits, InFlight
<1>3. OneInFlight
  BY DEF Init, OneInFlight, InFlight
<1>. QED
  BY <1>1, <1>2, <1>3 DEF IInv

LEMMA Step == IInv /\ TypeOK' /\ [Next]_vars => IInv'
<1>. SUFFICES ASSUME IInv, TypeOK', [Next]_vars PROVE IInv'
  OBVIOUS
<1>. USE DEF Fits, RowFits, WorkFits, AcceptedFits, InFlight
<1>a. TypeOK /\ \A o \in Ops : Fits(o)
  BY DEF IInv
<1>b. ASSUME UNCHANGED rows PROVE OneInFlight'
  BY <1>b DEF IInv, OneInFlight
<1>1. CASE Opened \/ Invalidated \/ Restart \/ EndOwner
  <2>1. ASSUME NEW q \in Ops PROVE Fits(q)'
    BY <1>1, <1>a DEF Opened, Invalidated, Restart, EndOwner, MainFree, TypeOK, Jobs
  <2>. QED
    BY <1>1, <1>b, <2>1 DEF IInv, Opened, Invalidated, Restart, EndOwner
<1>2. CASE Crash
  <2>1. ASSUME NEW q \in Ops PROVE Fits(q)'
    BY <1>2, <1>a DEF Crash, TypeOK
  <2>. QED
    BY <1>2, <1>b, <2>1 DEF IInv, Crash
<1>3. CASE BeginOwner
  <2>1. ASSUME NEW q \in Ops
        PROVE  /\ job[q] = "none"
               /\ rows'[q].state \notin InFlight
               /\ rows[q].state \notin InFlight => rows'[q] = rows[q]
               /\ rows[q].state \in InFlight => rows'[q].state = LostVerdict(q)
    BY <1>3, <1>a DEF BeginOwner, MainFree, TypeOK, Jobs, NoLiveRow, LostVerdict
  <2>2. ASSUME NEW q \in Ops PROVE Fits(q)'
    BY <1>3, <1>a, <2>1 DEF BeginOwner, TypeOK, LostVerdict
  <2>. QED
    BY <2>1, <2>2 DEF IInv, OneInFlight
<1>4. ASSUME NEW o \in Ops, NEW f \in Fences, NEW e \in 1..MaxEpoch, Mutate(o, f, e)
      PROVE  IInv'
  <2>1. ASSUME NEW q \in Ops PROVE Fits(q)'
    BY <1>4, <1>a DEF Mutate, MainFree, TypeOK, IsNew, IsOwner, NonePending
  <2>2. OneInFlight'
    BY <1>4, <1>a DEF Mutate, TypeOK, NonePending, OneInFlight
  <2>. QED
    BY <2>1, <2>2 DEF IInv
<1>5. ASSUME NEW o \in Ops, Abandon(o) PROVE IInv'
  <2>1. ASSUME NEW q \in Ops PROVE Fits(q)'
    BY <1>5, <1>a DEF Abandon, TypeOK
  <2>. QED
    BY <1>5, <1>b, <2>1 DEF IInv, Abandon
<1>6. ASSUME NEW o \in Ops, Work(o) PROVE IInv'
  <2>1. /\ \A q \in Ops : q # o => /\ rows'[q] = rows[q]
                                   /\ effects'[q] = effects[q]
                                   /\ job'[q] = job[q]
                                   /\ q \in live' <=> q \in live
        /\ rows'[o].fence = rows[o].fence /\ rows'[o].epoch = rows[o].epoch
        /\ rows[o].state \in InFlight
        /\ UNCHANGED <<owner, up>>
    BY <1>6, <1>a DEF Work, Reject, MarkRunning, Perform, Close, StartExport,
         FinishExport, Done, Try, Record, TypeOK
  <2>2. OneInFlight'
    BY <2>1 DEF IInv, OneInFlight
  <2>3. ASSUME NEW q \in Ops, q # o PROVE Fits(q)'
    <3>1. rows[q].state \notin InFlight
      BY <2>1, <2>3 DEF IInv, OneInFlight
    <3>. QED
      BY <1>a, <2>1, <2>3, <3>1 DEF TypeOK
  <2>4. Fits(o)'
    <3>1. CASE Reject(o)
      BY <1>a, <2>1, <3>1 DEF Reject, Done, Try, Record, TypeOK
    <3>2. CASE MarkRunning(o)
      BY <1>a, <2>1, <3>2 DEF MarkRunning, MayRun, IsOwner, Done, Record, TypeOK
    <3>3. CASE Perform(o)
      BY <1>a, <2>1, <3>3 DEF Perform, TypeOK
    <3>4. CASE Close(o)
      BY <1>a, <2>1, <3>4 DEF Close, Closing, Done, Try, Record, TypeOK
    <3>5. CASE StartExport(o)
      BY <1>a, <2>1, <3>5 DEF StartExport, MayRun, Done, Record, TypeOK
    <3>6. CASE FinishExport(o)
      BY <1>a, <2>1, <3>6 DEF FinishExport, Done, Try, Record, TypeOK
    <3>. QED
      BY <1>6, <3>1, <3>2, <3>3, <3>4, <3>5, <3>6 DEF Work
  <2>. QED
    BY <2>2, <2>3, <2>4 DEF IInv
<1>7. CASE UNCHANGED vars
  BY <1>7 DEF vars, IInv, OneInFlight, TypeOK
<1>. QED
  BY <1>1, <1>2, <1>3, <1>4, <1>5, <1>6, <1>7 DEF Next

\* The inductive invariant holds in every state of every behaviour.
THEOREM Invariant == Spec => []IInv
<1>1. Spec => []TypeOK
  BY TypeCorrect
<1>. QED
  BY <1>1, InitIInv, Step, PTL DEF Spec

\* One operation id takes effect at most once: whatever is repeated, delayed,
\* fenced or lost in a crash, the row that let it run is no longer queued.
THEOREM OneEffect == Spec => []EffectOnce
<1>1. IInv => EffectOnce
  BY DEF IInv, Fits, EffectOnce
<1>. QED
  BY <1>1, Invariant, PTL

\* A row that says "failed before write" is without effect, and no worker is left
\* that could still cause one.
THEOREM FailedIsHarmless == Spec => []FailedHasNoEffect
<1>1. IInv => FailedHasNoEffect
  BY DEF IInv, Fits, FailedHasNoEffect
<1>. QED
  BY <1>1, Invariant, PTL

-----------------------------------------------------------------------------
(* The companion keeps the promise of NativeService: its steps map to steps *)
(* of the service, or to none.                                              *)

\* The verdict on an operation, as the mapping has it.
VerdictOf(o) ==
    CASE rows[o].state \in InFlight -> "accepted"
      [] rows[o].state = "failed_before_write" -> "failed"
      [] OTHER -> rows[o].state

\* The latest owner, as the mapping has it.
Latest == [fence |-> owner.fence, session |-> owner.epoch, released |-> owner.released]

Owners == [fence : Fences, session : 0..MaxEpoch, released : BOOLEAN]

LEMMA Ended ==
    ASSUME NEW older \in Owners, NEW newer \in Owners,
           newer.fence = older.fence, newer.session = older.session, newer.released
    PROVE  newer = [older EXCEPT !.released = TRUE]
BY DEF Owners

LEMMA Mapped ==
    ASSUME TypeOK, NEW o \in Ops
    PROVE  /\ rows[o].state \in InFlight <=> VerdictOf(o) = "accepted"
           /\ rows[o].state = "absent" <=> VerdictOf(o) = "absent"
           /\ rows[o].state = "failed_before_write" <=> VerdictOf(o) = "failed"
           /\ rows[o].state = "unknown" <=> VerdictOf(o) = "unknown"
           /\ rows[o].state = "verified" <=> VerdictOf(o) = "verified"
BY DEF VerdictOf, InFlight, TypeOK, RowStates

\* Nothing the service promises about changes, but for the session.
LEMMA SessionStep ==
    ASSUME epoch' \in Nat, UNCHANGED <<owner, effects>>,
           \A o \in Ops : VerdictOf(o)' = VerdictOf(o) /\ rows'[o].fence = rows[o].fence
    PROVE  Service!Next
<1>1. /\ UNCHANGED [o \in Ops |-> VerdictOf(o)]
      /\ UNCHANGED [o \in Ops |-> rows[o].fence]
  OBVIOUS
<1>2. Service!SessionChange
  BY <1>1 DEF Service!SessionChange, VerdictOf
<1>. QED
  BY <1>2 DEF Service!Next

LEMMA AcceptStep ==
    ASSUME IInv, TypeOK', NEW o \in Ops, NEW f \in Fences, NEW e \in 1..MaxEpoch,
           Mutate(o, f, e)
    PROVE  Service!Next
<1>1. /\ VerdictOf(o) = "absent"
      /\ \A p \in Ops : VerdictOf(p) # "accepted"
  BY Mapped DEF IInv, Mutate, IsNew, NonePending
<1>2. /\ ~ owner.released /\ owner.fence = f /\ owner.epoch = epoch /\ epoch # 0
      /\ UNCHANGED <<effects, owner, epoch>>
      /\ rows' = [rows EXCEPT ![o] = [state |-> "queued", fence |-> f, epoch |-> e]]
  BY DEF Mutate, IsOwner
<1>3. [p \in Ops |-> VerdictOf(p)]' = [[p \in Ops |-> VerdictOf(p)] EXCEPT ![o] = "accepted"]
  BY <1>2 DEF VerdictOf, InFlight, IInv, TypeOK
<1>4. [p \in Ops |-> rows[p].fence]' = [[p \in Ops |-> rows[p].fence] EXCEPT ![o] = f]
  BY <1>2 DEF IInv, TypeOK
<1>5. Latest.fence = f
  BY <1>2 DEF Latest
<1>6. Service!Accept(o, Latest.fence)
  BY <1>1, <1>2, <1>3, <1>4, <1>5 DEF Service!Accept, Service!Holds, VerdictOf, Latest
<1>. QED
  BY <1>6 DEF Service!Next, Latest

\* Work that was accepted from the owner before is settled without its worker:
\* as failed only if it has had no effect.
LEMMA BeginStep ==
    ASSUME IInv, TypeOK', BeginOwner
    PROVE  Service!Next
<1>. DEFINE Given == [o \in Ops |-> VerdictOf(o)]
            Accepted == {o \in Ops : Given[o] = "accepted"}
            Lost == [o \in Accepted |-> IF rows[o].state = "running" THEN "unknown" ELSE "failed"]
<1>1. Lost \in [Accepted -> {"failed", "unknown"}]
  OBVIOUS
<1>2. \A o \in DOMAIN Lost : Lost[o] \in Service!Verdict(o)
  BY Mapped DEF Service!Verdict, IInv, Fits, RowFits, InFlight
<1>3. Given' = [o \in Ops |-> IF Given[o] = "accepted" THEN Lost[o] ELSE Given[o]]
  BY Mapped DEF BeginOwner, LostVerdict, VerdictOf, InFlight, IInv, TypeOK, RowStates
<1>4. UNCHANGED [o \in Ops |-> rows[o].fence]
  BY DEF BeginOwner, IInv, TypeOK
<1>5. /\ epoch # 0 /\ UNCHANGED <<effects, epoch>>
      /\ owner' = [fence |-> owner.fence + 1, epoch |-> epoch, released |-> FALSE]
      /\ owner.fence + 1 > owner.fence
  BY FencesAreNumbers DEF BeginOwner, IInv, TypeOK, Fences
<1>6. \E lost \in [Accepted -> {"failed", "unknown"}] :
        /\ \A o \in DOMAIN lost : lost[o] \in Service!Verdict(o)
        /\ Given' = [o \in Ops |-> IF Given[o] = "accepted" THEN lost[o] ELSE Given[o]]
  <2>. HIDE DEF Lost
  <2>. QED
    BY <1>1, <1>2, <1>3
<1>7. Service!Begin(Latest.fence + 1)
  BY <1>4, <1>5, <1>6 DEF Service!Begin, VerdictOf, Latest
<1>. QED
  BY <1>7 DEF Service!Next, Latest

\* An accepted operation gets a verdict that is true of its effects, and an export
\* a good one only in the session its owner was issued in.
LEMMA JudgeStep ==
    ASSUME IInv, NEW o \in Ops, rows[o].state \in InFlight,
           NEW state \in {"failed_before_write", "unknown", "verified"}, Record(o, state),
           state = "failed_before_write" => effects[o] = 0,
           state = "verified" => effects[o] = 1 \/ o \in Exports,
           state = "verified" /\ o \in Exports => epoch' = rows[o].epoch,
           o \notin Exports => epoch' = epoch,
           epoch' \in Nat, UNCHANGED <<owner, effects>>
    PROVE  Service!Next
<1>. DEFINE Given == [p \in Ops |-> VerdictOf(p)]
            verdict == IF state = "failed_before_write" THEN "failed" ELSE state
<1>1. Given[o] = "accepted" /\ verdict \in Service!Verdict(o)
  <2>1. VerdictOf(o) = "accepted"
    BY Mapped DEF IInv
  <2>2. verdict \in Service!Verdict(o)
    BY DEF Service!Verdict
  <2>. QED
    BY <2>1, <2>2
<1>2. Given' = [Given EXCEPT ![o] = verdict]
  BY DEF VerdictOf, InFlight, Record, IInv, TypeOK
<1>3. UNCHANGED [p \in Ops |-> rows[p].fence]
  BY DEF Record, IInv, TypeOK
<1>4. o \in Exports /\ verdict = "verified" =>
        epoch' = Latest.session /\ Latest.fence = rows[o].fence
  BY DEF Latest, IInv, Fits, AcceptedFits
<1>5. IF o \in Exports THEN epoch' \in Nat ELSE UNCHANGED epoch
  OBVIOUS
<1>6. Service!Judge(o)
  <2>. HIDE DEF verdict
  <2>. QED
    BY <1>1, <1>2, <1>3, <1>4, <1>5 DEF Service!Judge, VerdictOf, Latest
<1>. QED
  BY <1>6 DEF Service!Next

\* The native call changes the collection while the owner and the session it was
\* accepted for still hold: the main thread serves nobody in between.
LEMMA PerformStep ==
    ASSUME IInv, TypeOK', NEW o \in Ops, Perform(o), effects' # effects
    PROVE  Service!TakeEffect(o)
<1>1. /\ effects[o] = 0 /\ effects' = [effects EXCEPT ![o] = 1]
      /\ UNCHANGED <<rows, owner, epoch>>
  BY DEF Perform, IInv, TypeOK, Fits, WorkFits
<1>2. VerdictOf(o) = "accepted"
  BY Mapped DEF IInv, Perform, Fits, WorkFits
<1>3. /\ ~ owner.released /\ owner.fence = rows[o].fence
      /\ owner.epoch = epoch /\ epoch # 0
  BY DEF Perform, IInv, Fits, WorkFits, AcceptedFits
<1>. QED
  BY <1>1, <1>2, <1>3 DEF Service!TakeEffect, Service!Holds, VerdictOf

\* Each step of an operation's work is invisible, its effect, or its verdict.
LEMMA WorkStep ==
    ASSUME IInv, TypeOK', NEW o \in Ops, Work(o)
    PROVE  Service!Next
<1>. USE DEF InFlight
<1>1. TypeOK /\ Fits(o) /\ epoch' \in Nat
  BY DEF IInv, TypeOK
<1>2. ASSUME UNCHANGED <<rows, owner, effects>> PROVE Service!Next
  BY <1>1, <1>2, SessionStep DEF VerdictOf
<1>3. ASSUME Record(o, "running"), rows[o].state = "queued", UNCHANGED <<owner, effects>>
      PROVE  Service!Next
  <2>1. \A p \in Ops : VerdictOf(p)' = VerdictOf(p) /\ rows'[p].fence = rows[p].fence
    BY <1>1, <1>3 DEF VerdictOf, Record, TypeOK
  <2>. QED
    BY <1>1, <1>3, <2>1, SessionStep
<1>4. CASE Reject(o)
  BY <1>1, <1>2, <1>4, JudgeStep DEF Reject, Try, Fits, RowFits, WorkFits
<1>5. CASE MarkRunning(o)
  BY <1>2, <1>3, <1>5 DEF MarkRunning, MayRun
<1>6. CASE Perform(o)
  <2>1. CASE effects' = effects
    BY <1>2, <1>6, <2>1 DEF Perform
  <2>2. CASE effects' # effects
    BY <1>6, <2>2, PerformStep DEF Service!Next
  <2>. QED
    BY <2>1, <2>2
<1>7. CASE Close(o)
  BY <1>1, <1>2, <1>7, JudgeStep DEF Close, Closing, Try, Fits, RowFits, WorkFits
<1>8. CASE StartExport(o)
  BY <1>1, <1>2, <1>3, <1>8, JudgeStep DEF StartExport, MayRun
<1>9. CASE FinishExport(o)
  BY <1>1, <1>2, <1>9, JudgeStep DEF FinishExport, Try, Fits, RowFits, WorkFits
<1>. QED
  BY <1>4, <1>5, <1>6, <1>7, <1>8, <1>9 DEF Work

\* The companion implements NativeService: whatever is repeated, late, abandoned
\* or lost in a crash, an operation takes effect once at most, under the owner and
\* in the session it was accepted for, and its verdict is true and final.
THEOREM Refinement == Spec => KeepsPromise
<1>1. Init => Service!Init
  BY DEF Init, Service!Init, InFlight
<1>2. IInv /\ TypeOK' /\ [Next]_vars => [Service!Next]_(Service!vars)
  <2>. SUFFICES ASSUME IInv, TypeOK', [Next]_vars
                PROVE  Service!Next \/ UNCHANGED Service!vars
    OBVIOUS
  <2>1. ASSUME UNCHANGED <<rows, owner, effects>> PROVE Service!Next
    <3>1. epoch' \in Nat
      BY DEF TypeOK
    <3>. QED
      BY <2>1, <3>1, SessionStep DEF VerdictOf
  <2>2. CASE Opened \/ Invalidated \/ Crash \/ Restart
    BY <2>1, <2>2 DEF Opened, Invalidated, Crash, Restart
  <2>3. CASE BeginOwner
    BY <2>3, BeginStep
  <2>4. CASE EndOwner
    <3>1. /\ owner' = [owner EXCEPT !.released = TRUE]
          /\ UNCHANGED <<rows, effects, epoch>>
      BY <2>4 DEF EndOwner
    <3>2. Latest' = [Latest EXCEPT !.released = TRUE]
      <4>1. Latest \in Owners /\ Latest' \in Owners
        BY DEF Latest, Owners, IInv, TypeOK
      <4>2. Latest'.fence = Latest.fence /\ Latest'.session = Latest.session /\ Latest'.released
        BY <3>1 DEF Latest, IInv, TypeOK
      <4>. QED
        BY <4>1, <4>2, Ended
    <3>3. UNCHANGED [o \in Ops |-> VerdictOf(o)] /\ UNCHANGED [o \in Ops |-> rows[o].fence]
      BY <3>1 DEF VerdictOf
    <3>4. Service!End(Latest.fence)
      BY <3>1, <3>2, <3>3 DEF Service!End, VerdictOf, Latest
    <3>. QED
      BY <3>4 DEF Service!Next, Latest
  <2>5. ASSUME NEW o \in Ops, NEW f \in Fences, NEW e \in 1..MaxEpoch, Mutate(o, f, e)
        PROVE  Service!Next
    BY <2>5, AcceptStep
  <2>6. ASSUME NEW o \in Ops, Abandon(o) PROVE Service!Next
    BY <2>1, <2>6 DEF Abandon
  <2>7. ASSUME NEW o \in Ops, Work(o) PROVE Service!Next
    BY <2>7, WorkStep
  <2>8. CASE UNCHANGED vars
    BY <2>1, <2>8 DEF vars
  <2>. QED
    BY <2>2, <2>3, <2>4, <2>5, <2>6, <2>7, <2>8 DEF Next
<1>. QED
  BY <1>1, <1>2, Invariant, TypeCorrect, PTL DEF Spec, KeepsPromise, Service!Spec

=====
