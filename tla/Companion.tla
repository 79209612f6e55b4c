----------------------------- MODULE Companion ------------------------------
(***************************************************************************)
(* The mutation side of the Anki companion add-on: the durable ledger of   *)
(* operations and owners (addons/linguist_bridge/operations.py), the       *)
(* actions and the serialized critical section (native.py) and the         *)
(* collection session (session.py, startup.py).                            *)
(*                                                                         *)
(* Requests arrive in any order, any number of times and with any owner    *)
(* fence and session epoch that was ever issued: a client may be slow,     *)
(* dead, or repeat itself.  The HTTP handlers and the critical section run *)
(* on Anki's main thread, one after the other; only a crash interrupts     *)
(* them, between any two durable writes.  The export of a checkpoint is    *)
(* the one piece of work that leaves the main thread.                      *)
(*                                                                         *)
(* Request payloads are known by their operation id: a replay with another *)
(* payload is refused without any change of state.                         *)
(***************************************************************************)
EXTENDS Naturals, FiniteSets

CONSTANTS
    Ops,            \* the operation ids
    Exports,        \* those that export a checkpoint instead of a mutation
    Faults,         \* which of "abandon", "ledger" can happen
    MaxFence,       \* bound: owners issued, unless one is asked for to recover
    MaxEpoch,       \* bound: session epochs
    MaxCrashes      \* bound: crashes of Anki

ASSUME OpsAssumption == IsFiniteSet(Ops) /\ Exports \subseteq Ops
ASSUME BoundsAssumption == MaxFence \in Nat /\ MaxEpoch \in Nat /\ MaxCrashes \in Nat

VARIABLES
    \* durable: the ledger and the collection
    rows,       \* per operation: state, and the fence and epoch it was queued with
    owner,      \* the owner of the highest generation: fence, epoch, released
    effects,    \* history: how often the operation changed the collection
    \* memory of the Anki process
    up,         \* is Anki running?
    epoch,      \* the epoch of the collection session; 0: no session
    epochs,     \* history: epochs created so far (each is a fresh uuid)
    live,       \* NativeActions._live
    job,        \* per operation, where its work is: see Jobs
    crashes

ledger == <<rows, owner, effects>>
memory == <<up, epoch, epochs, live, job>>
vars == <<rows, owner, effects, up, epoch, epochs, live, job, crashes>>

RowStates == {"absent", "queued", "running", "failed_before_write", "unknown",
              "verified"}
InFlight == {"queued", "running"}

\* none; scheduled: the worker waits for the collection executor and the main
\* thread; perform, observed, unsure: the critical section is on the main
\* thread, before the native effect, after a successful read-back, after an
\* exception; exporting: the export runs in the background.
Jobs == {"none", "scheduled", "perform", "observed", "unsure", "exporting"}

\* The main thread serves a request or a callback: nothing else is on it.
MainFree == up /\ \A o \in Ops : job[o] \notin {"perform", "observed", "unsure"}

-----------------------------------------------------------------------------

Init ==
    /\ rows = [o \in Ops |-> [state |-> "absent", fence |-> 0, epoch |-> 0]]
    /\ owner = [fence |-> 0, epoch |-> 0, released |-> TRUE]
    /\ effects = [o \in Ops |-> 0]
    /\ up = TRUE
    /\ epoch = 0 /\ epochs = 0
    /\ live = {}
    /\ job = [o \in Ops |-> "none"]
    /\ crashes = 0

\* _event: the next event of one operation, in the caller's transaction.
Record(o, state) == rows' = [rows EXCEPT ![o].state = state]

\* A ledger write either happens or fails (disk full, I/O error) and leaves the
\* row as it was: _guard rolls the transaction back.
Try(o, state) ==
    \/ Record(o, state)
    \/ "ledger" \in Faults /\ UNCHANGED rows

-----------------------------------------------------------------------------
(* The collection session (startup.py, session.py)                         *)

\* collection_did_load and the like: a fresh epoch each time.
Opened ==
    /\ MainFree
    /\ \A o \in Ops : job[o] # "exporting"
    /\ epochs < MaxEpoch
    /\ epochs' = epochs + 1
    /\ epoch' = epochs + 1
    /\ UNCHANGED <<rows, owner, effects, up, live, job, crashes>>

\* The collection is closed or about to be replaced.
Invalidated ==
    /\ MainFree
    /\ \A o \in Ops : job[o] # "exporting"
    /\ epoch # 0
    /\ epochs < MaxEpoch
    /\ epoch' = 0
    /\ UNCHANGED <<rows, owner, effects, up, epochs, live, job, crashes>>

\* Anki dies, at any point: its memory is gone, the ledger stays.
Crash ==
    /\ up
    /\ crashes < MaxCrashes
    /\ epochs < MaxEpoch
    /\ crashes' = crashes + 1
    /\ up' = FALSE
    /\ epoch' = 0
    /\ live' = {}
    /\ job' = [o \in Ops |-> "none"]
    /\ UNCHANGED <<rows, owner, effects, epochs>>

Restart ==
    /\ ~ up
    /\ up' = TRUE
    /\ UNCHANGED <<rows, owner, effects, epoch, epochs, live, job, crashes>>

-----------------------------------------------------------------------------
(* Owners                                                                  *)

\* (Mutant) Work the ledger calls running is closed as never started.
LostVerdictFailed(o) == "failed_before_write"

\* (Mutant) The reason is recorded where the state belongs.
LostVerdictReason(o) == "worker_crash"

\* (Mutant) A row without a worker is left as it is.
LostVerdictKept(o) == rows[o].state

\* What becomes of a row in flight that no worker of this process holds.
LostVerdict(o) ==
    IF rows[o].state = "running" THEN "unknown" ELSE "failed_before_write"

\* Live work blocks a new owner.
NoLiveRow == \A o \in live : rows[o].state \notin InFlight

\* Accepted work no worker of this process holds, which asks for recovery.
LostRow == \E o \in Ops \ live : rows[o].state \in InFlight

\* Each operation can be lost once.
LastFence == MaxFence + Cardinality(Ops)
Fences == 0..LastFence

\* labBegin: a fresh owner, bound to the session it is issued in.
BeginOwner ==
    /\ MainFree
    /\ epoch # 0
    /\ owner.fence < IF LostRow THEN LastFence ELSE MaxFence
    /\ NoLiveRow
    /\ rows' = [o \in Ops |->
                  IF rows[o].state \in InFlight
                  THEN [rows[o] EXCEPT !.state = LostVerdict(o)]
                  ELSE rows[o]]
    /\ owner' = [fence |-> owner.fence + 1, epoch |-> epoch, released |-> FALSE]
    /\ UNCHANGED <<effects, up, epoch, epochs, live, job, crashes>>

\* labEnd with the token of the current owner; with an older one it changes
\* nothing that is read again.
EndOwner ==
    /\ MainFree
    /\ ~ owner.released
    /\ owner' = [owner EXCEPT !.released = TRUE]
    /\ UNCHANGED <<rows, effects, up, epoch, epochs, live, job, crashes>>

\* _require_owner
IsOwner(f) == ~ owner.released /\ owner.fence = f

-----------------------------------------------------------------------------
(* labMutate                                                               *)

NonePending == \A o \in Ops : rows[o].state \notin InFlight

\* (Mutant) A known id is queued again instead of answered from its row.
NotInFlight(o) == rows[o].state \notin InFlight

IsNew(o) == rows[o].state = "absent"

\* A request whose id the ledger knows is answered with the row's status before
\* its owner is even looked at, and changes nothing; this is the one that
\* inserts.  The scheduler may refuse the work: the key is then dropped.
Mutate(o, f, e) ==
    /\ MainFree
    /\ epoch # 0 /\ e = epoch
    /\ IsNew(o)
    /\ IsOwner(f) /\ owner.epoch = e
    /\ NonePending
    /\ rows' = [rows EXCEPT ![o] = [state |-> "queued", fence |-> f, epoch |-> e]]
    /\ \/ live' = live \cup {o} /\ job' = [job EXCEPT ![o] = "scheduled"]
       \/ UNCHANGED <<live, job>>
    /\ UNCHANGED <<owner, effects, up, epoch, epochs, crashes>>

-----------------------------------------------------------------------------
(* The critical section of one operation                                   *)

\* The worker gives up when the main thread has not taken its callback within
\* CRITICAL_WAIT_SECONDS; the callback does nothing when it comes at last.
\* Nobody takes the key out of _live.
Abandon(o) ==
    /\ "abandon" \in Faults
    /\ up
    /\ job[o] = "scheduled"
    /\ job' = [job EXCEPT ![o] = "none"]
    /\ UNCHANGED <<rows, owner, effects, up, epoch, epochs, live, crashes>>

\* The job leaves the main thread and _finish drops its key.
Done(o) ==
    /\ job' = [job EXCEPT ![o] = "none"]
    /\ live' = live \ {o}

\* _execute checks the owner and the session again on the main thread.
MayRun(o) ==
    /\ rows[o].state = "queued"
    /\ IsOwner(rows[o].fence)
    /\ epoch # 0 /\ epoch = rows[o].epoch

\* The owner or the session changed, or the native preflight refuses: closed
\* before any write.  An error on the way leaves the row queued; a row that is
\* no longer queued is left alone.
Reject(o) ==
    /\ MainFree
    /\ job[o] = "scheduled"
    /\ IF rows[o].state = "queued"
       THEN Try(o, "failed_before_write")
       ELSE UNCHANGED rows
    /\ Done(o)
    /\ UNCHANGED <<owner, effects, up, epoch, epochs, crashes>>

\* mark_running, the last write before the effect.  If it fails, nothing runs.
MarkRunning(o) ==
    /\ MainFree
    /\ job[o] = "scheduled"
    /\ o \notin Exports
    /\ MayRun(o)
    /\ \/ /\ Record(o, "running")
          /\ job' = [job EXCEPT ![o] = "perform"]
          /\ UNCHANGED live
       \/ /\ "ledger" \in Faults
          /\ UNCHANGED rows
          /\ Done(o)
    /\ UNCHANGED <<owner, effects, up, epoch, epochs, crashes>>

\* The native call and its read-back.  An exception may come before the
\* effect, in the middle or after it.
Perform(o) ==
    /\ job[o] = "perform"
    /\ \/ /\ effects' = [effects EXCEPT ![o] = @ + 1]
          /\ \/ job' = [job EXCEPT ![o] = "observed"]
             \/ job' = [job EXCEPT ![o] = "unsure"]
       \/ /\ UNCHANGED effects
          /\ job' = [job EXCEPT ![o] = "unsure"]
    /\ UNCHANGED <<rows, owner, up, epoch, epochs, live, crashes>>

\* (Mutant) An exception is taken for proof that nothing was written.
ExceptionIsFailure(o) == IF job[o] = "observed" THEN "verified" ELSE "failed_before_write"

\* mark_verified with the receipt, or mark_unknown after an exception.
Closing(o) == IF job[o] = "observed" THEN "verified" ELSE "unknown"

Close(o) ==
    /\ job[o] \in {"observed", "unsure"}
    /\ Try(o, Closing(o))
    /\ Done(o)
    /\ UNCHANGED <<owner, effects, up, epoch, epochs, crashes>>

\* An export leaves the main thread with the session put away, or cannot start:
\* then the row becomes unknown, and when that write fails too the key stays in
\* _live, because _finish comes after it.
StartExport(o) ==
    /\ MainFree
    /\ job[o] = "scheduled"
    /\ o \in Exports
    /\ MayRun(o)
    /\ \/ /\ Record(o, "running")
          /\ job' = [job EXCEPT ![o] = "exporting"]
          /\ epoch' = 0
          /\ UNCHANGED live
       \/ /\ Record(o, "unknown")
          /\ Done(o)
          /\ UNCHANGED epoch
       \/ /\ "ledger" \in Faults
          /\ Record(o, "running")
          /\ job' = [job EXCEPT ![o] = "none"]
          /\ UNCHANGED <<live, epoch>>
       \/ /\ "ledger" \in Faults
          /\ UNCHANGED <<rows, epoch>>
          /\ Done(o)
    /\ UNCHANGED <<owner, effects, up, epochs, crashes>>

\* done: the session is resumed when the collection is the same as before,
\* otherwise its reopening gives a fresh one (or none) and the export is not
\* trusted.
FinishExport(o) ==
    /\ MainFree
    /\ job[o] = "exporting"
    /\ \/ /\ epoch' = rows[o].epoch
          /\ UNCHANGED epochs
          /\ Try(o, "verified") \/ Try(o, "unknown")
       \/ /\ epochs < MaxEpoch
          /\ epochs' = epochs + 1
          /\ epoch' = epochs + 1
          /\ Try(o, "unknown")
       \/ /\ epochs < MaxEpoch
          /\ epoch' = 0
          /\ UNCHANGED epochs
          /\ Try(o, "unknown")
    /\ Done(o)
    /\ UNCHANGED <<owner, effects, up, crashes>>

-----------------------------------------------------------------------------

Work(o) ==
    \/ Reject(o) \/ MarkRunning(o) \/ Perform(o) \/ Close(o)
    \/ StartExport(o) \/ FinishExport(o)

Next ==
    \/ Opened \/ Invalidated \/ Crash \/ Restart
    \/ BeginOwner \/ EndOwner
    \/ \E o \in Ops, f \in Fences, e \in 1..MaxEpoch : Mutate(o, f, e)
    \/ \E o \in Ops : Abandon(o) \/ Work(o)

\* Anki's executor and main loop serve what was scheduled, Anki is started
\* again and its collection opened, and somebody asks for a new owner again.
Fairness ==
    /\ \A o \in Ops : WF_vars(Work(o))
    /\ WF_vars(Restart)
    /\ WF_vars(Opened)
    /\ WF_vars(BeginOwner)

Spec == Init /\ [][Next]_vars
FairSpec == Spec /\ Fairness

-----------------------------------------------------------------------------
(* Properties                                                              *)

TypeOK ==
    /\ rows \in [Ops -> [state : RowStates, fence : Fences, epoch : 0..MaxEpoch]]
    /\ owner \in [fence : Fences, epoch : 0..MaxEpoch, released : BOOLEAN]
    /\ effects \in [Ops -> Nat]
    /\ up \in BOOLEAN
    /\ epoch \in 0..MaxEpoch /\ epochs \in 0..MaxEpoch
    /\ live \subseteq Ops
    /\ job \in [Ops -> Jobs]
    /\ crashes \in 0..MaxCrashes

\* One operation id, one effect at most, across duplicates, owners and crashes.
EffectOnce == \A o \in Ops : effects[o] =< 1

\* A row closed as failed before write has had no effect, and no worker is left
\* that could still cause one.
FailedHasNoEffect ==
    \A o \in Ops : rows[o].state = "failed_before_write" =>
        effects[o] = 0 /\ job[o] = "none"

\* A key in _live that no worker, critical section or export holds any more.
Orphan(o) == o \in live /\ job[o] = "none"

\* Accepted work gets a verdict, as long as Anki comes back and somebody asks
\* for an owner again, unless a key is stuck in _live (LiveIsHeld): no crash,
\* abandoned wait or failed write leaves the ledger blocked for good.
AcceptedIsSettled ==
    \A o \in Ops : rows[o].state \in InFlight ~>
        rows[o].state \notin InFlight \/ \E p \in Ops : Orphan(p)

\* "live_operations is worker-liveness evidence from this process: the operation
\* IDs its serialized worker still holds" (the docstring of begin_owner).
LiveIsHeld == \A o \in Ops : ~ Orphan(o)

-----------------------------------------------------------------------------
(* The companion implements NativeService.                                 *)

Service == INSTANCE NativeService WITH
    verdict <- [o \in Ops |->
                  CASE rows[o].state \in InFlight -> "accepted"
                    [] rows[o].state = "failed_before_write" -> "failed"
                    [] OTHER -> rows[o].state],
    fenceOf <- [o \in Ops |-> rows[o].fence],
    owner   <- [fence |-> owner.fence, session |-> owner.epoch,
                released |-> owner.released],
    session <- epoch

\* Every step of the companion is a step of the service it promises.
KeepsPromise == Service!Spec

=============================================================================
