--------------------------- MODULE NativeService ----------------------------
(***************************************************************************)
(* What the Anki companion promises the command line, with none of its     *)
(* machinery: an operation id takes effect at most once, only while the    *)
(* owner it was accepted from is the current one and the collection        *)
(* session is the one that owner was issued in; a verdict, once given, is  *)
(* never changed, the verdict "failed" means there was no effect and there *)
(* will be none, and an export is verified only in the session it was      *)
(* accepted in.                                                            *)
(***************************************************************************)
EXTENDS Naturals

CONSTANTS
    Ops,        \* the operation ids
    Exports     \* those that read the collection and change nothing

VARIABLES
    verdict,    \* per operation: absent, accepted, failed, unknown, verified
    fenceOf,    \* per operation, the fence of the owner it was accepted from
    effects,    \* per operation, how often it took effect
    owner,      \* the latest owner: its fence, its session, is it released?
    session     \* the current collection session; 0: none

vars == <<verdict, fenceOf, effects, owner, session>>

Verdicts == {"absent", "accepted", "failed", "unknown", "verified"}

Init ==
    /\ verdict = [o \in Ops |-> "absent"]
    /\ fenceOf = [o \in Ops |-> 0]
    /\ effects = [o \in Ops |-> 0]
    /\ owner = [fence |-> 0, session |-> 0, released |-> TRUE]
    /\ session = 0

\* The owner that may have work accepted and done.
Holds(f) ==
    /\ ~ owner.released
    /\ owner.fence = f
    /\ owner.session = session
    /\ session # 0

\* An operation is accepted once, from the current owner, when nothing else is
\* accepted and still without a verdict.
Accept(o, f) ==
    /\ verdict[o] = "absent"
    /\ \A p \in Ops : verdict[p] # "accepted"
    /\ Holds(f)
    /\ verdict' = [verdict EXCEPT ![o] = "accepted"]
    /\ fenceOf' = [fenceOf EXCEPT ![o] = f]
    /\ UNCHANGED <<effects, owner, session>>

\* It takes effect, once, under the owner it was accepted from.
TakeEffect(o) ==
    /\ verdict[o] = "accepted"
    /\ effects[o] = 0
    /\ Holds(fenceOf[o])
    /\ effects' = [effects EXCEPT ![o] = 1]
    /\ UNCHANGED <<verdict, fenceOf, owner, session>>

\* The verdicts the service may give on an accepted operation.
Verdict(o) ==
    {v \in {"failed", "unknown", "verified"} :
        /\ v = "failed" => effects[o] = 0
        /\ v = "verified" => effects[o] = 1 \/ o \in Exports}

\* One operation gets its verdict.  The session changes with the verdict of an
\* export only, which is how the export ends; and the export is verified only
\* when the session it was accepted in is the one that goes on: what was read
\* is then the collection the owner knows.
Judge(o) ==
    /\ verdict[o] = "accepted"
    /\ \E v \in Verdict(o) :
         /\ verdict' = [verdict EXCEPT ![o] = v]
         /\ o \in Exports /\ v = "verified" =>
                session' = owner.session /\ owner.fence = fenceOf[o]
    /\ IF o \in Exports THEN session' \in Nat ELSE UNCHANGED session
    /\ UNCHANGED <<fenceOf, effects, owner>>

\* A new owner fences every earlier one and leaves nothing without a verdict.
Begin(f) ==
    /\ f > owner.fence
    /\ session # 0
    /\ owner' = [fence |-> f, session |-> session, released |-> FALSE]
    /\ \E lost \in [{o \in Ops : verdict[o] = "accepted"} -> {"failed", "unknown"}] :
         /\ \A o \in DOMAIN lost : lost[o] \in Verdict(o)
         /\ verdict' = [o \in Ops |-> IF verdict[o] = "accepted" THEN lost[o] ELSE verdict[o]]
    /\ UNCHANGED <<fenceOf, effects, session>>

End(f) ==
    /\ f = owner.fence
    /\ owner' = [owner EXCEPT !.released = TRUE]
    /\ UNCHANGED <<verdict, fenceOf, effects, session>>

\* The collection is closed, opened or replaced, or Anki stops or starts.
SessionChange ==
    /\ session' \in Nat
    /\ UNCHANGED <<verdict, fenceOf, effects, owner>>

Next ==
    \/ \E o \in Ops : Accept(o, owner.fence) \/ TakeEffect(o) \/ Judge(o)
    \/ Begin(owner.fence + 1)
    \/ End(owner.fence)
    \/ SessionChange

Spec == Init /\ [][Next]_vars

=============================================================================
