------------------------------- MODULE Lease --------------------------------
(***************************************************************************)
(* The durable lease of one resource: the collection writer, a job worker  *)
(* or a campaign (crates/linguist-store/src/lease.rs).  Any process of the *)
(* machine may ask for it.  A lease is taken over only when its deadline   *)
(* has passed and its owner is proved dead; the deadline alone proves      *)
(* nothing.  Processes die at any point, pids are used again, and the      *)
(* machine reboots with the lease row still on disk.                       *)
(***************************************************************************)
EXTENDS Naturals

CONSTANTS
    Pids,           \* the process ids of the machine
    Duration,       \* ticks a lease lasts when acquired or renewed
    MaxStarts,      \* bound: processes started in one boot
    MaxBoots,       \* bound: boots of the machine
    MaxGeneration   \* bound: acquisitions (i64::MAX in the store)

ASSUME DurationAssumption == Duration \in Nat \ {0}
ASSUME BoundsAssumption ==
    MaxStarts \in Nat /\ MaxBoots \in Nat \ {0} /\ MaxGeneration \in Nat

VARIABLES
    boot,       \* the boot the machine is in
    starts,     \* processes started in this boot: each has its own start ticks
    running,    \* per pid, the start ticks of the process that has it; 0: none
    lease,      \* the row of the resource; generation 0: no row yet
    left,       \* ticks until the row's deadline
    token,      \* per pid, the token its process holds in memory
    inside      \* the pids whose process validated its token and is at work

leaseVars == <<boot, starts, running, lease, left, token, inside>>

-----------------------------------------------------------------------------

Identities == [pid : Pids, start : 0..MaxStarts, boot : 0..MaxBoots]

\* The token carries the generation of the row and a fresh uuid, both compared;
\* the generation stands for the pair.
Tokens == [generation : 0..MaxGeneration, owner : Identities]

Leases == [generation : 0..MaxGeneration, owner : Identities, active : BOOLEAN]

\* ProcessIdentity::current
Self(p) == [pid |-> p, start |-> running[p], boot |-> boot]

Alive(p) == running[p] # 0

\* ProcessIdentity::liveness = Absent: another boot, no process under the pid,
\* or a younger one.  A status file that cannot be read is Unknown, which never
\* lets the caller through, like Alive.
Absent(id) == id.boot # boot \/ running[id.pid] # id.start

NoToken(p) == [generation |-> 0, owner |-> [pid |-> p, start |-> 0, boot |-> 0]]

LeaseInit ==
    /\ boot = 1
    /\ starts = 0
    /\ running = [p \in Pids |-> 0]
    /\ \E p \in Pids :
         lease = [generation |-> 0, owner |-> NoToken(p).owner, active |-> FALSE]
    /\ left = 0
    /\ token = [p \in Pids |-> NoToken(p)]
    /\ inside = {}

-----------------------------------------------------------------------------
(* The machine                                                             *)

Start(p) ==
    /\ ~ Alive(p)
    /\ starts < MaxStarts
    /\ starts' = starts + 1
    /\ running' = [running EXCEPT ![p] = starts + 1]
    /\ UNCHANGED <<boot, lease, left, token, inside>>

\* A process ends, by itself or killed, and forgets its token.
Exit(p) ==
    /\ Alive(p)
    /\ running' = [running EXCEPT ![p] = 0]
    /\ token' = [token EXCEPT ![p] = NoToken(p)]
    /\ inside' = inside \ {p}
    /\ UNCHANGED <<boot, starts, lease, left>>

\* The boot clock, which deadlines and start ticks are read from, starts again
\* from zero: what is left of a recorded deadline is at least what was left
\* before, and a pid may get the start ticks it had in the last boot.
Reboot ==
    /\ boot < MaxBoots
    /\ boot' = boot + 1
    /\ starts' = 0
    /\ running' = [p \in Pids |-> 0]
    /\ token' = [p \in Pids |-> NoToken(p)]
    /\ inside' = {}
    /\ left' \in left..Duration
    /\ UNCHANGED lease

Tick ==
    /\ left > 0
    /\ left' = left - 1
    /\ UNCHANGED <<boot, starts, running, lease, token, inside>>

-----------------------------------------------------------------------------
(* The store                                                               *)

\* (Mutant) An expired lease is free, whatever became of its owner.
FreeWhenExpired == ~ lease.active \/ left = 0 \/ Absent(lease.owner)

\* The row can be taken by a process of this boot: it was released, or it has
\* expired (a deadline of another boot has) and its owner is absent.
Free ==
    \/ ~ lease.active
    \/ /\ lease.owner.boot # boot \/ left = 0
       /\ Absent(lease.owner)

\* (Mutant) A takeover keeps the generation of the row.
SameGeneration(g) == IF g = 0 THEN 1 ELSE g

NextGeneration(g) == g + 1

\* (Mutant) The generation is incremented without a check.
NeverExhausted(g) == TRUE

HasGeneration(g) == g < MaxGeneration

\* acquire_lease: one immediate transaction.  A process that has a token asks
\* again like any other, and is refused by its own lease.
Acquire(p) ==
    /\ Alive(p)
    /\ p \notin inside
    /\ Free
    /\ HasGeneration(lease.generation)
    /\ lease' = [generation |-> NextGeneration(lease.generation),
                 owner |-> Self(p), active |-> TRUE]
    /\ token' = [token EXCEPT ![p] =
                   [generation |-> NextGeneration(lease.generation),
                    owner |-> Self(p)]]
    /\ left' = Duration
    /\ UNCHANGED <<boot, starts, running, inside>>

\* (Mutant) Any active row of the resource will do.
NamesActive(t) == lease.active

\* The row the token names: the WHERE clause of validate, renew and release.
Names(t) == lease.active /\ lease.generation = t.generation

OwnToken(p) == Alive(p) /\ token[p].owner = Self(p)

\* validate_token
ValidToken(p) == OwnToken(p) /\ Names(token[p]) /\ left > 0

\* A caller validates its lease and goes on to change what the lease protects.
\* Nothing stops it when the deadline passes while it is at work.
Enter(p) ==
    /\ p \notin inside
    /\ ValidToken(p)
    /\ inside' = inside \cup {p}
    /\ UNCHANGED <<boot, starts, running, lease, left, token>>

Leave(p) ==
    /\ p \in inside
    /\ inside' = inside \ {p}
    /\ UNCHANGED <<boot, starts, running, lease, left, token>>

\* renew_lease: an expired lease can be renewed as long as nobody took it.
Renew(p) ==
    /\ OwnToken(p)
    /\ Names(token[p])
    /\ left' = Duration
    /\ UNCHANGED <<boot, starts, running, lease, token, inside>>

\* release_lease: callers release when their work is over and may keep the
\* useless token.
Release(p) ==
    /\ p \notin inside
    /\ OwnToken(p)
    /\ Names(token[p])
    /\ lease' = [lease EXCEPT !.active = FALSE]
    /\ UNCHANGED <<boot, starts, running, left, token, inside>>

LeaseNext ==
    \/ \E p \in Pids :
         \/ Start(p) \/ Exit(p)
         \/ Acquire(p) \/ Enter(p) \/ Leave(p) \/ Renew(p) \/ Release(p)
    \/ Reboot
    \/ Tick

LeaseSpec == LeaseInit /\ [][LeaseNext]_leaseVars

-----------------------------------------------------------------------------
(* Properties                                                              *)

LeaseTypeOK ==
    /\ boot \in 1..MaxBoots
    /\ starts \in 0..MaxStarts
    /\ running \in [Pids -> 0..MaxStarts]
    /\ lease \in Leases
    /\ left \in 0..Duration
    /\ token \in [Pids -> Tokens]
    /\ inside \subseteq Pids

\* One writer at a time: two processes are never both at work under the lease,
\* even when one of them outlives its deadline there.
OneInside == \A p, q \in inside : p = q

\* A process at work owns the row: nobody took the lease from it, and nobody
\* can as long as it lives.
InsideOwns ==
    \A p \in inside :
        /\ Alive(p) /\ lease.active
        /\ lease.owner = Self(p)
        /\ lease.generation = token[p].generation

\* A token that lost its row, to a release or to a later owner, is dead: the
\* process that keeps it can never validate, renew or release with it again.
LostForGood ==
    [][\A p \in Pids :
          token[p].generation # 0 /\ token'[p] = token[p] /\ ~ Names(token[p])
             => ~ Names(token[p])']_leaseVars

=============================================================================
