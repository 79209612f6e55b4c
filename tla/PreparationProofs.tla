-------------------------- MODULE PreparationProofs --------------------------
(***************************************************************************)
(* Proofs about module Preparation, for any number of items, attempts and  *)
(* workers, any assets and processes, and any requests, runs and prunes.   *)
(***************************************************************************)
EXTENDS Preparation, WellFoundedInduction, TLAPS

-----------------------------------------------------------------------------
(* The parts of the inductive invariant                                    *)

Places == {"idle", "acquire", "read", "recover", "wave", "dispatch", "collect",
           "publish_asset", "verify", "record", "final", "ack", "build", "insert", "done"}

\* Places where the process has not got the lease.
Outside == {"idle", "acquire"}

\* Places of a run whose reads, if any, are not all recorded.
Dispatching == {"dispatch", "collect", "publish_asset", "verify", "record"}
Recording == {"publish_asset", "verify", "record"}

\* Places of a run with nothing in flight.
Settled == {"wave", "final", "ack"}

\* A command; what its head is does not matter here.
Command(heads) ==
    [pc : Places, op : {"none", "run", "recover", "publish"}, queue : SUBSET Items,
     wave : SUBSET Items, out : SUBSET Items, now : {0} \cup Items,
     got : {"none", "captured", "failed_retry", "failed"}, stop : BOOLEAN, head : heads]

CmdType == cmd = [p \in Procs |-> cmd[p]] /\ \A p \in Procs : cmd[p] \in Command({cmd[p].head})

MoreTypes ==
    /\ CmdType
    /\ prune \in [pc : {"idle", "moved"}, moved : SUBSET Assets]
    /\ other \in [pc : {"idle", "published", "verified", "refers"}, asset : Assets]

\* A command works under the lease, and a run knows every read in flight.
CmdFits(p) ==
    /\ cmd[p].pc \in Outside => cmd[p].out = {}
    /\ cmd[p].pc \notin Outside => holder = p
    /\ cmd[p].pc = "read" => cmd[p].out = {}
    /\ cmd[p].now # 0 <=> cmd[p].pc \in Recording
    /\ cmd[p].pc \in Dispatching \cup Settled => cmd[p].op = "run"
    /\ cmd[p].pc \in Recording => cmd[p].got # "none"
    /\ cmd[p].pc = "recover" => cmd[p].op = "recover"
    /\ cmd[p].op = "run" /\ cmd[p].pc \in Settled \cup {"build", "done"} => cmd[p].out = {}
    /\ cmd[p].op = "run" /\ cmd[p].pc \notin Outside \cup {"read"} =>
           InState("started") = Reading(p)
    /\ cmd[p].now \notin cmd[p].out
    /\ Reading(p) # {} => ~ deleted
    /\ cmd[p].pc = "record" /\ cmd[p].got = "captured" => Verified(AssetOf[cmd[p].now])

\* A confirmed stop is one that is wanted, with nothing in flight.
AckFits == control.acked => Stopping /\ InState("started") = {}

\* A prune holds its files while nobody holds the lease, and none of them is
\* one that anything refers to.
PruneFits ==
    prune.pc = "moved" => holder = Nobody /\ prune.moved \cap Reachable = {}

\* A row of the index without its file: a prune has it in its hands, or died with it.
IndexFits ==
    \A a \in index : file[a] = "none" =>
        a \in lost \/ (prune.pc = "moved" /\ a \in prune.moved)

ReferredFits ==
    /\ \A a \in ByCaptures : Verified(a)
    /\ ByOthers \subseteq index

IInv ==
    /\ TypeOK /\ MoreTypes
    /\ \A p \in Procs : CmdFits(p)
    /\ AckFits /\ PruneFits /\ IndexFits /\ ReferredFits

USE PreparationAssumption

-----------------------------------------------------------------------------
(* Lemmas on single commands                                               *)

\* Who works holds the lease.
LEMMA Holds ==
    ASSUME IInv, NEW p \in Procs, NEW q \in Procs, cmd[p].pc \notin Outside, p # q
    PROVE  holder = p /\ cmd[q].pc \in Outside
BY DEF IInv, CmdFits

LEMMA OutsideFits ==
    ASSUME NEW q \in Procs, cmd'[q].pc \in Outside, cmd'[q].out = {}, cmd'[q].now = 0
    PROVE  CmdFits(q)'
BY DEF CmdFits, Reading, Outside, Recording, Dispatching, Settled

\* A command that is not touched, by a step it does not notice.
LEMMA Undisturbed ==
    ASSUME IInv, NEW q \in Procs, cmd'[q] = cmd[q],
           \/ cmd[q].pc \in Outside
           \/ /\ UNCHANGED <<holder, items, deleted>>
              /\ \A a \in Assets : Verified(a) => Verified(a)'
    PROVE  CmdFits(q)'
<1>1. CmdFits(q) /\ cmd[q].now \in {0} \cup Items
  BY DEF IInv, MoreTypes, CmdType, Command
<1>2. CASE cmd[q].pc \in Outside
  <2>1. cmd[q].out = {} /\ cmd[q].now = 0
    BY <1>1, <1>2 DEF CmdFits, Outside, Recording
  <2>. QED
    BY <1>2, <2>1, OutsideFits
<1>3. CASE /\ UNCHANGED <<holder, items, deleted>>
           /\ \A a \in Assets : Verified(a) => Verified(a)'
  <2>1. InState("started")' = InState("started") /\ Reading(q)' = Reading(q)
    BY <1>3 DEF InState, Reading
  <2>2. \A i \in Items : AssetOf[i] \in Assets
    OBVIOUS
  <2>3. cmd[q].pc \in Recording => cmd[q].now \in Items
    BY <1>1 DEF CmdFits
  <2>4. cmd[q].pc = "record" /\ cmd[q].got = "captured" => Verified(AssetOf[cmd[q].now])'
    BY <1>1, <1>3, <2>2, <2>3 DEF CmdFits, Recording
  <2>5. cmd'[q].pc = "record" /\ cmd'[q].got = "captured" => Verified(AssetOf[cmd[q].now])'
    BY <2>4
  <2>. QED
    BY <1>1, <1>3, <2>1, <2>5 DEF CmdFits, Verified
<1>. QED
  BY <1>2, <1>3

\* One command moves.
LEMMA OneCommand ==
    ASSUME IInv, NEW p \in Procs, NEW d, d \in Command({d.head}),
           cmd' = [cmd EXCEPT ![p] = d]
    PROVE  /\ CmdType' /\ cmd'[p] = d
           /\ \A q \in Procs \ {p} : cmd'[q] = cmd[q]
<1>1. CmdType
  BY DEF IInv, MoreTypes
<1>2. cmd'[p] = d /\ \A q \in Procs \ {p} : cmd'[q] = cmd[q]
  BY <1>1 DEF CmdType
<1>3. cmd' = [q \in Procs |-> cmd'[q]]
  BY <1>1 DEF CmdType
<1>4. \A q \in Procs : cmd'[q] \in Command({cmd'[q].head})
  BY <1>1, <1>2 DEF CmdType
<1>. QED
  BY <1>2, <1>3, <1>4 DEF CmdType

\* A step of one command that writes nothing to the store but the lease.
LEMMA Alone ==
    ASSUME IInv, UNCHANGED job, UNCHANGED assets,
           NEW p \in Procs, NEW d, d \in Command({d.head}), cmd' = [cmd EXCEPT ![p] = d],
           holder' \in Procs \cup {Nobody, Dead},
           holder' = holder \/ \A q \in Procs \ {p} : cmd[q].pc \in Outside,
           prune.pc = "moved" => holder' = holder,
           CmdFits(p)'
    PROVE  IInv'
<1>1. CmdType' /\ \A q \in Procs \ {p} : cmd'[q] = cmd[q]
  BY OneCommand
<1>2. TypeOK' /\ MoreTypes'
  BY <1>1 DEF IInv, TypeOK, MoreTypes, job, assets
<1>3. \A a \in Assets : Verified(a) => Verified(a)'
  BY DEF Verified, assets
<1>4. \A q \in Procs : CmdFits(q)'
  BY <1>1, <1>3, Undisturbed DEF job
<1>5. AckFits' /\ PruneFits' /\ IndexFits' /\ ReferredFits'
  BY DEF IInv, AckFits, PruneFits, IndexFits, ReferredFits, Stopping, InState, Reachable,
         ByCaptures, ByOthers, Verified, job, assets
<1>. QED
  BY <1>2, <1>4, <1>5 DEF IInv

\* A step of the lease's holder that writes nothing to the store.
LEMMA HolderAlone ==
    ASSUME IInv, UNCHANGED <<job, holder, assets>>,
           NEW p \in Procs, NEW d, d \in Command({d.head}), cmd' = [cmd EXCEPT ![p] = d],
           cmd[p].pc \notin Outside, CmdFits(p)'
    PROVE  IInv'
<1>1. holder \in Procs \cup {Nobody, Dead}
  BY DEF IInv, TypeOK
<1>. QED
  BY <1>1, Alone DEF job, assets

\* What a step that leaves the store alone does not change.
LEMMA StoreStays ==
    ASSUME UNCHANGED job, UNCHANGED assets
    PROVE  /\ deleted' = deleted /\ control' = control
           /\ InState("started")' = InState("started")
           /\ \A a \in Assets : Verified(a)' = Verified(a)
BY DEF InState, Verified, job, assets

LEMMA LeaseSteps ==
    ASSUME IInv, NEW p \in Procs,
           (\E op \in {"run", "recover", "publish"} : Start(p, op))
             \/ Acquire(p) \/ Release(p) \/ Die(p)
    PROVE  IInv'
<1>1. UNCHANGED job /\ UNCHANGED assets
  BY DEF Start, Acquire, Release, Die
<1>2. CmdType /\ cmd[p] \in Command({cmd[p].head}) /\ holder \in Procs \cup {Nobody, Dead}
  BY DEF IInv, MoreTypes, CmdType, TypeOK
<1>3. CmdFits(p) /\ PruneFits
  BY DEF IInv
<1>4. Idle \in Command({Idle.head}) /\ Idle.pc = "idle" /\ Idle.out = {} /\ Idle.now = 0
  BY DEF Idle, Command, Places
<1>5. ASSUME cmd' = [cmd EXCEPT ![p] = Idle] PROVE CmdFits(p)'
  <2>1. cmd'[p] = Idle
    BY <1>2, <1>5 DEF CmdType
  <2>. QED
    BY <1>4, <2>1, OutsideFits DEF Outside
<1>6. CASE \E op \in {"run", "recover", "publish"} : Start(p, op)
  <2>1. PICK op \in {"run", "recover", "publish"} : Start(p, op)
    BY <1>6
  <2>2. PICK c : c = cmd[p] /\ c \in Command({c.head}) /\ c.pc = "idle"
    BY <1>2, <2>1 DEF Start, At
  <2>3. PICK d : d = [c EXCEPT !.pc = "acquire", !.op = op]
    OBVIOUS
  <2>4. "acquire" \in Places
    BY DEF Places
  <2>5. d \in Command({d.head}) /\ d.pc = "acquire" /\ d.out = c.out /\ d.now = c.now
    BY <2>2, <2>3, <2>4 DEF Command
  <2>6. cmd' = [cmd EXCEPT ![p] = d]
    BY <1>2, <2>1, <2>2, <2>3 DEF Start, CmdType
  <2>7. c.out = {} /\ c.now = 0
    BY <1>3, <2>2 DEF CmdFits, Outside, Recording
  <2>8. cmd'[p] = d
    BY <1>2, <2>6 DEF CmdType
  <2>9. CmdFits(p)'
    BY <2>5, <2>7, <2>8, OutsideFits DEF Outside
  <2>10. UNCHANGED holder
    BY <2>1 DEF Start
  <2>. QED
    BY <1>1, <1>2, <2>5, <2>6, <2>9, <2>10, Alone
<1>7. CASE Acquire(p)
  <2>1. At(p, "acquire") /\ Unlocked
    BY <1>7 DEF Acquire
  <2>2. CASE cmd' = [cmd EXCEPT ![p] = Idle] /\ UNCHANGED holder
    BY <1>1, <1>2, <1>4, <1>5, <2>2, Alone
  <2>3. CASE FreeLease /\ holder' = p /\ Goto(p, "read")
    <3>1. PICK c : c = cmd[p] /\ c \in Command({c.head}) /\ c.pc = "acquire"
      BY <1>2, <2>1 DEF At
    <3>2. PICK d : d = [c EXCEPT !.pc = "read"]
      OBVIOUS
    <3>3. "read" \in Places
      BY DEF Places
    <3>4. d \in Command({d.head}) /\ d.pc = "read" /\ d.out = c.out /\ d.now = c.now /\ d.op = c.op
      BY <3>1, <3>2, <3>3 DEF Command
    <3>5. cmd' = [cmd EXCEPT ![p] = d]
      BY <1>2, <2>3, <3>1, <3>2 DEF Goto, CmdType
    <3>6. c.out = {} /\ c.now = 0
      BY <1>3, <3>1 DEF CmdFits, Outside, Recording
    <3>7. cmd'[p] = d
      BY <1>2, <3>5 DEF CmdType
    <3>8. CmdFits(p)'
      BY <2>3, <3>4, <3>6, <3>7 DEF CmdFits, Reading, Outside, Recording, Dispatching, Settled
    <3>9. \A q \in Procs : cmd[q].pc \in Outside
      BY <2>3 DEF FreeLease, IInv, CmdFits
    <3>10. prune.pc # "moved"
      BY <2>1 DEF Unlocked
    <3>. QED
      BY <1>1, <2>3, <3>4, <3>5, <3>8, <3>9, <3>10, Alone
  <2>. QED
    BY <1>7, <2>2, <2>3 DEF Acquire
<1>8. CASE Release(p)
  <2>1. /\ holder = p /\ holder' = Nobody /\ prune.pc # "moved"
        /\ cmd' = [cmd EXCEPT ![p] = Idle]
    BY <1>8 DEF Release, Unlocked
  <2>2. \A q \in Procs \ {p} : cmd[q].pc \in Outside
    BY <2>1 DEF IInv, CmdFits
  <2>. QED
    BY <1>1, <1>4, <1>5, <2>1, <2>2, Alone
<1>9. CASE Die(p)
  <2>1. /\ cmd' = [cmd EXCEPT ![p] = Idle]
        /\ \/ holder = p /\ holder' = Dead
           \/ holder # p /\ holder' = holder
    BY <1>9 DEF Die
  <2>2. CASE holder # p /\ holder' = holder
    BY <1>1, <1>2, <1>4, <1>5, <2>1, <2>2, Alone
  <2>3. CASE holder = p /\ holder' = Dead
    <3>1. \A q \in Procs \ {p} : cmd[q].pc \in Outside
      BY <2>3 DEF IInv, CmdFits
    <3>2. prune.pc # "moved"
      BY <1>3, <2>3 DEF PruneFits
    <3>. QED
      BY <1>1, <1>4, <1>5, <2>1, <2>3, <3>1, <3>2, Alone
  <2>. QED
    BY <2>1, <2>2, <2>3
<1>. QED
  BY <1>6, <1>7, <1>8, <1>9

\* A command goes to another place with all it has.
LEMMA Going ==
    ASSUME IInv, NEW p \in Procs, NEW pc \in Places, Goto(p, pc)
    PROVE  \E d : /\ d \in Command({d.head}) /\ cmd' = [cmd EXCEPT ![p] = d] /\ cmd'[p] = d
                  /\ d.pc = pc /\ d.op = cmd[p].op /\ d.out = cmd[p].out /\ d.now = cmd[p].now
                  /\ d.got = cmd[p].got
<1>1. CmdType
  BY DEF IInv, MoreTypes
<1>2. PICK c : c = cmd[p] /\ c \in Command({c.head})
  BY <1>1 DEF CmdType
<1>3. PICK d : d = [c EXCEPT !.pc = pc]
  OBVIOUS
<1>4. /\ d \in Command({d.head}) /\ d.pc = pc /\ d.op = c.op /\ d.out = c.out
      /\ d.now = c.now /\ d.got = c.got
  BY <1>2, <1>3 DEF Command
<1>5. cmd' = [cmd EXCEPT ![p] = d]
  BY <1>1, <1>2, <1>3 DEF Goto, CmdType
<1>6. cmd'[p] = d
  BY <1>1, <1>5 DEF CmdType
<1>. QED
  BY <1>2, <1>4, <1>5, <1>6

\* The steps of a run between its reads, and its end.
LEMMA SettledSteps ==
    ASSUME IInv, NEW p \in Procs,
           Read(p) \/ NextWave(p) \/ WaveOver(p) \/ Final(p) \/ Build(p)
    PROVE  IInv'
<1>1. UNCHANGED <<job, holder, assets>> /\ UNCHANGED job /\ UNCHANGED assets
  BY DEF Read, NextWave, WaveOver, Final, Build
<1>2. CmdType /\ CmdFits(p)
  BY DEF IInv, MoreTypes
<1>3. cmd[p].pc \notin Outside /\ holder = p
  BY <1>2 DEF Read, NextWave, WaveOver, Final, Build, At, Outside, CmdFits
<1>4. PICK c : c = cmd[p] /\ c \in Command({c.head})
  BY <1>2 DEF CmdType
<1>5. \A d : /\ d \in Command({d.head}) /\ cmd' = [cmd EXCEPT ![p] = d]
             /\ cmd'[p] = d => CmdFits(p)'
             => IInv'
  <2>. SUFFICES ASSUME NEW d, d \in Command({d.head}), cmd' = [cmd EXCEPT ![p] = d],
                       cmd'[p] = d => CmdFits(p)'
                PROVE  IInv'
    OBVIOUS
  <2>1. cmd'[p] = d
    BY OneCommand
  <2>. QED
    BY <1>1, <1>3, <2>1, HolderAlone
<1>6. /\ deleted' = deleted
      /\ InState("started")' = InState("started")
      /\ holder' = p
  BY <1>1, <1>3, StoreStays
<1>7. CASE Read(p)
  <2>1. c.pc = "read" /\ c.out = {} /\ c.now = 0
    BY <1>2, <1>4, <1>7 DEF Read, At, CmdFits, Recording
  <2>2. {"wave", "recover", "build"} \subseteq Places
    BY DEF Places
  <2>3. CASE ReadItems(p)
    <3>1. PICK queue \in SUBSET Items :
            cmd' = [cmd EXCEPT ![p].pc = "wave", ![p].head = Head, ![p].queue = queue]
      BY <2>3 DEF ReadItems
    <3>2. PICK d : d = [c EXCEPT !.pc = "wave", !.head = Head, !.queue = queue]
      OBVIOUS
    <3>3. /\ d \in Command({d.head}) /\ d.pc = "wave" /\ d.op = c.op /\ d.out = {} /\ d.now = 0
      BY <1>4, <2>1, <2>2, <3>2 DEF Command
    <3>4. cmd' = [cmd EXCEPT ![p] = d]
      BY <1>2, <1>4, <3>1, <3>2 DEF CmdType
    <3>5. c.op = "run" /\ InState("started") = {}
      BY <1>4, <2>3 DEF ReadItems
    <3>6. cmd'[p] = d => CmdFits(p)'
      BY <1>6, <3>3, <3>5 DEF CmdFits, Reading, Outside, Recording, Dispatching, Settled
    <3>. QED
      BY <1>5, <3>3, <3>4, <3>6
  <2>4. CASE ReadToRecover(p)
    <3>1. PICK out \in SUBSET Items :
            cmd' = [cmd EXCEPT ![p].pc = "recover", ![p].head = Head, ![p].out = out]
      BY <2>4 DEF ReadToRecover, InState
    <3>2. PICK d : d = [c EXCEPT !.pc = "recover", !.head = Head, !.out = out]
      OBVIOUS
    <3>3. /\ d \in Command({d.head}) /\ d.pc = "recover" /\ d.op = c.op /\ d.now = 0
      BY <1>4, <2>1, <2>2, <3>2 DEF Command
    <3>4. cmd' = [cmd EXCEPT ![p] = d]
      BY <1>2, <1>4, <3>1, <3>2 DEF CmdType
    <3>5. c.op = "recover" /\ 0 \notin out
      BY <1>4, <2>4 DEF ReadToRecover, Items
    <3>6. d.out = out
      BY <1>4, <3>2 DEF Command
    <3>7. cmd'[p] = d => CmdFits(p)'
      BY <1>6, <3>3, <3>5, <3>6 DEF CmdFits, Reading, Outside, Recording, Dispatching, Settled
    <3>. QED
      BY <1>5, <3>3, <3>4, <3>7
  <2>5. CASE ReadToPublish(p)
    <3>1. PICK h : cmd' = [cmd EXCEPT ![p].pc = "build", ![p].head = h]
      BY <2>5 DEF ReadToPublish
    <3>2. PICK d : d = [c EXCEPT !.pc = "build", !.head = h]
      OBVIOUS
    <3>3. /\ d \in Command({d.head}) /\ d.pc = "build" /\ d.op = c.op /\ d.now = 0 /\ d.out = {}
      BY <1>4, <2>1, <2>2, <3>2 DEF Command
    <3>4. cmd' = [cmd EXCEPT ![p] = d]
      BY <1>2, <1>4, <3>1, <3>2 DEF CmdType
    <3>5. c.op = "publish"
      BY <1>4, <2>5 DEF ReadToPublish
    <3>6. cmd'[p] = d => CmdFits(p)'
      BY <1>6, <3>3, <3>5 DEF CmdFits, Reading, Outside, Recording, Dispatching, Settled
    <3>. QED
      BY <1>5, <3>3, <3>4, <3>6
  <2>. QED
    BY <1>7, <2>3, <2>4, <2>5 DEF Read
<1>8. CASE NextWave(p)
  <2>1. c.pc = "wave" /\ c.op = "run" /\ c.out = {} /\ c.now = 0 /\ InState("started") = {}
    BY <1>2, <1>4, <1>8 DEF NextWave, At, CmdFits, Recording, Settled, Outside, Reading
  <2>2. "dispatch" \in Places /\ "final" \in Places
    BY DEF Places
  <2>3. CASE Goto(p, "final")
    <3>1. PICK d : /\ d \in Command({d.head}) /\ cmd' = [cmd EXCEPT ![p] = d]
                   /\ d.pc = "final" /\ d.op = c.op /\ d.out = c.out /\ d.now = c.now
      BY <1>4, <2>2, <2>3, Going
    <3>2. cmd'[p] = d => CmdFits(p)'
      BY <1>6, <2>1, <3>1 DEF CmdFits, Reading, Outside, Recording, Dispatching, Settled
    <3>. QED
      BY <1>5, <3>1, <3>2
  <2>4. CASE \E wave \in SUBSET Items :
               cmd' = [cmd EXCEPT ![p].pc = "dispatch", ![p].wave = wave,
                                  ![p].queue = cmd[p].queue \ wave]
    <3>1. PICK wave \in SUBSET Items :
            cmd' = [cmd EXCEPT ![p].pc = "dispatch", ![p].wave = wave,
                               ![p].queue = cmd[p].queue \ wave]
      BY <2>4
    <3>2. PICK d : d = [c EXCEPT !.pc = "dispatch", !.wave = wave, !.queue = c.queue \ wave]
      OBVIOUS
    <3>3. /\ d \in Command({d.head}) /\ d.pc = "dispatch" /\ d.op = "run" /\ d.out = {} /\ d.now = 0
      BY <1>4, <2>1, <2>2, <3>2 DEF Command
    <3>4. cmd' = [cmd EXCEPT ![p] = d]
      BY <1>2, <1>4, <3>1, <3>2 DEF CmdType
    <3>5. cmd'[p] = d => CmdFits(p)'
      BY <1>6, <2>1, <3>3 DEF CmdFits, Reading, Outside, Recording, Dispatching, Settled
    <3>. QED
      BY <1>5, <3>3, <3>4, <3>5
  <2>5. PICK wave \in SUBSET Items :
          wave = {i \in cmd[p].queue : Cardinality({j \in cmd[p].queue : j < i}) < Workers}
    BY <1>4 DEF Command
  <2>. QED
    BY <1>8, <2>3, <2>4, <2>5, Zenon DEF NextWave
<1>9. CASE WaveOver(p) \/ Final(p)
  <2>1. /\ c.pc \in {"collect", "final"} /\ c.op = "run" /\ c.out = {} /\ c.now = 0
        /\ InState("started") = {}
    BY <1>2, <1>4, <1>9
       DEF WaveOver, Final, At, CmdFits, Recording, Settled, Dispatching, Outside, Reading
  <2>2. PICK pc \in {"wave", "final", "ack", "build"} : Goto(p, pc)
    BY <1>9 DEF WaveOver, Final, Goto
  <2>3. pc \in Places
    BY DEF Places
  <2>4. PICK d : /\ d \in Command({d.head}) /\ cmd' = [cmd EXCEPT ![p] = d]
                 /\ d.pc = pc /\ d.op = c.op /\ d.out = c.out /\ d.now = c.now
    BY <1>4, <2>2, <2>3, Going
  <2>5. cmd'[p] = d => CmdFits(p)'
    BY <1>6, <2>1, <2>4 DEF CmdFits, Reading, Outside, Recording, Dispatching, Settled
  <2>. QED
    BY <1>5, <2>4, <2>5
<1>10. CASE Build(p)
  <2>1. c.pc = "build" /\ c.now = 0
    BY <1>2, <1>4, <1>10 DEF Build, At, CmdFits, Recording
  <2>2. c.op = "run" => c.out = {} /\ InState("started") = {}
    BY <1>2, <1>4, <2>1 DEF CmdFits, Outside, Reading
  <2>3. "done" \in Places /\ "insert" \in Places
    BY DEF Places
  <2>4. CASE Goto(p, "done")
    <3>1. PICK d : /\ d \in Command({d.head}) /\ cmd' = [cmd EXCEPT ![p] = d]
                   /\ d.pc = "done" /\ d.op = c.op /\ d.out = c.out /\ d.now = c.now
      BY <1>4, <2>3, <2>4, Going
    <3>2. 0 \notin c.out
      BY <1>4 DEF Command, Items
    <3>3. cmd'[p] = d => CmdFits(p)'
      BY <1>6, <2>1, <2>2, <3>1, <3>2 DEF CmdFits, Reading, Outside, Recording, Dispatching, Settled
    <3>. QED
      BY <1>5, <3>1, <3>3
  <2>5. CASE cmd' = [cmd EXCEPT ![p].pc = "insert", ![p].out = InState("captured")]
    <3>1. PICK out \in SUBSET Items : out = InState("captured")
      BY DEF InState
    <3>2. PICK d : d = [c EXCEPT !.pc = "insert", !.out = out]
      OBVIOUS
    <3>3. d \in Command({d.head}) /\ d.pc = "insert" /\ d.op = c.op /\ d.out = out /\ d.now = 0
      BY <1>4, <2>1, <2>3, <3>2 DEF Command
    <3>4. cmd' = [cmd EXCEPT ![p] = d]
      BY <1>2, <1>4, <2>5, <3>1, <3>2 DEF CmdType
    <3>5. 0 \notin out
      BY DEF Items
    <3>6. cmd'[p] = d => CmdFits(p)'
      BY <1>6, <2>2, <3>3, <3>5 DEF CmdFits, Reading, Outside, Recording, Dispatching, Settled
    <3>. QED
      BY <1>5, <3>3, <3>4, <3>6
  <2>. QED
    BY <1>10, <2>4, <2>5 DEF Build
<1>. QED
  BY <1>7, <1>8, <1>9, <1>10

\* The steps of a run while its reads are in flight.
LEMMA FlightSteps ==
    ASSUME IInv, NEW p \in Procs,
           DispatchBlocked(p) \/ Dispatched(p) \/ Poll(p) \/ Collect(p) \/ Verify(p)
    PROVE  IInv'
<1>1. UNCHANGED <<job, holder, assets>> /\ UNCHANGED job /\ UNCHANGED assets
  BY DEF DispatchBlocked, Dispatched, Poll, Collect, Verify
<1>2. CmdType /\ CmdFits(p)
  BY DEF IInv, MoreTypes
<1>3. cmd[p].pc \in Dispatching /\ cmd[p].pc \notin Outside /\ holder = p
  BY <1>2 DEF DispatchBlocked, Dispatched, Poll, Collect, Verify, At, Dispatching, Outside, CmdFits
<1>4. PICK c : c = cmd[p] /\ c \in Command({c.head})
  BY <1>2 DEF CmdType
<1>5. \A d : /\ d \in Command({d.head}) /\ cmd' = [cmd EXCEPT ![p] = d]
             /\ cmd'[p] = d => CmdFits(p)'
             => IInv'
  <2>. SUFFICES ASSUME NEW d, d \in Command({d.head}), cmd' = [cmd EXCEPT ![p] = d],
                       cmd'[p] = d => CmdFits(p)'
                PROVE  IInv'
    OBVIOUS
  <2>1. cmd'[p] = d
    BY OneCommand
  <2>. QED
    BY <1>1, <1>3, <2>1, HolderAlone
<1>6. /\ deleted' = deleted
      /\ InState("started")' = InState("started")
      /\ holder' = p
  BY <1>1, <1>3, StoreStays
<1>7. /\ c.op = "run" /\ c.now \notin c.out
      /\ InState("started") = c.out \cup (IF c.now = 0 THEN {} ELSE {c.now})
      /\ InState("started") # {} => ~ deleted
  BY <1>2, <1>3, <1>4 DEF CmdFits, Dispatching, Outside, Reading
<1>8. {"collect", "publish_asset", "record"} \subseteq Places
  BY DEF Places
<1>9. CASE DispatchBlocked(p) \/ Dispatched(p) \/ Poll(p)
  <2>1. c.now = 0 /\ c.pc \in {"dispatch", "collect"}
    BY <1>2, <1>4, <1>9 DEF DispatchBlocked, Dispatched, Poll, At, CmdFits, Recording
  <2>2. ASSUME NEW d, d \in Command({d.head}), d.pc = "collect", d.op = c.op, d.out = c.out,
               d.now = c.now, cmd' = [cmd EXCEPT ![p] = d]
        PROVE  IInv'
    <3>1. cmd'[p] = d => CmdFits(p)'
      BY <1>6, <1>7, <2>1, <2>2 DEF CmdFits, Reading, Outside, Recording, Dispatching, Settled
    <3>. QED
      BY <1>5, <2>2, <3>1
  <2>3. CASE DispatchBlocked(p)
    <3>1. PICK d : d = [c EXCEPT !.pc = "collect", !.wave = {}, !.stop = TRUE]
      OBVIOUS
    <3>2. cmd' = [cmd EXCEPT ![p] = d]
      BY <1>2, <1>4, <2>3, <3>1 DEF DispatchBlocked, CmdType
    <3>3. /\ d \in Command({d.head}) /\ d.pc = "collect" /\ d.op = c.op /\ d.out = c.out
          /\ d.now = c.now
      BY <1>4, <1>8, <3>1, <3>2 DEF Command
    <3>. QED
      BY <2>2, <3>2, <3>3
  <2>4. CASE Dispatched(p)
    <3>1. PICK d : d = [c EXCEPT !.pc = "collect"]
      OBVIOUS
    <3>2. cmd' = [cmd EXCEPT ![p] = d]
      BY <1>2, <1>4, <2>4, <3>1 DEF Dispatched, Goto, CmdType
    <3>3. /\ d \in Command({d.head}) /\ d.pc = "collect" /\ d.op = c.op /\ d.out = c.out
          /\ d.now = c.now
      BY <1>4, <1>8, <3>1, <3>2 DEF Command
    <3>. QED
      BY <2>2, <3>2, <3>3
  <2>5. CASE Poll(p)
    <3>1. PICK d : d = [c EXCEPT !.stop = TRUE]
      OBVIOUS
    <3>2. cmd' = [cmd EXCEPT ![p] = d] /\ c.pc = "collect"
      BY <1>2, <1>4, <2>5, <3>1 DEF Poll, At, CmdType
    <3>3. /\ d \in Command({d.head}) /\ d.pc = "collect" /\ d.op = c.op /\ d.out = c.out
          /\ d.now = c.now
      BY <1>4, <1>8, <3>1, <3>2 DEF Command
    <3>. QED
      BY <2>2, <3>2, <3>3
  <2>. QED
    BY <1>9, <2>3, <2>4, <2>5
<1>10. CASE Collect(p)
  <2>1. c.pc = "collect" /\ c.now = 0
    BY <1>2, <1>4, <1>10 DEF Collect, At, CmdFits, Recording
  <2>2. PICK i \in c.out, got \in {"captured", "failed_retry", "failed"} :
          cmd' = [cmd EXCEPT ![p].now = i, ![p].got = got, ![p].out = @ \ {i},
                             ![p].pc = IF got = "captured" THEN "publish_asset" ELSE "record"]
    BY <1>4, <1>10 DEF Collect
  <2>3. PICK pc \in {"publish_asset", "record"} :
          pc = IF got = "captured" THEN "publish_asset" ELSE "record"
    OBVIOUS
  <2>4. PICK d : d = [c EXCEPT !.now = i, !.got = got, !.out = c.out \ {i}, !.pc = pc]
    OBVIOUS
  <2>5. i \in Items /\ i # 0
    BY <1>4, <2>2 DEF Command, Items
  <2>6. /\ d \in Command({d.head}) /\ d.pc = pc /\ d.op = "run" /\ d.out = c.out \ {i}
        /\ d.now = i /\ d.got = got
    BY <1>4, <1>7, <1>8, <2>2, <2>4, <2>5 DEF Command
  <2>7. cmd' = [cmd EXCEPT ![p] = d]
    BY <1>2, <1>4, <2>2, <2>3, <2>4 DEF CmdType
  <2>8. cmd'[p] = d => CmdFits(p)'
    <3>1. InState("started") = d.out \cup {i} /\ ~ deleted
      BY <1>7, <2>1, <2>2, <2>6
    <3>2. ~ (pc = "record" /\ got = "captured")
      BY <2>3
    <3>. QED
      BY <1>6, <2>3, <2>5, <2>6, <3>1, <3>2
         DEF CmdFits, Reading, Outside, Recording, Dispatching, Settled
  <2>. QED
    BY <1>5, <2>6, <2>7, <2>8
<1>11. CASE Verify(p)
  <2>1. /\ c.pc = "verify" /\ Verified(AssetOf[c.now]) /\ c.now # 0 /\ c.now \in Items
        /\ c.got # "none"
    BY <1>2, <1>4, <1>11 DEF Verify, At, CmdFits, Recording, Command
  <2>2. PICK d : /\ d \in Command({d.head}) /\ cmd' = [cmd EXCEPT ![p] = d]
                 /\ d.pc = "record" /\ d.op = c.op /\ d.out = c.out /\ d.now = c.now
                 /\ d.got = c.got
    BY <1>4, <1>8, <1>11, Going DEF Verify
  <2>3. Verified(AssetOf[d.now])'
    BY <1>1, <2>1, <2>2 DEF Verified, assets
  <2>4. cmd'[p] = d => CmdFits(p)'
    BY <1>6, <1>7, <2>1, <2>2, <2>3
       DEF CmdFits, Reading, Outside, Recording, Dispatching, Settled
  <2>. QED
    BY <1>5, <2>2, <2>4
<1>. QED
  BY <1>9, <1>10, <1>11

-----------------------------------------------------------------------------
(* The events                                                              *)

\* What an event does to the items and to what is kept of them.
LEMMA EventKeeps ==
    ASSUME IInv, NEW p \in Procs, cmd[p].pc \notin Outside, UNCHANGED <<holder, assets>>,
           UNCHANGED <<control, plan, deleted, judged>>,
           NEW i \in Items, NEW stage \in Stages, NEW attempt, Appends(p, i, stage, attempt),
           attempt \in Nat,
           stage = "captured" => Verified(AssetOf[i]),
           NEW d, d \in Command({d.head}), cmd' = [cmd EXCEPT ![p] = d],
           CmdFits(p)'
    PROVE  IInv'
<1>1. CmdType' /\ \A q \in Procs \ {p} : cmd'[q] = cmd[q]
  BY OneCommand
<1>2. /\ items \in [Items -> [stage : Stages, attempt : 0..MaxAttempts]]
      /\ items' = [items EXCEPT ![i] = [stage |-> stage, attempt |-> attempt]]
      /\ attempt \in 0..MaxAttempts
  BY DEF IInv, TypeOK, Appends, Follows
<1>3. TypeOK' /\ MoreTypes'
  BY <1>1, <1>2 DEF IInv, TypeOK, MoreTypes, assets
<1>4. \A q \in Procs \ {p} : CmdFits(q)'
  BY <1>1, Holds, Undisturbed
<1>5. \A s \in Stages : InState(s)' \subseteq IF s = stage THEN InState(s) \cup {i} ELSE InState(s)
  BY <1>2 DEF InState
<1>6. AckFits'
  <2>1. stage = "started" => ~ Stopping
    BY DEF Appends, MayStart
  <2>2. InState("started")' \subseteq IF "started" = stage THEN InState("started") \cup {i}
                                                           ELSE InState("started")
    BY <1>5 DEF Stages
  <2>. QED
    BY <2>1, <2>2 DEF IInv, AckFits, Stopping
<1>7. holder = p /\ prune.pc # "moved"
  BY DEF Appends, Unlocked
<1>8. PruneFits'
  BY <1>7 DEF PruneFits, assets
<1>9. IndexFits'
  BY DEF IInv, IndexFits, assets
<1>10. ReferredFits'
  <2>1. InState("captured")' \subseteq IF "captured" = stage THEN InState("captured") \cup {i}
                                                             ELSE InState("captured")
    BY <1>5 DEF Stages
  <2>2. \A j \in InState("captured")' : Verified(AssetOf[j])
    <3>1. \A j \in InState("captured") : Verified(AssetOf[j])
      BY DEF IInv, ReferredFits, ByCaptures
    <3>. QED
      BY <2>1, <3>1
  <2>3. \A a \in ByCaptures' : Verified(a)'
    BY <2>2 DEF ByCaptures, Verified, assets
  <2>4. ByOthers' \subseteq index'
    BY DEF IInv, ReferredFits, ByOthers, assets
  <2>. QED
    BY <2>3, <2>4 DEF ReferredFits
<1>. QED
  BY <1>3, <1>4, <1>6, <1>8, <1>9, <1>10 DEF IInv

LEMMA MinIn ==
    ASSUME NEW S \in SUBSET Items, S # {}
    PROVE  Min(S) \in S
<1>. DEFINE Less == {ss \in Nat \X Nat : ss[1] < ss[2]}
<1>1. S \subseteq Nat
  BY DEF Items
<1>2. PICK x \in S : \A y \in S : <<y, x>> \notin Less
  <2>1. Less = OpToRel(<, Nat)
    BY Zenon DEF OpToRel
  <2>2. IsWellFoundedOn(Less, Nat)
    BY <2>1, NatLessThanWellFounded
  <2>. HIDE DEF Less
  <2>. QED
    BY <1>1, <2>2, WFMin
<1>3. \A y \in S : y < x => <<y, x>> \in Less
  BY <1>1
<1>4. \A y \in S : ~ y < x
  <2>. HIDE DEF Less
  <2>. QED
    BY <1>2, <1>3
<1>5. \E i \in S : \A j \in S : i <= j
  BY <1>1, <1>4
<1>. QED
  BY <1>5, Zenon DEF Min

LEMMA Events ==
    ASSUME IInv, NEW p \in Procs, Interrupt(p) \/ Dispatch(p) \/ Record(p)
    PROVE  IInv'
<1>1. /\ UNCHANGED <<holder, assets>> /\ UNCHANGED <<control, plan, deleted, judged>>
      /\ holder = p /\ ~ deleted
  BY DEF Interrupt, Dispatch, Record, Appends
<1>2. CmdType /\ CmdFits(p)
  BY DEF IInv, MoreTypes
<1>3. cmd[p].pc \in {"recover", "dispatch", "record"} /\ cmd[p].pc \notin Outside
  BY DEF Interrupt, Dispatch, Record, At, Outside
<1>4. PICK c : c = cmd[p] /\ c \in Command({c.head})
  BY <1>2 DEF CmdType
<1>5. items \in [Items -> [stage : Stages, attempt : 0..MaxAttempts]]
  BY DEF IInv, TypeOK
<1>6. c.op = "run" => InState("started") = c.out \cup (IF c.now = 0 THEN {} ELSE {c.now})
  BY <1>2, <1>3, <1>4 DEF CmdFits, Outside, Reading
<1>7. \A i \in Items, stage \in Stages : \A attempt :
        Appends(p, i, stage, attempt) =>
          InState("started")' = IF stage = "started" THEN InState("started") \cup {i}
                                                     ELSE InState("started") \ {i}
  BY <1>5 DEF Appends, InState
<1>8. CASE Interrupt(p)
  <2>1. /\ c.pc = "recover" /\ c.op = "recover" /\ c.now = 0 /\ c.out # {}
    BY <1>2, <1>4, <1>8 DEF Interrupt, At, CmdFits, Recording
  <2>2. PICK i \in c.out : i = Min(c.out)
    BY <1>4, <2>1, MinIn DEF Command
  <2>3. /\ i \in Items /\ Appends(p, i, "interrupted", items[i].attempt)
        /\ cmd' = [cmd EXCEPT ![p].out = @ \ {i}, ![p].head = @ + 1]
    BY <1>4, <1>8, <2>2 DEF Interrupt, Command
  <2>4. PICK d : d = [c EXCEPT !.out = c.out \ {i}, !.head = c.head + 1]
    OBVIOUS
  <2>5. /\ d \in Command({d.head}) /\ d.pc = "recover" /\ d.op = "recover" /\ d.now = 0
        /\ d.out = c.out \ {i}
    BY <1>4, <2>1, <2>4 DEF Command
  <2>6. cmd' = [cmd EXCEPT ![p] = d]
    BY <1>2, <1>4, <2>3, <2>4 DEF CmdType
  <2>7. cmd'[p] = d
    BY <2>5, <2>6, OneCommand
  <2>8. 0 \notin d.out
    BY <1>4, <2>5 DEF Command, Items
  <2>9. CmdFits(p)'
    BY <1>1, <2>5, <2>7, <2>8 DEF CmdFits, Reading, Outside, Recording, Dispatching, Settled
  <2>10. "interrupted" \in Stages /\ items[i].attempt \in Nat
    BY <1>5, <2>3 DEF Stages
  <2>. QED
    BY <1>1, <1>3, <2>3, <2>5, <2>6, <2>9, <2>10, EventKeeps
<1>9. CASE Dispatch(p)
  <2>1. c.pc = "dispatch" /\ c.op = "run" /\ c.now = 0 /\ c.wave # {}
    BY <1>2, <1>4, <1>9 DEF Dispatch, At, CmdFits, Recording, Dispatching
  <2>2. PICK i \in c.wave : i = Min(c.wave)
    BY <1>4, <2>1, MinIn DEF Command
  <2>3. /\ i \in Items /\ Appends(p, i, "started", items[i].attempt + 1)
        /\ cmd' = [cmd EXCEPT ![p].wave = @ \ {i}, ![p].out = @ \cup {i}, ![p].head = @ + 1]
    BY <1>4, <1>9, <2>2 DEF Dispatch, Command
  <2>4. PICK d : d = [c EXCEPT !.wave = c.wave \ {i}, !.out = c.out \cup {i}, !.head = c.head + 1]
    OBVIOUS
  <2>5. /\ d \in Command({d.head}) /\ d.pc = "dispatch" /\ d.op = "run" /\ d.now = 0
        /\ d.out = c.out \cup {i}
    BY <1>4, <2>1, <2>3, <2>4 DEF Command
  <2>6. cmd' = [cmd EXCEPT ![p] = d]
    BY <1>2, <1>4, <2>3, <2>4 DEF CmdType
  <2>7. cmd'[p] = d
    BY <2>5, <2>6, OneCommand
  <2>8. 0 \notin d.out
    BY <1>4, <2>3, <2>5 DEF Command, Items
  <2>9. "started" \in Stages /\ items[i].attempt + 1 \in Nat
    BY <1>5, <2>3 DEF Stages
  <2>10. InState("started")' = d.out
    BY <1>6, <1>7, <2>1, <2>3, <2>5, <2>9
  <2>11. CmdFits(p)'
    BY <1>1, <2>5, <2>7, <2>8, <2>10
       DEF CmdFits, Reading, Outside, Recording, Dispatching, Settled
  <2>. QED
    BY <1>1, <1>3, <2>3, <2>5, <2>6, <2>9, <2>11, EventKeeps
<1>10. CASE Record(p)
  <2>1. /\ c.pc = "record" /\ c.op = "run" /\ c.now # 0 /\ c.now \in Items /\ c.now \notin c.out
        /\ c.got \in {"captured", "failed_retry", "failed"}
        /\ c.got = "captured" => Verified(AssetOf[c.now])
    BY <1>2, <1>4, <1>10 DEF Record, At, CmdFits, Recording, Dispatching, Command
  <2>2. PICK stop \in BOOLEAN :
          /\ Appends(p, c.now, c.got, items[c.now].attempt)
          /\ cmd' = [cmd EXCEPT ![p].pc = "collect", ![p].head = @ + 1, ![p].now = 0,
                                ![p].got = "none", ![p].stop = stop]
    <3>1. PICK stop \in BOOLEAN :
            stop = (c.stop \/ c.got = "failed" \/ (c.got = "failed_retry" /\ StopOnError))
      OBVIOUS
    <3>. QED
      BY <1>2, <1>4, <1>10, <3>1 DEF Record, CmdType
  <2>3. PICK d : d = [c EXCEPT !.pc = "collect", !.head = c.head + 1, !.now = 0,
                               !.got = "none", !.stop = stop]
    OBVIOUS
  <2>4. "collect" \in Places /\ c.got \in Stages /\ items[c.now].attempt \in Nat
    BY <1>5, <2>1 DEF Places, Stages
  <2>5. /\ d \in Command({d.head}) /\ d.pc = "collect" /\ d.op = "run" /\ d.now = 0
        /\ d.out = c.out
    BY <1>4, <2>1, <2>3, <2>4 DEF Command
  <2>6. cmd' = [cmd EXCEPT ![p] = d]
    BY <1>2, <1>4, <2>2, <2>3 DEF CmdType
  <2>7. cmd'[p] = d
    BY <2>5, <2>6, OneCommand
  <2>8. 0 \notin d.out
    BY <1>4, <2>5 DEF Command, Items
  <2>9. InState("started")' = d.out
    <3>1. InState("started")' = InState("started") \ {c.now}
      BY <1>7, <2>1, <2>2, <2>4
    <3>2. InState("started") = c.out \cup {c.now}
      BY <1>6, <2>1
    <3>. QED
      BY <2>1, <2>5, <3>1, <3>2
  <2>10. CmdFits(p)'
    BY <1>1, <2>5, <2>7, <2>8, <2>9
       DEF CmdFits, Reading, Outside, Recording, Dispatching, Settled
  <2>. QED
    BY <1>1, <1>3, <2>1, <2>2, <2>4, <2>5, <2>6, <2>10, EventKeeps
<1>. QED
  BY <1>8, <1>9, <1>10

-----------------------------------------------------------------------------
(* Requests, plans and deletion                                            *)

\* A step of nobody who runs a command.
LEMMA NoCommand ==
    ASSUME IInv, UNCHANGED <<cmd, holder, items>>,
           \/ holder \notin Procs
           \/ deleted' = deleted /\ \A a \in Assets : Verified(a) => Verified(a)'
    PROVE  \A q \in Procs : CmdFits(q)'
<1>1. holder \notin Procs => \A q \in Procs : cmd[q].pc \in Outside
  BY DEF IInv, CmdFits
<1>. QED
  BY <1>1, Undisturbed

LEMMA ControlSteps ==
    ASSUME IInv,
           \/ \E action \in {"pause", "resume", "cancel"} : Request(action)
           \/ AcknowledgeIdle \/ JudgeDelete \/ Entomb
    PROVE  IInv'
<1>1. UNCHANGED <<cmd, holder, items, plan>> /\ UNCHANGED assets
  BY DEF Request, AcknowledgeIdle, JudgeDelete, Entomb
<1>2. deleted' = deleted \/ holder \notin Procs
  BY DEF Request, AcknowledgeIdle, JudgeDelete, Entomb
<1>3. \A a \in Assets : Verified(a) => Verified(a)'
  BY <1>1 DEF Verified, assets
<1>4. \A q \in Procs : CmdFits(q)'
  BY <1>1, <1>2, <1>3, NoCommand
<1>5. /\ control \in [action : {"none", "pause", "resume", "cancel"}, seq : 0..MaxControls,
                      acked : BOOLEAN]
      /\ AckFits
  BY DEF IInv, TypeOK
<1>6. /\ control' \in [action : {"none", "pause", "resume", "cancel"}, seq : 0..MaxControls,
                       acked : BOOLEAN]
      /\ AckFits'
  <2>1. InState("started")' = InState("started")
    BY <1>1 DEF InState
  <2>2. CASE \E action \in {"pause", "resume", "cancel"} : Request(action)
    <3>1. PICK action \in {"pause", "resume", "cancel"} :
            /\ control.seq < MaxControls
            /\ control' = [action |-> action, seq |-> control.seq + 1, acked |-> FALSE]
      BY <2>2 DEF Request
    <3>. QED
      BY <1>5, <3>1 DEF AckFits
  <2>3. CASE AcknowledgeIdle
    <3>1. Stopping /\ InState("started") = {} /\ control' = [control EXCEPT !.acked = TRUE]
      BY <1>5, <2>3 DEF AcknowledgeIdle, IdleJob, Acked
    <3>. QED
      BY <1>5, <2>1, <3>1 DEF AckFits, Stopping
  <2>4. CASE JudgeDelete \/ Entomb
    BY <1>5, <2>1, <2>4 DEF JudgeDelete, Entomb, AckFits, Stopping
  <2>. QED
    BY <2>2, <2>3, <2>4
<1>7. deleted' \in BOOLEAN /\ judged' \in BOOLEAN
  BY DEF IInv, TypeOK, Request, AcknowledgeIdle, JudgeDelete, Entomb
<1>8. TypeOK' /\ MoreTypes'
  BY <1>1, <1>6, <1>7 DEF IInv, TypeOK, MoreTypes, CmdType, assets
<1>9. PruneFits' /\ IndexFits' /\ ReferredFits'
  BY <1>1 DEF IInv, PruneFits, IndexFits, ReferredFits, InState, Reachable,
              ByCaptures, ByOthers, Verified, assets
<1>. QED
  BY <1>4, <1>6, <1>8, <1>9 DEF IInv

\* The end of a run: the stop is confirmed, or the plan is there.
LEMMA EndSteps ==
    ASSUME IInv, NEW p \in Procs, Acknowledge(p) \/ Insert(p)
    PROVE  IInv'
<1>1. /\ UNCHANGED <<items, deleted, judged, holder, assets>> /\ holder = p
      /\ cmd[p].pc \in {"ack", "insert"} /\ UNCHANGED assets
  BY DEF Acknowledge, Insert, At
<1>2. CmdType /\ CmdFits(p)
  BY DEF IInv, MoreTypes
<1>3. PICK c : c = cmd[p] /\ c \in Command({c.head})
  BY <1>2 DEF CmdType
<1>4. "done" \in Places
  BY DEF Places
<1>5. PICK d : /\ d \in Command({d.head}) /\ cmd' = [cmd EXCEPT ![p] = d]
               /\ d.pc = "done" /\ d.op = c.op /\ d.now = c.now
               /\ d.out = IF c.pc = "insert" THEN {} ELSE c.out
  <2>1. CASE Acknowledge(p)
    <3>1. c.pc = "ack" /\ Goto(p, "done")
      BY <1>3, <2>1 DEF Acknowledge, At
    <3>2. PICK d : /\ d \in Command({d.head}) /\ cmd' = [cmd EXCEPT ![p] = d]
                   /\ d.pc = "done" /\ d.op = c.op /\ d.out = c.out /\ d.now = c.now
      BY <1>3, <1>4, <3>1, Going
    <3>3. d.out = IF c.pc = "insert" THEN {} ELSE c.out
      BY <3>1, <3>2
    <3>. QED
      BY <3>2, <3>3
  <2>2. CASE Insert(p)
    <3>1. c.pc = "insert" /\ cmd' = [cmd EXCEPT ![p].pc = "done", ![p].out = {}]
      BY <1>3, <2>2 DEF Insert, At
    <3>2. PICK d : d = [c EXCEPT !.pc = "done", !.out = {}]
      OBVIOUS
    <3>3. /\ d \in Command({d.head}) /\ d.pc = "done" /\ d.op = c.op /\ d.now = c.now
          /\ d.out = {}
      BY <1>3, <1>4, <3>2 DEF Command
    <3>4. cmd' = [cmd EXCEPT ![p] = d]
      BY <1>2, <1>3, <3>1, <3>2 DEF CmdType
    <3>. QED
      BY <3>1, <3>3, <3>4
  <2>. QED
    BY <2>1, <2>2
<1>6. CmdType' /\ cmd'[p] = d /\ \A q \in Procs \ {p} : cmd'[q] = cmd[q]
  BY <1>5, OneCommand
<1>7. /\ c.now = 0
      /\ c.op = "run" /\ c.pc = "ack" => c.out = {}
      /\ c.pc = "ack" => c.op = "run"
  BY <1>1, <1>2, <1>3 DEF CmdFits, Recording, Settled
<1>8. c.op = "run" => InState("started") = {}
  BY <1>1, <1>2, <1>3, <1>7 DEF CmdFits, Reading, Outside
<1>9. InState("started")' = InState("started")
  BY <1>1 DEF InState
<1>10. CmdFits(p)'
  <2>1. d.now = 0 /\ 0 \notin d.out
    BY <1>2, <1>3, <1>5, <1>7 DEF CmdFits
  <2>2. d.op = "run" => d.out = {}
    BY <1>1, <1>3, <1>5, <1>7
  <2>3. Reading(p)' = {}
    BY <1>6, <2>1, <2>2 DEF Reading
  <2>4. d.op = "run" => InState("started")' = {}
    BY <1>5, <1>8, <1>9
  <2>. QED
    BY <1>1, <1>5, <1>6, <2>1, <2>2, <2>3, <2>4
       DEF CmdFits, Outside, Recording, Dispatching, Settled
<1>11. \A q \in Procs \ {p} : CmdFits(q)'
  <2>1. cmd[p].pc \notin Outside
    BY <1>1 DEF Outside
  <2>. QED
    BY <1>6, <2>1, Holds, Undisturbed
<1>12. /\ control \in [action : {"none", "pause", "resume", "cancel"}, seq : 0..MaxControls,
                       acked : BOOLEAN]
       /\ AckFits /\ plan \subseteq Items
  BY DEF IInv, TypeOK
<1>13. /\ control' \in [action : {"none", "pause", "resume", "cancel"}, seq : 0..MaxControls,
                        acked : BOOLEAN]
       /\ AckFits' /\ plan' \subseteq Items
  <2>1. CASE Acknowledge(p)
    <3>1. PICK acked \in BOOLEAN :
            acked = (control.acked \/ Stopping) /\ control' = [control EXCEPT !.acked = acked]
      BY <1>12, <2>1 DEF Acknowledge, Acked
    <3>2. InState("started") = {} /\ UNCHANGED plan
      BY <1>3, <1>7, <1>8, <2>1 DEF Acknowledge, At
    <3>. QED
      BY <1>9, <1>12, <3>1, <3>2 DEF AckFits, Stopping
  <2>2. CASE Insert(p)
    <3>1. UNCHANGED control /\ (plan' = plan \/ plan' = c.out)
      BY <1>3, <2>2 DEF Insert
    <3>. QED
      BY <1>3, <1>9, <1>12, <3>1 DEF AckFits, Stopping, Command
  <2>. QED
    BY <2>1, <2>2
<1>14. TypeOK' /\ MoreTypes'
  BY <1>1, <1>6, <1>13 DEF IInv, TypeOK, MoreTypes, assets
<1>15. PruneFits' /\ IndexFits' /\ ReferredFits'
  BY <1>1 DEF IInv, PruneFits, IndexFits, ReferredFits, InState, Reachable,
              ByCaptures, ByOthers, Verified, assets
<1>. QED
  BY <1>10, <1>11, <1>13, <1>14, <1>15 DEF IInv

-----------------------------------------------------------------------------
(* Assets                                                                  *)

\* A file that is published loses nothing.
LEMMA PublishedKeeps ==
    ASSUME IInv, NEW a \in Assets, Published(a)
    PROVE  /\ file' \in [Assets -> {"none", "young", "old"}] /\ index' \subseteq Assets
           /\ index \subseteq index' /\ prune.pc # "moved"
           /\ \A b \in Assets : Verified(b) => Verified(b)'
           /\ \A b \in index' : file'[b] = "none" => b \in index /\ file[b] = "none"
<1>1. file \in [Assets -> {"none", "young", "old"}] /\ index \subseteq Assets
  BY DEF IInv, TypeOK
<1>2. PICK new \in {"young", "old"} : file' = [file EXCEPT ![a] = new]
  BY <1>1 DEF Published
<1>3. index' = index \cup {a} /\ prune.pc # "moved"
  BY DEF Published, Unlocked
<1>. QED
  BY <1>1, <1>2, <1>3 DEF Verified

LEMMA PublishStep ==
    ASSUME IInv, NEW p \in Procs, PublishAsset(p)
    PROVE  IInv'
<1>1. /\ UNCHANGED job /\ UNCHANGED <<holder, prune, lost, other>>
      /\ cmd[p].pc = "publish_asset" /\ cmd[p].pc \notin Outside
  BY DEF PublishAsset, At, Outside
<1>2. CmdFits(p) /\ holder = p
  BY <1>1 DEF IInv, CmdFits
<1>3. PICK c : c = cmd[p] /\ c \in Command({c.head})
  BY DEF IInv, MoreTypes, CmdType
<1>4. /\ c.now \in Items /\ c.now # 0 /\ c.now \notin c.out /\ c.op = "run" /\ c.got # "none"
      /\ InState("started") = c.out \cup {c.now} /\ ~ deleted
  BY <1>1, <1>2, <1>3 DEF CmdFits, Recording, Dispatching, Command, Outside, Reading
<1>5. PICK a \in Assets : a = AssetOf[c.now] /\ Published(a)
  BY <1>3, <1>4 DEF PublishAsset
<1>6. /\ file' \in [Assets -> {"none", "young", "old"}] /\ index' \subseteq Assets
      /\ index \subseteq index' /\ prune.pc # "moved"
      /\ \A b \in Assets : Verified(b) => Verified(b)'
      /\ \A b \in index' : file'[b] = "none" => b \in index /\ file[b] = "none"
  BY <1>5, PublishedKeeps
<1>7. "verify" \in Places
  BY DEF Places
<1>8. PICK d : /\ d \in Command({d.head}) /\ cmd' = [cmd EXCEPT ![p] = d] /\ cmd'[p] = d
               /\ d.pc = "verify" /\ d.op = c.op /\ d.out = c.out /\ d.now = c.now
               /\ d.got = c.got
  BY <1>3, <1>7, Going DEF PublishAsset
<1>9. CmdType' /\ \A q \in Procs \ {p} : cmd'[q] = cmd[q]
  BY <1>8, OneCommand
<1>10. InState("started")' = InState("started") /\ UNCHANGED deleted
  BY <1>1 DEF InState, job
<1>11. CmdFits(p)'
  BY <1>1, <1>2, <1>4, <1>8, <1>10
     DEF CmdFits, Reading, Outside, Recording, Dispatching, Settled
<1>12. \A q \in Procs \ {p} : CmdFits(q)'
  BY <1>1, <1>9, Holds, Undisturbed
<1>13. TypeOK' /\ MoreTypes'
  BY <1>1, <1>6, <1>9 DEF IInv, TypeOK, MoreTypes, job
<1>14. AckFits' /\ PruneFits'
  BY <1>1, <1>6 DEF IInv, AckFits, PruneFits, Stopping, InState, job
<1>15. IndexFits'
  BY <1>1, <1>6 DEF IInv, IndexFits
<1>16. ReferredFits'
  <2>1. ByCaptures' = ByCaptures /\ ByOthers' = ByOthers /\ ByCaptures \subseteq Assets
    BY <1>1 DEF ByCaptures, ByOthers, InState, job
  <2>. QED
    BY <1>6, <2>1 DEF IInv, ReferredFits
<1>. QED
  BY <1>11, <1>12, <1>13, <1>14, <1>15, <1>16 DEF IInv

\* The process dies after the link: the file is there, the index does not name it.
LEMMA DieLinkingStep ==
    ASSUME IInv, NEW p \in Procs, DieLinking(p)
    PROVE  IInv'
<1>1. /\ UNCHANGED job /\ UNCHANGED <<index, prune, lost, other>>
      /\ cmd[p].pc = "publish_asset" /\ cmd[p].pc \notin Outside
      /\ holder' = Dead /\ cmd' = [cmd EXCEPT ![p] = Idle] /\ prune.pc # "moved"
  BY DEF DieLinking, At, Outside, Unlocked
<1>2. file \in [Assets -> {"none", "young", "old"}] /\ cmd[p].now \in Items
  BY <1>1 DEF IInv, TypeOK, MoreTypes, CmdType, Command, CmdFits, Recording
<1>3. PICK a \in Assets : a = AssetOf[cmd[p].now]
  BY <1>2
<1>4. file' = [file EXCEPT ![a] = "young"]
  BY <1>3 DEF DieLinking
<1>5. /\ file' \in [Assets -> {"none", "young", "old"}]
      /\ \A b \in Assets : file'[b] = "none" => file[b] = "none"
  BY <1>2, <1>4
<1>6. Idle \in Command({Idle.head}) /\ Idle.pc = "idle" /\ Idle.out = {} /\ Idle.now = 0
  BY DEF Idle, Command, Places
<1>7. CmdType' /\ cmd'[p] = Idle /\ \A q \in Procs \ {p} : cmd'[q] = cmd[q]
  BY <1>1, <1>6, OneCommand
<1>8. CmdFits(p)'
  BY <1>6, <1>7, OutsideFits DEF Outside
<1>9. \A q \in Procs \ {p} : CmdFits(q)'
  BY <1>1, <1>7, Holds, Undisturbed
<1>10. TypeOK' /\ MoreTypes'
  BY <1>1, <1>5, <1>7 DEF IInv, TypeOK, MoreTypes, job
<1>11. AckFits' /\ PruneFits'
  BY <1>1 DEF IInv, AckFits, PruneFits, Stopping, InState, job
<1>12. index \subseteq Assets
  BY DEF IInv, TypeOK
<1>13. IndexFits'
  BY <1>1, <1>5, <1>12 DEF IInv, IndexFits
<1>14. ReferredFits'
  <2>1. ByCaptures' = ByCaptures /\ ByOthers' = ByOthers
    BY <1>1 DEF ByCaptures, ByOthers, InState, job
  <2>. QED
    BY <1>1, <1>5, <1>12, <2>1 DEF IInv, ReferredFits, Verified
<1>. QED
  BY <1>8, <1>9, <1>10, <1>11, <1>13, <1>14 DEF IInv

\* A command without a lease publishes, reads and refers, or dies before it did.
LEMMA OtherSteps ==
    ASSUME IInv,
           \/ \E a \in Assets : OtherPublish(a)
           \/ OtherVerify \/ OtherRefer \/ OtherDies
    PROVE  IInv'
<1>1. UNCHANGED job /\ UNCHANGED <<cmd, holder, prune, lost>>
  BY DEF OtherPublish, OtherVerify, OtherRefer, OtherDies
<1>2. /\ file \in [Assets -> {"none", "young", "old"}] /\ index \subseteq Assets
      /\ other \in [pc : {"idle", "published", "verified", "refers"}, asset : Assets]
  BY DEF IInv, TypeOK, MoreTypes
<1>3. /\ file' \in [Assets -> {"none", "young", "old"}] /\ index' \subseteq Assets
      /\ index \subseteq index'
      /\ \A b \in Assets : Verified(b) => Verified(b)'
      /\ \A b \in index' : file'[b] = "none" => b \in index /\ file[b] = "none"
  <2>1. CASE \E a \in Assets : OtherPublish(a)
    BY <2>1, PublishedKeeps DEF OtherPublish
  <2>2. CASE OtherVerify \/ OtherRefer \/ OtherDies
    BY <1>2, <2>2 DEF OtherVerify, OtherRefer, OtherDies, Verified
  <2>. QED
    BY <2>1, <2>2
<1>4. /\ other' \in [pc : {"idle", "published", "verified", "refers"}, asset : Assets]
      /\ ByOthers' \subseteq index'
      /\ prune.pc = "moved" => ByOthers' \subseteq ByOthers
  <2>1. CASE \E a \in Assets : OtherPublish(a)
    BY <1>2, <2>1 DEF OtherPublish, ByOthers
  <2>2. CASE OtherVerify \/ OtherDies
    BY <1>2, <2>2 DEF OtherVerify, OtherDies, ByOthers
  <2>3. CASE OtherRefer
    BY <1>2, <2>3 DEF OtherRefer, ByOthers, Unlocked
  <2>. QED
    BY <2>1, <2>2, <2>3
<1>5. \A q \in Procs : CmdFits(q)'
  BY <1>1, <1>3, NoCommand DEF job
<1>6. TypeOK' /\ MoreTypes'
  BY <1>1, <1>3, <1>4 DEF IInv, TypeOK, MoreTypes, CmdType, job
<1>7. ByCaptures' = ByCaptures /\ ByCaptures \subseteq Assets
  BY <1>1 DEF ByCaptures, InState, job
<1>8. AckFits' /\ PruneFits'
  BY <1>1, <1>4, <1>7 DEF IInv, AckFits, PruneFits, Reachable, Stopping, InState, job
<1>9. IndexFits' /\ ReferredFits'
  BY <1>1, <1>3, <1>4, <1>7 DEF IInv, IndexFits, ReferredFits
<1>. QED
  BY <1>5, <1>6, <1>8, <1>9 DEF IInv

\* A file ages.
LEMMA AgeStep ==
    ASSUME IInv, NEW a \in Assets, Age(a)
    PROVE  IInv'
<1>1. UNCHANGED job /\ UNCHANGED <<cmd, holder, index, prune, lost, other>>
  BY DEF Age
<1>2. /\ file \in [Assets -> {"none", "young", "old"}] /\ index \subseteq Assets
      /\ file[a] = "young" /\ file' = [file EXCEPT ![a] = "old"]
  BY DEF IInv, TypeOK, Age
<1>3. /\ file' \in [Assets -> {"none", "young", "old"}]
      /\ \A b \in Assets : file'[b] = "none" <=> file[b] = "none"
  BY <1>2
<1>4. \A b \in Assets : Verified(b) => Verified(b)'
  BY <1>1, <1>3 DEF Verified
<1>5. \A q \in Procs : CmdFits(q)'
  BY <1>1, <1>4, NoCommand DEF job
<1>6. TypeOK' /\ MoreTypes'
  BY <1>1, <1>3 DEF IInv, TypeOK, MoreTypes, CmdType, job
<1>7. /\ ByCaptures' = ByCaptures /\ ByOthers' = ByOthers /\ ByCaptures \subseteq Assets
  BY <1>1 DEF ByCaptures, ByOthers, InState, job
<1>8. AckFits' /\ PruneFits'
  BY <1>1, <1>7 DEF IInv, AckFits, PruneFits, Reachable, Stopping, InState, job
<1>9. IndexFits'
  BY <1>1, <1>2, <1>3 DEF IInv, IndexFits
<1>10. ReferredFits'
  BY <1>1, <1>4, <1>7 DEF IInv, ReferredFits
<1>. QED
  BY <1>5, <1>6, <1>8, <1>9, <1>10 DEF IInv

\* The prune.  Nobody has the lease while it works, so no command is in its way.
LEMMA PruneSteps ==
    ASSUME IInv, PruneMove \/ PruneUndo \/ PruneDies \/ PruneCommit
    PROVE  IInv'
<1>1. UNCHANGED job /\ UNCHANGED <<cmd, holder, other>>
  BY DEF PruneMove, PruneUndo, PruneDies, PruneCommit
<1>2. /\ file \in [Assets -> {"none", "young", "old"}] /\ index \subseteq Assets
      /\ lost \subseteq Assets
      /\ prune.pc \in {"idle", "moved"} /\ prune.moved \subseteq Assets
  BY DEF IInv, TypeOK, MoreTypes
<1>3. holder = Nobody
  BY DEF IInv, PruneFits, PruneMove, PruneUndo, PruneDies, PruneCommit, NoLease
<1>4. \A q \in Procs : CmdFits(q)'
  <2>1. UNCHANGED <<cmd, holder, items>> /\ holder \notin Procs
    BY <1>1, <1>3 DEF job
  <2>. QED
    BY <2>1, NoCommand
<1>5. /\ ByCaptures' = ByCaptures /\ ByOthers' = ByOthers /\ ByCaptures \subseteq Assets
      /\ Reachable' = Reachable
  BY <1>1 DEF Reachable, ByCaptures, ByOthers, InState, job
<1>6. AckFits'
  BY <1>1 DEF IInv, AckFits, Stopping, InState, job
<1>7. IndexFits /\ ReferredFits
  BY DEF IInv
<1>8. CASE PruneMove
  <2>1. PICK moved \in SUBSET (Assets \ Reachable) :
          /\ prune' = [pc |-> "moved", moved |-> moved]
          /\ file' = [a \in Assets |-> IF a \in moved THEN "none" ELSE file[a]]
    BY <1>8 DEF PruneMove
  <2>2. prune.pc = "idle" /\ UNCHANGED <<index, lost>>
    BY <1>8 DEF PruneMove
  <2>3. /\ file' \in [Assets -> {"none", "young", "old"}]
        /\ \A a \in Assets : file'[a] = IF a \in moved THEN "none" ELSE file[a]
    BY <1>2, <2>1
  <2>4. prune'.pc = "moved" /\ prune'.moved = moved
    BY <2>1
  <2>5. prune' \in [pc : {"idle", "moved"}, moved : SUBSET Assets]
    BY <2>1
  <2>6. TypeOK' /\ MoreTypes'
    BY <1>1, <2>2, <2>3, <2>5 DEF IInv, TypeOK, MoreTypes, CmdType, job
  <2>7. PruneFits'
    BY <1>1, <1>3, <1>5, <2>4 DEF PruneFits
  <2>8. IndexFits'
    BY <1>2, <1>7, <2>2, <2>3, <2>4 DEF IndexFits
  <2>9. ReferredFits'
    BY <1>5, <1>7, <2>2, <2>3 DEF ReferredFits, Verified, Reachable
  <2>. QED
    BY <1>4, <1>6, <2>6, <2>7, <2>8, <2>9 DEF IInv
<1>9. CASE PruneUndo
  <2>1. PICK stuck \in SUBSET prune.moved :
          /\ file' = [a \in Assets |-> IF a \in prune.moved \ stuck THEN "old" ELSE file[a]]
          /\ lost' = lost \cup stuck
    BY <1>9 DEF PruneUndo
  <2>2. prune' = [pc |-> "idle", moved |-> {}] /\ UNCHANGED index
    BY <1>9 DEF PruneUndo
  <2>3. /\ file' \in [Assets -> {"none", "young", "old"}]
        /\ \A a \in Assets : file'[a] = IF a \in prune.moved \ stuck THEN "old" ELSE file[a]
    BY <1>2, <2>1
  <2>4. prune' \in [pc : {"idle", "moved"}, moved : SUBSET Assets] /\ prune'.pc = "idle"
    BY <2>2
  <2>5. TypeOK' /\ MoreTypes'
    BY <1>1, <1>2, <2>1, <2>2, <2>3, <2>4 DEF IInv, TypeOK, MoreTypes, CmdType, job
  <2>6. IndexFits'
    BY <1>2, <1>7, <2>1, <2>2, <2>3 DEF IndexFits
  <2>7. ReferredFits'
    BY <1>5, <1>7, <2>1, <2>2, <2>3 DEF ReferredFits, Verified
  <2>. QED
    BY <1>4, <1>6, <2>4, <2>5, <2>6, <2>7 DEF IInv, PruneFits
<1>10. CASE PruneDies
  <2>1. /\ prune' = [pc |-> "idle", moved |-> {}] /\ lost' = lost \cup prune.moved
        /\ UNCHANGED <<file, index>>
    BY <1>10 DEF PruneDies
  <2>2. prune' \in [pc : {"idle", "moved"}, moved : SUBSET Assets] /\ prune'.pc = "idle"
    BY <2>1
  <2>3. TypeOK' /\ MoreTypes'
    BY <1>1, <1>2, <2>1, <2>2 DEF IInv, TypeOK, MoreTypes, CmdType, job
  <2>4. IndexFits'
    BY <1>2, <1>7, <2>1 DEF IndexFits
  <2>5. ReferredFits'
    BY <1>5, <1>7, <2>1 DEF ReferredFits, Verified
  <2>. QED
    BY <1>4, <1>6, <2>2, <2>3, <2>4, <2>5 DEF IInv, PruneFits
<1>11. CASE PruneCommit
  <2>1. /\ prune' = [pc |-> "idle", moved |-> {}] /\ index' = index \ prune.moved
        /\ UNCHANGED <<file, lost>> /\ prune.pc = "moved"
    BY <1>11 DEF PruneCommit
  <2>2. prune' \in [pc : {"idle", "moved"}, moved : SUBSET Assets] /\ prune'.pc = "idle"
    BY <2>1
  <2>3. TypeOK' /\ MoreTypes'
    BY <1>1, <1>2, <2>1, <2>2 DEF IInv, TypeOK, MoreTypes, CmdType, job
  <2>4. IndexFits'
    BY <1>2, <1>7, <2>1 DEF IndexFits
  <2>5. prune.moved \cap Reachable = {}
    BY <2>1 DEF IInv, PruneFits
  <2>6. ReferredFits'
    BY <1>5, <1>7, <2>1, <2>5 DEF ReferredFits, Verified, Reachable
  <2>. QED
    BY <1>4, <1>6, <2>2, <2>3, <2>4, <2>6 DEF IInv, PruneFits
<1>. QED
  BY <1>8, <1>9, <1>10, <1>11

-----------------------------------------------------------------------------
(* The theorems                                                            *)

LEMMA Stutters ==
    ASSUME IInv, UNCHANGED vars
    PROVE  IInv'
<1>1. UNCHANGED <<cmd, holder>> /\ UNCHANGED job /\ UNCHANGED assets
  BY DEF vars
<1>2. \A q \in Procs : CmdFits(q)'
  BY <1>1, NoCommand DEF Verified, job, assets
<1>3. TypeOK' /\ MoreTypes'
  BY <1>1 DEF IInv, TypeOK, MoreTypes, CmdType, job, assets
<1>4. AckFits' /\ PruneFits' /\ IndexFits' /\ ReferredFits'
  BY <1>1 DEF IInv, AckFits, PruneFits, IndexFits, ReferredFits, Stopping, InState, Reachable,
              ByCaptures, ByOthers, Verified, job, assets
<1>. QED
  BY <1>2, <1>3, <1>4 DEF IInv

LEMMA Initially == Init => IInv
<1>. SUFFICES ASSUME Init PROVE IInv
  OBVIOUS
<1>1. Idle \in Command({Idle.head}) /\ Idle.pc = "idle" /\ Idle.out = {} /\ Idle.now = 0
  BY DEF Idle, Command, Places
<1>2. \A p \in Procs : cmd[p] = Idle
  BY DEF Init
<1>3. CmdType
  BY <1>1, <1>2 DEF Init, CmdType
<1>4. \A p \in Procs : CmdFits(p)
  BY <1>1, <1>2 DEF CmdFits, Reading, Outside, Recording, Dispatching, Settled
<1>5. InState("started") = {} /\ InState("captured") = {}
  BY DEF Init, InState
<1>6. 1 \in Items
  BY DEF Items
<1>7. (CHOOSE a \in Assets : TRUE) \in Assets
  BY <1>6
<1>8. other \in [pc : {"idle", "published", "verified", "refers"}, asset : Assets]
  BY <1>7 DEF Init
<1>9. TypeOK
  <2>1. items \in [Items -> [stage : Stages, attempt : 0..MaxAttempts]]
    BY DEF Init, Stages
  <2>2. control \in [action : {"none", "pause", "resume", "cancel"}, seq : 0..MaxControls,
                     acked : BOOLEAN]
    BY DEF Init
  <2>3. file \in [Assets -> {"none", "young", "old"}]
    BY DEF Init
  <2>. QED
    BY <2>1, <2>2, <2>3 DEF Init, TypeOK
<1>10. MoreTypes
  BY <1>3, <1>8 DEF Init, MoreTypes
<1>11. ByCaptures = {} /\ ByOthers = {}
  BY <1>5 DEF Init, ByCaptures, ByOthers
<1>12. AckFits /\ PruneFits /\ IndexFits /\ ReferredFits
  BY <1>5, <1>11 DEF Init, AckFits, PruneFits, IndexFits, ReferredFits
<1>. QED
  BY <1>4, <1>9, <1>10, <1>12 DEF IInv

LEMMA Inductive == IInv /\ [Next]_vars => IInv'
<1>. SUFFICES ASSUME IInv, [Next]_vars PROVE IInv'
  OBVIOUS
<1>1. CASE \E p \in Procs :
             \/ \E op \in {"run", "recover", "publish"} : Start(p, op)
             \/ Acquire(p) \/ Release(p) \/ Die(p)
  BY <1>1, LeaseSteps
<1>2. CASE \E p \in Procs : Read(p) \/ NextWave(p) \/ WaveOver(p) \/ Final(p) \/ Build(p)
  BY <1>2, SettledSteps
<1>3. CASE \E p \in Procs :
             DispatchBlocked(p) \/ Dispatched(p) \/ Poll(p) \/ Collect(p) \/ Verify(p)
  BY <1>3, FlightSteps
<1>4. CASE \E p \in Procs : Interrupt(p) \/ Dispatch(p) \/ Record(p)
  BY <1>4, Events
<1>5. CASE \E p \in Procs : PublishAsset(p)
  BY <1>5, PublishStep
<1>6. CASE \E p \in Procs : DieLinking(p)
  BY <1>6, DieLinkingStep
<1>7. CASE \E p \in Procs : Acknowledge(p) \/ Insert(p)
  BY <1>7, EndSteps
<1>8. CASE \/ \E action \in {"pause", "resume", "cancel"} : Request(action)
           \/ AcknowledgeIdle \/ JudgeDelete \/ Entomb
  BY <1>8, ControlSteps
<1>9. CASE \/ \E a \in Assets : OtherPublish(a)
           \/ OtherVerify \/ OtherRefer \/ OtherDies
  BY <1>9, OtherSteps
<1>10. CASE \E a \in Assets : Age(a)
  BY <1>10, AgeStep
<1>11. CASE PruneMove \/ PruneUndo \/ PruneDies \/ PruneCommit
  BY <1>11, PruneSteps
<1>12. CASE UNCHANGED vars
  BY <1>12, Stutters
<1>. QED
  BY <1>1, <1>2, <1>3, <1>4, <1>5, <1>6, <1>7, <1>8, <1>9, <1>10, <1>11, <1>12, Zenon DEF Next

\* In every reachable state, what every step relies on: who works holds the
\* lease, a run knows its reads, a prune has only what nothing refers to.
THEOREM Invariant == Spec => []IInv
BY Initially, Inductive, PTL DEF Spec

\* Items, the request, the plan, the lease and the store's assets stay what the
\* tables can hold; attempts stay within jobs.max_item_attempts.
THEOREM TypeCorrect == Spec => []TypeOK
<1>1. IInv => TypeOK
  BY DEF IInv
<1>. QED
  BY <1>1, Invariant, PTL

\* What a capture refers to is in the index and its file is there, and so it is
\* for another command's revision unless a prune died with the file in its
\* hands: the census under the lock sees every row, and a file is only moved
\* while no command holds the lease.
THEOREM EvidenceKept == Spec => []EvidenceIsThere
<1>1. IInv => EvidenceIsThere
  <2>. SUFFICES ASSUME IInv PROVE EvidenceIsThere
    OBVIOUS
  <2>1. ReferredFits /\ IndexFits /\ PruneFits
    BY DEF IInv
  <2>2. ByOthers \subseteq Reachable
    BY DEF Reachable
  <2>3. \A a \in ByOthers \ lost : Verified(a)
    BY <2>1, <2>2 DEF ReferredFits, IndexFits, PruneFits, Verified
  <2>. QED
    BY <2>1, <2>3 DEF ReferredFits, EvidenceIsThere
<1>. QED
  BY <1>1, Invariant, PTL

\* A read in flight is that of an item still started, by the process that holds
\* the lease of a job that is not deleted.
LEMMA ReadsFit == IInv => ReadsAreStarted
<1>. SUFFICES ASSUME IInv, NEW p \in Procs, Reading(p) # {}
              PROVE  holder = p /\ ~ deleted /\ Reading(p) \subseteq InState("started")
  BY DEF ReadsAreStarted
<1>1. CmdFits(p)
  BY DEF IInv
<1>2. cmd[p].pc \notin Outside \cup {"read"} /\ cmd[p].op = "run"
  BY <1>1 DEF CmdFits, Reading, Recording, Dispatching, Outside
<1>. QED
  BY <1>1, <1>2 DEF CmdFits

\* Nobody recovers, reads again or deletes a note while it is being read, and no
\* late answer becomes the capture of another attempt: one lease, and events that
\* only its holder appends.
THEOREM ReadsStarted == Spec => []ReadsAreStarted
BY ReadsFit, Invariant, PTL

\* A pause or cancel that is confirmed has stopped: no item is started and no
\* read is in flight, whichever process confirmed it.
THEOREM StopIsReal == Spec => []ConfirmedIsStopped
<1>1. IInv => ConfirmedIsStopped
  <2>. SUFFICES ASSUME IInv, control.acked PROVE ConfirmedIsStopped
    BY DEF ConfirmedIsStopped
  <2>1. InState("started") = {}
    BY DEF IInv, AckFits
  <2>2. \A p \in Procs : Reading(p) = {}
    BY <2>1, ReadsFit DEF ReadsAreStarted
  <2>. QED
    BY <2>1, <2>2 DEF ConfirmedIsStopped
<1>. QED
  BY <1>1, Invariant, PTL

=============================================================================
