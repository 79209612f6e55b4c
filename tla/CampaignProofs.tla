--------------------------- MODULE CampaignProofs ---------------------------
(***************************************************************************)
(* Proofs about module Campaign, for any workers, any number of batches,   *)
(* any limits and any commands.                                            *)
(***************************************************************************)
EXTENDS Campaign, FiniteSetTheorems, WellFoundedInduction, TLAPS

-----------------------------------------------------------------------------
(* The parts of the inductive invariant                                    *)

Places == {"out", "top", "scan", "pause", "moved", "pilot", "nothing"} \cup Working

LaneStates ==
    [pc : Places, todo : SUBSET Batches, hold : BOOLEAN, batch : 0..MaxBatches,
     start : BOOLEAN, stale : BOOLEAN, undecided : BOOLEAN, edited : BOOLEAN]

\* The batches are numbered without gaps.
Numbered ==
    \A b, c \in Batches : c < b /\ batches[b].phase # "absent" => batches[c].phase # "absent"

\* A job that exists was announced before, by an intent that is still there
\* until the batch has left its approval behind.
JobFits(b) ==
    batches[b].created =>
        /\ batches[b].phase \in WritePhases \cup {"done"}
        /\ batches[b].phase = "approved" => batches[b].intent

\* The phases a lane took the row of its batch in.
TakenIn(l) ==
    IF l = Writer THEN WritePhases
    ELSE IF lanes[l].start THEN {"selected"} ELSE PrepPhases

LaneFits(l) ==
    /\ stop = "off" => lanes[l].pc = "out"
    /\ lanes[l].todo \subseteq Existing
    /\ lanes[l].pc = "scan" => ~ lanes[l].start
    /\ lanes[l].pc \in Working => lanes[l].batch \in Existing
    /\ lanes[l].pc \in AtWork /\ ~ lanes[l].stale =>
           batches[lanes[l].batch].phase \in TakenIn(l)

\* Two workers never claim one batch.
ClaimsApart ==
    \A v, w \in Workers :
        v # w /\ lanes[v].pc \in Working /\ lanes[w].pc \in Working =>
            lanes[v].batch # lanes[w].batch

IInv ==
    /\ TypeOK
    /\ lanes \in [Lanes -> LaneStates]
    /\ Numbered
    /\ \A b \in Batches : JobFits(b)
    /\ \A l \in Lanes : LaneFits(l)
    /\ ClaimsApart

USE CampaignAssumption

-----------------------------------------------------------------------------
(* Rows and lanes                                                          *)

Rows ==
    [phase : Phases, notes : 0..2, pilot : {"no", "pilot", "reviewed"},
     failures : 0..MaxStepFailures, open : BOOLEAN,
     checked : {"none", "current", "older"}, needs : {"none", "issues", "other"},
     deferred : BOOLEAN, facts : BOOLEAN, intent : BOOLEAN, job : BOOLEAN,
     created : BOOLEAN]

LEMMA NewBatchType ==
    ASSUME NEW notes \in 0..2, NEW pilot \in {"no", "pilot", "reviewed"}
    PROVE  /\ NewBatch(notes, pilot) \in Rows
           /\ NewBatch(notes, pilot).phase = "selected"
           /\ ~ NewBatch(notes, pilot).created
BY DEF NewBatch, Rows, Phases

LEMMA LaneType ==
    ASSUME NEW pc \in Places
    PROVE  /\ Lane(pc) \in LaneStates
           /\ Lane(pc).pc = pc /\ Lane(pc).todo = {} /\ ~ Lane(pc).start
BY DEF Lane, LaneStates

\* The least element of a set of batches is one of them.
LEMMA OldestIn ==
    ASSUME NEW S \in SUBSET Batches, S # {}
    PROVE  Oldest(S) \in S
<1>. DEFINE Less == {ss \in Nat \X Nat : ss[1] < ss[2]}
<1>1. PICK x \in S : \A y \in S : <<y, x>> \notin Less
  <2>1. Less = OpToRel(<, Nat)
    BY Zenon DEF OpToRel
  <2>2. IsWellFoundedOn(Less, Nat)
    BY <2>1, NatLessThanWellFounded
  <2>3. S \subseteq Nat
    BY DEF Batches
  <2>. HIDE DEF Less
  <2>. QED
    BY <2>2, <2>3, WFMin
<1>2. \A y \in S : x =< y
  <2>1. \A y \in S : y \in Nat /\ x \in Nat
    BY DEF Batches
  <2>2. \A y \in S : ~ y < x
    <3>1. \A y \in S : y < x => <<y, x>> \in Less
      BY <2>1
    <3>. HIDE DEF Less
    <3>. QED
      BY <1>1, <3>1
  <2>. QED
    BY <2>1, <2>2
<1>3. \E b \in S : \A c \in S : b =< c
  BY <1>2
<1>. QED
  BY <1>3, Zenon DEF Oldest

\* The number of a new batch follows those that exist.
LEMMA NextNumber ==
    ASSUME Numbered
    PROVE  /\ Cardinality(Existing) + 1 \in Nat \ {0}
           /\ Cardinality(Existing) + 1 \notin Existing
           /\ \A c \in Batches : c < Cardinality(Existing) + 1 => c \in Existing
<1>. DEFINE n == Cardinality(Existing) + 1
<1>1. IsFiniteSet(Batches) /\ Existing \subseteq Batches
  BY FS_Interval DEF Batches, Existing
<1>2. IsFiniteSet(Existing)
  BY <1>1, FS_Subset
<1>3. Cardinality(Existing) \in Nat
  BY <1>2, FS_CardinalityType
<1>4. ASSUME n \in Existing PROVE FALSE
  <2>1. \A c \in 1..n : c \in Existing
    BY <1>1, <1>3, <1>4 DEF Numbered, Existing, Batches
  <2>2. 1..n \in SUBSET Existing
    BY <2>1
  <2>3. Cardinality(1..n) =< Cardinality(Existing)
    BY <1>2, <2>2, FS_Subset
  <2>4. Cardinality(1..n) = n
    BY <1>3, FS_Interval
  <2>. QED
    BY <1>3, <2>3, <2>4
<1>5. ASSUME NEW c \in Batches, c < n, c \notin Existing PROVE FALSE
  <2>1. Existing \in SUBSET (1..(c-1))
    BY <1>1, <1>5 DEF Numbered, Existing, Batches
  <2>2. c \in Nat \ {0}
    BY DEF Batches
  <2>3. IsFiniteSet(1..(c-1)) /\ Cardinality(1..(c-1)) = c - 1
    BY <2>2, FS_Interval
  <2>4. Cardinality(Existing) =< Cardinality(1..(c-1))
    BY <2>1, <2>3, FS_Subset
  <2>. QED
    BY <1>3, <1>5, <2>2, <2>3, <2>4
<1>. QED
  BY <1>3, <1>4, <1>5

-----------------------------------------------------------------------------
(* What a step may do to the rows and to the other lanes                   *)

Exists(b) == batches[b].phase # "absent"

\* No batch gets under way that was not, or was not being started.
RowsKeep ==
    /\ batches' \in [Batches -> Rows]
    /\ Numbered'
    /\ \A b \in Batches :
         /\ JobFits(b)'
         /\ Exists(b) => Exists(b)'
         /\ batches'[b].phase \in AheadPhases => b \in Ahead
         /\ Exists(b) /\ batches'[b].phase = "selected" =>
                batches[b].phase = "selected" \/ b \in Ahead

\* The lane is where it was; its row is the current one only if nobody moved it.
Kept(m) ==
    /\ lanes'[m] \in LaneStates
    /\ lanes'[m].pc = lanes[m].pc /\ lanes'[m].todo = lanes[m].todo
    /\ lanes'[m].batch = lanes[m].batch /\ lanes'[m].start = lanes[m].start
    /\ lanes[m].stale => lanes'[m].stale
    /\ lanes[m].pc \in AtWork =>
         lanes'[m].stale \/ batches'[lanes[m].batch].phase = batches[lanes[m].batch].phase

\* A batch gets under way only where there is room.
Room == Ahead' \subseteq Ahead \/ Cardinality(Ahead') =< limit

LanesOK == (\A l \in Lanes : LaneFits(l)') /\ ClaimsApart'

LEMMA LaneKept ==
    ASSUME IInv, RowsKeep, NEW m \in Lanes, Kept(m), stop' = "off" => stop = "off"
    PROVE  LaneFits(m)'
<1>1. LaneFits(m) /\ lanes[m] \in LaneStates
  BY DEF IInv
<1>2. Existing \subseteq Existing' /\ Existing \subseteq Batches
  BY DEF RowsKeep, Existing, Exists
<1>3. TakenIn(m)' = TakenIn(m)
  BY DEF TakenIn, Kept
<1>4. stop' = "off" => lanes'[m].pc = "out"
  BY <1>1 DEF LaneFits, Kept
<1>5. lanes'[m].todo \subseteq Existing'
  BY <1>1, <1>2 DEF LaneFits, Kept
<1>6. lanes'[m].pc = "scan" => ~ lanes'[m].start
  BY <1>1 DEF LaneFits, Kept
<1>7. lanes'[m].pc \in Working => lanes'[m].batch \in Existing'
  BY <1>1, <1>2 DEF LaneFits, Kept
<1>8. lanes'[m].pc \in AtWork /\ ~ lanes'[m].stale =>
        batches'[lanes'[m].batch].phase \in TakenIn(m)'
  BY <1>1, <1>3 DEF LaneFits, Kept
<1>. QED
  BY <1>4, <1>5, <1>6, <1>7, <1>8 DEF LaneFits

\* A step of one lane, or of none.
LEMMA LanesStep ==
    ASSUME IInv, RowsKeep, stop' = "off" => stop = "off",
           NEW L \in SUBSET Lanes, \A l, m \in L : l = m,
           \A m \in Lanes \ L : Kept(m),
           \A l \in L : LaneFits(l)',
           \A l \in L \cap Workers : lanes'[l].pc \in Working =>
               \A w \in Workers \ {l} :
                   lanes[w].pc \in Working => lanes[w].batch # lanes'[l].batch
    PROVE  LanesOK
<1>1. \A l \in Lanes : LaneFits(l)'
  BY LaneKept
<1>2. Workers \subseteq Lanes
  BY DEF Lanes
<1>3. ASSUME NEW v \in Workers, NEW w \in Workers, v # w,
             lanes'[v].pc \in Working, lanes'[w].pc \in Working
      PROVE  lanes'[v].batch # lanes'[w].batch
  <2>1. CASE v \notin L /\ w \notin L
    BY <1>2, <1>3, <2>1 DEF Kept, IInv, ClaimsApart
  <2>2. CASE v \in L /\ w \notin L
    BY <1>2, <1>3, <2>2 DEF Kept
  <2>3. CASE v \notin L /\ w \in L
    BY <1>2, <1>3, <2>3 DEF Kept
  <2>. QED
    BY <1>3, <2>1, <2>2, <2>3
<1>. QED
  BY <1>1, <1>3 DEF LanesOK, ClaimsApart

LEMMA AheadIsFinite == IsFiniteSet(Batches) /\ IsFiniteSet(Ahead)
<1>1. IsFiniteSet(Batches)
  BY FS_Interval DEF Batches
<1>2. Ahead \subseteq Batches
  BY DEF Ahead, InPhase, Starting
<1>. QED
  BY <1>1, <1>2, FS_Subset

\* Nothing but a new claim takes room.
LEMMA AheadStep ==
    ASSUME IInv, RowsKeep,
           NEW L \in SUBSET Lanes,
           \A m \in Lanes \ L : Kept(m),
           \A l \in L \cap Workers :
               lanes'[l].pc \in Working /\ lanes'[l].start
                 /\ lanes'[l].batch \in InPhase({"selected"})' => lanes'[l].batch \in Ahead
    PROVE  Room
<1>1. ASSUME NEW b \in Starting' PROVE b \in Ahead
  <2>1. b \in InPhase({"selected"})' /\ b \in Batches /\ batches'[b].phase = "selected"
    BY <1>1 DEF Starting, InPhase
  <2>2. PICK w \in Workers : lanes'[w].pc \in Working /\ lanes'[w].start /\ lanes'[w].batch = b
    BY <1>1 DEF Starting
  <2>3. CASE w \in L
    BY <2>1, <2>2, <2>3
  <2>4. CASE w \notin L
    <3>1. w \in Lanes /\ lanes[w].pc \in Working /\ lanes[w].start /\ lanes[w].batch = b
      BY <2>2, <2>4 DEF Lanes, Kept
    <3>2. Exists(b)
      BY <3>1 DEF IInv, LaneFits, Existing, Exists
    <3>3. batches[b].phase = "selected" => b \in Starting
      BY <2>1, <3>1 DEF Starting, InPhase
    <3>. QED
      BY <2>1, <3>2, <3>3 DEF RowsKeep, Ahead
  <2>. QED
    BY <2>3, <2>4
<1>2. ASSUME NEW b \in InPhase(AheadPhases)' PROVE b \in Ahead
  BY <1>2 DEF InPhase, RowsKeep, AheadPhases
<1>3. Ahead' \subseteq Ahead
  BY <1>1, <1>2 DEF Ahead
<1>. QED
  BY <1>3 DEF Room

\* A row that is not touched, and one that is written over.
LEMMA RowsStay ==
    ASSUME IInv, UNCHANGED batches
    PROVE  RowsKeep
<1>1. \A b \in Batches : batches[b].phase \in AheadPhases => b \in Ahead
  BY DEF Ahead, InPhase
<1>2. batches \in [Batches -> Rows]
  BY DEF IInv, TypeOK, Rows
<1>. QED
  BY <1>1, <1>2 DEF RowsKeep, IInv, Numbered, JobFits, Exists

\* One row is replaced.
LEMMA RowMoves ==
    ASSUME IInv, NEW b \in Existing, NEW row \in Rows,
           batches' = [batches EXCEPT ![b] = row],
           row.phase # "absent",
           row.created =>
               /\ row.phase \in WritePhases \cup {"done"}
               /\ row.phase = "approved" => row.intent,
           row.phase \in AheadPhases => b \in Ahead,
           row.phase = "selected" => batches[b].phase = "selected" \/ b \in Ahead
    PROVE  RowsKeep
<1>1. batches \in [Batches -> Rows] /\ b \in Batches /\ batches[b].phase # "absent"
  BY DEF IInv, TypeOK, Rows, Existing
<1>2. /\ batches' \in [Batches -> Rows] /\ batches'[b] = row
      /\ \A c \in Batches : c # b => batches'[c] = batches[c]
  BY <1>1
<1>3. \A c \in Batches : batches[c].phase \in AheadPhases => c \in Ahead
  BY DEF Ahead, InPhase
<1>4. \A c \in Batches : Exists(c)' <=> Exists(c)
  BY <1>1, <1>2 DEF Exists
<1>5. Numbered'
  <2>1. Numbered
    BY DEF IInv
  <2>2. \A c \in Batches : batches'[c].phase # "absent" <=> batches[c].phase # "absent"
    BY <1>4 DEF Exists
  <2>. QED
    BY <2>1, <2>2 DEF Numbered
<1>6. \A c \in Batches : JobFits(c)'
  BY <1>2 DEF IInv, JobFits
<1>. QED
  BY <1>2, <1>3, <1>4, <1>5, <1>6 DEF RowsKeep

\* One row is replaced and a new batch follows the others.
LEMMA RowsGrow ==
    ASSUME IInv, NEW b \in Existing, NEW row \in Rows, NEW n, NEW new \in Rows,
           n = Cardinality(Existing) + 1, n =< MaxBatches,
           batches' = [batches EXCEPT ![b] = row, ![n] = new],
           new.phase = "selected", ~ new.created,
           row.phase # "absent",
           row.created =>
               /\ row.phase \in WritePhases \cup {"done"}
               /\ row.phase = "approved" => row.intent,
           row.phase \in AheadPhases => b \in Ahead,
           row.phase = "selected" => batches[b].phase = "selected" \/ b \in Ahead
    PROVE  RowsKeep /\ n \in Batches /\ n \notin Existing
<1>1. batches \in [Batches -> Rows] /\ b \in Batches /\ batches[b].phase # "absent"
  BY DEF IInv, TypeOK, Rows, Existing
<1>2. n \in Nat \ {0} /\ n \notin Existing /\ \A c \in Batches : c < n => c \in Existing
  BY NextNumber DEF IInv
<1>3. n \in Batches /\ n # b /\ ~ Exists(n)
  BY <1>2 DEF Batches, Existing, Exists
<1>4. /\ batches' \in [Batches -> Rows] /\ batches'[b] = row /\ batches'[n] = new
      /\ \A c \in Batches : c # b /\ c # n => batches'[c] = batches[c]
  BY <1>1, <1>3
<1>5. \A c \in Batches : batches[c].phase \in AheadPhases => c \in Ahead
  BY DEF Ahead, InPhase
<1>6. \A c \in Batches : batches'[c].phase # "absent" <=> batches[c].phase # "absent" \/ c = n
  BY <1>1, <1>3, <1>4
<1>7. Numbered'
  <2>1. Numbered
    BY DEF IInv
  <2>2. ASSUME NEW c \in Batches, NEW d \in Batches, d < c, batches'[c].phase # "absent"
        PROVE  batches'[d].phase # "absent"
    <3>1. CASE c = n
      BY <1>2, <1>6, <2>2, <3>1 DEF Existing
    <3>2. CASE c # n
      BY <1>6, <2>1, <2>2, <3>2 DEF Numbered
    <3>. QED
      BY <3>1, <3>2
  <2>. QED
    BY <2>2 DEF Numbered
<1>8. \A c \in Batches : JobFits(c)'
  BY <1>4 DEF IInv, JobFits
<1>9. \A c \in Batches : Exists(c) => Exists(c)'
  BY <1>6 DEF Exists
<1>10. \A c \in Batches : batches'[c].phase \in AheadPhases => c \in Ahead
  <2>1. new.phase \notin AheadPhases
    BY DEF AheadPhases, PrepPhases
  <2>. QED
    BY <1>4, <1>5, <2>1
<1>11. \A c \in Batches : Exists(c) /\ batches'[c].phase = "selected" =>
           batches[c].phase = "selected" \/ c \in Ahead
  BY <1>3, <1>4
<1>. QED
  BY <1>2, <1>3, <1>4, <1>7, <1>8, <1>9, <1>10, <1>11 DEF RowsKeep

\* The rows of the other batches are as before; the readers of the row of b, if
\* it changed, have an old one.
LEMMA OutdateKeeps ==
    ASSUME IInv, NEW b, NEW W, NEW m \in Lanes \ W,
           lanes'[m] = Outdate(b, W)[m],
           \A c \in Existing \ {b} : batches'[c].phase = batches[c].phase
    PROVE  Kept(m)
<1>1. lanes[m] \in LaneStates /\ LaneFits(m)
  BY DEF IInv
<1>2. lanes[m].pc \in AtWork => lanes[m].batch \in Existing
  BY <1>1 DEF LaneFits, AtWork, Working
<1>3. CASE lanes[m].batch = b /\ lanes[m].pc \in AtWork
  <2>1. lanes'[m] = [lanes[m] EXCEPT !.stale = TRUE]
    BY <1>3 DEF Outdate
  <2>. QED
    BY <1>1, <2>1 DEF Kept, LaneStates
<1>4. CASE ~ (lanes[m].batch = b /\ lanes[m].pc \in AtWork)
  <2>1. lanes'[m] = lanes[m]
    BY <1>4 DEF Outdate
  <2>. QED
    BY <1>1, <1>2, <1>4, <2>1 DEF Kept
<1>. QED
  BY <1>3, <1>4

\* A lane nobody touches, in a step that moves no batch.
LEMMA SamePhaseKeeps ==
    ASSUME IInv, NEW m \in Lanes, lanes'[m] = lanes[m],
           \A c \in Existing : batches'[c].phase = batches[c].phase
    PROVE  Kept(m)
<1>1. lanes[m] \in LaneStates /\ LaneFits(m)
  BY DEF IInv
<1>. QED
  BY <1>1 DEF Kept, LaneFits, AtWork, Working

\* A lane that does not take a new batch.
Continues(l) ==
    lanes'[l].pc \in Working =>
        /\ lanes[l].pc \in Working
        /\ lanes'[l].batch = lanes[l].batch /\ lanes'[l].start = lanes[l].start

LEMMA LaneStep ==
    ASSUME IInv, RowsKeep, stop' = "off" => stop = "off",
           NEW l \in Lanes, \A m \in Lanes \ {l} : Kept(m),
           LaneFits(l)', l \in Workers => Continues(l)
    PROVE  LanesOK /\ Room
<1>1. LanesOK
  <2>1. ASSUME l \in Workers, lanes'[l].pc \in Working,
               NEW w \in Workers \ {l}, lanes[w].pc \in Working
        PROVE  lanes[w].batch # lanes'[l].batch
    BY <2>1 DEF Continues, IInv, ClaimsApart
  <2>2. PICK L \in SUBSET Lanes : L = {l}
    OBVIOUS
  <2>3. /\ \A k, m \in L : k = m
        /\ \A m \in Lanes \ L : Kept(m)
        /\ \A k \in L : LaneFits(k)'
    BY <2>2
  <2>4. \A k \in L \cap Workers : lanes'[k].pc \in Working =>
          \A w \in Workers \ {k} : lanes[w].pc \in Working => lanes[w].batch # lanes'[k].batch
    BY <2>1, <2>2
  <2>. QED
    BY <2>3, <2>4, LanesStep
<1>2. Room
  <2>1. ASSUME l \in Workers, lanes'[l].pc \in Working, lanes'[l].start,
               lanes'[l].batch \in InPhase({"selected"})'
        PROVE  lanes'[l].batch \in Ahead
    <3>1. PICK b : b = lanes[l].batch
      OBVIOUS
    <3>2. /\ lanes[l].pc \in Working /\ lanes[l].start
          /\ lanes'[l].batch = b /\ lanes[l].batch = b
      BY <2>1, <3>1 DEF Continues
    <3>3. b \in Existing
      BY <3>2 DEF IInv, LaneFits
    <3>4. batches'[b].phase = "selected" /\ b \in Batches
      BY <2>1, <3>2, <3>3 DEF InPhase, Existing
    <3>5. batches[b].phase = "selected" \/ b \in Ahead
      BY <3>3, <3>4 DEF RowsKeep, Exists, Existing
    <3>6. batches[b].phase = "selected" => b \in Starting
      BY <2>1, <3>2, <3>4 DEF Starting, InPhase
    <3>. QED
      BY <3>2, <3>5, <3>6 DEF Ahead
  <2>2. PICK L \in SUBSET Lanes : L = {l}
    OBVIOUS
  <2>3. \A m \in Lanes \ L : Kept(m)
    BY <2>2
  <2>4. \A k \in L \cap Workers :
          lanes'[k].pc \in Working /\ lanes'[k].start
            /\ lanes'[k].batch \in InPhase({"selected"})' => lanes'[k].batch \in Ahead
    BY <2>1, <2>2
  <2>. QED
    BY <2>3, <2>4, AheadStep
<1>. QED
  BY <1>1, <1>2

\* A lane that works on no batch.
Rests(l) ==
    /\ lanes'[l].pc \notin Working /\ lanes'[l].todo \subseteq Existing
    /\ lanes'[l].pc = "scan" => ~ lanes'[l].start
    /\ stop' = "off" => lanes'[l].pc = "out"

LEMMA LaneRests ==
    ASSUME IInv, RowsKeep, stop' = "off" => stop = "off",
           NEW l \in Lanes, \A m \in Lanes \ {l} : Kept(m), Rests(l)
    PROVE  LanesOK /\ Room
<1>1. Existing \subseteq Existing'
  BY DEF RowsKeep, Existing, Exists
<1>2. LaneFits(l)'
  BY <1>1 DEF Rests, LaneFits, AtWork, Working
<1>3. Continues(l)
  BY DEF Rests, Continues
<1>. QED
  BY <1>2, <1>3, LaneStep

\* Nobody moves, or every lane is told of the row that was written.
LEMMA NoLaneMoves ==
    ASSUME IInv, RowsKeep, stop' = "off" => stop = "off", \A m \in Lanes : Kept(m)
    PROVE  LanesOK /\ Room
<1>1. PICK L \in SUBSET Lanes : L = {}
  OBVIOUS
<1>2. (\A m \in Lanes \ L : Kept(m)) /\ ~ \E l \in L : TRUE
  BY <1>1
<1>3. LanesOK
  BY <1>2, LanesStep
<1>4. Room
  BY <1>2, AheadStep
<1>. QED
  BY <1>3, <1>4

\* There is no tick.
LEMMA NobodyWorks ==
    ASSUME IInv, RowsKeep, \A m \in Lanes : lanes'[m].pc \in {"out", "top"},
           \A m \in Lanes : lanes'[m].todo \subseteq Existing,
           stop' = "off" => \A m \in Lanes : lanes'[m].pc = "out"
    PROVE  LanesOK /\ Room
<1>1. LanesOK
  <2>1. Existing \subseteq Existing'
    BY DEF RowsKeep, Existing, Exists
  <2>. QED
    BY <2>1 DEF LanesOK, LaneFits, ClaimsApart, Working, AtWork, Lanes
<1>2. PICK L \in SUBSET Lanes : L = Lanes
  OBVIOUS
<1>3. \A m \in Lanes \ L : Kept(m)
  BY <1>2
<1>4. \A l \in L \cap Workers : lanes'[l].pc \notin Working
  BY <1>2 DEF Working
<1>5. Room
  BY <1>3, <1>4, AheadStep
<1>. QED
  BY <1>1, <1>5

-----------------------------------------------------------------------------
(* The steps of a lane                                                     *)

Good == RowsKeep /\ lanes' \in [Lanes -> LaneStates] /\ LanesOK /\ Room

\* A lane has a place only during a tick.
LEMMA InTick ==
    ASSUME IInv, NEW l \in Lanes, lanes[l].pc # "out"
    PROVE  stop # "off" /\ GetOrInsert("stopped") # "off" /\ GetOrInsert("idle") # "off"
BY DEF IInv, LaneFits, GetOrInsert

\* A lane goes where it works on nothing, and no row is written.
LEMMA QuietRest ==
    ASSUME IInv, UNCHANGED batches, stop' # "off", NEW l \in Lanes, NEW st \in LaneStates,
           lanes' = [lanes EXCEPT ![l] = st],
           st.pc \notin Working, st.todo \subseteq Existing, st.pc = "scan" => ~ st.start
    PROVE  Good
<1>1. RowsKeep
  BY RowsStay
<1>2. lanes \in [Lanes -> LaneStates]
  BY DEF IInv
<1>3. /\ lanes' \in [Lanes -> LaneStates] /\ lanes'[l] = st
      /\ \A m \in Lanes \ {l} : lanes'[m] = lanes[m]
  BY <1>2
<1>4. \A m \in Lanes \ {l} : Kept(m)
  BY <1>3, SamePhaseKeeps
<1>5. Rests(l)
  BY <1>3 DEF Rests
<1>6. LanesOK /\ Room
  BY <1>1, <1>4, <1>5, LaneRests
<1>. QED
  BY <1>1, <1>3, <1>6 DEF Good

\* A lane has written its row, and goes where it works on nothing.
LEMMA WrittenRest ==
    ASSUME IInv, RowsKeep, UNCHANGED stop, stop # "off",
           NEW l \in Lanes, NEW b, NEW st \in LaneStates,
           lanes' = [Outdate(b, {l}) EXCEPT ![l] = st],
           \A c \in Existing \ {b} : batches'[c].phase = batches[c].phase,
           st.pc \notin Working, st.todo \subseteq Existing, st.pc = "scan" => ~ st.start
    PROVE  Good
<1>1. Outdate(b, {l}) = [m \in Lanes |-> Outdate(b, {l})[m]]
  BY DEF Outdate
<1>2. lanes'[l] = st /\ \A m \in Lanes \ {l} : lanes'[m] = Outdate(b, {l})[m]
  BY <1>1
<1>3. \A m \in Lanes \ {l} : Kept(m)
  BY <1>2, OutdateKeeps
<1>4. lanes' = [m \in Lanes |-> lanes'[m]]
  BY <1>1
<1>5. lanes' \in [Lanes -> LaneStates]
  <2>1. \A m \in Lanes : lanes'[m] \in LaneStates
    BY <1>2, <1>3 DEF Kept
  <2>. QED
    BY <1>4, <2>1
<1>6. Rests(l)
  BY <1>2 DEF Rests
<1>7. LanesOK /\ Room
  BY <1>3, <1>6, LaneRests
<1>. QED
  BY <1>5, <1>7 DEF Good

\* Where a lane goes when its batch has not moved.
LEMMA UnmovedType ==
    ASSUME IInv, NEW l \in Lanes
    PROVE  /\ Unmoved(l) \in LaneStates
           /\ Unmoved(l).pc \notin Working /\ Unmoved(l).todo \subseteq Existing
           /\ Unmoved(l).pc = "scan" => ~ Unmoved(l).start
<1>1. lanes[l] \in LaneStates /\ lanes[l].todo \subseteq Existing
  BY DEF IInv, LaneFits
<1>2. CASE lanes[l].start
  <2>1. Unmoved(l) = Lane("nothing")
    BY <1>2 DEF Unmoved
  <2>. QED
    BY <2>1, LaneType DEF Places, Working
<1>3. CASE ~ lanes[l].start
  <2>1. PICK s \in LaneStates : s = lanes[l]
    BY <1>1
  <2>2. Unmoved(l) = [s EXCEPT !.pc = "scan", !.batch = 0, !.stale = FALSE,
                               !.undecided = FALSE, !.edited = FALSE]
    BY <1>3, <2>1 DEF Unmoved
  <2>3. "scan" \in Places /\ "scan" \notin Working /\ 0 \in 0..MaxBatches
    BY DEF Places, Working
  <2>4. Unmoved(l) \in LaneStates
    BY <2>2, <2>3 DEF LaneStates
  <2>5. /\ Unmoved(l).pc = "scan" /\ Unmoved(l).todo = lanes[l].todo
        /\ Unmoved(l).start = lanes[l].start
    BY <2>1, <2>2 DEF LaneStates
  <2>. QED
    BY <1>1, <1>3, <2>3, <2>4, <2>5
<1>. QED
  BY <1>2, <1>3

\* A worker with a current row: its batch is under way or is being started, and
\* no job of it exists.
LEMMA WorkerRow ==
    ASSUME IInv, NEW w \in Workers, lanes[w].pc \in AtWork, ~ lanes[w].stale
    PROVE  /\ lanes[w].batch \in Existing /\ lanes[w].batch \in Ahead
           /\ ~ batches[lanes[w].batch].created
<1>. DEFINE b == lanes[w].batch
<1>1. w \in Lanes /\ w # Writer /\ lanes[w].pc \in Working
  BY DEF Lanes, AtWork, Working
<1>2. b \in Existing /\ batches[b].phase \in TakenIn(w) /\ b \in Batches
  BY <1>1 DEF IInv, LaneFits, Existing
<1>3. b \in Ahead
  <2>1. CASE lanes[w].start
    <3>1. b \in Starting
      BY <1>1, <1>2, <2>1 DEF Starting, InPhase, TakenIn
    <3>. QED
      BY <3>1 DEF Ahead
  <2>2. CASE ~ lanes[w].start
    BY <1>1, <1>2, <2>2 DEF Ahead, InPhase, AheadPhases, TakenIn
  <2>. QED
    BY <2>1, <2>2
<1>4. ~ batches[b].created
  BY <1>1, <1>2 DEF IInv, JobFits, TakenIn, PrepPhases, WritePhases
<1>. QED
  BY <1>2, <1>3, <1>4

\* save.
LEMMA SavesGood ==
    ASSUME IInv, NEW l \in Lanes, NEW row \in Rows, lanes[l].batch \in Existing,
           lanes[l].pc # "out", Saves(l, row),
           row.phase # "absent",
           row.created =>
               /\ row.phase \in WritePhases \cup {"done"}
               /\ row.phase = "approved" => row.intent,
           row.phase \in AheadPhases => lanes[l].batch \in Ahead,
           row.phase = "selected" => lanes[l].batch \in Ahead
    PROVE  Good
<1>1. PICK b \in Existing : b = lanes[l].batch
  OBVIOUS
<1>2. /\ batches' = [batches EXCEPT ![b] = row]
      /\ lanes' = [Outdate(b, {l}) EXCEPT ![l] = Lane("moved")]
      /\ UNCHANGED stop
  BY <1>1, Zenon DEF Saves, shared
<1>3. RowsKeep
  BY <1>1, <1>2, RowMoves
<1>4. \A c \in Existing \ {b} : batches'[c].phase = batches[c].phase
  BY <1>2 DEF IInv, TypeOK, Existing
<1>5. /\ Lane("moved") \in LaneStates /\ Lane("moved").pc \notin Working
      /\ Lane("moved").todo \subseteq Existing /\ ~ Lane("moved").start
  BY LaneType DEF Places, Working
<1>6. stop # "off"
  BY InTick
<1>. QED
  BY <1>2, <1>3, <1>4, <1>5, <1>6, WrittenRest

\* moved.
LEMMA MovesGood ==
    ASSUME IInv, NEW l \in Lanes, NEW row \in Rows, lanes[l].batch \in Existing,
           lanes[l].pc # "out", MovesTo(l, row),
           row.phase # "absent",
           row.created =>
               /\ row.phase \in WritePhases \cup {"done"}
               /\ row.phase = "approved" => row.intent,
           row.phase \in AheadPhases => lanes[l].batch \in Ahead,
           row.phase = "selected" => lanes[l].batch \in Ahead
    PROVE  Good
<1>1. PICK r : r = [row EXCEPT !.failures = 0]
  OBVIOUS
<1>2. r \in Rows /\ r.phase = row.phase /\ r.created = row.created /\ r.intent = row.intent
  BY <1>1 DEF Rows
<1>3. Saves(l, r)
  BY <1>1, Zenon DEF MovesTo
<1>. QED
  BY <1>2, <1>3, SavesGood

LEMMA SplitGood ==
    ASSUME IInv, NEW w \in Workers, lanes[w].pc \in AtWork, SplitMoves(w)
    PROVE  Good
<1>1. w \in Lanes /\ lanes[w].pc # "out"
  BY DEF Lanes, AtWork
<1>2. PICK b : b = lanes[w].batch
  OBVIOUS
<1>3. b \in Existing /\ b \in Ahead /\ b \in Batches /\ batches[b] \in Rows
  BY <1>2, WorkerRow DEF SplitMoves, Existing, IInv, TypeOK, Rows
<1>4. PICK n : n = Cardinality(Existing) + 1
  OBVIOUS
<1>5. PICK row \in Rows : row = NewBatch(1, batches[b].pilot) /\ row.phase = "selected" /\ ~ row.created
  BY <1>3, NewBatchType DEF Rows
<1>6. PICK new \in Rows : new = NewBatch(1, "no") /\ new.phase = "selected" /\ ~ new.created
  BY NewBatchType
<1>7. /\ n =< MaxBatches
      /\ batches' = [batches EXCEPT ![b] = row, ![n] = new]
      /\ lanes' = [Outdate(b, {w}) EXCEPT ![w] = Lane("moved")]
      /\ UNCHANGED stop
  BY <1>2, <1>4, <1>5, <1>6, Zenon DEF SplitMoves, shared
<1>8. row.phase # "absent" /\ row.phase \notin AheadPhases
  BY <1>5 DEF AheadPhases, PrepPhases
<1>9. RowsKeep /\ n \in Batches /\ n \notin Existing
  BY <1>3, <1>4, <1>5, <1>6, <1>7, <1>8, RowsGrow
<1>10. \A c \in Existing \ {b} : batches'[c].phase = batches[c].phase
  BY <1>7, <1>9 DEF IInv, TypeOK, Existing
<1>11. /\ Lane("moved") \in LaneStates /\ Lane("moved").pc \notin Working
       /\ Lane("moved").todo \subseteq Existing /\ ~ Lane("moved").start
  BY LaneType DEF Places, Working
<1>12. stop # "off"
  BY <1>1, InTick
<1>. QED
  BY <1>1, <1>7, <1>9, <1>10, <1>11, <1>12, WrittenRest

\* The steps in which a lane leaves its batch alone.
LEMMA QuietSteps ==
    ASSUME IInv, NEW l \in Lanes,
           \/ Leave(l) \/ Look(l) \/ Waits(l) \/ Pauses(l)
           \/ PauseCampaign(l) \/ Moved(l) \/ Nothing(l)
    PROVE  Good
<1>1. lanes[l].pc # "out" /\ UNCHANGED batches
  BY DEF Leave, Look, MayStep, Waits, Pauses, PauseCampaign, Moved, Nothing
<1>2. stop' # "off"
  BY <1>1, InTick DEF Leave, Look, Waits, Pauses, PauseCampaign, Moved, Nothing, shared
<1>3. \A pc \in {"out", "top", "pilot", "pause", "nothing"} :
        /\ Lane(pc) \in LaneStates /\ Lane(pc).pc \notin Working
        /\ Lane(pc).todo \subseteq Existing /\ Lane(pc).pc # "scan"
  BY LaneType DEF Places, Working
<1>4. \A pc \in {"out", "top", "pilot", "pause", "nothing"} :
        lanes' = [lanes EXCEPT ![l] = Lane(pc)] => Good
  BY <1>1, <1>2, <1>3, QuietRest
<1>5. CASE Leave(l) \/ Pauses(l) \/ PauseCampaign(l)
  BY <1>4, <1>5 DEF Leave, Pauses, PauseCampaign
<1>6. CASE Look(l)
  <2>1. PICK todo \in SUBSET Existing :
          todo = InPhase(IF agent THEN PrepPhases \ {"needs_agent"} ELSE PrepPhases)
    BY DEF InPhase, Existing, PrepPhases
  <2>2. PICK st : st = [Lane("scan") EXCEPT !.hold = agent, !.todo = todo]
    OBVIOUS
  <2>3. PICK s \in LaneStates : s = Lane("scan") /\ s.pc = "scan" /\ ~ s.start
    BY LaneType DEF Places
  <2>4. st = [s EXCEPT !.hold = agent, !.todo = todo]
    BY <2>2, <2>3
  <2>5. agent \in BOOLEAN /\ todo \in SUBSET Batches
    BY DEF IInv, TypeOK, Existing
  <2>6. st \in LaneStates
    BY <2>4, <2>5 DEF LaneStates
  <2>7. st.pc = "scan" /\ ~ st.start /\ st.todo = todo
    BY <2>3, <2>4 DEF LaneStates
  <2>8. lanes' = [lanes EXCEPT ![l] = st]
    BY <1>6, <2>1, <2>2, Zenon DEF Look
  <2>9. st.pc \notin Working
    BY <2>7 DEF Working
  <2>. QED
    BY <1>1, <1>2, <2>6, <2>7, <2>8, <2>9, QuietRest
<1>7. CASE Waits(l)
  BY <1>1, <1>2, <1>7, UnmovedType, QuietRest DEF Waits
<1>8. CASE Moved(l)
  BY <1>4, <1>8 DEF Moved
<1>9. CASE Nothing(l)
  BY <1>4, <1>9 DEF Nothing
<1>. QED
  BY <1>5, <1>6, <1>7, <1>8, <1>9

\* A lane that goes on with the batch it has, in a step that moves no batch.
LEMMA GoesOn ==
    ASSUME IInv, RowsKeep, stop' # "off", NEW l \in Lanes, NEW st \in LaneStates,
           lanes' = [lanes EXCEPT ![l] = st],
           \A c \in Existing : batches'[c].phase = batches[c].phase,
           st.todo \subseteq Existing, st.pc \in Working,
           lanes[l].pc \in Working, st.batch = lanes[l].batch, st.start = lanes[l].start,
           st.pc \in AtWork /\ ~ st.stale => batches[st.batch].phase \in TakenIn(l)
    PROVE  Good
<1>1. lanes \in [Lanes -> LaneStates]
  BY DEF IInv
<1>2. /\ lanes' \in [Lanes -> LaneStates] /\ lanes'[l] = st
      /\ \A m \in Lanes \ {l} : lanes'[m] = lanes[m]
  BY <1>1
<1>3. \A m \in Lanes \ {l} : Kept(m)
  BY <1>2, SamePhaseKeeps
<1>4. Existing \subseteq Existing' /\ st.batch \in Existing
  BY DEF RowsKeep, Existing, Exists, IInv, LaneFits
<1>5. TakenIn(l)' = TakenIn(l)
  BY <1>2 DEF TakenIn
<1>6. LaneFits(l)'
  <2>1. st.pc # "scan"
    BY DEF Working
  <2>2. st.pc \in AtWork /\ ~ st.stale => batches'[st.batch].phase \in TakenIn(l)'
    BY <1>4, <1>5
  <2>. QED
    BY <1>2, <1>4, <2>1, <2>2 DEF LaneFits
<1>7. Continues(l)
  BY <1>2 DEF Continues
<1>8. LanesOK /\ Room
  BY <1>3, <1>6, <1>7, LaneStep
<1>. QED
  BY <1>2, <1>8 DEF Good

LEMMA ReadFreshGood ==
    ASSUME IInv, NEW l \in Lanes, ReadFresh(l)
    PROVE  Good
<1>1. lanes[l].pc = "claimed" /\ UNCHANGED batches /\ UNCHANGED stop
  BY DEF ReadFresh, shared
<1>2. lanes[l] \in LaneStates /\ LaneFits(l) /\ stop' # "off"
  BY <1>1, InTick DEF IInv
<1>3. CASE lanes' = [lanes EXCEPT ![l] = Unmoved(l)]
  BY <1>1, <1>2, <1>3, UnmovedType, QuietRest
<1>4. CASE /\ lanes' = [lanes EXCEPT ![l] = [lanes[l] EXCEPT !.pc = "step", !.stale = FALSE]]
           /\ batches[lanes[l].batch].phase \in Wanted(l)
  <2>1. PICK s \in LaneStates : s = lanes[l]
    BY <1>2
  <2>2. PICK st : st = [s EXCEPT !.pc = "step", !.stale = FALSE]
    OBVIOUS
  <2>3. "step" \in Places /\ "step" \in Working /\ "claimed" \in Working
    BY DEF Places, Working
  <2>4. st \in LaneStates
    BY <2>2, <2>3 DEF LaneStates
  <2>5. st.pc = "step" /\ st.todo = s.todo /\ st.batch = s.batch /\ st.start = s.start
    BY <2>2 DEF LaneStates
  <2>6. lanes' = [lanes EXCEPT ![l] = st]
    BY <1>4, <2>1, <2>2
  <2>7. batches[st.batch].phase \in TakenIn(l)
    BY <1>4, <2>1, <2>5 DEF Wanted, TakenIn
  <2>8. st.todo \subseteq Existing
    BY <1>2, <2>1, <2>5 DEF LaneFits
  <2>. QED
    BY <1>1, <1>2, <2>1, <2>3, <2>4, <2>5, <2>6, <2>7, <2>8, RowsStay, GoesOn
<1>. QED
  BY <1>3, <1>4, Zenon DEF ReadFresh

LEMMA EvaluateGood ==
    ASSUME IInv, NEW w \in Workers, Evaluate(w)
    PROVE  Good
<1>1. /\ lanes[w].pc = "step" /\ UNCHANGED batches /\ UNCHANGED stop /\ w \in Lanes
      /\ batches[lanes[w].batch].phase \in {"reviewing", "needs_agent"}
  BY DEF Evaluate, shared, Lanes
<1>2. lanes[w] \in LaneStates /\ LaneFits(w) /\ stop' # "off" /\ lanes \in [Lanes -> LaneStates]
  BY <1>1, InTick DEF IInv
<1>3. PICK s \in LaneStates : s = lanes[w]
  BY <1>2
<1>4. PICK open \in BOOLEAN : open = batches[s.batch].open
  <2>1. s.batch \in Batches
    BY <1>1, <1>2, <1>3 DEF LaneFits, Existing, Working
  <2>. QED
    BY <2>1 DEF IInv, TypeOK
<1>5. PICK st : st = [s EXCEPT !.pc = "evaluated", !.undecided = open, !.edited = FALSE]
  OBVIOUS
<1>6. "evaluated" \in Places /\ "evaluated" \in Working /\ "step" \in Working /\ "step" \in AtWork
  BY DEF Places, Working, AtWork
<1>7. st \in LaneStates
  BY <1>5, <1>6 DEF LaneStates
<1>8. /\ st.pc = "evaluated" /\ st.todo = s.todo /\ st.batch = s.batch
      /\ st.start = s.start /\ st.stale = s.stale
  BY <1>5 DEF LaneStates
<1>9. lanes' = [lanes EXCEPT ![w] = st]
  BY <1>1, <1>2, <1>3, <1>4, <1>5 DEF Evaluate
<1>10. ~ st.stale => batches[st.batch].phase \in TakenIn(w)
  BY <1>1, <1>2, <1>3, <1>6, <1>8 DEF LaneFits
<1>11. st.todo \subseteq Existing
  BY <1>2, <1>3, <1>8 DEF LaneFits
<1>. QED
  BY <1>1, <1>2, <1>3, <1>6, <1>7, <1>8, <1>9, <1>10, <1>11, RowsStay, GoesOn

\* A worker that claims: nobody else holds the batch, and the room is counted.
LEMMA ClaimGood ==
    ASSUME IInv, UNCHANGED batches, UNCHANGED stop, NEW w \in Workers, NEW st \in LaneStates,
           lanes[w].pc # "out", lanes' = [lanes EXCEPT ![w] = st],
           st.pc = "claimed", st.todo \subseteq Existing,
           st.batch \in Existing \ Claims,
           ~ st.start \/ Cardinality(InFlight) < limit
    PROVE  Good
<1>1. w \in Lanes /\ stop' # "off" /\ lanes \in [Lanes -> LaneStates]
  BY InTick DEF Lanes, IInv
<1>2. /\ lanes' \in [Lanes -> LaneStates] /\ lanes'[w] = st
      /\ \A m \in Lanes \ {w} : lanes'[m] = lanes[m]
  BY <1>1
<1>3. \A m \in Lanes \ {w} : Kept(m)
  BY <1>2, SamePhaseKeeps
<1>4. RowsKeep /\ Existing' = Existing
  BY RowsStay DEF Existing
<1>5. LaneFits(w)'
  BY <1>1, <1>2, <1>4 DEF LaneFits, AtWork
<1>6. PICK L \in SUBSET Lanes : L = {w}
  BY <1>1
<1>7. LanesOK
  <2>1. ASSUME NEW v \in Workers \ {w}, lanes[v].pc \in Working
        PROVE  lanes[v].batch # st.batch
    BY <2>1 DEF Claims
  <2>2. /\ \A k, m \in L : k = m
        /\ \A m \in Lanes \ L : Kept(m)
        /\ \A k \in L : LaneFits(k)'
    BY <1>3, <1>5, <1>6
  <2>3. \A k \in L \cap Workers : lanes'[k].pc \in Working =>
          \A v \in Workers \ {k} : lanes[v].pc \in Working => lanes[v].batch # lanes'[k].batch
    BY <1>2, <1>6, <2>1
  <2>. QED
    BY <1>4, <2>2, <2>3, LanesStep
<1>8. CASE ~ st.start
  <2>1. \A m \in Lanes \ L : Kept(m)
    BY <1>3, <1>6
  <2>2. \A k \in L \cap Workers : ~ lanes'[k].start
    BY <1>2, <1>6, <1>8
  <2>. QED
    BY <1>2, <1>4, <1>7, <2>1, <2>2, AheadStep DEF Good
<1>9. CASE Cardinality(InFlight) < limit
  <2>1. Ahead \subseteq InFlight
    BY DEF Ahead, Starting, InFlight, Claims, InPhase, AheadPhases, PrepPhases
  <2>2. Ahead' \subseteq Ahead \cup {st.batch}
    <3>1. InPhase(AheadPhases)' = InPhase(AheadPhases)
      BY DEF InPhase, AheadPhases
    <3>2. ASSUME NEW b \in Starting', b # st.batch PROVE b \in Starting
      <4>1. PICK v \in Workers : lanes'[v].pc \in Working /\ lanes'[v].start /\ lanes'[v].batch = b
        BY <3>2 DEF Starting
      <4>2. v # w /\ v \in Lanes /\ lanes'[v] = lanes[v]
        BY <1>2, <3>2, <4>1 DEF Lanes
      <4>. QED
        BY <3>2, <4>1, <4>2 DEF Starting, InPhase
    <3>. QED
      BY <3>1, <3>2 DEF Ahead
  <2>3. IsFiniteSet(InFlight)
    <3>1. InFlight \subseteq Batches
      BY DEF InFlight, InPhase
    <3>. QED
      BY <3>1, AheadIsFinite, FS_Subset
  <2>4. /\ IsFiniteSet(InFlight \cup {st.batch}) /\ Cardinality(InFlight) \in Nat
        /\ Cardinality(InFlight \cup {st.batch}) =< Cardinality(InFlight) + 1
    <3>1. Cardinality(InFlight) \in Nat
      BY <2>3, FS_CardinalityType
    <3>2. /\ IsFiniteSet(InFlight \cup {st.batch})
          /\ \/ Cardinality(InFlight \cup {st.batch}) = Cardinality(InFlight)
             \/ Cardinality(InFlight \cup {st.batch}) = Cardinality(InFlight) + 1
      BY <2>3, FS_AddElement, Zenon
    <3>. QED
      BY <3>1, <3>2
  <2>5. Ahead' \in SUBSET (InFlight \cup {st.batch})
    BY <2>1, <2>2
  <2>6. IsFiniteSet(Ahead') /\ Cardinality(Ahead') =< Cardinality(InFlight \cup {st.batch})
    BY <2>4, <2>5, FS_Subset
  <2>7. Cardinality(Ahead') \in Nat /\ Cardinality(InFlight \cup {st.batch}) \in Nat
    BY <2>4, <2>6, FS_CardinalityType
  <2>8. limit \in Nat
    BY DEF IInv, TypeOK
  <2>9. Room
    BY <1>9, <2>4, <2>6, <2>7, <2>8 DEF Room
  <2>. QED
    BY <1>2, <1>4, <1>7, <2>9 DEF Good
<1>. QED
  BY <1>8, <1>9

LEMMA ClaimStep ==
    ASSUME IInv, NEW w \in Workers, Claim(w)
    PROVE  Good
<1>1. /\ lanes[w].pc = "scan" /\ UNCHANGED batches /\ UNCHANGED stop /\ w \in Lanes
      /\ lanes[w].todo # {}
  BY DEF Claim, shared, Lanes
<1>2. /\ lanes[w] \in LaneStates /\ LaneFits(w) /\ stop' # "off"
      /\ lanes \in [Lanes -> LaneStates]
  BY <1>1, InTick DEF IInv
<1>3. PICK s \in LaneStates : s = lanes[w]
  BY <1>2
<1>4. s.todo \subseteq Existing /\ s.todo \in SUBSET Batches /\ ~ s.start /\ s.todo # {}
  BY <1>1, <1>2, <1>3 DEF LaneFits, LaneStates
<1>5. PICK b \in s.todo : b = Oldest(s.todo)
  BY <1>4, OldestIn
<1>6. PICK st : st = [s EXCEPT !.todo = s.todo \ {b},
                               !.batch = IF Claimable(b) THEN b ELSE 0,
                               !.pc = IF Claimable(b) THEN "claimed" ELSE "scan"]
  OBVIOUS
<1>7. /\ "claimed" \in Places /\ "scan" \in Places /\ "scan" \notin Working
      /\ b \in 0..MaxBatches /\ 0 \in 0..MaxBatches /\ s.todo \ {b} \in SUBSET Batches
  BY <1>4, <1>5 DEF Places, Working, Batches
<1>8. st \in LaneStates
  BY <1>6, <1>7 DEF LaneStates
<1>9. /\ st.todo = s.todo \ {b} /\ st.start = s.start
      /\ st.batch = IF Claimable(b) THEN b ELSE 0
      /\ st.pc = IF Claimable(b) THEN "claimed" ELSE "scan"
  BY <1>6 DEF LaneStates
<1>10. lanes' = [lanes EXCEPT ![w] = st]
  BY <1>1, <1>2, <1>3, <1>5, <1>6 DEF Claim
<1>11. st.todo \subseteq Existing
  BY <1>4, <1>9
<1>12. CASE Claimable(b)
  <2>1. st.batch \in Existing \ Claims /\ st.pc = "claimed" /\ lanes[w].pc # "out"
    BY <1>1, <1>4, <1>5, <1>9, <1>12 DEF Claimable
  <2>. QED
    BY <1>1, <1>4, <1>8, <1>9, <1>10, <1>11, <2>1, ClaimGood
<1>13. CASE ~ Claimable(b)
  <2>1. st.pc = "scan" /\ ~ st.start
    BY <1>4, <1>9, <1>13
  <2>. QED
    BY <1>1, <1>2, <1>7, <1>8, <1>10, <1>11, <2>1, QuietRest
<1>. QED
  BY <1>12, <1>13

LEMMA ClaimNewStep ==
    ASSUME IInv, NEW w \in Workers, ClaimNew(w)
    PROVE  Good
<1>1. lanes[w].pc = "scan" /\ UNCHANGED batches /\ UNCHANGED stop /\ w \in Lanes
  BY DEF ClaimNew, shared, Lanes
<1>2. stop' # "off"
  BY <1>1, InTick
<1>3. PICK new \in SUBSET Batches : new = InPhase({"selected"}) \ Claims
  BY DEF InPhase
<1>4. CASE lanes' = [lanes EXCEPT ![w] = Lane("nothing")]
  <2>1. /\ Lane("nothing") \in LaneStates /\ Lane("nothing").pc \notin Working
        /\ Lane("nothing").todo \subseteq Existing /\ Lane("nothing").pc # "scan"
    BY LaneType DEF Places, Working
  <2>. QED
    BY <1>1, <1>2, <1>4, <2>1, QuietRest
<1>5. CASE /\ ~ (Cardinality(InFlight) >= limit \/ new = {})
           /\ lanes' = [lanes EXCEPT ![w] = [Lane("claimed") EXCEPT !.batch = Oldest(new),
                                                                    !.start = TRUE]]
  <2>1. PICK b \in new : b = Oldest(new)
    BY <1>5, OldestIn
  <2>2. b \in Existing \ Claims /\ b \in 0..MaxBatches
    BY <1>3, <2>1 DEF InPhase, Existing, Batches
  <2>3. PICK s \in LaneStates : s = Lane("claimed") /\ s.pc = "claimed" /\ s.todo = {}
    BY LaneType DEF Places, Working
  <2>4. PICK st : st = [s EXCEPT !.batch = b, !.start = TRUE]
    OBVIOUS
  <2>5. st \in LaneStates /\ st.pc = "claimed" /\ st.todo = {} /\ st.batch = b
    BY <2>2, <2>3, <2>4 DEF LaneStates
  <2>6. lanes' = [lanes EXCEPT ![w] = st]
    BY <1>5, <2>1, <2>3, <2>4
  <2>7. Cardinality(InFlight) < limit
    <3>1. InFlight \in SUBSET Batches
      BY DEF InFlight, InPhase
    <3>2. Cardinality(InFlight) \in Nat
      BY <3>1, AheadIsFinite, FS_Subset, FS_CardinalityType
    <3>3. limit \in Nat
      BY DEF IInv, TypeOK
    <3>. QED
      BY <1>5, <3>2, <3>3
  <2>8. st.batch \in Existing \ Claims /\ st.todo \subseteq Existing /\ lanes[w].pc # "out"
    BY <1>1, <2>2, <2>5
  <2>. QED
    BY <1>1, <2>5, <2>6, <2>7, <2>8, ClaimGood
<1>. QED
  BY <1>3, <1>4, <1>5, Zenon DEF ClaimNew

\* The writer claims nothing of the workers'.
LEMMA LookToWriteStep ==
    ASSUME IInv, LookToWrite
    PROVE  Good
<1>1. /\ lanes[Writer].pc = "top" /\ UNCHANGED batches /\ UNCHANGED stop
      /\ Writer \in Lanes /\ Writer \notin Workers
  BY DEF LookToWrite, MayStep, shared, Lanes
<1>2. stop' # "off"
  BY <1>1, InTick
<1>3. PICK todo \in SUBSET Batches : todo = InPhase(WritePhases)
  BY DEF InPhase
<1>4. CASE lanes' = [lanes EXCEPT ![Writer] = Lane("nothing")]
  <2>1. /\ Lane("nothing") \in LaneStates /\ Lane("nothing").pc \notin Working
        /\ Lane("nothing").todo \subseteq Existing /\ Lane("nothing").pc # "scan"
    BY LaneType DEF Places, Working
  <2>. QED
    BY <1>1, <1>2, <1>4, <2>1, QuietRest
<1>5. CASE /\ todo # {}
           /\ lanes' = [lanes EXCEPT ![Writer] = [Lane("claimed") EXCEPT !.batch = Oldest(todo),
                                                                         !.start = TRUE]]
  <2>1. PICK b \in todo : b = Oldest(todo)
    BY <1>5, OldestIn
  <2>2. b \in Existing /\ b \in 0..MaxBatches
    BY <1>3, <2>1 DEF InPhase, Existing, Batches, WritePhases
  <2>3. PICK s \in LaneStates : s = Lane("claimed") /\ s.pc = "claimed" /\ s.todo = {}
    BY LaneType DEF Places, Working
  <2>4. PICK st : st = [s EXCEPT !.batch = b, !.start = TRUE]
    OBVIOUS
  <2>5. st \in LaneStates /\ st.pc = "claimed" /\ st.todo = {} /\ st.batch = b
    BY <2>2, <2>3, <2>4 DEF LaneStates
  <2>6. lanes' = [lanes EXCEPT ![Writer] = st]
    BY <1>5, <2>1, <2>3, <2>4
  <2>7. lanes \in [Lanes -> LaneStates] /\ RowsKeep
    BY <1>1, RowsStay DEF IInv
  <2>8. /\ lanes' \in [Lanes -> LaneStates] /\ lanes'[Writer] = st
        /\ \A m \in Lanes \ {Writer} : lanes'[m] = lanes[m]
    BY <1>1, <2>5, <2>6, <2>7
  <2>9. \A m \in Lanes \ {Writer} : Kept(m)
    BY <1>1, <2>8, SamePhaseKeeps
  <2>10. Existing \subseteq Existing'
    BY <1>1 DEF Existing
  <2>11. LaneFits(Writer)'
    BY <1>2, <2>2, <2>5, <2>8, <2>10 DEF LaneFits, AtWork
  <2>12. LanesOK /\ Room
    BY <1>1, <1>2, <2>7, <2>9, <2>11, LaneStep
  <2>. QED
    BY <2>7, <2>8, <2>12 DEF Good
<1>. QED
  BY <1>3, <1>4, <1>5, Zenon DEF LookToWrite

\* The steps of a worker that save its row.
LEMMA WorkerMoves ==
    ASSUME IInv, NEW w \in Workers, NEW row \in Rows, lanes[w].pc \in AtWork,
           MovesTo(w, row) \/ Saves(w, row),
           ~ batches[lanes[w].batch].created => ~ row.created,
           row.phase # "absent"
    PROVE  Good
<1>1. /\ lanes[w].batch \in Existing /\ lanes[w].batch \in Ahead
      /\ ~ batches[lanes[w].batch].created
  BY WorkerRow DEF MovesTo, Saves
<1>2. w \in Lanes /\ lanes[w].pc # "out"
  BY DEF Lanes, AtWork
<1>. QED
  BY <1>1, <1>2, MovesGood, SavesGood

LEMMA RevisedType ==
    ASSUME NEW r \in Rows, NEW open \in BOOLEAN
    PROVE  /\ Revised(r, open) \in Rows
           /\ Revised(r, open).phase = r.phase
           /\ Revised(r, open).created = r.created /\ Revised(r, open).intent = r.intent
BY DEF Revised, Rows

LEMMA PreparationSteps ==
    ASSUME IInv, NEW w \in Workers,
           Start(w) \/ Prepare(w) \/ ReviewAgain(w) \/ Judge(w)
    PROVE  Good
<1>1. lanes[w].pc \in AtWork /\ w \in Lanes
  BY DEF Start, Prepare, ReviewAgain, Judge, AtWork, Lanes
<1>2. PICK b \in Existing : b = lanes[w].batch
  BY <1>1 DEF IInv, LaneFits, AtWork, Working
<1>3. PICK r \in Rows : r = batches[b]
  BY <1>2 DEF IInv, TypeOK, Rows, Existing
<1>4. \A row \in Rows :
        /\ MovesTo(w, row) \/ Saves(w, row)
        /\ row.created = r.created /\ row.phase # "absent"
        => Good
  BY <1>1, <1>2, <1>3, WorkerMoves
<1>5. SplitMoves(w) => Good
  BY <1>1, SplitGood
<1>6. r.phase # "absent"
  BY <1>2, <1>3 DEF Existing
<1>7. CASE Start(w)
  <2>1. PICK row : row = [r EXCEPT !.phase = "preparing"]
    OBVIOUS
  <2>2. "preparing" \in Phases
    BY DEF Phases, PrepPhases
  <2>3. row \in Rows /\ row.created = r.created /\ row.phase # "absent"
    BY <2>1, <2>2 DEF Rows
  <2>. QED
    BY <1>2, <1>3, <1>4, <1>5, <1>7, <2>1, <2>3, Zenon DEF Start
<1>8. CASE Prepare(w)
  <2>1. CASE \E open \in BOOLEAN :
               MovesTo(w, [r EXCEPT !.phase = "reviewing", !.open = open,
                                    !.checked = "none", !.needs = "none"])
    <3>1. PICK open \in BOOLEAN :
            MovesTo(w, [r EXCEPT !.phase = "reviewing", !.open = open,
                                 !.checked = "none", !.needs = "none"])
      BY <2>1, Zenon
    <3>2. PICK row :
            /\ MovesTo(w, row)
            /\ row = [r EXCEPT !.phase = "reviewing", !.open = open,
                               !.checked = "none", !.needs = "none"]
      BY <3>1, Zenon
    <3>3. "reviewing" \in Phases
      BY DEF Phases, PrepPhases
    <3>4. row \in Rows /\ row.created = r.created /\ row.phase # "absent"
      BY <3>2, <3>3 DEF Rows
    <3>. QED
      BY <1>4, <3>2, <3>4
  <2>2. CASE MovesTo(w, r)
    BY <1>4, <1>6, <2>2
  <2>3. CASE MovesTo(w, [r EXCEPT !.phase = "skipped", !.deferred = TRUE])
    <3>1. PICK row : row = [r EXCEPT !.phase = "skipped", !.deferred = TRUE]
      OBVIOUS
    <3>2. "skipped" \in Phases
      BY DEF Phases
    <3>3. row \in Rows /\ row.created = r.created /\ row.phase # "absent"
      BY <3>1, <3>2 DEF Rows
    <3>. QED
      BY <1>4, <2>3, <3>1, <3>3, Zenon
  <2>. QED
    BY <1>2, <1>3, <1>5, <1>8, <2>1, <2>2, <2>3, Zenon DEF Prepare
<1>9. CASE ReviewAgain(w)
  <2>1. PICK open \in BOOLEAN : MovesTo(w, Revised(r, open)) \/ Saves(w, Revised(r, open))
    BY <1>2, <1>3, <1>9, Zenon DEF ReviewAgain
  <2>. QED
    BY <1>4, <1>6, <2>1, RevisedType
<1>10. CASE Judge(w)
  <2>1. PICK phase \in {"ready", "needs_agent"}, needs \in {"none", "issues", "other"},
              checked \in {"older", "current"} :
          MovesTo(w, [r EXCEPT !.phase = phase, !.needs = needs, !.checked = checked])
    <3>1. PICK checked \in {"older", "current"} :
            checked = IF lanes[w].edited THEN "older" ELSE "current"
      OBVIOUS
    <3>2. PICK more \in BOOLEAN :
            LET needs == IF more THEN "other"
                         ELSE IF lanes[w].undecided THEN "issues"
                         ELSE IF r.open THEN "other" ELSE "none"
            IN MovesTo(w, [r EXCEPT !.phase = IF needs = "none" THEN "ready" ELSE "needs_agent",
                                    !.needs = needs, !.checked = checked])
      BY <1>2, <1>3, <1>10, <3>1, Zenon DEF Judge
    <3>3. PICK needs \in {"none", "issues", "other"} :
            needs = IF more THEN "other"
                    ELSE IF lanes[w].undecided THEN "issues"
                    ELSE IF r.open THEN "other" ELSE "none"
      OBVIOUS
    <3>4. PICK phase \in {"ready", "needs_agent"} :
            phase = IF needs = "none" THEN "ready" ELSE "needs_agent"
      OBVIOUS
    <3>5. MovesTo(w, [r EXCEPT !.phase = phase, !.needs = needs, !.checked = checked])
      BY <3>2, <3>3, <3>4, Zenon
    <3>. QED
      BY <3>5
  <2>2. PICK row : row = [r EXCEPT !.phase = phase, !.needs = needs, !.checked = checked]
    OBVIOUS
  <2>3. phase \in Phases /\ phase # "absent"
    BY DEF Phases, PrepPhases
  <2>4. row \in Rows /\ row.created = r.created /\ row.phase # "absent"
    BY <2>2, <2>3 DEF Rows
  <2>. QED
    BY <1>4, <2>1, <2>2, <2>4, Zenon
<1>. QED
  BY <1>7, <1>8, <1>9, <1>10

\* guarded: the failures of a row are counted.
LEMMA FailsGood ==
    ASSUME IInv, NEW l \in Lanes, Fails(l)
    PROVE  Good
<1>1. lanes[l].pc \in AtWork /\ lanes[l].pc # "out" /\ UNCHANGED stop
  BY DEF Fails, AtWork, shared
<1>2. PICK b \in Existing : b = lanes[l].batch
  BY <1>1 DEF IInv, LaneFits, AtWork, Working
<1>3. PICK r \in Rows : r = batches[b]
  BY <1>2 DEF IInv, TypeOK, Rows, Existing
<1>4. PICK n \in 0..MaxStepFailures : n = Min({r.failures + 1, MaxStepFailures})
  <2>1. r.failures \in 0..MaxStepFailures
    BY DEF Rows
  <2>2. PICK k \in Nat : k = r.failures + 1
    BY <2>1
  <2>3. \E x \in {k, MaxStepFailures} : \A y \in {k, MaxStepFailures} : x <= y
    BY <2>2
  <2>4. PICK n : n = Min({k, MaxStepFailures})
    OBVIOUS
  <2>5. n \in {k, MaxStepFailures} /\ n <= MaxStepFailures
    BY <2>3, <2>4, Zenon DEF Min
  <2>. QED
    BY <2>2, <2>4, <2>5
<1>5. PICK row : row = [r EXCEPT !.failures = n]
  OBVIOUS
<1>6. /\ row \in Rows /\ row.phase = r.phase /\ row.created = r.created
      /\ row.intent = r.intent
  BY <1>5 DEF Rows
<1>7. batches \in [Batches -> Rows] /\ b \in Batches /\ r.phase # "absent"
  BY <1>2, <1>3 DEF IInv, TypeOK, Rows, Existing
<1>8. batches' = [batches EXCEPT ![b] = row]
  BY <1>2, <1>3, <1>4, <1>5, <1>7 DEF Fails
<1>9. PICK st \in LaneStates :
        /\ lanes' = [Outdate(b, {l}) EXCEPT ![l] = st]
        /\ st.pc \notin Working /\ st.todo \subseteq Existing
        /\ st.pc = "scan" => ~ st.start
  <2>1. \A st \in {Unmoved(l), Lane("pause")} :
          /\ st \in LaneStates
          /\ st.pc \notin Working /\ st.todo \subseteq Existing
          /\ st.pc = "scan" => ~ st.start
    BY UnmovedType, LaneType DEF Places, Working
  <2>2. PICK st \in {Unmoved(l), Lane("pause")} : lanes' = [Outdate(b, {l}) EXCEPT ![l] = st]
    BY <1>2, Zenon DEF Fails
  <2>. QED
    BY <2>1, <2>2
<1>10. RowsKeep
  <2>1. row.phase \in AheadPhases => b \in Ahead
    BY <1>3, <1>6, <1>7 DEF Ahead, InPhase
  <2>2. row.created => /\ row.phase \in WritePhases \cup {"done"}
                       /\ row.phase = "approved" => row.intent
    BY <1>3, <1>6, <1>7 DEF IInv, JobFits
  <2>. QED
    BY <1>3, <1>6, <1>7, <1>8, <2>1, <2>2, RowMoves
<1>11. \A c \in Existing \ {b} : batches'[c].phase = batches[c].phase
  BY <1>7, <1>8 DEF Existing
<1>12. stop # "off"
  BY <1>1, InTick
<1>. QED
  BY <1>1, <1>9, <1>10, <1>11, <1>12, WrittenRest

LEMMA WritingSteps ==
    ASSUME IInv, ApprovedStep \/ RecordJob \/ ApplyingStep \/ VerifyingStep
    PROVE  Good
<1>1. /\ Writer \in Lanes /\ lanes[Writer].pc \in AtWork /\ lanes[Writer].pc \in Working
      /\ lanes[Writer].pc # "out"
  BY DEF ApprovedStep, RecordJob, ApplyingStep, VerifyingStep, AtWork, Working, Lanes
<1>2. PICK b \in Existing : b = lanes[Writer].batch
  BY <1>1 DEF IInv, LaneFits
<1>3. PICK r \in Rows : r = batches[b]
  BY <1>2 DEF IInv, TypeOK, Rows, Existing
<1>4. /\ batches \in [Batches -> Rows] /\ b \in Batches /\ r.phase # "absent"
      /\ r.phase \in AheadPhases => b \in Ahead
      /\ r.created => /\ r.phase \in WritePhases \cup {"done"}
                      /\ r.phase = "approved" => r.intent
  BY <1>2, <1>3 DEF IInv, TypeOK, Rows, Existing, JobFits, Ahead, InPhase
<1>5. \A row \in Rows :
        /\ MovesTo(Writer, row)
        /\ row.phase = r.phase \/ row.phase \in {"applying", "verifying", "done"}
        /\ r.phase # "selected"
        /\ row.created /\ row.phase = "approved" => row.intent
        /\ row.created => row.phase \in WritePhases \cup {"done"}
        => Good
  BY <1>1, <1>2, <1>4, MovesGood DEF AheadPhases, PrepPhases
<1>6. ASSUME r.phase = "approved",
             \E read \in BOOLEAN : MovesTo(Writer, [r EXCEPT !.facts = read])
      PROVE  Good
  <2>1. PICK read \in BOOLEAN : MovesTo(Writer, [r EXCEPT !.facts = read])
    BY <1>6, Zenon
  <2>2. PICK row : MovesTo(Writer, row) /\ row = [r EXCEPT !.facts = read]
    BY <2>1, Zenon
  <2>3. /\ row \in Rows /\ row.phase = r.phase /\ row.created = r.created
        /\ row.intent = r.intent
    BY <2>2 DEF Rows
  <2>. QED
    BY <1>4, <1>5, <1>6, <2>2, <2>3
<1>7. ASSUME r.phase = "approved", MovesTo(Writer, [r EXCEPT !.intent = TRUE])
      PROVE  Good
  <2>1. PICK row : row = [r EXCEPT !.intent = TRUE]
    OBVIOUS
  <2>2. row \in Rows /\ row.phase = r.phase /\ row.created = r.created /\ row.intent
    BY <2>1 DEF Rows
  <2>3. MovesTo(Writer, row)
    BY <1>7, <2>1, Zenon
  <2>. QED
    BY <1>4, <1>5, <1>7, <2>2, <2>3
<1>8. ASSUME r.phase = "approved", r.intent, lanes[Writer].pc = "step",
             batches' = [batches EXCEPT ![b].created = TRUE],
             lanes' = [lanes EXCEPT ![Writer].pc = "created"],
             UNCHANGED stop
      PROVE  Good
  <2>1. PICK row : row = [r EXCEPT !.created = TRUE]
    OBVIOUS
  <2>2. row \in Rows /\ row.phase = r.phase /\ row.intent = r.intent
    BY <2>1 DEF Rows
  <2>3. batches' = [batches EXCEPT ![b] = row]
    BY <1>3, <1>8, <2>1
  <2>4. "approved" \in WritePhases
    BY DEF WritePhases
  <2>5. RowsKeep
    <3>1. row.phase = "approved" /\ row.intent /\ row.phase # "absent" /\ row.phase # "selected"
      BY <1>8, <2>2
    <3>2. row.phase \in AheadPhases => b \in Ahead
      BY <1>4, <2>2
    <3>. QED
      BY <2>2, <2>3, <2>4, <3>1, <3>2, RowMoves
  <2>6. \A c \in Existing : batches'[c].phase = batches[c].phase
    BY <1>3, <1>4, <2>2, <2>3 DEF Existing
  <2>7. lanes \in [Lanes -> LaneStates] /\ LaneFits(Writer)
    BY <1>1 DEF IInv
  <2>8. PICK s \in LaneStates : s = lanes[Writer]
    BY <1>1, <2>7
  <2>9. PICK st : st = [s EXCEPT !.pc = "created"]
    OBVIOUS
  <2>10. "created" \in Places /\ "created" \in Working /\ "step" \in Working /\ "step" \in AtWork
    BY DEF Places, Working, AtWork
  <2>11. /\ st \in LaneStates /\ st.pc = "created" /\ st.todo = s.todo
         /\ st.batch = s.batch /\ st.start = s.start /\ st.stale = s.stale
    BY <2>9, <2>10 DEF LaneStates
  <2>12. lanes' = [lanes EXCEPT ![Writer] = st]
    BY <1>8, <2>8, <2>9
  <2>13. ~ st.stale => batches[st.batch].phase \in TakenIn(Writer)
    BY <1>8, <2>7, <2>8, <2>10, <2>11 DEF LaneFits
  <2>14. st.todo \subseteq Existing /\ stop' # "off"
    BY <1>1, <1>8, <2>7, <2>8, <2>11, InTick DEF LaneFits
  <2>. QED
    BY <1>1, <1>8, <2>5, <2>6, <2>8, <2>10, <2>11, <2>12, <2>13, <2>14, GoesOn, ZenonT(60)
<1>9. CASE ApprovedStep
  BY <1>2, <1>3, <1>6, <1>7, <1>8, <1>9, Zenon DEF ApprovedStep, shared
<1>10. ASSUME NEW phase \in {"applying", "verifying", "done"}, NEW row, r.phase # "selected",
              row = [r EXCEPT !.phase = phase], MovesTo(Writer, row)
       PROVE  Good
  <2>1. phase \in Phases /\ phase # "approved" /\ phase \in WritePhases \cup {"done"}
    BY DEF Phases, WritePhases
  <2>2. row \in Rows /\ row.phase = phase
    BY <1>10, <2>1 DEF Rows
  <2>. QED
    BY <1>5, <1>10, <2>1, <2>2
<1>11. CASE RecordJob
  <2>1. PICK row : row = [r EXCEPT !.phase = "applying", !.intent = FALSE, !.job = TRUE]
    OBVIOUS
  <2>2. "applying" \in Phases /\ "applying" # "approved" /\ "applying" \in WritePhases
    BY DEF Phases, WritePhases
  <2>3. row \in Rows /\ row.phase = "applying"
    BY <2>1, <2>2 DEF Rows
  <2>4. MovesTo(Writer, row)
    BY <1>2, <1>3, <1>11, <2>1, Zenon DEF RecordJob
  <2>5. row.phase \notin AheadPhases
    BY <2>3 DEF AheadPhases, PrepPhases
  <2>. QED
    BY <1>1, <1>2, <2>2, <2>3, <2>4, <2>5, MovesGood
<1>12. CASE ApplyingStep
  <2>1. r.phase # "selected" /\ MovesTo(Writer, [r EXCEPT !.phase = "verifying"])
    BY <1>2, <1>3, <1>12 DEF ApplyingStep
  <2>. QED
    BY <1>10, <2>1
<1>13. CASE VerifyingStep
  <2>1. r.phase # "selected" /\ MovesTo(Writer, [r EXCEPT !.phase = "done"])
    BY <1>2, <1>3, <1>13 DEF VerifyingStep
  <2>. QED
    BY <1>10, <2>1
<1>. QED
  BY <1>9, <1>11, <1>12, <1>13

LEMMA PilotStep ==
    ASSUME IInv, PilotReview
    PROVE  Good
<1>1. Writer \in Lanes /\ lanes[Writer].pc # "out" /\ UNCHANGED stop
  BY DEF PilotReview, Lanes, shared
<1>2. stop # "off" /\ stop' # "off"
  BY <1>1, InTick
<1>3. \A pc \in {"top", "pause"} :
        /\ Lane(pc) \in LaneStates /\ Lane(pc).pc \notin Working
        /\ Lane(pc).todo \subseteq Existing /\ Lane(pc).pc # "scan" /\ Lane(pc).pc # "out"
  BY LaneType DEF Places, Working
<1>4. PICK pilot \in SUBSET Batches :
        pilot = {b \in InPhase({"done"}) : batches[b].pilot = "pilot"}
  BY DEF InPhase
<1>5. CASE lanes' = [lanes EXCEPT ![Writer] = Lane("top")] /\ UNCHANGED batches
  BY <1>1, <1>2, <1>3, <1>5, QuietRest
<1>6. CASE /\ pilot # {}
           /\ batches' = [batches EXCEPT ![Oldest(pilot)].pilot = "reviewed"]
           /\ lanes' = [lanes EXCEPT ![Writer] = Lane("pause")]
  <2>1. PICK b \in pilot : b = Oldest(pilot)
    BY <1>6, OldestIn
  <2>2. b \in Existing /\ b \in Batches /\ batches[b].phase = "done"
    BY <1>4, <2>1 DEF InPhase, Existing
  <2>3. PICK r \in Rows : r = batches[b]
    BY <2>2 DEF IInv, TypeOK, Rows
  <2>4. PICK row : row = [r EXCEPT !.pilot = "reviewed"]
    OBVIOUS
  <2>5. row \in Rows /\ row.phase = "done"
    BY <2>2, <2>3, <2>4 DEF Rows
  <2>6. batches' = [batches EXCEPT ![b] = row]
    BY <1>6, <2>1, <2>3, <2>4
  <2>7. "done" \notin AheadPhases
    BY DEF AheadPhases, PrepPhases
  <2>8. RowsKeep
    BY <2>2, <2>5, <2>6, <2>7, RowMoves
  <2>9. \A c \in Existing : batches'[c].phase = batches[c].phase
    BY <2>2, <2>5, <2>6 DEF IInv, TypeOK, Existing
  <2>10. lanes \in [Lanes -> LaneStates]
    BY DEF IInv
  <2>11. /\ lanes' \in [Lanes -> LaneStates] /\ lanes'[Writer] = Lane("pause")
         /\ \A m \in Lanes \ {Writer} : lanes'[m] = lanes[m]
    BY <1>1, <1>3, <1>6, <2>10
  <2>12. \A m \in Lanes \ {Writer} : Kept(m)
    BY <2>9, <2>11, SamePhaseKeeps
  <2>13. Rests(Writer)
    BY <1>2, <1>3, <2>11 DEF Rests
  <2>14. LanesOK /\ Room
    BY <1>1, <1>2, <2>8, <2>12, <2>13, LaneRests
  <2>. QED
    BY <2>8, <2>11, <2>14 DEF Good
<1>. QED
  BY <1>4, <1>5, <1>6, Zenon DEF PilotReview

-----------------------------------------------------------------------------
(* The commands, and the start and the end of a tick                       *)

LEMMA ReplacesGood ==
    ASSUME IInv, NEW b \in Existing, NEW row \in Rows, Replaces(b, row),
           row.phase # "absent",
           row.created =>
               /\ row.phase \in WritePhases \cup {"done"}
               /\ row.phase = "approved" => row.intent,
           row.phase \in AheadPhases \cup {"selected"} =>
               batches[b].phase \in AheadPhases
    PROVE  Good
<1>1. /\ batches' = [batches EXCEPT ![b] = row] /\ lanes' = Outdate(b, {})
      /\ UNCHANGED stop
  BY DEF Replaces, shared
<1>2. b \in Batches /\ batches[b].phase \in AheadPhases => b \in Ahead
  BY DEF Ahead, InPhase
<1>3. RowsKeep
  <2>1. b \in Batches
    BY DEF Existing
  <2>. QED
    BY <1>1, <1>2, <2>1, RowMoves
<1>4. \A c \in Existing \ {b} : batches'[c].phase = batches[c].phase
  BY <1>1 DEF IInv, TypeOK, Existing
<1>5. lanes' = [m \in Lanes |-> lanes'[m]]
  BY <1>1 DEF Outdate
<1>6. \A m \in Lanes : Kept(m)
  BY <1>1, <1>4, OutdateKeeps
<1>7. lanes' \in [Lanes -> LaneStates]
  <2>1. \A m \in Lanes : lanes'[m] \in LaneStates
    BY <1>6 DEF Kept
  <2>. QED
    BY <1>5, <2>1
<1>8. LanesOK /\ Room
  BY <1>1, <1>3, <1>6, NoLaneMoves
<1>. QED
  BY <1>3, <1>7, <1>8 DEF Good

LEMMA DecidedType ==
    ASSUME NEW r \in Rows, NEW phase \in Phases
    PROVE  /\ Decided(r, phase) \in Rows
           /\ Decided(r, phase).phase = phase /\ Decided(r, phase).created = r.created
<1>1. /\ FALSE \in BOOLEAN /\ "none" \in {"none", "current", "older"}
      /\ "none" \in {"none", "issues", "other"} /\ 0 \in 0..MaxStepFailures
  OBVIOUS
<1>2. PICK d : d = [r EXCEPT !.phase = phase, !.open = FALSE, !.checked = "none",
                             !.needs = "none", !.failures = 0]
  OBVIOUS
<1>3. d \in Rows /\ d.phase = phase /\ d.created = r.created
  BY <1>1, <1>2 DEF Rows
<1>. QED
  BY <1>2, <1>3, Zenon DEF Decided

LEMMA CommandSteps ==
    ASSUME IInv, NEW b \in Batches,
           Approve(b) \/ Item(b) \/ Reopen(b) \/ ReopenFresh(b) \/ Skip(b)
    PROVE  Good
<1>1. batches[b].phase \in {"selected", "ready", "approved"} \cup PrepPhases
  BY DEF Approve, Item, Reopen, ReopenFresh, Skip, PrepPhases
<1>2. b \in Existing
  BY <1>1 DEF Existing, PrepPhases
<1>3. PICK r \in Rows : r = batches[b]
  BY DEF IInv, TypeOK, Rows
<1>4. ASSUME r.phase # "approved" \/ ~ r.intent PROVE ~ r.created
  BY <1>1, <1>3, <1>4 DEF IInv, JobFits, PrepPhases, WritePhases
<1>5. \A row \in Rows :
        /\ Replaces(b, row)
        /\ r.phase # "approved" \/ ~ r.intent
        /\ row.created => r.created
        /\ row.phase # "absent"
        /\ row.phase \in AheadPhases \cup {"selected"} => r.phase \in AheadPhases
        => Good
  BY <1>2, <1>3, <1>4, ReplacesGood
<1>6. /\ "ready" \in AheadPhases /\ "approved" \in AheadPhases /\ "needs_agent" \in AheadPhases
      /\ "reviewing" \in AheadPhases /\ "deferred" \notin AheadPhases /\ "done" \notin AheadPhases
  BY DEF AheadPhases, PrepPhases
<1>7. {"approved", "done", "deferred", "needs_agent", "reviewing", "selected"} \subseteq Phases
  BY DEF Phases, PrepPhases, WritePhases
<1>8. CASE Approve(b)
  <2>1. r.phase = "ready"
    BY <1>3, <1>8 DEF Approve
  <2>2. CASE Replaces(b, Decided(r, "approved"))
    <3>1. PICK row \in Rows :
            /\ row = Decided(r, "approved")
            /\ row.phase = "approved" /\ row.created = r.created
      BY <1>7, DecidedType
    <3>2. Replaces(b, row)
      BY <2>2, <3>1
    <3>. QED
      BY <1>5, <1>6, <2>1, <3>1, <3>2
  <2>3. CASE Replaces(b, [Decided(r, "done") EXCEPT !.deferred = TRUE])
    <3>1. PICK d \in Rows :
            /\ d = Decided(r, "done")
            /\ d.phase = "done" /\ d.created = r.created
      BY <1>7, DecidedType
    <3>2. PICK row : row = [d EXCEPT !.deferred = TRUE]
      OBVIOUS
    <3>3. row \in Rows /\ row.phase = "done" /\ row.created = r.created
      BY <3>1, <3>2 DEF Rows
    <3>4. Replaces(b, row)
      BY <2>3, <3>1, <3>2
    <3>. QED
      BY <1>5, <1>6, <2>1, <3>3, <3>4
  <2>. QED
    BY <1>3, <1>8, <2>2, <2>3, Zenon DEF Approve
<1>9. CASE Item(b)
  <2>1. PICK needs \in {"none", r.needs} :
          Replaces(b, [r EXCEPT !.phase = "needs_agent", !.checked = "none", !.needs = needs])
    BY <1>3, <1>9, Zenon DEF Item
  <2>2. PICK row :
          /\ Replaces(b, row)
          /\ row = [r EXCEPT !.phase = "needs_agent", !.checked = "none", !.needs = needs]
    BY <2>1, Zenon
  <2>3. r.phase \in {"reviewing", "needs_agent", "ready"}
    BY <1>3, <1>9 DEF Item
  <2>4. row \in Rows /\ row.phase = "needs_agent" /\ row.created = r.created
    BY <1>7, <2>2 DEF Rows
  <2>. QED
    BY <1>5, <1>6, <2>2, <2>3, <2>4
<1>10. CASE Reopen(b)
  <2>1. PICK open \in BOOLEAN :
          Replaces(b, [r EXCEPT !.phase = "reviewing", !.facts = FALSE,
                                !.checked = "none", !.open = open])
    BY <1>3, <1>10, Zenon DEF Reopen
  <2>2. PICK row :
          /\ Replaces(b, row)
          /\ row = [r EXCEPT !.phase = "reviewing", !.facts = FALSE,
                             !.checked = "none", !.open = open]
    BY <2>1, Zenon
  <2>3. r.phase = "approved" /\ ~ r.intent
    BY <1>3, <1>10 DEF Reopen, Unwritten
  <2>4. row \in Rows /\ row.phase = "reviewing" /\ row.created = r.created
    BY <1>7, <2>2 DEF Rows
  <2>. QED
    BY <1>5, <1>6, <2>2, <2>3, <2>4
<1>11. CASE ReopenFresh(b)
  <2>1. PICK new \in Rows : new = NewBatch(r.notes, r.pilot) /\ new.phase = "selected"
    BY NewBatchType DEF Rows
  <2>2. PICK row : row = [new EXCEPT !.created = r.created]
    OBVIOUS
  <2>3. row \in Rows /\ row.phase = "selected" /\ row.created = r.created
    BY <2>1, <2>2 DEF Rows
  <2>4. r.phase \in {"ready", "needs_agent", "approved"} /\ ~ r.intent
    BY <1>3, <1>11 DEF ReopenFresh, Unwritten
  <2>5. Replaces(b, row)
    BY <1>3, <1>11, <2>1, <2>2, Zenon DEF ReopenFresh
  <2>. QED
    BY <1>5, <1>6, <2>3, <2>4, <2>5
<1>12. CASE Skip(b)
  <2>1. PICK row \in Rows :
          /\ row = Decided(r, "deferred")
          /\ row.phase = "deferred" /\ row.created = r.created
    BY <1>7, DecidedType
  <2>2. Replaces(b, row) /\ r.phase # "approved"
    BY <1>3, <1>12, <2>1 DEF Skip, PrepPhases
  <2>. QED
    BY <1>5, <1>6, <2>1, <2>2
<1>. QED
  BY <1>8, <1>9, <1>10, <1>11, <1>12

LEMMA RequeueGood ==
    ASSUME IInv, NEW b \in Batches, Requeue(b)
    PROVE  Good
<1>1. stop = "off" /\ UNCHANGED <<stop, lanes>> /\ batches[b].phase \in {"done", "skipped"}
  BY DEF Requeue, shared
<1>2. b \in Existing
  BY <1>1 DEF Existing
<1>3. PICK r \in Rows : r = batches[b]
  BY DEF IInv, TypeOK, Rows
<1>4. PICK row : row = [r EXCEPT !.phase = "done", !.deferred = FALSE]
  OBVIOUS
<1>5. "done" \in Phases /\ "done" \notin AheadPhases
  BY DEF Phases, AheadPhases, PrepPhases
<1>6. row \in Rows /\ row.phase = "done"
  BY <1>4, <1>5 DEF Rows
<1>7. PICK new \in Rows : new = NewBatch(1, "no") /\ new.phase = "selected" /\ ~ new.created
  BY NewBatchType
<1>8. PICK n : n = Cardinality(Existing) + 1
  OBVIOUS
<1>9. n =< MaxBatches /\ batches' = [batches EXCEPT ![b].phase = "done", ![b].deferred = FALSE,
                                                    ![n] = new]
  BY <1>7, <1>8 DEF Requeue
<1>10. batches \in [Batches -> Rows]
  BY DEF IInv, TypeOK, Rows
<1>11. batches' = [batches EXCEPT ![b] = row, ![n] = new]
  BY <1>3, <1>4, <1>9, <1>10
<1>12. RowsKeep
  BY <1>2, <1>5, <1>6, <1>7, <1>8, <1>9, <1>11, RowsGrow, ZenonT(60)
<1>13. \A m \in Lanes : Kept(m)
  BY <1>1 DEF IInv, LaneFits, Kept, AtWork
<1>14. LanesOK /\ Room
  BY <1>1, <1>12, <1>13, NoLaneMoves
<1>. QED
  BY <1>1, <1>12, <1>14 DEF Good, IInv

LEMMA AgentEditsGood ==
    ASSUME IInv, NEW b \in Batches, AgentEdits(b)
    PROVE  Good
<1>1. /\ batches[b].phase \in {"reviewing", "needs_agent", "ready"} /\ UNCHANGED stop
      /\ lanes' = [m \in Lanes |-> IF lanes[m].batch = b /\ lanes[m].pc = "evaluated"
                                   THEN [lanes[m] EXCEPT !.edited = TRUE] ELSE lanes[m]]
  BY DEF AgentEdits, shared
<1>2. b \in Existing /\ batches[b].phase \in AheadPhases
  BY <1>1 DEF Existing, AheadPhases, PrepPhases
<1>3. PICK r \in Rows : r = batches[b]
  BY DEF IInv, TypeOK, Rows
<1>4. PICK open \in BOOLEAN : batches' = [batches EXCEPT ![b] = Revised(r, open)]
  BY <1>3 DEF AgentEdits
<1>5. PICK row : row = Revised(r, open)
  OBVIOUS
<1>6. row \in Rows /\ row.phase = r.phase /\ row.created = r.created /\ row.intent = r.intent
  BY <1>3, <1>5, RevisedType
<1>7. batches \in [Batches -> Rows]
  BY DEF IInv, TypeOK, Rows
<1>8. batches' = [batches EXCEPT ![b] = row]
  BY <1>4, <1>5
<1>9. ~ r.created
  BY <1>1, <1>3 DEF IInv, JobFits, WritePhases
<1>10. RowsKeep
  <2>1. b \in Ahead
    BY <1>2 DEF Ahead, InPhase
  <2>2. row.phase # "absent" /\ ~ row.created
    BY <1>1, <1>3, <1>6, <1>9
  <2>. QED
    BY <1>2, <1>6, <1>8, <2>1, <2>2, RowMoves
<1>11. \A c \in Batches : batches'[c].phase = batches[c].phase
  BY <1>3, <1>6, <1>7, <1>8
<1>12. \A m \in Lanes : lanes[m] \in LaneStates /\ LaneFits(m)
  BY DEF IInv
<1>13. \A m \in Lanes :
         /\ lanes'[m] \in LaneStates
         /\ lanes'[m].pc = lanes[m].pc /\ lanes'[m].todo = lanes[m].todo
         /\ lanes'[m].batch = lanes[m].batch /\ lanes'[m].start = lanes[m].start
         /\ lanes'[m].stale = lanes[m].stale
  <2>1. ASSUME NEW m \in Lanes
        PROVE  \/ lanes'[m] = lanes[m]
               \/ lanes'[m] = [lanes[m] EXCEPT !.edited = TRUE]
    BY <1>1
  <2>2. ASSUME NEW s \in LaneStates, NEW t, t = s \/ t = [s EXCEPT !.edited = TRUE]
        PROVE  /\ t \in LaneStates
               /\ t.pc = s.pc /\ t.todo = s.todo /\ t.batch = s.batch
               /\ t.start = s.start /\ t.stale = s.stale
    BY <2>2 DEF LaneStates
  <2>. QED
    BY <1>12, <2>1, <2>2
<1>14. \A m \in Lanes : Kept(m)
  <2>1. \A m \in Lanes : lanes[m].pc \in AtWork => lanes[m].batch \in Batches
    BY <1>12 DEF LaneFits, AtWork, Working, Existing
  <2>. QED
    BY <1>11, <1>13, <2>1 DEF Kept
<1>15. LanesOK /\ Room
  BY <1>1, <1>10, <1>14, NoLaneMoves
<1>16. lanes' \in [Lanes -> LaneStates]
  <2>1. lanes' = [m \in Lanes |-> lanes'[m]]
    BY <1>1
  <2>. QED
    BY <1>13, <2>1
<1>. QED
  BY <1>10, <1>15, <1>16 DEF Good

LEMMA TickSteps ==
    ASSUME IInv, TickStart \/ TickEnd \/ Crash
    PROVE  Good
<1>1. \A pc \in {"out", "top"} :
        /\ [l \in Lanes |-> Lane(pc)] \in [Lanes -> LaneStates]
        /\ Lane(pc).pc = pc /\ Lane(pc).todo \subseteq Existing
  BY LaneType DEF Places
<1>2. CASE TickStart
  BY <1>1, <1>2, RowsStay, NobodyWorks DEF TickStart, Good
<1>3. CASE TickEnd
  <2>1. UNCHANGED batches /\ UNCHANGED lanes /\ \A l \in Lanes : lanes[l].pc = "out"
    BY <1>3 DEF TickEnd
  <2>2. \A l \in Lanes : lanes'[l].todo \subseteq Existing
    BY <2>1 DEF IInv, LaneFits
  <2>. QED
    BY <2>1, <2>2, RowsStay, NobodyWorks DEF Good, IInv
<1>4. CASE Crash
  <2>1. stop' = "off" /\ lanes' = [l \in Lanes |-> Lane("out")]
    BY <1>4 DEF Crash
  <2>2. RowsKeep
    <3>1. CASE UNCHANGED batches
      BY <3>1, RowsStay
    <3>2. CASE /\ lanes[Writer].pc = "step"
               /\ batches[lanes[Writer].batch].phase = "approved"
               /\ batches[lanes[Writer].batch].intent
               /\ batches' = [batches EXCEPT ![lanes[Writer].batch].created = TRUE]
      <4>1. PICK b \in Existing : b = lanes[Writer].batch
        BY <3>2 DEF IInv, LaneFits, Working, Lanes
      <4>2. PICK r \in Rows : r = batches[b]
        BY <4>1 DEF IInv, TypeOK, Rows, Existing
      <4>3. PICK row : row = [r EXCEPT !.created = TRUE]
        OBVIOUS
      <4>4. row \in Rows /\ row.phase = "approved" /\ row.intent
        BY <3>2, <4>1, <4>2, <4>3 DEF Rows
      <4>5. batches' = [batches EXCEPT ![b] = row]
        BY <3>2, <4>1, <4>2, <4>3
      <4>6. b \in Ahead /\ "approved" \in WritePhases
        BY <3>2, <4>1 DEF Ahead, InPhase, AheadPhases, Existing, WritePhases
      <4>. QED
        BY <4>4, <4>5, <4>6, RowMoves
    <3>. QED
      BY <1>4, <3>1, <3>2 DEF Crash
  <2>. QED
    BY <1>1, <2>1, <2>2, NobodyWorks DEF Good
<1>. QED
  BY <1>2, <1>3, <1>4

LEMMA OtherSteps ==
    ASSUME IInv, UNCHANGED <<batches, stop, lanes>>
    PROVE  Good
<1>1. \A m \in Lanes : Kept(m)
  BY SamePhaseKeeps
<1>2. RowsKeep
  BY RowsStay
<1>3. LanesOK /\ Room
  BY <1>1, <1>2, NoLaneMoves
<1>. QED
  BY <1>2, <1>3 DEF Good, IInv

-----------------------------------------------------------------------------
(* The invariant                                                           *)

\* What no lemma above speaks of keeps its type.
LEMMA OthersType ==
    ASSUME IInv, [Next]_vars
    PROVE  /\ status' \in {"running", "paused"} \cup Terminal
           /\ agent' \in BOOLEAN
           /\ issued' \in 0..MaxCommands
           /\ stop' \in {"off", "none", "idle", "stopped"}
           /\ idle' \in [Lanes -> BOOLEAN]
           /\ limit' \in Limits
<1>1. /\ status \in {"running", "paused"} \cup Terminal
      /\ agent \in BOOLEAN
      /\ issued \in 0..MaxCommands
      /\ stop \in {"off", "none", "idle", "stopped"}
      /\ idle \in [Lanes -> BOOLEAN]
      /\ limit \in Limits
  BY DEF IInv, TypeOK
<1>. DEFINE Done == /\ status' \in {"running", "paused"} \cup Terminal
                    /\ agent' \in BOOLEAN
                    /\ issued' \in 0..MaxCommands
                    /\ stop' \in {"off", "none", "idle", "stopped"}
                    /\ idle' \in [Lanes -> BOOLEAN]
                    /\ limit' \in Limits
<1>2. CASE UNCHANGED vars
  BY <1>1, <1>2 DEF vars
<1>3. ASSUME NEW command, Issue(command) PROVE issued' \in 0..MaxCommands
  BY <1>1, <1>3 DEF Issue
<1>4. CASE Command
  <2>1. ASSUME NEW to \in {"running", "paused", "closed"}, SetStatus(to) PROVE Done
    BY <1>1, <1>3, <2>1 DEF SetStatus, shared, Terminal
  <2>2. ASSUME NEW b \in Batches,
               \/ Item(b) \/ Reopen(b) \/ ReopenFresh(b)
               \/ Skip(b) \/ Requeue(b) \/ AgentEdits(b)
        PROVE  Done
    <3>1. UNCHANGED <<status, agent, stop, idle, limit>> /\ \E command : Issue(command)
      BY <2>2, Zenon DEF Item, Reopen, ReopenFresh, Skip, Requeue, AgentEdits, Replaces, shared
    <3>. QED
      BY <1>1, <1>3, <3>1
  <2>3. ASSUME AgentSlot PROVE Done
    BY <1>1, <1>3, <2>3 DEF AgentSlot, shared
  <2>4. ASSUME NEW ahead \in Limits, Tune(ahead) PROVE Done
    BY <1>1, <1>3, <2>4 DEF Tune
  <2>. QED
    BY <1>4, <2>1, <2>2, <2>3, <2>4 DEF Command
<1>5. CASE Free /\ UNCHANGED issued
  <2>1. ASSUME TickStart \/ TickEnd \/ Crash \/ AgentDone PROVE Done
    BY <1>1, <1>5, <2>1 DEF TickStart, TickEnd, Crash, AgentDone, shared
  <2>2. ASSUME NEW b \in Batches, Approve(b) \/ ApproveRefused(b) PROVE Done
    BY <1>1, <1>5, <2>2 DEF Approve, ApproveRefused, Replaces, shared
  <2>3. ASSUME NEW l \in Lanes, LaneAction(l) PROVE Done
    <3>1. CASE Leave(l) \/ PauseCampaign(l) \/ Moved(l) \/ Nothing(l)
      BY <1>1, <1>5, <3>1 DEF Leave, PauseCampaign, Moved, Nothing, GetOrInsert, Paused
    <3>2. CASE \/ Look(l) \/ Claim(l) \/ ClaimNew(l) \/ LookToWrite \/ PilotReview
               \/ ReadFresh(l) \/ Waits(l) \/ Fails(l) \/ Pauses(l) \/ Evaluate(l)
      <4>1. UNCHANGED <<status, agent, stop, idle, limit>>
        BY <3>2 DEF Look, Claim, ClaimNew, LookToWrite, PilotReview, ReadFresh, Waits, Fails,
                    Pauses, Evaluate, shared
      <4>. QED
        BY <1>1, <1>5, <4>1
    <3>3. CASE \/ Start(l) \/ Prepare(l) \/ ReviewAgain(l) \/ Judge(l)
               \/ ApprovedStep \/ RecordJob \/ ApplyingStep \/ VerifyingStep
      <4>1. ASSUME NEW m, NEW row, MovesTo(m, row) \/ Saves(m, row)
            PROVE  UNCHANGED <<status, agent, stop, idle, limit>>
        BY <4>1 DEF MovesTo, Saves, shared
      <4>2. ASSUME NEW m, SplitMoves(m) PROVE UNCHANGED <<status, agent, stop, idle, limit>>
        BY <4>2 DEF SplitMoves, shared
      <4>3. UNCHANGED <<status, agent, stop, idle, limit>>
        BY <3>3, <4>1, <4>2, Zenon DEF Start, Prepare, ReviewAgain, Judge, ApprovedStep, RecordJob,
                                       ApplyingStep, VerifyingStep, shared
      <4>. QED
        BY <1>1, <1>5, <4>3
    <3>. QED
      BY <2>3, <3>1, <3>2, <3>3 DEF LaneAction, Step
  <2>. QED
    BY <1>5, <2>1, <2>2, <2>3 DEF Free
<1>. QED
  BY <1>2, <1>4, <1>5 DEF Next

LEMMA Initially ==
    ASSUME Init
    PROVE  IInv
<1>1. /\ Lane("out") \in LaneStates /\ Lane("out").pc = "out"
      /\ Lane("out").todo = {} /\ ~ Lane("out").start
  BY LaneType DEF Places
<1>2. \A l \in Lanes : lanes[l] = Lane("out")
  BY DEF Init
<1>3. lanes \in [Lanes -> LaneStates]
  BY <1>1 DEF Init
<1>4. \A l \in Lanes : LaneFits(l)
  BY <1>1, <1>2 DEF LaneFits, AtWork, Working
<1>5. ClaimsApart
  BY <1>1, <1>2 DEF ClaimsApart, Working, Lanes
<1>6. \A b \in Batches :
        \/ b > Initial /\ batches[b] = NoBatch
        \/ /\ b =< Initial
           /\ \E pilot \in {"no", "pilot"} : batches[b] = NewBatch(2, pilot)
  <2>1. \A b \in Batches : b > Initial \/ b =< Initial
    BY DEF Batches
  <2>2. \A b \in Batches : batches[b] = IF b > Initial THEN NoBatch
                                        ELSE NewBatch(2, IF HasPilot /\ b = 1 THEN "pilot" ELSE "no")
    BY DEF Init
  <2>. QED
    BY <2>1, <2>2
<1>7. NoBatch \in Rows /\ NoBatch.phase = "absent" /\ ~ NoBatch.created
  <2>1. PICK r \in Rows : r = NewBatch(0, "no") /\ ~ r.created
    BY NewBatchType
  <2>2. PICK row : row = [r EXCEPT !.phase = "absent"]
    OBVIOUS
  <2>3. "absent" \in Phases
    BY DEF Phases
  <2>4. row \in Rows /\ row.phase = "absent" /\ row.created = r.created
    BY <2>2, <2>3 DEF Rows
  <2>. QED
    BY <2>1, <2>2, <2>4 DEF NoBatch
<1>8. \A b \in Batches :
        /\ batches[b] \in Rows /\ ~ batches[b].created
        /\ batches[b].phase = IF b > Initial THEN "absent" ELSE "selected"
  <2>. SUFFICES ASSUME NEW b \in Batches
                PROVE  /\ batches[b] \in Rows /\ ~ batches[b].created
                       /\ batches[b].phase = IF b > Initial THEN "absent" ELSE "selected"
    OBVIOUS
  <2>1. CASE b > Initial /\ batches[b] = NoBatch
    BY <1>7, <2>1
  <2>2. CASE b =< Initial /\ \E pilot \in {"no", "pilot"} : batches[b] = NewBatch(2, pilot)
    <3>1. PICK pilot \in {"no", "pilot"} : batches[b] = NewBatch(2, pilot)
      BY <2>2
    <3>2. /\ NewBatch(2, pilot) \in Rows /\ ~ NewBatch(2, pilot).created
          /\ NewBatch(2, pilot).phase = "selected"
      BY NewBatchType
    <3>3. ~ b > Initial
      BY <2>2 DEF Batches
    <3>. QED
      BY <3>1, <3>2, <3>3
  <2>. QED
    BY <1>6, <2>1, <2>2
<1>9. batches \in [Batches -> Rows]
  <2>1. batches = [b \in Batches |-> batches[b]]
    BY DEF Init
  <2>. QED
    BY <1>8, <2>1
<1>10. TypeOK
  <2>1. \A l \in Lanes : lanes[l].pc = "out"
    BY <1>1, <1>2
  <2>2. /\ status \in {"running", "paused"} \cup Terminal /\ agent \in BOOLEAN
        /\ issued \in 0..MaxCommands /\ stop \in {"off", "none", "idle", "stopped"}
        /\ idle \in [Lanes -> BOOLEAN] /\ limit \in Limits
    <3>1. agent = FALSE /\ idle = [l \in Lanes |-> FALSE]
      BY Zenon DEF Init
    <3>2. status = "running" /\ issued = 0 /\ stop = "off"
      BY Zenon DEF Init
    <3>3. agent \in BOOLEAN /\ idle \in [Lanes -> BOOLEAN]
      BY <3>1
    <3>4. issued \in 0..MaxCommands /\ limit \in Limits
      BY <3>2 DEF Init
    <3>. QED
      BY <3>2, <3>3, <3>4, Zenon
  <2>. QED
    BY <1>9, <2>1, <2>2 DEF TypeOK, Rows
<1>11. Numbered
  <2>1. \A b, c \in Batches : c < b /\ b =< Initial => c =< Initial
    BY DEF Batches
  <2>2. \A b \in Batches : batches[b].phase # "absent" <=> b =< Initial
    BY <1>8 DEF Batches
  <2>. QED
    BY <2>1, <2>2 DEF Numbered
<1>12. \A b \in Batches : JobFits(b)
  BY <1>8 DEF JobFits
<1>. QED
  BY <1>3, <1>4, <1>5, <1>10, <1>11, <1>12 DEF IInv

\* Every step is a good one.
LEMMA StepsAreGood ==
    ASSUME IInv, [Next]_vars
    PROVE  Good
<1>1. CASE UNCHANGED vars
  BY <1>1, OtherSteps DEF vars
<1>2. CASE Command
  <2>1. ASSUME NEW to, SetStatus(to) PROVE Good
    BY <2>1, OtherSteps DEF SetStatus, shared
  <2>2. ASSUME AgentSlot PROVE Good
    BY <2>2, OtherSteps DEF AgentSlot, shared
  <2>3. ASSUME NEW ahead, Tune(ahead) PROVE Good
    BY <2>3, OtherSteps DEF Tune
  <2>. QED
    BY <1>2, <2>1, <2>2, <2>3, CommandSteps, RequeueGood, AgentEditsGood DEF Command
<1>3. CASE Free
  <2>1. ASSUME AgentDone PROVE Good
    BY <2>1, OtherSteps DEF AgentDone, shared
  <2>2. ASSUME NEW b, ApproveRefused(b) PROVE Good
    BY <2>2, OtherSteps DEF ApproveRefused, shared
  <2>3. ASSUME NEW l \in Lanes, LaneAction(l) PROVE Good
    BY <2>3, QuietSteps, ReadFreshGood, EvaluateGood, ClaimStep, ClaimNewStep, LookToWriteStep,
       PreparationSteps, FailsGood, WritingSteps, PilotStep DEF LaneAction, Step
  <2>. QED
    BY <1>3, <2>1, <2>2, <2>3, TickSteps, CommandSteps DEF Free
<1>. QED
  BY <1>1, <1>2, <1>3 DEF Next

LEMMA Inductive ==
    ASSUME IInv, [Next]_vars
    PROVE  IInv'
<1>1. Good
  BY StepsAreGood
<1>2. /\ batches' \in [Batches -> Rows] /\ lanes' \in [Lanes -> LaneStates]
      /\ Numbered' /\ ClaimsApart'
      /\ \A b \in Batches : JobFits(b)'
      /\ \A l \in Lanes : LaneFits(l)'
  BY <1>1 DEF Good, RowsKeep, LanesOK
<1>3. TypeOK'
  <2>1. \A l \in Lanes : lanes'[l].pc \in Places
    BY <1>2 DEF LaneStates
  <2>. QED
    BY <1>2, <2>1, OthersType DEF TypeOK, Rows, Places
<1>. QED
  BY <1>2, <1>3 DEF IInv

\* Every reachable state has the inductive invariant.
THEOREM Invariant == Spec => []IInv
<1>1. Init => IInv
  BY Initially
<1>2. IInv /\ [Next]_vars => IInv'
  BY Inductive
<1>. QED
  BY <1>1, <1>2, PTL DEF Spec

\* Type correctness.
THEOREM TypeCorrect == Spec => []TypeOK
<1>1. IInv => TypeOK
  BY DEF IInv
<1>. QED
  BY <1>1, Invariant, PTL

\* Two lanes never work on one batch with a row that is still the current one:
\* two workers because they claim apart, a worker and the writer because the
\* row they took was in a phase of one of them only.
THEOREM OneLane == Spec => []OneLaneMayMove
<1>1. IInv => OneLaneMayMove
  <2>. SUFFICES ASSUME IInv, NEW l \in Lanes, NEW m \in Lanes, l # m,
                       lanes[l].batch = lanes[m].batch,
                       lanes[l].pc \in AtWork, lanes[m].pc \in AtWork,
                       ~ lanes[l].stale, ~ lanes[m].stale
                PROVE  FALSE
    BY DEF OneLaneMayMove
  <2>1. /\ batches[lanes[l].batch].phase \in TakenIn(l) \cap TakenIn(m)
        /\ lanes[l].pc \in Working /\ lanes[m].pc \in Working
    BY DEF IInv, LaneFits, AtWork, Working
  <2>2. CASE l \in Workers /\ m \in Workers
    BY <2>1, <2>2 DEF IInv, ClaimsApart
  <2>3. CASE l = Writer \/ m = Writer
    BY <2>1, <2>3 DEF TakenIn, WritePhases, PrepPhases
  <2>. QED
    BY <2>2, <2>3 DEF Lanes
<1>. QED
  BY <1>1, Invariant, PTL

\* A batch gets under way only where prepare_ahead leaves room for it, whatever is
\* reopened, split, requeued or tuned and however many workers start one at once.
THEOREM AheadIsBounded == Spec => PreparedAhead
<1>1. IInv /\ [Next]_vars => [Ahead' \subseteq Ahead \/ Cardinality(Ahead') <= limit]_vars
  BY StepsAreGood DEF Good, Room
<1>. QED
  BY <1>1, Invariant, PTL DEF Spec, PreparedAhead

\* A batch with an apply job, recorded or left behind by a killed tick, is never
\* back before its approval.
THEOREM Locked == Spec => []JobsAreLocked
<1>1. IInv => JobsAreLocked
  BY DEF IInv, JobFits, JobsAreLocked
<1>. QED
  BY <1>1, Invariant, PTL

=============================================================================
