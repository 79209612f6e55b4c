--------------------------- MODULE MergeNotesProofs ---------------------------
(***************************************************************************)
(* Proofs about module MergeNotes, for any number of processes, restore     *)
(* operations, owners, and changes of the note by Anki's user.              *)
(***************************************************************************)
EXTENDS MergeNotes, TLAPS

-----------------------------------------------------------------------------
(* The inductive invariant                                                 *)

States == {"none", "intent", "sent", "deleted", "restore_sent", "restored"}
Places == {"idle", "decide", "mark", "settle", "begin", "send", "wait", "verified", "refused"}

NoteType == [there : BOOLEAN, content : Nat, reviews : Nat]
RecordType == [state : States, pre : Nat, evidence : NoteType, restore : 0..NRestores]
CliType == [at : Places, op : Ops, evidence : NoteType, sent : BOOLEAN, fence : Nat]

Types ==
    /\ note \in NoteType
    /\ record \in RecordType
    /\ cli \in [Procs -> CliType]
    /\ wire \subseteq [op : Ops, fence : Nat]
    /\ alone \in BOOLEAN
    /\ verdict \in [Ops -> Native!Verdicts]
    /\ fenceOf \in [Ops -> Nat]
    /\ effects \in [Ops -> {0, 1}]
    /\ owner \in [fence : Nat, session : Nat, released : BOOLEAN]
    /\ session = 1

\* The verdicts of the companion are true of its effects.
VerdictsFit ==
    \A o \in Ops : /\ verdict[o] \in {"absent", "failed"} => effects[o] = 0
                   /\ verdict[o] = "verified" => effects[o] = 1

\* No operation is known anywhere before the record has its number, and no owner
\* before the companion has it.
NumbersFit ==
    /\ record.restore > 0 => record.state \in {"deleted", "restore_sent", "restored"}
    /\ \A o \in Ops : verdict[o] # "absent" => o =< record.restore
    /\ \A r \in wire : r.op =< record.restore /\ r.fence =< owner.fence
    /\ \A p \in Procs : cli[p].op =< record.restore /\ cli[p].fence =< owner.fence

\* What a command found before it records it.
CommandsFit ==
    \A p \in Procs :
        /\ cli[p].at \in {"decide", "mark"} => cli[p].op = Delete
        /\ cli[p].at = "verified" => effects[cli[p].op] = 1

\* The operation had no effect, and no request that is under way can give it one.
Dead(o) ==
    \/ verdict[o] = "failed"
    \/ /\ verdict[o] = "absent"
       /\ \A r \in wire : r.op = o => r.fence < owner.fence \/ owner.released

\* One command after the other.
AloneFits ==
    /\ \A p, q \in Procs : cli[p].at # "idle" /\ cli[q].at # "idle" => p = q
    /\ \A p \in Procs :
         /\ cli[p].at # "idle" /\ cli[p].op # Delete =>
                record.state = "restore_sent" /\ cli[p].op = record.restore
         /\ cli[p].at \in {"send", "wait"} => cli[p].fence = owner.fence
         /\ cli[p].at = "refused" /\ cli[p].op # Delete => Dead(cli[p].op)
    /\ \A r \in Restores :
         r < record.restore \/ (r = record.restore /\ record.state = "deleted") => Dead(r)

IInv ==
    /\ Types /\ VerdictsFit /\ NumbersFit /\ CommandsFit /\ RecordIsTrue
    /\ alone => AloneFits

USE MergeAssumption DEF Ops, Restores, Delete

-----------------------------------------------------------------------------
(* A step of a command that sends nothing                                  *)

Over == {"deleted", "restore_sent", "restored"}

\* What a command may become, and its record with it.
MayBecome(p, c, new) ==
    /\ c.at \in {"decide", "mark"} => c.op = Delete
    /\ c.at = "verified" => effects[c.op] = 1
    /\ c.op =< new.restore /\ c.fence =< owner.fence
    /\ record.restore =< new.restore
    /\ new.restore > 0 => new.state \in Over
    /\ new.state \in Over => effects[Delete] = 1
    /\ new.state = "restored" => \E r \in Restores : effects[r] = 1

\* The same where no other command runs.
MayBecomeAlone(p, c, new) ==
    /\ \A q \in Procs : cli[q].at # "idle" => q = p
    /\ c.at # "idle" /\ c.op # Delete => new.state = "restore_sent" /\ c.op = new.restore
    /\ c.at \in {"send", "wait"} => c.fence = owner.fence
    /\ c.at = "refused" /\ c.op # Delete => Dead(c.op)
    /\ \A r \in Restores :
         r < new.restore \/ (r = new.restore /\ new.state = "deleted") => Dead(r)

LEMMA CommandMoves ==
    ASSUME IInv, NEW p \in Procs, NEW c \in CliType, cli' = [cli EXCEPT ![p] = c],
           NEW new \in RecordType, record' = new, MayBecome(p, c, new),
           alone' \in BOOLEAN, alone' => alone /\ MayBecomeAlone(p, c, new),
           UNCHANGED <<note, wire, native>>
    PROVE  IInv'
<1>1. /\ Types /\ VerdictsFit /\ NumbersFit /\ CommandsFit /\ RecordIsTrue
      /\ UNCHANGED <<note, wire, verdict, fenceOf, effects, owner, session>>
  BY DEF IInv, native
<1>2. cli'[p] = c /\ \A q \in Procs : q # p => cli'[q] = cli[q]
  BY <1>1 DEF Types
<1>3. Types'
  BY <1>1 DEF Types
<1>4. VerdictsFit'
  BY <1>1 DEF VerdictsFit
<1>5. NumbersFit'
  <2>1. record.restore \in Nat /\ new.restore \in Nat /\ record.restore =< new.restore
    BY <1>1 DEF Types, RecordType, MayBecome
  <2>2. /\ \A o \in Ops : verdict[o] # "absent" => o =< new.restore
        /\ \A r \in wire : r.op =< new.restore
    <3>1. \A o \in Ops : o \in Nat
      OBVIOUS
    <3>2. \A r \in wire : r.op \in Nat
      BY <1>1 DEF Types
    <3>. QED
      BY <1>1, <2>1, <3>1, <3>2 DEF NumbersFit
  <2>3. \A q \in Procs : cli'[q].op =< new.restore /\ cli'[q].fence =< owner.fence
    <3>1. \A q \in Procs : cli[q].op \in Nat
      BY <1>1 DEF Types, CliType
    <3>. QED
      BY <1>1, <1>2, <2>1, <3>1 DEF NumbersFit, MayBecome
  <2>4. new.restore > 0 => new.state \in {"deleted", "restore_sent", "restored"}
    BY DEF MayBecome, Over
  <2>. QED
    BY <1>1, <2>2, <2>3, <2>4 DEF NumbersFit
<1>6. CommandsFit'
  BY <1>1, <1>2 DEF CommandsFit, MayBecome
<1>7. RecordIsTrue'
  BY <1>1 DEF RecordIsTrue, MayBecome, Over
<1>8. ASSUME alone' PROVE AloneFits'
  <2>1. AloneFits /\ MayBecomeAlone(p, c, new)
    BY <1>8 DEF IInv
  <2>2. \A o \in Ops : Dead(o)' <=> Dead(o)
    BY <1>1 DEF Dead
  <2>3. \A q \in Procs : q # p => cli'[q].at = "idle"
    BY <1>2, <2>1 DEF MayBecomeAlone
  <2>4. \A q \in Procs : cli'[q].at # "idle" => q = p
    BY <2>3
  <2>5. c.op \in Ops
    BY DEF CliType
  <2>6. \A r \in Restores : Dead(r)' <=> Dead(r)
    BY <2>2
  <2>. QED
    BY <1>1, <1>2, <2>1, <2>2, <2>4, <2>5, <2>6 DEF AloneFits, MayBecomeAlone
<1>. QED
  BY <1>3, <1>4, <1>5, <1>6, <1>7, <1>8 DEF IInv

-----------------------------------------------------------------------------
(* The steps of the commands that send nothing                             *)

\* What the invariant says of a record that stays as it is.
LEMMA RecordFits ==
    ASSUME IInv
    PROVE  /\ record \in RecordType
           /\ record.restore \in 0..NRestores
           /\ owner.fence \in Nat
           /\ record.restore =< record.restore
           /\ record.restore > 0 => record.state \in Over
           /\ record.state \notin Over => record.restore = 0
           /\ record.state \in Over => effects[Delete] = 1
           /\ record.state = "restored" => \E r \in Restores : effects[r] = 1
<1>1. Types /\ NumbersFit /\ RecordIsTrue
  BY DEF IInv
<1>2. record \in RecordType /\ owner.fence \in Nat
  BY <1>1 DEF Types
<1>3. record.restore \in 0..NRestores
  BY <1>2 DEF RecordType
<1>4. record.restore > 0 => record.state \in Over
  BY <1>1 DEF NumbersFit, Over
<1>. QED
  BY <1>1, <1>2, <1>3, <1>4 DEF RecordIsTrue, Over

\* What the invariant says of a command that runs.
LEMMA CommandFits ==
    ASSUME IInv, NEW p \in Procs
    PROVE  /\ cli[p] \in CliType
           /\ cli[p].op \in Ops
           /\ cli[p].op =< record.restore
           /\ cli[p].fence =< owner.fence
           /\ cli[p].at \in {"decide", "mark"} => cli[p].op = Delete
           /\ cli[p].at = "verified" => effects[cli[p].op] = 1
<1>1. Types /\ NumbersFit /\ CommandsFit
  BY DEF IInv
<1>2. cli[p] \in CliType
  BY <1>1 DEF Types
<1>. QED
  BY <1>1, <1>2 DEF NumbersFit, CommandsFit, CliType

\* And where no two commands ever ran at once.
LEMMA CommandFitsAlone ==
    ASSUME IInv, alone, NEW p \in Procs
    PROVE  /\ cli[p].at # "idle" => \A q \in Procs : cli[q].at # "idle" => q = p
           /\ cli[p].at # "idle" /\ cli[p].op # Delete =>
                  record.state = "restore_sent" /\ cli[p].op = record.restore
           /\ cli[p].at \in {"send", "wait"} => cli[p].fence = owner.fence
           /\ cli[p].at = "refused" /\ cli[p].op # Delete => Dead(cli[p].op)
           /\ \A r \in Restores :
                r < record.restore \/ (r = record.restore /\ record.state = "deleted")
                  => Dead(r)
BY DEF IInv, AloneFits

LEMMA StartTypes == Idle \in CliType /\ NoRecord \in RecordType
<1>1. Absent \in NoteType
  BY DEF Absent, NoteType
<1>. QED
  BY <1>1 DEF Idle, NoRecord, CliType, RecordType, Places, States

\* A command that stops says nothing any more.
LEMMA StopIInv == ASSUME IInv, NEW p \in Procs, Stop(p) PROVE IInv'
<1>1. PICK c \in CliType : c = Idle
  BY StartTypes
<1>2. c.at = "idle" /\ c.op = 0 /\ c.fence = 0
  BY <1>1 DEF Idle
<1>3. /\ cli' = [cli EXCEPT ![p] = c] /\ record' = record /\ cli[p].at # "idle"
      /\ alone' = alone /\ UNCHANGED <<note, wire, native>>
  BY <1>1 DEF Stop, Return, At
<1>4. MayBecome(p, c, record)
  BY <1>2, RecordFits DEF MayBecome
<1>5. ASSUME alone' PROVE alone /\ MayBecomeAlone(p, c, record)
  BY <1>2, <1>3, <1>5, CommandFitsAlone DEF MayBecomeAlone
<1>6. alone' \in BOOLEAN /\ record \in RecordType
  BY <1>3 DEF IInv, Types
<1>. QED
  BY <1>3, <1>4, <1>5, <1>6, CommandMoves

\* A delete command that starts, looks at its record or starts on a sent delete
\* knows of nothing but the delete.
LEMMA DeleteMoves ==
    ASSUME IInv, NEW p \in Procs, ReadEvidence(p) \/ FindDeletion(p)
    PROVE  IInv'
<1>1. ASSUME ReadEvidence(p)
      PROVE  \E c \in CliType : /\ c.op = 0 /\ c.fence = 0 /\ c.at = "decide"
                                /\ cli' = [cli EXCEPT ![p] = c]
  <2>1. PICK c : c = [Idle EXCEPT !.at = "decide", !.op = Delete, !.evidence = note]
    OBVIOUS
  <2>2. /\ c = [at |-> "decide", op |-> 0, evidence |-> note, sent |-> FALSE, fence |-> 0]
        /\ note \in NoteType
    BY <2>1 DEF Idle, IInv, Types
  <2>3. c \in CliType
    BY <2>2 DEF CliType, Places
  <2>. QED
    BY <1>1, <2>1, <2>2, <2>3 DEF ReadEvidence
<1>2. ASSUME FindDeletion(p)
      PROVE  \E c \in CliType : /\ c.op = 0 /\ c.fence = cli[p].fence
                                /\ c.at \in {"settle", "mark"}
                                /\ cli' = [cli EXCEPT ![p] = c]
  <2>1. PICK b \in BOOLEAN : b = (record.state = "sent")
    OBVIOUS
  <2>2. PICK a \in {"settle", "mark"} : a = IF record.state = "sent" THEN "settle" ELSE "mark"
    OBVIOUS
  <2>3. cli' = [cli EXCEPT ![p].sent = b, ![p].at = a]
    BY <1>2, <2>1, <2>2 DEF FindDeletion
  <2>4. PICK d \in CliType : d = cli[p]
    BY CommandFits
  <2>5. PICK c : c = [d EXCEPT !.sent = b, !.at = a]
    OBVIOUS
  <2>6. d.op = 0
    BY <1>2, <2>4, CommandFits DEF FindDeletion, At
  <2>7. c \in CliType /\ c.at = a /\ c.op = 0 /\ c.fence = d.fence
    BY <2>5, <2>6 DEF CliType, Places
  <2>8. cli' = [cli EXCEPT ![p] = c]
    BY <2>3, <2>4, <2>5 DEF IInv, Types
  <2>. QED
    BY <2>4, <2>7, <2>8
<1>3. PICK c \in CliType : /\ c.op = 0 /\ c.fence =< owner.fence
                           /\ c.at \in {"settle", "mark", "decide"}
                           /\ cli' = [cli EXCEPT ![p] = c]
  BY <1>1, <1>2, RecordFits, CommandFits
<1>4. /\ record' = record /\ UNCHANGED <<note, wire, native>>
      /\ alone' \in BOOLEAN
      /\ alone' => alone /\ \A q \in Procs : cli[q].at # "idle" => q = p
  BY CommandFitsAlone DEF ReadEvidence, FindDeletion, Starts, At, IInv, Types
<1>5. MayBecome(p, c, record)
  BY <1>3, RecordFits DEF MayBecome
<1>6. ASSUME alone' PROVE alone /\ MayBecomeAlone(p, c, record)
  BY <1>3, <1>4, <1>6, CommandFitsAlone DEF MayBecomeAlone
<1>7. record \in RecordType
  BY RecordFits
<1>. QED
  BY <1>3, <1>4, <1>5, <1>6, <1>7, CommandMoves

\* Going on to another place keeps what the command works on.
LEMMA GotoFits ==
    ASSUME IInv, NEW p \in Procs, NEW a \in Places, Goto(p, a)
    PROVE  \E c \in CliType : /\ c.at = a /\ c.op = cli[p].op /\ c.fence = cli[p].fence
                              /\ cli' = [cli EXCEPT ![p] = c]
<1>1. PICK d \in CliType : d = cli[p]
  BY CommandFits
<1>2. PICK c : c = [d EXCEPT !.at = a]
  OBVIOUS
<1>3. c \in CliType /\ c.at = a /\ c.op = d.op /\ c.fence = d.fence
  BY <1>2 DEF CliType
<1>4. cli' = [cli EXCEPT ![p] = c]
  BY <1>1, <1>2 DEF Goto, IInv, Types
<1>. QED
  BY <1>1, <1>3, <1>4

\* A new state of the record.
LEMMA StateFits ==
    ASSUME IInv, NEW expected, NEW s \in States, CompareAndSet(expected, s)
    PROVE  \E new \in RecordType : /\ new.state = s /\ new.restore = record.restore
                                   /\ record' = new
<1>1. PICK old \in RecordType : old = record
  BY RecordFits
<1>2. PICK new : new = [old EXCEPT !.state = s]
  OBVIOUS
<1>3. new \in RecordType /\ new.state = s /\ new.restore = old.restore
  BY <1>2 DEF RecordType
<1>. QED
  BY <1>1, <1>2, <1>3 DEF CompareAndSet

\* The first record of a deletion knows of no restore.
LEMMA RecordDeletionIInv ==
    ASSUME IInv, NEW p \in Procs, RecordDeletion(p) PROVE IInv'
<1>1. PICK c \in CliType : /\ c.at = "mark" /\ c.op = cli[p].op /\ c.fence = cli[p].fence
                           /\ cli' = [cli EXCEPT ![p] = c]
  BY GotoFits DEF RecordDeletion, Places
<1>2. PICK n \in Nat : n = note.content
  BY DEF IInv, Types, NoteType
<1>3. PICK e \in NoteType : e = cli[p].evidence
  BY CommandFits DEF CliType
<1>4. PICK new : new = [NoRecord EXCEPT !.state = "intent", !.pre = n, !.evidence = e]
  OBVIOUS
<1>5. new = [state |-> "intent", pre |-> n, evidence |-> e, restore |-> 0]
  BY <1>4 DEF NoRecord
<1>6. new \in RecordType /\ new.state = "intent" /\ new.restore = 0
  BY <1>5 DEF RecordType, States
<1>7. /\ record' = new /\ record.state = "none" /\ cli[p].at = "decide"
      /\ alone' = alone /\ UNCHANGED <<note, wire, native>>
  BY <1>2, <1>3, <1>4 DEF RecordDeletion, At
<1>8. record.restore = 0 /\ c.op = 0 /\ c.op =< record.restore /\ c.fence =< owner.fence
  BY <1>1, <1>7, RecordFits, CommandFits DEF Over
<1>9. MayBecome(p, c, new)
  BY <1>1, <1>6, <1>8 DEF MayBecome, Over
<1>10. ASSUME alone' PROVE alone /\ MayBecomeAlone(p, c, new)
  BY <1>1, <1>6, <1>7, <1>8, <1>10, CommandFitsAlone DEF MayBecomeAlone
<1>11. alone' \in BOOLEAN
  BY <1>7 DEF IInv, Types
<1>. QED
  BY <1>1, <1>6, <1>7, <1>9, <1>10, <1>11, CommandMoves

\* The delete is recorded as sent.
LEMMA MarkSentIInv == ASSUME IInv, NEW p \in Procs, MarkSent(p) PROVE IInv'
<1>1. PICK c \in CliType : /\ c.at = "begin" /\ c.op = cli[p].op /\ c.fence = cli[p].fence
                           /\ cli' = [cli EXCEPT ![p] = c]
  BY GotoFits DEF MarkSent, Places
<1>2. PICK new \in RecordType : /\ new.state = "sent" /\ new.restore = record.restore
                                /\ record' = new
  BY StateFits DEF MarkSent, States
<1>3. /\ record.state = "intent" /\ cli[p].at = "mark"
      /\ alone' = alone /\ UNCHANGED <<note, wire, native>>
  BY DEF MarkSent, CompareAndSet, At
<1>4. record.restore = 0 /\ c.op = 0 /\ c.op =< record.restore /\ c.fence =< owner.fence
  BY <1>1, <1>3, RecordFits, CommandFits DEF Over
<1>5. MayBecome(p, c, new)
  BY <1>1, <1>2, <1>4 DEF MayBecome, Over
<1>6. ASSUME alone' PROVE alone /\ MayBecomeAlone(p, c, new)
  BY <1>1, <1>2, <1>3, <1>4, <1>6, CommandFitsAlone DEF MayBecomeAlone
<1>7. alone' \in BOOLEAN
  BY <1>3 DEF IInv, Types
<1>. QED
  BY <1>1, <1>2, <1>3, <1>5, <1>6, <1>7, CommandMoves

\* A new restore has an operation of its own, and every earlier one was refused.
LEMMA StartRestoreIInv == ASSUME IInv, NEW p \in Procs, StartRestore(p) PROVE IInv'
<1>1. PICK n \in 0..NRestores : n = record.restore + 1 /\ n > 0
  BY RecordFits DEF StartRestore
<1>2. PICK old \in RecordType : old = record
  BY RecordFits
<1>3. PICK new : new = [old EXCEPT !.state = "restore_sent", !.restore = n]
  OBVIOUS
<1>4. new \in RecordType /\ new.state = "restore_sent" /\ new.restore = n
  BY <1>3 DEF RecordType, States
<1>5. PICK c : c = [Idle EXCEPT !.at = "begin", !.op = n]
  OBVIOUS
<1>6. c = [at |-> "begin", op |-> n, evidence |-> Absent, sent |-> FALSE, fence |-> 0]
  BY <1>5 DEF Idle
<1>7. c \in CliType /\ c.at = "begin" /\ c.op = n /\ c.fence = 0
  BY <1>6 DEF CliType, Places, Absent, NoteType
<1>8. /\ cli' = [cli EXCEPT ![p] = c] /\ record' = new
      /\ record.state = "deleted" /\ Starts(p) /\ UNCHANGED <<note, wire, native>>
  BY <1>1, <1>2, <1>3, <1>5 DEF StartRestore
<1>9. alone' \in BOOLEAN
      /\ (alone' => alone /\ \A q \in Procs : cli[q].at # "idle" => q = p)
  BY <1>8 DEF Starts, IInv, Types
<1>10. MayBecome(p, c, new)
  BY <1>1, <1>4, <1>7, <1>8, RecordFits DEF MayBecome, Over
<1>11. ASSUME alone' PROVE alone /\ MayBecomeAlone(p, c, new)
  <2>1. alone
    BY <1>9, <1>11
  <2>2. \A r \in Restores : r < n => Dead(r)
    <3>1. \A r \in Restores : r < n => r < record.restore \/ r = record.restore
      BY <1>1, RecordFits
    <3>. QED
      BY <2>1, <3>1, <1>8, CommandFitsAlone
  <2>. QED
    BY <1>4, <1>7, <1>9, <1>11, <2>1, <2>2 DEF MayBecomeAlone
<1>. QED
  BY <1>4, <1>7, <1>8, <1>9, <1>10, <1>11, CommandMoves

\* A restore that was sent is taken up again under its own operation.
LEMMA ResumeRestoreIInv == ASSUME IInv, NEW p \in Procs, ResumeRestore(p) PROVE IInv'
<1>1. PICK n \in 0..NRestores : n = record.restore
  BY RecordFits
<1>2. PICK c : c = [Idle EXCEPT !.at = "settle", !.op = n, !.sent = TRUE]
  OBVIOUS
<1>3. c = [at |-> "settle", op |-> n, evidence |-> Absent, sent |-> TRUE, fence |-> 0]
  BY <1>2 DEF Idle
<1>4. c \in CliType /\ c.at = "settle" /\ c.op = n /\ c.fence = 0
  BY <1>3 DEF CliType, Places, Absent, NoteType
<1>5. /\ cli' = [cli EXCEPT ![p] = c] /\ record' = record
      /\ record.state = "restore_sent" /\ Starts(p) /\ UNCHANGED <<note, wire, native>>
  BY <1>1, <1>2 DEF ResumeRestore
<1>6. alone' \in BOOLEAN
      /\ (alone' => alone /\ \A q \in Procs : cli[q].at # "idle" => q = p)
  BY <1>5 DEF Starts, IInv, Types
<1>7. MayBecome(p, c, record)
  BY <1>1, <1>4, RecordFits DEF MayBecome
<1>8. ASSUME alone' PROVE alone /\ MayBecomeAlone(p, c, record)
  BY <1>1, <1>4, <1>5, <1>6, <1>8, CommandFitsAlone DEF MayBecomeAlone
<1>9. record \in RecordType
  BY RecordFits
<1>. QED
  BY <1>4, <1>5, <1>6, <1>7, <1>8, <1>9, CommandMoves

\* The ledger says what became of an operation that was sent.
LEMMA SettleIInv == ASSUME IInv, NEW p \in Procs, Settle(p) PROVE IInv'
<1>1. PICK c \in CliType : /\ c.at \in {"verified", "begin"} /\ c.op = cli[p].op
                           /\ c.fence = cli[p].fence
                           /\ cli' = [cli EXCEPT ![p] = c]
                           /\ c.at = "verified" => verdict[cli[p].op] = "verified"
  BY GotoFits DEF Settle, Places
<1>2. c.at = "verified" => effects[c.op] = 1
  BY <1>1, CommandFits DEF IInv, VerdictsFit
<1>3. /\ record' = record /\ cli[p].at = "settle"
      /\ alone' = alone /\ UNCHANGED <<note, wire, native>>
  BY DEF Settle, At
<1>4. MayBecome(p, c, record)
  BY <1>1, <1>2, RecordFits, CommandFits DEF MayBecome
<1>5. ASSUME alone' PROVE alone /\ MayBecomeAlone(p, c, record)
  BY <1>1, <1>3, <1>5, CommandFitsAlone DEF MayBecomeAlone
<1>6. alone' \in BOOLEAN /\ record \in RecordType
  BY <1>3, RecordFits DEF IInv, Types
<1>. QED
  BY <1>1, <1>3, <1>4, <1>5, <1>6, CommandMoves

\* What came of the operation is recorded where the record still says it was sent.
LEMMA RecordIInv ==
    ASSUME IInv, NEW p \in Procs, RecordVerified(p) \/ RecordRefused(p) PROVE IInv'
<1>1. PICK o \in Ops : o = cli[p].op
  BY CommandFits
<1>2. PICK s \in States :
        \/ /\ RecordVerified(p) /\ s = (IF o = 0 THEN "deleted" ELSE "restored")
        \/ /\ RecordRefused(p) /\ s = (IF o = 0 THEN "intent" ELSE "deleted")
  BY DEF States
<1>3. Done[o] = (IF o = 0 THEN "deleted" ELSE "restored")
      /\ Refused[o] = (IF o = 0 THEN "intent" ELSE "deleted")
      /\ Sent[o] = (IF o = 0 THEN "sent" ELSE "restore_sent")
  BY <1>1 DEF Done, Refused, Sent
<1>4. CompareAndSet(Sent[o], s) /\ record.state = Sent[o]
  BY <1>1, <1>2, <1>3 DEF RecordVerified, RecordRefused, CompareAndSet
<1>5. PICK new \in RecordType : /\ new.state = s /\ new.restore = record.restore
                                /\ record' = new
  BY <1>4, StateFits
<1>6. PICK c \in CliType : c = Idle
  BY StartTypes
<1>7. c.at = "idle" /\ c.op = 0 /\ c.fence = 0
  BY <1>6 DEF Idle
<1>8. /\ cli' = [cli EXCEPT ![p] = c] /\ alone' = alone /\ UNCHANGED <<note, wire, native>>
      /\ cli[p].at # "idle"
      /\ RecordVerified(p) => cli[p].at = "verified"
      /\ RecordRefused(p) => cli[p].at = "refused"
  BY <1>2, <1>6 DEF RecordVerified, RecordRefused, Return, At
<1>9. RecordVerified(p) => effects[o] = 1
  BY <1>1, <1>8, CommandFits
<1>10. /\ o = 0 => record.state = "sent" /\ record.restore = 0
       /\ o # 0 => record.state = "restore_sent" /\ o \in Restores /\ effects[Delete] = 1
  BY <1>1, <1>3, <1>4, RecordFits DEF Over
<1>11. MayBecome(p, c, new)
  <2>1. /\ new.state \in Over => effects[Delete] = 1
        /\ new.state = "restored" => \E r \in Restores : effects[r] = 1
    BY <1>2, <1>5, <1>9, <1>10 DEF Over
  <2>2. new.restore > 0 => new.state \in Over
    BY <1>2, <1>5, <1>10 DEF Over
  <2>. QED
    BY <1>5, <1>7, <2>1, <2>2, RecordFits DEF MayBecome
<1>12. ASSUME alone' PROVE alone /\ MayBecomeAlone(p, c, new)
  <2>1. alone
    BY <1>8, <1>12
  <2>2. \A q \in Procs : cli[q].at # "idle" => q = p
    BY <2>1, <1>8, CommandFitsAlone
  <2>3. \A r \in Restores : r < new.restore => Dead(r)
    BY <1>5, <2>1, CommandFitsAlone
  <2>4. ASSUME NEW r \in Restores, r = new.restore, new.state = "deleted" PROVE Dead(r)
    <3>1. o # 0
      BY <1>5, <1>10, <2>4
    <3>2. RecordRefused(p)
      BY <1>2, <1>5, <2>4, <3>1
    <3>3. cli[p].at = "refused" /\ cli[p].op # Delete
      BY <1>1, <1>8, <3>1, <3>2
    <3>4. Dead(cli[p].op) /\ cli[p].op = record.restore
      BY <2>1, <3>3, CommandFitsAlone
    <3>5. r = cli[p].op
      BY <1>5, <2>4, <3>4
    <3>. QED
      BY <3>4, <3>5
  <2>. QED
    BY <1>7, <2>1, <2>2, <2>3, <2>4 DEF MayBecomeAlone
<1>13. alone' \in BOOLEAN
  BY <1>8 DEF IInv, Types
<1>. QED
  BY <1>5, <1>6, <1>8, <1>11, <1>12, <1>13, CommandMoves

-----------------------------------------------------------------------------
(* The steps of the companion, and the requests                            *)

\* Effects stay: what the record says stays true as long as it stays.
LEMMA RecordStaysTrue ==
    ASSUME IInv, Types', record' = record,
           \A o \in Ops : effects[o] = 1 => effects'[o] = 1
    PROVE  RecordIsTrue'
BY DEF IInv, RecordIsTrue

\* A step of the companion: no command notices.
LEMMA CompanionMoves ==
    ASSUME IInv, Types', UNCHANGED <<record, cli, alone>>, owner'.fence = owner.fence,
           wire' \subseteq wire, VerdictsFit',
           \A o \in Ops : verdict'[o] # "absent" => o =< record.restore,
           \A o \in Ops : effects[o] = 1 => effects'[o] = 1,
           \A o \in Ops : Dead(o) => Dead(o)'
    PROVE  IInv'
<1>1. RecordIsTrue'
  BY RecordStaysTrue
<1>2. NumbersFit'
  BY DEF IInv, NumbersFit
<1>3. CommandsFit'
  <2>1. \A p \in Procs : cli[p].op \in Ops
    BY CommandFits
  <2>. QED
    BY <2>1 DEF IInv, CommandsFit
<1>4. ASSUME alone' PROVE AloneFits'
  <2>1. AloneFits
    BY <1>4 DEF IInv
  <2>2. \A p \in Procs : cli[p].op \in Ops
    BY CommandFits
  <2>3. \A r \in Restores : r \in Ops
    OBVIOUS
  <2>. QED
    BY <2>1, <2>2, <2>3 DEF AloneFits
<1>. QED
  BY <1>1, <1>2, <1>3, <1>4 DEF IInv

\* Anki's user changes the note.
LEMMA ChangeIInv == ASSUME IInv, Change PROVE IInv'
<1>1. note' \in NoteType
  <2>1. PICK n \in NoteType : n = note
    BY DEF IInv, Types
  <2>2. [n EXCEPT !.content = @ + 1] \in NoteType /\ [n EXCEPT !.reviews = @ + 1] \in NoteType
    BY DEF NoteType
  <2>3. Absent \in NoteType
    BY DEF Absent, NoteType
  <2>. QED
    BY <2>1, <2>2, <2>3 DEF Change
<1>2. UNCHANGED <<record, cli, wire, alone, verdict, fenceOf, effects, owner, session>>
  BY DEF Change, native
<1>3. Types' /\ VerdictsFit'
  BY <1>1, <1>2 DEF IInv, Types, VerdictsFit
<1>4. \A o \in Ops : Dead(o) => Dead(o)'
  BY <1>2 DEF Dead
<1>5. \A o \in Ops : verdict'[o] # "absent" => o =< record.restore
  BY <1>2 DEF IInv, NumbersFit
<1>. QED
  BY <1>2, <1>3, <1>4, <1>5, CompanionMoves

\* A request is accepted from the owner that sent it, while the owner is held:
\* its operation was not dead.
LEMMA DeliverIInv == ASSUME IInv, NEW r \in wire, Deliver(r) PROVE IInv'
<1>1. r.op \in Ops /\ r.fence \in Nat /\ r.op =< record.restore
  BY DEF IInv, Types, NumbersFit
<1>2. /\ UNCHANGED <<note, record, cli, alone, effects, owner, session>>
      /\ wire' = wire \ {r}
      /\ verdict' = [verdict EXCEPT ![r.op] = "accepted"]
      /\ fenceOf' = [fenceOf EXCEPT ![r.op] = r.fence]
      /\ verdict[r.op] = "absent"
      /\ ~ owner.released /\ owner.fence = r.fence
  BY DEF Deliver, Native!Accept, Native!Holds
<1>3. Types'
  BY <1>1, <1>2 DEF IInv, Types, Native!Verdicts
<1>4. VerdictsFit'
  BY <1>1, <1>2 DEF IInv, Types, VerdictsFit
<1>5. \A o \in Ops : verdict'[o] # "absent" => o =< record.restore
  BY <1>1, <1>2 DEF IInv, Types, NumbersFit
<1>6. ASSUME NEW o \in Ops, Dead(o) PROVE Dead(o)'
  <2>1. o # r.op
    <3>1. ~ (owner.fence < owner.fence)
      BY RecordFits
    <3>. QED
      BY <1>2, <1>6, <3>1 DEF Dead
  <2>2. verdict'[o] = verdict[o]
    BY <1>2, <2>1 DEF IInv, Types
  <2>. QED
    BY <1>2, <1>6, <2>2 DEF Dead
<1>. QED
  BY <1>2, <1>3, <1>4, <1>5, <1>6, CompanionMoves

\* An operation that takes effect was accepted, and gets no other verdict for it.
LEMMA TakeEffectIInv == ASSUME IInv, NEW o \in Ops, TakeEffect(o) PROVE IInv'
<1>1. /\ UNCHANGED <<record, cli, wire, alone, verdict, fenceOf, owner, session>>
      /\ effects' = [effects EXCEPT ![o] = 1]
      /\ verdict[o] = "accepted"
  BY DEF TakeEffect, Native!TakeEffect
<1>2. note' \in NoteType
  <2>1. Absent \in NoteType
    BY DEF Absent, NoteType
  <2>2. record.evidence \in NoteType
    BY RecordFits DEF RecordType
  <2>. QED
    BY <2>1, <2>2 DEF TakeEffect
<1>3. Types'
  BY <1>1, <1>2 DEF IInv, Types
<1>4. VerdictsFit'
  BY <1>1 DEF IInv, Types, VerdictsFit
<1>5. \A p \in Ops : verdict'[p] # "absent" => p =< record.restore
  BY <1>1 DEF IInv, NumbersFit
<1>6. \A p \in Ops : effects[p] = 1 => effects'[p] = 1
  BY <1>1 DEF IInv, Types
<1>7. \A p \in Ops : Dead(p) => Dead(p)'
  BY <1>1 DEF Dead
<1>. QED
  BY <1>1, <1>3, <1>4, <1>5, <1>6, <1>7, CompanionMoves

\* A verdict is given on what was accepted.
LEMMA JudgeIInv == ASSUME IInv, NEW o \in Ops, Judge(o) PROVE IInv'
<1>1. /\ UNCHANGED <<note, record, cli, wire, alone, fenceOf, effects, owner, session>>
      /\ verdict[o] = "accepted"
  BY DEF Judge, Native!Judge
<1>2. PICK v \in {"failed", "unknown", "verified"} :
        /\ v = "failed" => effects[o] = 0
        /\ v = "verified" => effects[o] = 1
        /\ verdict' = [verdict EXCEPT ![o] = v]
  BY DEF Judge, Native!Judge, Native!Verdict
<1>3. Types'
  BY <1>1, <1>2 DEF IInv, Types, Native!Verdicts
<1>4. VerdictsFit'
  BY <1>1, <1>2 DEF IInv, Types, VerdictsFit
<1>5. \A p \in Ops : verdict'[p] # "absent" => p =< record.restore
  BY <1>1, <1>2 DEF IInv, Types, NumbersFit
<1>6. ASSUME NEW p \in Ops, Dead(p) PROVE Dead(p)'
  <2>1. p # o
    BY <1>1, <1>6 DEF Dead
  <2>2. verdict'[p] = verdict[p]
    BY <1>2, <2>1 DEF IInv, Types
  <2>. QED
    BY <1>1, <1>6, <2>2 DEF Dead
<1>. QED
  BY <1>1, <1>3, <1>4, <1>5, <1>6, CompanionMoves

\* A new owner fences every request that is under way, and leaves no operation
\* accepted.
LEMMA BeginIInv == ASSUME IInv, NEW p \in Procs, Begin(p) PROVE IInv'
<1>1. PICK f \in Nat : f = owner.fence + 1 /\ f > owner.fence
  <2>1. owner.fence + 1 \in Nat /\ owner.fence + 1 > owner.fence
    BY RecordFits
  <2>. QED
    BY <2>1
<1>2. /\ UNCHANGED <<note, record, wire, gone, alone, fenceOf, effects, session>>
      /\ cli' = [cli EXCEPT ![p].at = "send", ![p].fence = f]
      /\ owner' = [fence |-> f, session |-> session, released |-> FALSE]
      /\ cli[p].at = "begin"
  BY <1>1 DEF Begin, Native!Begin, At
<1>3. PICK lost \in [{o \in Ops : verdict[o] = "accepted"} -> {"failed", "unknown"}] :
        /\ \A o \in DOMAIN lost : lost[o] \in Native!Verdict(o)
        /\ verdict' = [o \in Ops |-> IF verdict[o] = "accepted" THEN lost[o] ELSE verdict[o]]
  BY DEF Begin, Native!Begin
<1>4. ASSUME NEW o \in Ops
      PROVE  /\ verdict[o] # "accepted" => verdict'[o] = verdict[o]
             /\ verdict[o] = "accepted" => /\ verdict'[o] \in {"failed", "unknown"}
                                           /\ verdict'[o] = "failed" => effects[o] = 0
  BY <1>3 DEF Native!Verdict
<1>5. verdict' \in [Ops -> Native!Verdicts]
  <2>1. \A o \in Ops : verdict'[o] \in Native!Verdicts
    BY <1>4 DEF IInv, Types, Native!Verdicts
  <2>. QED
    BY <1>3, <2>1
<1>6. PICK c \in CliType : /\ c.at = "send" /\ c.op = cli[p].op /\ c.fence = f
                           /\ cli' = [cli EXCEPT ![p] = c]
  <2>1. PICK d \in CliType : d = cli[p]
    BY CommandFits
  <2>2. PICK c : c = [d EXCEPT !.at = "send", !.fence = f]
    OBVIOUS
  <2>3. c \in CliType /\ c.at = "send" /\ c.op = d.op /\ c.fence = f
    BY <2>2 DEF CliType, Places
  <2>4. cli' = [cli EXCEPT ![p] = c]
    BY <1>2, <2>1, <2>2 DEF IInv, Types
  <2>. QED
    BY <2>1, <2>3, <2>4
<1>7. cli'[p] = c /\ \A q \in Procs : q # p => cli'[q] = cli[q]
  BY <1>6 DEF IInv, Types
<1>8. owner'.fence = f /\ owner' \in [fence : Nat, session : Nat, released : BOOLEAN]
  BY <1>2 DEF IInv, Types
<1>9. Types'
  <2>1. cli' \in [Procs -> CliType]
    BY <1>6 DEF IInv, Types
  <2>2. owner' \in [fence : Nat, session : Nat, released : BOOLEAN]
    BY <1>8
  <2>. QED
    BY <1>2, <1>5, <2>1, <2>2, ZenonT(60) DEF IInv, Types
<1>10. VerdictsFit'
  BY <1>2, <1>4 DEF IInv, VerdictsFit
<1>11. RecordIsTrue'
  BY <1>2, <1>9, RecordStaysTrue
<1>12. NumbersFit'
  <2>1. \A o \in Ops : verdict'[o] # "absent" => o =< record.restore
    BY <1>4 DEF IInv, NumbersFit
  <2>2. \A r \in wire : r.op =< record.restore /\ r.fence =< f
    <3>1. \A r \in wire : r.fence \in Nat /\ r.fence =< owner.fence /\ r.op =< record.restore
      BY DEF IInv, Types, NumbersFit
    <3>. QED
      BY <1>1, <3>1, RecordFits
  <2>3. \A q \in Procs : cli'[q].op =< record.restore /\ cli'[q].fence =< f
    <3>1. \A q \in Procs : cli[q].fence \in Nat /\ cli[q].fence =< owner.fence
                           /\ cli[q].op =< record.restore
      BY CommandFits DEF CliType
    <3>. QED
      BY <1>1, <1>6, <1>7, <3>1, RecordFits
  <2>. QED
    BY <1>2, <1>8, <2>1, <2>2, <2>3 DEF IInv, NumbersFit
<1>13. CommandsFit'
  BY <1>2, <1>6, <1>7, ZenonT(60) DEF IInv, CommandsFit
<1>14. ASSUME NEW o \in Ops, Dead(o) PROVE Dead(o)'
  <2>1. CASE verdict[o] = "failed"
    BY <1>4, <2>1 DEF Dead
  <2>2. CASE verdict[o] = "absent"
    <3>1. verdict'[o] = "absent"
      BY <1>4, <2>2
    <3>2. \A r \in wire : r.fence < f
      <4>1. \A r \in wire : r.fence \in Nat /\ r.fence =< owner.fence
        BY DEF IInv, Types, NumbersFit
      <4>. QED
        BY <1>1, <4>1, RecordFits
    <3>. QED
      BY <1>2, <1>8, <3>1, <3>2 DEF Dead
  <2>. QED
    BY <1>14, <2>1, <2>2 DEF Dead
<1>15. ASSUME alone' PROVE AloneFits'
  <2>1. alone
    BY <1>2, <1>15
  <2>2. \A q \in Procs : q # p => cli'[q].at = "idle"
    BY <1>2, <1>7, <2>1, CommandFitsAlone
  <2>3. c.op # Delete => record.state = "restore_sent" /\ c.op = record.restore
    BY <1>2, <1>6, <2>1, CommandFitsAlone
  <2>4. \A r \in Restores :
          r < record.restore \/ (r = record.restore /\ record.state = "deleted") => Dead(r)'
    <3>1. \A r \in Restores : r \in Ops
      OBVIOUS
    <3>. QED
      BY <1>14, <2>1, <3>1 DEF IInv, AloneFits
  <2>. QED
    BY <1>2, <1>6, <1>7, <1>8, <2>2, <2>3, <2>4, ZenonT(60) DEF AloneFits
<1>. QED
  BY <1>9, <1>10, <1>11, <1>12, <1>13, <1>15 DEF IInv

\* A request is sent for the operation the record names, which is not refused.
LEMMA SendIInv == ASSUME IInv, NEW p \in Procs, Send(p) PROVE IInv'
<1>1. PICK c \in CliType : /\ c.at = "wait" /\ c.op = cli[p].op /\ c.fence = cli[p].fence
                           /\ cli' = [cli EXCEPT ![p] = c]
  BY GotoFits DEF Send, Places
<1>2. cli'[p] = c /\ \A q \in Procs : q # p => cli'[q] = cli[q]
  BY <1>1 DEF IInv, Types
<1>3. PICK r \in [op : Ops, fence : Nat] : r.op = c.op /\ r.fence = c.fence
                                            /\ wire' = wire \cup {r}
  <2>1. PICK r : r = [op |-> cli[p].op, fence |-> cli[p].fence]
    OBVIOUS
  <2>2. cli[p].op \in Ops /\ cli[p].fence \in Nat
    BY CommandFits DEF CliType
  <2>3. wire' = wire \cup {r}
    BY <2>1 DEF Send
  <2>. QED
    BY <1>1, <2>1, <2>2, <2>3
<1>4. /\ UNCHANGED <<note, record, gone, alone, verdict, fenceOf, effects, owner, session>>
      /\ cli[p].at = "send"
  BY DEF Send, At, native
<1>5. Types' /\ VerdictsFit'
  BY <1>1, <1>3, <1>4 DEF IInv, Types, VerdictsFit
<1>6. RecordIsTrue'
  BY <1>4, <1>5, RecordStaysTrue
<1>7. NumbersFit'
  <2>1. c.op =< record.restore /\ c.fence =< owner.fence
    BY <1>1, CommandFits
  <2>. QED
    BY <1>2, <1>3, <1>4, <2>1 DEF IInv, NumbersFit
<1>8. CommandsFit'
  BY <1>1, <1>2, <1>4 DEF IInv, CommandsFit
<1>9. ASSUME alone' PROVE AloneFits'
  <2>1. alone
    BY <1>4, <1>9
  <2>2. \A q \in Procs : q # p => cli'[q].at = "idle"
    BY <1>2, <1>4, <2>1, CommandFitsAlone
  <2>3. /\ c.op # Delete => record.state = "restore_sent" /\ c.op = record.restore
        /\ c.fence = owner.fence
    BY <1>1, <1>4, <2>1, CommandFitsAlone
  <2>4. ASSUME NEW o \in Ops, o # c.op, Dead(o) PROVE Dead(o)'
    BY <1>3, <1>4, <2>4 DEF Dead
  <2>5. ASSUME NEW o \in Restores,
               o < record.restore \/ (o = record.restore /\ record.state = "deleted")
        PROVE  Dead(o)'
    <3>1. Dead(o)
      BY <2>1, <2>5, CommandFitsAlone
    <3>2. o # c.op
      BY <2>3, <2>5, RecordFits
    <3>. QED
      BY <2>4, <3>1, <3>2
  <2>. QED
    BY <1>1, <1>2, <1>4, <2>2, <2>3, <2>5 DEF AloneFits
<1>. QED
  BY <1>5, <1>6, <1>7, <1>8, <1>9 DEF IInv

\* The answer of the companion ends the owner; a refused operation is dead.
LEMMA AnsweredIInv == ASSUME IInv, NEW p \in Procs, Answered(p) PROVE IInv'
<1>1. PICK c \in CliType : /\ c.at \in {"verified", "refused"} /\ c.op = cli[p].op
                           /\ c.fence = cli[p].fence
                           /\ cli' = [cli EXCEPT ![p] = c]
                           /\ c.at = "verified" => verdict[c.op] = "verified"
                           /\ c.at = "refused" => verdict[c.op] \in {"absent", "failed"}
  BY GotoFits DEF Answered, Places, Refusal
<1>2. cli'[p] = c /\ \A q \in Procs : q # p => cli'[q] = cli[q]
  BY <1>1 DEF IInv, Types
<1>3. /\ UNCHANGED <<note, record, gone, alone, verdict, fenceOf, effects, session>>
      /\ wire' \subseteq wire /\ cli[p].at = "wait"
      /\ owner' = owner \/ owner' = [owner EXCEPT !.released = TRUE]
      /\ owner.fence = cli[p].fence => owner' = [owner EXCEPT !.released = TRUE]
  BY DEF Answered, At, native, Native!End
<1>4. PICK old \in [fence : Nat, session : Nat, released : BOOLEAN] : old = owner
  BY DEF IInv, Types
<1>5. /\ owner' \in [fence : Nat, session : Nat, released : BOOLEAN]
      /\ owner'.fence = owner.fence
      /\ owner.released => owner'.released
      /\ owner.fence = cli[p].fence => owner'.released
  BY <1>3, <1>4
<1>6. Types'
  BY <1>1, <1>3, <1>5 DEF IInv, Types
<1>7. VerdictsFit'
  BY <1>3 DEF IInv, VerdictsFit
<1>8. RecordIsTrue'
  BY <1>3, <1>6, RecordStaysTrue
<1>9. NumbersFit'
  BY <1>1, <1>2, <1>3, <1>5, CommandFits DEF IInv, NumbersFit
<1>10. CommandsFit'
  BY <1>1, <1>2, <1>3 DEF IInv, CommandsFit, VerdictsFit, CliType
<1>11. ASSUME NEW o \in Ops, Dead(o) PROVE Dead(o)'
  BY <1>3, <1>5, <1>11 DEF Dead
<1>12. ASSUME alone' PROVE AloneFits'
  <2>1. alone
    BY <1>3, <1>12
  <2>2. \A q \in Procs : q # p => cli'[q].at = "idle"
    BY <1>2, <1>3, <2>1, CommandFitsAlone
  <2>3. c.op # Delete => record.state = "restore_sent" /\ c.op = record.restore
    BY <1>1, <1>3, <2>1, CommandFitsAlone
  <2>4. owner'.released
    BY <1>3, <1>5, <2>1, CommandFitsAlone
  <2>5. c.at = "refused" => Dead(c.op)'
    BY <1>1, <1>3, <2>4 DEF Dead
  <2>6. \A r \in Restores :
          r < record.restore \/ (r = record.restore /\ record.state = "deleted") => Dead(r)'
    <3>1. \A r \in Restores : r \in Ops
      OBVIOUS
    <3>. QED
      BY <1>11, <2>1, <3>1 DEF IInv, AloneFits
  <2>. QED
    BY <1>1, <1>2, <1>3, <2>2, <2>3, <2>5, <2>6 DEF AloneFits
<1>. QED
  BY <1>6, <1>7, <1>8, <1>9, <1>10, <1>12 DEF IInv

-----------------------------------------------------------------------------
(* The theorems                                                            *)

LEMMA InitIInv == ASSUME Init PROVE IInv
<1>1. cli = [p \in Procs |-> Idle] /\ record = NoRecord
  BY DEF Init
<1>2. \A p \in Procs : cli[p] \in CliType /\ cli[p].at = "idle" /\ cli[p].op = 0
                       /\ cli[p].fence = 0
  BY <1>1, StartTypes DEF Idle
<1>3. record \in RecordType /\ record.state = "none" /\ record.restore = 0
  BY <1>1, StartTypes DEF NoRecord
<1>4. /\ wire = {} /\ owner.fence = 0 /\ verdict = [o \in Ops |-> "absent"]
      /\ effects = [o \in Ops |-> 0]
  BY DEF Init
<1>5. note \in NoteType
  BY DEF Init, NoteType
<1>6. Types
  BY <1>1, <1>2, <1>3, <1>4, <1>5 DEF Init, Types, Native!Verdicts
<1>7. VerdictsFit
  BY <1>4 DEF VerdictsFit
<1>8. NumbersFit
  BY <1>2, <1>3, <1>4 DEF NumbersFit
<1>9. CommandsFit /\ RecordIsTrue
  BY <1>2, <1>3 DEF CommandsFit, RecordIsTrue
<1>10. AloneFits
  BY <1>2, <1>3 DEF AloneFits
<1>. QED
  BY <1>6, <1>7, <1>8, <1>9, <1>10 DEF IInv

\* The inductive invariant holds in every state of every behaviour.
THEOREM Invariant == Spec => []IInv
<1>1. IInv /\ [Next]_vars => IInv'
  <2>. SUFFICES ASSUME IInv, [Next]_vars PROVE IInv'
    OBVIOUS
  <2>1. CASE Change
    BY <2>1, ChangeIInv
  <2>2. ASSUME NEW p \in Procs, Stop(p) PROVE IInv'
    BY <2>2, StopIInv
  <2>3. ASSUME NEW p \in Procs, ReadEvidence(p) \/ FindDeletion(p) PROVE IInv'
    BY <2>3, DeleteMoves
  <2>4. ASSUME NEW p \in Procs, RecordDeletion(p) PROVE IInv'
    BY <2>4, RecordDeletionIInv
  <2>5. ASSUME NEW p \in Procs, MarkSent(p) PROVE IInv'
    BY <2>5, MarkSentIInv
  <2>6. ASSUME NEW p \in Procs, StartRestore(p) PROVE IInv'
    BY <2>6, StartRestoreIInv
  <2>7. ASSUME NEW p \in Procs, ResumeRestore(p) PROVE IInv'
    BY <2>7, ResumeRestoreIInv
  <2>8. ASSUME NEW p \in Procs, Settle(p) PROVE IInv'
    BY <2>8, SettleIInv
  <2>9. ASSUME NEW p \in Procs, Begin(p) PROVE IInv'
    BY <2>9, BeginIInv
  <2>10. ASSUME NEW p \in Procs, Send(p) PROVE IInv'
    BY <2>10, SendIInv
  <2>11. ASSUME NEW p \in Procs, Answered(p) PROVE IInv'
    BY <2>11, AnsweredIInv
  <2>12. ASSUME NEW p \in Procs, RecordVerified(p) \/ RecordRefused(p) PROVE IInv'
    BY <2>12, RecordIInv
  <2>13. ASSUME NEW r \in wire, Deliver(r) PROVE IInv'
    BY <2>13, DeliverIInv
  <2>14. ASSUME NEW o \in Ops, TakeEffect(o) PROVE IInv'
    BY <2>14, TakeEffectIInv
  <2>15. ASSUME NEW o \in Ops, Judge(o) PROVE IInv'
    BY <2>15, JudgeIInv
  <2>16. CASE UNCHANGED vars
    <3>1. UNCHANGED <<note, record, cli, wire, alone, verdict, fenceOf, effects, owner, session>>
      BY <2>16 DEF vars, native
    <3>2. Types' /\ VerdictsFit'
      BY <3>1 DEF IInv, Types, VerdictsFit
    <3>3. \A o \in Ops : Dead(o) => Dead(o)'
      BY <3>1 DEF Dead
    <3>4. \A o \in Ops : verdict'[o] # "absent" => o =< record.restore
      BY <3>1 DEF IInv, NumbersFit
    <3>. QED
      BY <3>1, <3>2, <3>3, <3>4, CompanionMoves
  <2>. QED
    BY <2>1, <2>2, <2>3, <2>4, <2>5, <2>6, <2>7, <2>8, <2>9, <2>10, <2>11, <2>12, <2>13,
       <2>14, <2>15, <2>16 DEF Next
<1>. QED
  BY <1>1, InitIInv, PTL DEF Spec

\* A deletion recorded as done or undone was done or undone, whoever runs the
\* commands at once and wherever they die.
THEOREM RecordIsTrueHolds == Spec => []RecordIsTrue
<1>1. IInv => RecordIsTrue
  BY DEF IInv
<1>. QED
  BY <1>1, Invariant, PTL

\* As long as no two commands ran at once, one restore operation at most brings
\* the note back: an operation that had its effect is the one the record names.
THEOREM RestoredOnceHolds == Spec => []RestoredOnce
<1>1. IInv => RestoredOnce
  <2>. SUFFICES ASSUME IInv, alone, NEW a \in Restores, NEW b \in Restores,
                       effects[a] = 1, effects[b] = 1
                PROVE  a = b
    BY DEF RestoredOnce
  <2>1. ASSUME NEW o \in Restores, effects[o] = 1 PROVE o = record.restore
    <3>1. o \in Ops /\ verdict[o] \notin {"absent", "failed"}
      BY <2>1 DEF IInv, VerdictsFit
    <3>2. o =< record.restore
      BY <3>1 DEF IInv, NumbersFit
    <3>3. ~ Dead(o)
      BY <3>1 DEF Dead
    <3>4. ~ (o < record.restore)
      BY <3>3 DEF IInv, AloneFits
    <3>. QED
      BY <3>2, <3>4, RecordFits
  <2>2. a = record.restore
    BY <2>1
  <2>3. b = record.restore
    BY <2>1
  <2>. QED
    BY <2>2, <2>3
<1>. QED
  BY <1>1, Invariant, PTL

=============================================================================
