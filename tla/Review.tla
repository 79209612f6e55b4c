------------------------------- MODULE Review --------------------------------
(***************************************************************************)
(* Reviewing a plan: the decisions that settle the issues of its documents  *)
(* (core/review.rs), one at a time or as a batch (review/batch.rs), a batch  *)
(* filled by a reviewer or by the campaign's policy (review/policy.rs); the *)
(* edits, drafts, regenerations, duplicate reports, merged notes and        *)
(* bindings that publish revisions of the same plan in between; and the     *)
(* approval of what is ready (approval.rs).                                 *)
(*                                                                         *)
(* A decision settles its issue for the digest of the document it was made  *)
(* on.  Some decisions write content, and so move the digest under every    *)
(* other decision of the document: each kind says which of them it carries  *)
(* along, which it drops and which it leaves behind.  Every change of a     *)
(* plan is a new revision, stored only on top of the newest one.            *)
(***************************************************************************)
EXTENDS Integers, FiniteSets, SequencesExt

CONSTANTS
    Docs,           \* the documents of the plan
    Due,            \* the issues each document has when it is captured
    Procs,          \* the processes that run `plans resolve-batch` or draft all items
    Files,          \* the orders in which a decisions file may list the kinds
    MaxPasses,      \* MAX_PASSES
    Chunk,          \* how many drafts are published together
    MaxRevisions,   \* bound: the revision the last command starts from
    MaxChanges,     \* bound: changes of one document's text, sources or evidence
    MaxLeftOut      \* bound: open issues of the document a batch says nothing of

\* The issues, named for the decision that closes them.
Roles == {"role1", "role2"}                       \* a source image's role
Kinds == Roles \cup
    {"missing", "html", "field", "history", "media", "sense", "cue", "fact", "claim",
     "duplicate", "segmentation"}

ASSUME ReviewAssumption ==
    /\ Due \in [Docs -> SUBSET Kinds]
    /\ \A file \in Files : ToSet(file) = Kinds
    /\ Chunk \in Nat \ {0}
    /\ MaxPasses \in Nat /\ MaxLeftOut \in Nat /\ MaxRevisions \in Nat /\ MaxChanges \in Nat

\* Issues that stages observed: they are stored with the document and open
\* again unless a decision settles them.  The others are recomputed.
\* The first are there when the review begins.
Captured == Roles \cup {"missing", "html", "field", "history", "media", "segmentation"}
Observations == Captured \cup {"duplicate"}
\* Decisions that write content: a role, a sense, the region that is the
\* pattern, a prompt, a task map, a chosen candidate; a claim that is rejected
\* is removed.
Writes == Roles \cup {"sense", "segmentation", "cue", "history", "media", "claim"}
\* Issues that the content closes by itself, without a decision to keep.
ByContent == {"cue", "claim"}
\* Decisions that change what the document is about.
Clearing == Roles \cup {"segmentation"}

SourceOnly == Roles \cup {"html"}
Rebindable == SourceOnly \cup
    {"missing", "history", "media", "sense", "duplicate", "segmentation"}
\* The policy has no rule for these, or leaves them to the agent.
AgentDecides == {"cue", "segmentation", "duplicate"}
\* It may also find no answer to these: an image of no known class, readings that
\* match no sense, no candidate to take.
MayBeUnsure == Roles \cup {"sense", "media", "fact"}

VARIABLES
    head,       \* the newest revision of the plan: its number and its documents
    approved,   \* the documents approved, each as it was
    batch       \* the batch each process applies

reviewVars == <<head, approved, batch>>

Staged(d) == [content |-> [done |-> {}, text |-> 0],
              seen    |-> Due[d] \cap Captured,
              reviews |-> {}]
NoBatch == [at |-> "idle", docs |-> [d \in Docs |-> Staged(d)], on |-> 0,
            all |-> <<>>, queue |-> <<>>, pass |-> 0]

ReviewInit ==
    /\ head = [number |-> 1, docs |-> [d \in Docs |-> Staged(d)]]
    /\ approved = {}
    /\ batch = [p \in Procs |-> NoBatch]

-----------------------------------------------------------------------------
(* Open issues. *)

\* The semantic digest covers the content, not the decisions and the issues.
Raised(d, doc, k) ==
    /\ k \in Due[d]
    /\ k \in Observations => k \in doc.seen
    /\ k \in ByContent => k \notin doc.content.done

Settles(r, doc) ==
    /\ r.input = doc.content
    /\ r.issue \in Writes => r.issue \in doc.content.done

Open(d, doc, k) ==
    /\ Raised(d, doc, k)
    /\ \A r \in doc.reviews : r.issue = k => ~Settles(r, doc)

OpenIssues(d, doc) == {k \in Due[d] : Open(d, doc, k)}
Ready(d, doc) == OpenIssues(d, doc) = {}

-----------------------------------------------------------------------------
(* One decision on one document. *)

\* What a decision writes.  Every answer to one kind is the same here: a kind
\* decided again with another answer would move the digest once more and, for a
\* role, drop the decisions, as an edit does.
Written(content, k) ==
    IF k \in Writes THEN [content EXCEPT !.done = @ \cup {k}] ELSE content

\* (Mutant) Setting the role again drops the decisions although nothing changed.
SurvivorsOfAnyRole(doc, k) ==
    CASE k \in Clearing -> {}
      [] k = "cue"   -> {r \in doc.reviews : r.issue \in Rebindable}
      [] k = "sense" -> {r \in doc.reviews : r.issue \in SourceOnly}
      [] OTHER       -> doc.reviews

\* The decisions that outlive decision k: a role or an identity that changes
\* the document drops them all, a repaired cue those that are not rechecked, a sense those
\* that are not about the source.
Survivors(doc, k) ==
    CASE k \in Clearing -> IF Written(doc.content, k) = doc.content THEN doc.reviews ELSE {}
      [] k = "cue"   -> {r \in doc.reviews : r.issue \in Rebindable}
      [] k = "sense" -> {r \in doc.reviews : r.issue \in SourceOnly}
      [] OTHER       -> doc.reviews

\* (Mutant) A task map takes every decision along.
FollowsAny(doc, k, r) ==
    \/ r.issue \in IF k = "sense" THEN SourceOnly ELSE Rebindable
    \/ k = "history"

\* Those that move to the new digest: what is checked against the document
\* again, and, with a task map, all that was bound to the digest before it.
Follows(doc, k, r) ==
    \/ r.issue \in IF k = "sense" THEN SourceOnly ELSE Rebindable
    \/ k = "history" /\ r.input = doc.content

Rebound(doc, k) ==
    {[r EXCEPT !.input = IF Follows(doc, k, r) THEN Written(doc.content, k) ELSE @]
        : r \in Survivors(doc, k)}

\* The document with decision k on it; what followed and no longer settles its
\* issue is dropped.
Decided(d, doc, k) ==
    LET now == [doc EXCEPT !.content = Written(@, k), !.reviews = Rebound(doc, k)]
        kept == {r \in now.reviews : r.issue \in Rebindable => ~Open(d, now, r.issue)}
    IN  [now EXCEPT !.reviews =
            kept \cup {[issue |-> k, input |-> now.content, made |-> now.content]}]

-----------------------------------------------------------------------------
(* Commands that publish one child revision. *)

Publish(docs) ==
    /\ head.number < MaxRevisions
    /\ head' = [number |-> head.number + 1, docs |-> docs]

\* `plans resolve`, on the newest revision.
Resolve(d, k) ==
    /\ Open(d, head.docs[d], k)
    /\ Publish([head.docs EXCEPT ![d] = Decided(d, @, k)])
    /\ UNCHANGED <<approved, batch>>

\* Every document of the child gets its issues computed again, and an
\* observation that a decision settles is not among them.
Validated(d, doc) == [doc EXCEPT !.seen = {k \in @ : Open(d, doc, k)}]

Changed(content) == [content EXCEPT !.text = @ + 1]
Cleared(content, kinds) == [content EXCEPT !.done = @ \ kinds]

\* `plans edit` changes the text of one document and drops its decisions.
Edited(doc) == [doc EXCEPT !.content = Changed(@), !.reviews = {}]

Edit(d) ==
    LET edited == [head.docs EXCEPT ![d] = Edited(@)]
    IN  /\ head.docs[d].content.text < MaxChanges
        /\ Publish([e \in Docs |-> Validated(e, edited[e])])
        /\ UNCHANGED <<approved, batch>>

\* The document with new content: of its decisions those about the source
\* alone move to it, while they settle their issues there.
WithSourceDecisions(d, doc, content) ==
    LET new == [doc EXCEPT !.content = content,
                    !.reviews = {[r EXCEPT !.input = content]
                                    : r \in {s \in @ : s.issue \in SourceOnly}}]
    IN  [new EXCEPT !.reviews = {r \in @ : ~Open(d, new, r.issue)}]

\* A generated draft fills what is empty, the facts a reviewer rejected too;
\* a decision whose observation is gone from the document goes as well.
Drafted(d, doc) ==
    LET kept == [doc EXCEPT !.reviews = {r \in @ : Raised(d, doc, r.issue)}]
    IN  WithSourceDecisions(d, kept, Cleared(Changed(doc.content), {"claim"}))

\* `plans generate`, and `plans regenerate --stage generation`.
Generate(d) ==
    /\ head.docs[d].content.text < MaxChanges
    /\ Publish([head.docs EXCEPT ![d] = Drafted(d, @)])
    /\ UNCHANGED <<approved, batch>>

\* What a stage made is cleared, and what the user chose of it only when the
\* command names it; the observations of the enrichment are forgotten.
Prepared(doc, stage, named) ==
    LET chosen == IF stage = "dictionary" THEN {"sense"} ELSE {"media"}
    IN  [doc EXCEPT !.content = Cleared(@, IF named THEN chosen ELSE {}),
                    !.seen = IF stage = "enrichment" THEN @ \ {"media"} ELSE @]

\* The stage runs again.  The dictionary brings new facts; the enrichment may
\* find candidates, and then there is one to choose.
Enriched(doc, found) ==
    [doc EXCEPT
        !.content = Cleared(Changed(@), IF found THEN {"media"} ELSE {}),
        !.seen = IF found THEN @ \cup {"media"} ELSE @]

\* `plans regenerate` of the dictionary or the enrichment stage of one document.
Regenerate(d, stage, named, found) ==
    LET doc == head.docs[d]
        new == Enriched(Prepared(doc, stage, named), found)
        kept == WithSourceDecisions(d, new, new.content)
    IN  /\ found => stage = "enrichment" /\ "media" \in Due[d]
        /\ doc.content.text < MaxChanges
        /\ Publish([head.docs EXCEPT ![d] = Validated(d, kept)])
        /\ UNCHANGED <<approved, batch>>

\* A search for duplicates that found candidate notes: its report joins the
\* evidence and asks for a decision again, whatever was decided before.
RecordDuplicates(d) ==
    LET doc == head.docs[d]
        new == [doc EXCEPT !.content = Changed(@),
                    !.seen = @ \cup {"duplicate"},
                    !.reviews = {r \in @ : r.issue # "duplicate"}]
    IN  /\ "duplicate" \in Due[d] /\ doc.content.text < MaxChanges
        /\ Publish([head.docs EXCEPT ![d] = Validated(d, new)])
        /\ UNCHANGED <<approved, batch>>

\* The notes merged into this one become its sources: decisions stay, bound to
\* the document as it was.
AddMergedNotes(d) ==
    LET new == [head.docs[d] EXCEPT !.content = Changed(@)]
    IN  /\ head.docs[d].content.text < MaxChanges
        /\ Publish([head.docs EXCEPT ![d] = Validated(d, new)])
        /\ UNCHANGED <<approved, batch>>

\* `plans bind`: the same documents and decisions, bound to the collection.
Bind ==
    /\ Publish(head.docs)
    /\ UNCHANGED <<approved, batch>>

\* `plans approve` of some ready documents of the newest revision.
Approve(items) ==
    /\ items # {}
    /\ \A d \in items : Ready(d, head.docs[d])
    /\ approved' = approved \cup {[item |-> d, doc |-> head.docs[d]] : d \in items}
    /\ UNCHANGED <<head, batch>>

-----------------------------------------------------------------------------
(* `plans resolve-batch`. *)

Rank(k) ==
    CASE k \in Roles \cup {"missing"} -> 0
      [] k \in {"sense", "segmentation", "duplicate"} -> 1
      [] k = "cue"                    -> 2
      [] k = "history"                -> 3
      [] k \in {"html", "field"}      -> 4
      [] k = "media"                  -> 5
      [] k = "claim"                  -> 6
      [] k = "fact"                   -> 7

\* The decisions of a batch, sorted by rank and, within it, as the file lists
\* them.
Ordered(kinds, file) ==
    FlattenSeq([i \in 1..8 |-> SelectSeq(file, LAMBDA k : k \in kinds /\ Rank(k) = i - 1)])

Goes(p, b) == batch' = [batch EXCEPT ![p] = b]

\* The policy decides these kinds of the document; the rest waits for the agent.
Filled(d, doc, kinds) ==
    LET rules == OpenIssues(d, doc) \ AgentDecides
    IN  kinds \subseteq rules /\ rules \ MayBeUnsure \subseteq kinds

\* The batch holds a decision for some open issues of one document: those a
\* reviewer decided, or those the policy fills.
StartBatch(p, d, kinds, file) ==
    /\ batch[p].at = "idle" /\ head.number < MaxRevisions
    /\ kinds # {} /\ kinds \subseteq OpenIssues(d, head.docs[d])
    /\ \/ Cardinality(OpenIssues(d, head.docs[d]) \ kinds) <= MaxLeftOut
       \/ Filled(d, head.docs[d], kinds)
    /\ LET order == Ordered(kinds, file)
           all == [i \in 1..Len(order) |-> [item |-> d, issue |-> order[i]]]
       IN  Goes(p, [at |-> "apply", docs |-> head.docs, on |-> head.number,
                    all |-> all, queue |-> all, pass |-> 1])
    /\ UNCHANGED <<head, approved>>

StillOpen(b, e) == Open(e.item, b.docs[e.item], e.issue)

\* The next decision of the pass: applied in memory, or passed over when an
\* earlier one of the batch closed its issue.
ApplyNext(p) ==
    LET b == batch[p]
        e == Head(b.queue)
    IN  /\ b.at = "apply" /\ b.queue # <<>>
        /\ Goes(p, [b EXCEPT
               !.docs[e.item] = IF StillOpen(b, e) THEN Decided(e.item, @, e.issue) ELSE @,
               !.queue = Tail(@)])
        /\ UNCHANGED <<head, approved>>

\* A decision is refused: Anki does not confirm the history of the note, the sense
\* or the candidate it names is not there any more.  The batch stops there and
\* publishes what it applied before.
DecisionRefused(p) ==
    /\ batch[p].at = "apply" /\ batch[p].queue # <<>>
    /\ StillOpen(batch[p], Head(batch[p].queue))
    /\ Goes(p, [batch[p] EXCEPT !.at = "conflict"])
    /\ UNCHANGED <<head, approved>>

\* The pass is published as one revision on the newest the batch knows; then
\* the decisions whose issues are open again make the next pass.
Reopened(b) == SelectSeq(b.all, LAMBDA e : StillOpen(b, e))

FlushPass(p) ==
    LET b == batch[p]
        again == Reopened(b)
        changed == b.docs # head.docs
    IN  /\ b.at = "apply" /\ b.queue = <<>> /\ b.on = head.number
        /\ head' = IF changed THEN [number |-> b.on + 1, docs |-> b.docs] ELSE head
        /\ Goes(p, IF again = <<>> THEN NoBatch
                   ELSE IF b.pass = MaxPasses THEN [NoBatch EXCEPT !.at = "unstable"]
                   ELSE [b EXCEPT !.queue = again, !.pass = @ + 1, !.on = head'.number])
        /\ UNCHANGED approved

\* A batch that met a conflict publishes what it applied.
FlushConflict(p) ==
    LET b == batch[p]
    IN  /\ b.at = "conflict" /\ b.on = head.number
        /\ head' = IF b.docs # head.docs THEN [number |-> b.on + 1, docs |-> b.docs] ELSE head
        /\ Goes(p, NoBatch)
        /\ UNCHANGED approved

\* `plans generate --all-items`: one draft after the other in memory, a
\* revision for every chunk of them.
StartDrafts(p) ==
    /\ batch[p].at = "idle" /\ head.number < MaxRevisions
    /\ Goes(p, [NoBatch EXCEPT !.at = "draft", !.docs = head.docs, !.on = head.number,
                    !.queue = SetToSeq(Docs)])
    /\ UNCHANGED <<head, approved>>

\* The chunk is full, or there is nothing left to draft.
ChunkFull(b) == b.at = "draft" /\ (b.pass = Chunk \/ b.queue = <<>>)

\* The next document: drafted on top of the others, or every provider failed.
DraftNext(p) ==
    LET b == batch[p]
        d == Head(b.queue)
    IN  /\ b.at = "draft" /\ ~ChunkFull(b)
        /\ \/ /\ b.docs[d].content.text < MaxChanges
              /\ Goes(p, [b EXCEPT !.docs[d] = Drafted(d, @), !.queue = Tail(@), !.pass = @ + 1])
           \/ Goes(p, [b EXCEPT !.queue = Tail(@)])
        /\ UNCHANGED <<head, approved>>

FlushDrafts(p) ==
    LET b == batch[p]
    IN  /\ ChunkFull(b) /\ b.on = head.number
        /\ head' = IF b.pass > 0 THEN [number |-> b.on + 1, docs |-> b.docs] ELSE head
        /\ Goes(p, IF b.queue = <<>> THEN NoBatch
                   ELSE [b EXCEPT !.pass = 0, !.on = head'.number])
        /\ UNCHANGED approved

\* Another change was published first: nothing of the pass is stored.
FlushRefused(p) ==
    /\ \/ batch[p].at = "apply" /\ batch[p].queue = <<>>
       \/ batch[p].at = "conflict"
       \/ ChunkFull(batch[p])
    /\ batch[p].on # head.number
    /\ Goes(p, NoBatch)
    /\ UNCHANGED <<head, approved>>

\* The process is killed.
Killed(p) ==
    /\ batch[p].at \in {"apply", "conflict", "draft"}
    /\ Goes(p, NoBatch)
    /\ UNCHANGED <<head, approved>>

ReviewNext ==
    \/ \E d \in Docs, k \in Kinds : Resolve(d, k)
    \/ \E d \in Docs : Edit(d)
    \/ \E d \in Docs :
          \/ Generate(d)
          \/ \E stage \in {"dictionary", "enrichment"}, named, found \in BOOLEAN :
                Regenerate(d, stage, named, found)
          \/ RecordDuplicates(d)
          \/ AddMergedNotes(d)
    \/ Bind
    \/ \E items \in SUBSET Docs : Approve(items)
    \/ \E p \in Procs, d \in Docs, file \in Files :
          \E kinds \in SUBSET Due[d] : StartBatch(p, d, kinds, file)
    \/ \E p \in Procs :
          \/ ApplyNext(p)
          \/ DecisionRefused(p)
          \/ FlushPass(p)
          \/ FlushConflict(p)
          \/ StartDrafts(p)
          \/ DraftNext(p)
          \/ FlushDrafts(p)
          \/ FlushRefused(p)
          \/ Killed(p)

ReviewSpec == ReviewInit /\ [][ReviewNext]_reviewVars

-----------------------------------------------------------------------------
(* Properties. *)

DocOK(doc) ==
    /\ doc.content.done \subseteq Writes /\ doc.content.text \in 0..MaxChanges
    /\ doc.seen \subseteq Observations
    /\ \A r \in doc.reviews : r.issue \in Kinds

\* Types: the newest revision holds documents and the batches are where a batch
\* can be.
ReviewTypeOK ==
    /\ head.number \in Nat \ {0}
    /\ \A d \in Docs : DocOK(head.docs[d])
    /\ \A p \in Procs : batch[p].at \in {"idle", "apply", "conflict", "draft", "unstable"}

\* What the reviewer of a generated fact had before them: everything but the
\* task map, which no fact was checked against.
Facts(content) == [content EXCEPT !.done = @ \ {"history"}]

\* A decision about a generated fact or a dropped source field settles its
\* issue only in the content it was made on, however later decisions moved
\* digests: none is carried to facts its reviewer never saw (review.rs rebinds
\* decisions after a cue, a sense, a candidate or a task map).
VerifiedAsSeen ==
    \A d \in Docs : \A r \in head.docs[d].reviews :
        r.issue \in {"fact", "field"} /\ Settles(r, head.docs[d]) =>
            Facts(r.made) = Facts(head.docs[d].content)

\* Decisions of one batch undo each other's bindings, and are applied again in
\* the next pass; with the order of their ranks that always ends within the
\* passes allowed (batch.rs MAX_PASSES), whatever the file's order.
BatchStabilizes == \A p \in Procs : batch[p].at # "unstable"

\* "Resolved capture observations remain in the document ... Re-open them
\* unless a decision still proves the exact current content" (validation.rs):
\* whatever was observed at capture is decided on the content approved.
ApprovedIsReviewed ==
    \A a \in approved : \A k \in Due[a.item] \cap Captured :
        \E r \in a.doc.reviews : r.issue = k /\ Settles(r, a.doc)
=============================================================================
