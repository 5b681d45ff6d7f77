----------------------------- MODULE SearchQueue -----------------------------
(***************************************************************************)
(* The keyword search documents (src/internal/worker, catalogstore/facets, *)
(* search/documents).  A transaction that changes what a document is built *)
(* from marks the document dirty under a new revision.  Ticks of the       *)
(* search sync read dirty rows, build documents from the records outside   *)
(* any transaction, publish those whose revision is still current, and     *)
(* acknowledge them.  Ticks may overlap and fail anywhere.                 *)
(*                                                                         *)
(* Renaming an entity does not mark the documents that show it: one row    *)
(* per entity is left, which ticks expand item by item.  A backfill lists  *)
(* the records that were there before the queue.                           *)
(*                                                                         *)
(* A document here is one language of one edition, an item of its own, and *)
(* there is one entity.  A transaction that only marks is one step: the    *)
(* dirty row it locks keeps publish out until it commits.                  *)
(***************************************************************************)
EXTENDS Naturals, FiniteSets

CONSTANTS
  Ticks,       \* search syncs that may run at a time
  MaxDoc,      \* documents, in the order of the cursors
  Changes,     \* what editors do: "retitle", "hide", "drop", "join"
  Inherited,   \* whether items show the entity through a child of it
  MaxEdits,    \* bound on edits and renames
  MaxFaults,   \* bound on failed ticks
  Nothing      \* no document

ASSUME BoundAssumption ==
  MaxDoc \in Nat /\ MaxEdits \in Nat /\ MaxFaults \in Nat
ASSUME ChangeAssumption ==
  Changes \subseteq {"retitle", "hide", "drop", "join"} /\ Inherited \in BOOLEAN
ASSUME TickAssumption ==
  IsFiniteSet(Ticks) /\ Nothing \notin [title : Nat, name : Nat]

Docs == 1 .. MaxDoc

VARIABLES
  record,     \* of each document: its state, its title, whether it shows the entity
  name,       \* the entity's committed name
  renaming,   \* the open rename: "no", or whether it "leaves" a row or none ("silent")
  documents,  \* content_search_documents
  dirty,      \* content_search_dirty: each row's revision, 0 without a row
  deferred,   \* content_search_entity_dirty: the entity's row
  backfill,   \* content_search_backfill: its cursor and state
  tick,       \* what each tick knows
  edits, faults

vars == <<record, name, renaming, documents, dirty, deferred, backfill, tick,
          edits, faults>>

NoRow == [revision |-> 0, cursor |-> 0]
Start == [cursor |-> 0, state |-> "running"]
Idle ==
  [pc |-> "idle", doc |-> 0, revision |-> 0, built |-> Nothing, row |-> NoRow,
   at |-> Start, page |-> {}, done |-> FALSE]

\* BuildDocuments reads the record and the entity's name; a record that is
\* not public in this language has no document.
Built(d) ==
  IF record[d].state = "listed"
    THEN [title |-> record[d].title, name |-> IF record[d].shows THEN name ELSE 0]
    ELSE Nothing

(***************************************************************************)
(* Marks.  The trigger gives every inserted or updated row a new revision  *)
(* of a sequence.  They are only compared for equality with what a row or  *)
(* a tick holds, so the least one that nobody holds stands for the next.   *)
(***************************************************************************)
Revisions == 1 .. Cardinality(Ticks) + 2
Least(free) == CHOOSE n \in free : \A m \in free : n <= m
NewRevision(d) ==
  Least(Revisions \ ({dirty[d]} \cup {tick[t].revision : t \in {u \in Ticks : tick[u].doc = d}}))
NewRow == Least(Revisions \ ({deferred.revision} \cup {tick[t].row.revision : t \in Ticks}))

KeepsRevision(ds) ==
  [d \in Docs |-> IF d \in ds /\ dirty[d] = 0 THEN NewRevision(d) ELSE dirty[d]]
Marked(ds) == [d \in Docs |-> IF d \in ds THEN NewRevision(d) ELSE dirty[d]]

\* mark finds a document by the languages its edition has, or because it exists.
Markable(d, r) == r.state # "dropped" \/ documents[d] # Nothing

Edited(r) ==
  {[r EXCEPT !.title = @ + 1] : c \in Changes \cap {"retitle"}}
  \cup {[r EXCEPT !.state = IF @ = "listed" THEN "hidden" ELSE "listed"] : c \in Changes \cap {"hide"}}
  \cup {[r EXCEPT !.state = IF @ = "dropped" THEN "listed" ELSE "dropped"] : c \in Changes \cap {"drop"}}
  \cup {[r EXCEPT !.shows = ~ @] : c \in Changes \cap {"join"}}

\* A new membership locks its entity against a rename, not that one's ancestors.
Unlocked == renaming = "no" \/ Inherited

\* An editor changes an item and marks its documents in one transaction.
Edit(d) ==
  /\ edits < MaxEdits /\ edits' = edits + 1
  /\ \E r \in Edited(record[d]) :
       /\ r.shows /\ ~ record[d].shows => Unlocked
       /\ record' = [record EXCEPT ![d] = r]
       /\ dirty' = Marked({e \in {d} : Markable(e, r)})
  /\ UNCHANGED <<name, renaming, documents, deferred, backfill, tick, faults>>

(***************************************************************************)
(* A rename.  EntitiesRenamed decides by the facets it sees whether to     *)
(* leave a row, and the transaction commits later.                         *)
(***************************************************************************)
OpenRename ==
  /\ renaming = "no"
  /\ edits < MaxEdits /\ edits' = edits + 1
  /\ renaming' = IF \E d \in Docs : record[d].shows THEN "leaves" ELSE "silent"
  /\ UNCHANGED <<record, name, documents, dirty, deferred, backfill, tick, faults>>

\* The row takes a new revision and starts over.
GoesOn == [revision |-> NewRow, cursor |-> deferred.cursor]
StartsOver == [revision |-> NewRow, cursor |-> 0]

CommitRename ==
  /\ renaming # "no" /\ renaming' = "no"
  /\ name' = name + 1
  /\ deferred' = IF renaming = "leaves" THEN StartsOver ELSE deferred
  /\ UNCHANGED <<record, documents, dirty, backfill, tick, edits, faults>>

(***************************************************************************)
(* One tick: SyncOnce                                                      *)
(***************************************************************************)
Know(t, what) == tick' = [tick EXCEPT ![t] = what]
RecordsSame == UNCHANGED <<record, name, renaming, edits>>
Same == RecordsSame /\ UNCHANGED faults
Fault == faults < MaxFaults /\ faults' = faults + 1

\* ExpandDocuments reads the deferred row.
ReadDeferred(t) ==
  /\ tick[t].pc = "idle"
  /\ Know(t, IF deferred = NoRow THEN [Idle EXCEPT !.pc = "drain"]
             ELSE [Idle EXCEPT !.pc = "expand", !.row = deferred])
  /\ UNCHANGED <<documents, dirty, deferred, backfill>> /\ Same

\* The next item that shows the entity: a page holds one.
Shown(cursor) == {d \in Docs : d > cursor /\ record[d].shows}
First(ds) == {d \in ds : \A e \in ds : d <= e}

SameRow(row) == deferred = row

\* It marks the page's documents, and moves the row on or deletes it if it is
\* still the row it read.  An open rename holds its row.
Expand(t) ==
  /\ tick[t].pc = "expand"
  /\ renaming = "leaves" => ~ SameRow(tick[t].row)
  /\ LET row == tick[t].row
         page == First(Shown(row.cursor)) IN
     /\ dirty' = Marked({d \in page : Markable(d, record[d])})
     /\ deferred' = IF ~ SameRow(row) THEN deferred
                    ELSE IF page = {} THEN NoRow
                    ELSE [deferred EXCEPT !.cursor = CHOOSE d \in page : TRUE]
  /\ \E pc \in {"idle", "drain"} : Know(t, [Idle EXCEPT !.pc = pc])
  /\ UNCHANGED <<documents, backfill>> /\ Same

\* A batch holds one row.  The oldest come first, so any row may be next.
ReadDirty(t) ==
  /\ tick[t].pc = "drain"
  /\ IF \A d \in Docs : dirty[d] = 0
       THEN Know(t, [Idle EXCEPT !.pc = "backfill"])
       ELSE \E d \in Docs :
              /\ dirty[d] # 0
              /\ Know(t, [Idle EXCEPT !.pc = "build", !.doc = d, !.revision = dirty[d]])
  /\ UNCHANGED <<documents, dirty, deferred, backfill>> /\ Same

Build(t) ==
  /\ tick[t].pc = "build"
  /\ Know(t, [tick[t] EXCEPT !.pc = "publish", !.built = Built(tick[t].doc)])
  /\ UNCHANGED <<documents, dirty, deferred, backfill>> /\ Same

\* The next batch, until the tick's time is over.
NextBatch(t) == \E pc \in {"drain", "backfill"} : Know(t, [Idle EXCEPT !.pc = pc])

Pending(t) == dirty[tick[t].doc] # 0
Current(t) == dirty[tick[t].doc] = tick[t].revision

\* publish locks the row at the revision the tick read, and writes the document.
Publish(t) ==
  /\ tick[t].pc = "publish"
  /\ IF Current(t)
       THEN /\ documents' = [documents EXCEPT ![tick[t].doc] = tick[t].built]
            /\ Know(t, [tick[t] EXCEPT !.pc = "ack", !.built = Nothing])
       ELSE NextBatch(t) /\ UNCHANGED documents
  /\ UNCHANGED <<dirty, deferred, backfill>> /\ Same

\* ack removes the row, in a statement of its own, at that revision.
AckAnyway(t) == TRUE
MayAck(t) == Current(t)

Ack(t) ==
  /\ tick[t].pc = "ack"
  /\ dirty' = IF MayAck(t) THEN [dirty EXCEPT ![tick[t].doc] = 0] ELSE dirty
  /\ NextBatch(t)
  /\ UNCHANGED <<documents, deferred, backfill>> /\ Same

\* ListDocuments: the next public documents after the cursor; a page holds one.
Listed(cursor) == {d \in Docs : d > cursor /\ record[d].state = "listed"}

ReadBackfill(t) ==
  /\ tick[t].pc = "backfill"
  /\ LET left == Listed(backfill.cursor) IN
     Know(t, IF backfill.state = "done" THEN Idle
             ELSE [Idle EXCEPT !.pc = "listed", !.at = backfill, !.page = First(left),
                               !.done = left \subseteq First(left)])
  /\ UNCHANGED <<documents, dirty, deferred, backfill>> /\ Same

\* A page commits with a compare-and-set of its cursor; a pending row keeps
\* its revision.
Backfill(t) ==
  /\ tick[t].pc = "listed"
  /\ IF backfill = tick[t].at
       THEN /\ backfill' = [cursor |-> IF tick[t].page = {} THEN backfill.cursor
                                       ELSE CHOOSE d \in tick[t].page : TRUE,
                            state |-> IF tick[t].done THEN "done" ELSE "running"]
            /\ dirty' = KeepsRevision(tick[t].page)
       ELSE UNCHANGED <<backfill, dirty>>
  /\ Know(t, Idle)
  /\ UNCHANGED <<documents, deferred>> /\ Same

\* Listing fails: the state says so, and the tick ends.
FailBackfill(t) ==
  /\ tick[t].pc = "backfill" /\ backfill.state # "done" /\ Fault
  /\ backfill' = [backfill EXCEPT !.state = "failed"]
  /\ Know(t, Idle)
  /\ UNCHANGED <<documents, dirty, deferred>> /\ RecordsSame

\* A tick fails, or its process dies, between two of its statements.
Fail(t) ==
  /\ tick[t].pc # "idle" /\ Fault
  /\ Know(t, Idle)
  /\ UNCHANGED <<documents, dirty, deferred, backfill>> /\ RecordsSame

\* Records the queue has not seen yet; if they show the entity, a rename of it
\* left its row before the first tick.
Init ==
  /\ record = [d \in Docs |-> [state |-> "listed", title |-> 1, shows |-> ~ Inherited]]
  /\ name = 1 /\ renaming = "no"
  /\ documents = [d \in Docs |-> Nothing] /\ dirty = [d \in Docs |-> 0]
  /\ deferred = (IF Inherited THEN NoRow ELSE [revision |-> 1, cursor |-> 0]) /\ backfill = Start
  /\ tick = [t \in Ticks |-> Idle]
  /\ edits = 0 /\ faults = 0

Step(t) ==
  \/ ReadDeferred(t) \/ Expand(t) \/ ReadDirty(t) \/ Build(t) \/ Publish(t) \/ Ack(t)
  \/ ReadBackfill(t) \/ Backfill(t)

Next ==
  \/ \E d \in Docs : Edit(d)
  \/ OpenRename \/ CommitRename
  \/ \E t \in Ticks : Step(t) \/ FailBackfill(t) \/ Fail(t)

Spec == Init /\ [][Next]_vars

\* Transactions end.  A tick goes on or fails, and a periodic sync starts the
\* next one.
FairSpec == Spec /\ WF_vars(CommitRename) /\ \A t \in Ticks : WF_vars(Step(t))

(***************************************************************************)
(* Properties                                                              *)
(***************************************************************************)
PCs == {"idle", "expand", "drain", "build", "publish", "ack", "backfill", "listed"}
Builds == [title : Nat, name : Nat] \cup {Nothing}
Cursors == 0 .. MaxDoc

\* Every variable has values of its own kind; a deferred row has a revision, and
\* a tick that builds a document knows which.
TypeOK ==
  /\ record \in [Docs -> [state : {"listed", "hidden", "dropped"}, title : Nat, shows : BOOLEAN]]
  /\ name \in Nat /\ renaming \in {"no", "leaves", "silent"}
  /\ documents \in [Docs -> Builds] /\ dirty \in [Docs -> Nat]
  /\ deferred \in [revision : Nat, cursor : Cursors]
  /\ deferred.revision = 0 => deferred = NoRow
  /\ backfill \in [cursor : Cursors, state : {"running", "failed", "done"}]
  /\ tick \in [Ticks -> [pc : PCs, doc : Cursors, revision : Nat, built : Builds,
                         row : [revision : Nat, cursor : Cursors],
                         at : [cursor : Cursors, state : {"running", "failed", "done"}],
                         page : SUBSET Docs, done : BOOLEAN]]
  /\ \A t \in Ticks : tick[t].doc # 0 <=> tick[t].pc \in {"build", "publish", "ack"}
  /\ edits \in 0 .. MaxEdits /\ faults \in 0 .. MaxFaults

\* A document that is not what its record and the entity's name make of it is
\* still queued: as a dirty row, or by a rename's row or the backfill before
\* their cursors passed it.
StaleIsQueued ==
  \A d \in Docs :
    \/ documents[d] = Built(d)
    \/ dirty[d] # 0
    \/ deferred # NoRow /\ record[d].shows /\ deferred.cursor < d
    \/ backfill.state # "done" /\ backfill.cursor < d

\* The tables are well-formed and the queue covers every stale document.
QueueOK == TypeOK /\ StaleIsQueued

\* A stale build never overwrites a newer one (worker.go:113-116), as far as a
\* document's own text goes: an entity's name may go back until its deferred
\* row is expanded.
NeverOlder ==
  [][\A d \in Docs :
       documents[d] # Nothing /\ documents'[d] # Nothing =>
         documents'[d].title >= documents[d].title]_vars

\* Once editors rest and ticks stop failing, every document is what its record
\* makes of it.
EventuallyCurrent == <>[](\A d \in Docs : documents[d] = Built(d))
=============================================================================
