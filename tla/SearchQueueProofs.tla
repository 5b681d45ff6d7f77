-------------------------- MODULE SearchQueueProofs --------------------------
(***************************************************************************)
(* SearchQueue's safety for any ticks, documents, edits and faults, as far *)
(* as the marks reach.                                                     *)
(*                                                                         *)
(* The argument: a mark gives a row a revision that no tick holds, so a    *)
(* tick whose row still has the revision it read has built from the record *)
(* that is there now.  Only the entity's name may have changed since, and  *)
(* then the rename's row still has to pass the document.  A document that  *)
(* the queue has not seen is listed and before the backfill's cursor; one  *)
(* that was hidden when a page was read was marked when it was listed.     *)
(***************************************************************************)
EXTENDS SearchQueue, FiniteSetTheorems, WellFoundedInduction, TLAPS

\* The two edits whose marks miss documents: an edition that loses a language,
\* and an item that joins a child of an entity while that one is renamed.
Marking == "drop" \notin Changes /\ ("join" \in Changes => ~ Inherited)

\* A rename's row still has to reach the document.
Deferred(d) == deferred # NoRow /\ record[d].shows /\ deferred.cursor < d

\* The document is what it should be, or the queue knows that it may not be.
Known(d) == documents[d] = Built(d) \/ dirty[d] # 0 \/ Deferred(d)
Unlisted(d) == backfill.state # "done" /\ backfill.cursor < d /\ record[d].state = "listed"
Covered == \A d \in Docs : Known(d) \/ Unlisted(d)

\* What a tick holds is a row, and a build that may still be published is up to
\* date but for a name.
SameText(built, d) ==
  /\ built = Nothing <=> record[d].state # "listed"
  /\ built # Nothing => built.title = record[d].title
BuildOK(t) ==
  /\ tick[t].pc = "expand" => tick[t].row.revision # 0
  /\ tick[t].pc \in {"build", "publish", "ack"} => tick[t].revision # 0
  /\ tick[t].pc = "publish" /\ Current(t) =>
       /\ SameText(tick[t].built, tick[t].doc)
       /\ tick[t].built = Built(tick[t].doc) \/ Deferred(tick[t].doc)
  /\ tick[t].pc = "ack" /\ Current(t) =>
       documents[tick[t].doc] = Built(tick[t].doc) \/ Deferred(tick[t].doc)

\* What a page of the backfill leaves out is known, or comes after it.
PageOK(t) ==
  tick[t].pc = "listed" => \A d \in Docs : ~ Known(d) /\ tick[t].at.cursor < d =>
    /\ tick[t].page # {} /\ \A e \in tick[t].page : e <= d
    /\ tick[t].done => d \in tick[t].page

\* Titles only grow, and nothing shows an entity whose rename leaves no row.
Titles == \A d \in Docs : documents[d] # Nothing => documents[d].title <= record[d].title
Silent == renaming = "silent" => \A d \in Docs : ~ record[d].shows
Present == \A d \in Docs : record[d].state # "dropped"

TicksOK == \A t \in Ticks : BuildOK(t) /\ PageOK(t)
IInv == TypeOK /\ Covered /\ TicksOK /\ Titles /\ Silent /\ Present

(***************************************************************************)
(* Revisions and pages                                                     *)
(***************************************************************************)
\* A set of numbers has a least one.
LEMMA LeastIs ==
  ASSUME NEW S \in SUBSET Nat, S # {}
  PROVE  Least(S) \in S /\ \A m \in S : Least(S) <= m
<1> DEFINE less == OpToRel(<, Nat)
<1>1. \A m, n \in Nat : <<m, n>> \notin less => n <= m
  BY DEF OpToRel
<1> HIDE DEF less
<1>2. IsWellFoundedOn(less, Nat)
  BY NatLessThanWellFounded DEF less
<1>3. PICK n \in S : \A m \in S : ~ (<<m, n>> \in less)
  BY <1>2, WFMin
<1>4. ASSUME NEW m \in S PROVE n <= m
  <2>1. <<m, n>> \notin less /\ m \in Nat /\ n \in Nat
    BY <1>3
  <2> QED
    BY <1>1, <2>1
<1> QED
  BY <1>4 DEF Least

\* A page is the first of what is left.
LEMMA FirstIs ==
  ASSUME NEW ds \in SUBSET Docs
  PROVE  /\ First(ds) \subseteq ds
         /\ ds # {} => First(ds) # {}
         /\ \A e, f \in First(ds) : e = f
         /\ \A e \in First(ds), d \in ds : e <= d
<1> USE BoundAssumption
<1>1. ds \subseteq Nat
  BY DEF Docs
<1>2. ds # {} => Least(ds) \in First(ds)
  BY <1>1, LeastIs DEF First
<1> QED
  BY <1>1, <1>2 DEF First

\* There are more revisions than rows and ticks can hold.
Free(held, used) == Revisions \ ({held} \cup used)

LEMMA HeldByTicks ==
  ASSUME NEW T \in SUBSET Ticks, NEW rev \in [T -> Nat]
  PROVE  /\ IsFiniteSet({rev[t] : t \in T})
         /\ Cardinality({rev[t] : t \in T}) <= Cardinality(Ticks)
<1> DEFINE used == {rev[t] : t \in T}
<1>1. IsFiniteSet(T) /\ Cardinality(T) <= Cardinality(Ticks) /\ Cardinality(T) \in Nat /\ Cardinality(Ticks) \in Nat
  BY TickAssumption, FS_Subset, FS_CardinalityType
<1>2. rev \in Surjection(T, used)
  BY DEF Surjection
<1>3. IsFiniteSet(used) /\ Cardinality(used) <= Cardinality(T)
  <2> HIDE DEF used
  <2> QED
    BY <1>1, <1>2, FS_Surjection
<1>4. Cardinality(used) \in Nat
  BY <1>3, FS_CardinalityType
<1> HIDE DEF used
<1>5. IsFiniteSet(used) /\ Cardinality(used) <= Cardinality(Ticks)
  BY <1>1, <1>3, <1>4
<1> QED
  BY <1>5 DEF used

\* So one of them is free.
LEMMA SpareRevision ==
  ASSUME NEW held, NEW used, IsFiniteSet(used), Cardinality(used) <= Cardinality(Ticks)
  PROVE  Least(Free(held, used)) \in Free(held, used) /\ Free(held, used) \subseteq Nat \ {0}
<1>1. Cardinality(Ticks) \in Nat /\ Cardinality(used) \in Nat
  BY TickAssumption, FS_CardinalityType
<1>2. /\ IsFiniteSet(used \cup {held})
      /\ Cardinality(used \cup {held}) = IF held \in used THEN Cardinality(used) ELSE Cardinality(used) + 1
  BY FS_AddElement
<1>3. Cardinality(used \cup {held}) <= Cardinality(Ticks) + 1
  BY <1>1, <1>2
<1>4. Cardinality(Revisions) = Cardinality(Ticks) + 2
  <2>1. 1 \in Int /\ Cardinality(Ticks) + 2 \in Int /\ ~ (1 > Cardinality(Ticks) + 2)
    BY <1>1
  <2>2. Cardinality(1 .. Cardinality(Ticks) + 2) = (Cardinality(Ticks) + 2) - 1 + 1
    BY <2>1, FS_Interval
  <2> QED
    BY <1>1, <2>2 DEF Revisions
<1>5. Free(held, used) # {}
  <2> SUFFICES ASSUME Free(held, used) = {} PROVE FALSE
    OBVIOUS
  <2>1. Revisions \subseteq used \cup {held}
    BY DEF Free
  <2>2. Cardinality(Revisions) <= Cardinality(used \cup {held})
    BY <1>2, <2>1, FS_Subset
  <2>3. Cardinality(used \cup {held}) \in Nat
    BY <1>2, FS_CardinalityType
  <2> QED
    BY <1>1, <1>3, <1>4, <2>2, <2>3
<1>6. Free(held, used) \subseteq Nat \ {0}
  BY <1>1 DEF Revisions, Free
<1> QED
  BY <1>5, <1>6, LeastIs

LEMMA NewRevisionIs ==
  ASSUME TypeOK, NEW d \in Docs
  PROVE  /\ NewRevision(d) \in Nat \ {0} /\ NewRevision(d) # dirty[d]
         /\ \A t \in Ticks : tick[t].doc = d => tick[t].revision # NewRevision(d)
<1> DEFINE T == {u \in Ticks : tick[u].doc = d}
           rev == [t \in T |-> tick[t].revision]
           used == {tick[t].revision : t \in T}
<1>1. rev \in [T -> Nat] /\ T \in SUBSET Ticks
  BY DEF TypeOK
<1>2. {rev[t] : t \in T} = used
  OBVIOUS
<1>3. IsFiniteSet({rev[t] : t \in T}) /\ Cardinality({rev[t] : t \in T}) <= Cardinality(Ticks)
  <2> HIDE DEF rev, T
  <2> QED
    BY <1>1, HeldByTicks
<1>4. Least(Free(dirty[d], used)) \in Free(dirty[d], used) /\ Free(dirty[d], used) \subseteq Nat \ {0}
  BY <1>2, <1>3, SpareRevision
<1>5. NewRevision(d) = Least(Free(dirty[d], used))
  BY DEF NewRevision, Free
<1>6. \A t \in Ticks : tick[t].doc = d => tick[t].revision \notin Free(dirty[d], used)
  BY DEF Free
<1>7. dirty[d] \notin Free(dirty[d], used)
  BY DEF Free
<1> HIDE DEF used
<1> QED
  BY <1>4, <1>5, <1>6, <1>7

LEMMA NewRowIs ==
  ASSUME TypeOK
  PROVE  NewRow \in Nat \ {0}
<1> DEFINE rev == [t \in Ticks |-> tick[t].row.revision]
           used == {tick[t].row.revision : t \in Ticks}
<1>1. rev \in [Ticks -> Nat] /\ Ticks \in SUBSET Ticks
  BY DEF TypeOK
<1>2. {rev[t] : t \in Ticks} = used
  OBVIOUS
<1>3. IsFiniteSet({rev[t] : t \in Ticks}) /\ Cardinality({rev[t] : t \in Ticks}) <= Cardinality(Ticks)
  <2> HIDE DEF rev
  <2> QED
    BY <1>1, HeldByTicks
<1>4. /\ Least(Free(deferred.revision, used)) \in Free(deferred.revision, used)
      /\ Free(deferred.revision, used) \subseteq Nat \ {0}
  BY <1>2, <1>3, SpareRevision
<1> QED
  BY <1>4 DEF NewRow, Free

\* A mark: the document has a row, at a revision no tick can publish.
LEMMA MarkedIs ==
  ASSUME TypeOK, NEW ds \in SUBSET Docs
  PROVE  /\ Marked(ds) \in [Docs -> Nat]
         /\ \A d \in ds : /\ Marked(ds)[d] # 0
                          /\ \A t \in Ticks : tick[t].doc = d => tick[t].revision # Marked(ds)[d]
         /\ \A d \in Docs \ ds : Marked(ds)[d] = dirty[d]
BY NewRevisionIs DEF Marked, TypeOK

\* A backfill's mark leaves a pending row its revision.
LEMMA KeptIs ==
  ASSUME TypeOK, NEW ds \in SUBSET Docs
  PROVE  /\ KeepsRevision(ds) \in [Docs -> Nat]
         /\ \A d \in ds : KeepsRevision(ds)[d] # 0
         /\ \A d \in Docs : \/ KeepsRevision(ds)[d] = dirty[d]
                            \/ /\ KeepsRevision(ds)[d] # 0
                               /\ \A t \in Ticks : tick[t].doc = d => tick[t].revision # KeepsRevision(ds)[d]
<1>1. \A d \in Docs : NewRevision(d) \in Nat \ {0} /\ \A t \in Ticks : tick[t].doc = d => tick[t].revision # NewRevision(d)
  BY NewRevisionIs
<1> QED
  BY <1>1 DEF KeepsRevision, TypeOK

(***************************************************************************)
(* The invariant at the start, and what it says                            *)
(***************************************************************************)
LEMMA InvImpliesQueueOK == IInv => QueueOK
BY DEF IInv, QueueOK, StaleIsQueued, Covered, Known, Unlisted, Deferred

LEMMA IdleTyped == Idle.page = {} /\ Idle.pc = "idle" /\ Idle.doc = 0 /\ Idle.revision = 0
                   /\ Idle \in [pc : PCs, doc : Cursors, revision : Nat, built : Builds,
                         row : [revision : Nat, cursor : Cursors],
                         at : [cursor : Cursors, state : {"running", "failed", "done"}],
                         page : SUBSET Docs, done : BOOLEAN]
<1>1. 0 \in Cursors /\ NoRow \in [revision : Nat, cursor : Cursors]
  BY BoundAssumption DEF Cursors, NoRow
<1>2. Start \in [cursor : Cursors, state : {"running", "failed", "done"}]
  BY <1>1 DEF Start
<1> QED
  BY <1>1, <1>2 DEF Idle, PCs, Builds

LEMMA InitIInv == Init => IInv
<1> SUFFICES ASSUME Init PROVE IInv
  OBVIOUS
<1> USE BoundAssumption, ChangeAssumption
<1>1. TypeOK
  <2>1. record \in [Docs -> [state : {"listed", "hidden", "dropped"}, title : Nat, shows : BOOLEAN]]
    BY DEF Init
  <2>2. /\ documents \in [Docs -> Builds] /\ dirty \in [Docs -> Nat]
        /\ deferred \in [revision : Nat, cursor : Cursors] /\ (deferred.revision = 0 => deferred = NoRow)
        /\ backfill \in [cursor : Cursors, state : {"running", "failed", "done"}]
    BY DEF Init, Builds, NoRow, Cursors, Start
  <2>3. /\ name \in Nat /\ renaming \in {"no", "leaves", "silent"}
        /\ edits \in 0 .. MaxEdits /\ faults \in 0 .. MaxFaults
    BY DEF Init
  <2> QED
    BY <2>1, <2>2, <2>3, IdleTyped DEF Init, TypeOK
<1>2. \A d \in Docs : Unlisted(d)
  BY DEF Init, Unlisted, Start, Docs
<1>3. TicksOK
  BY IdleTyped DEF Init, TicksOK, BuildOK, PageOK
<1>4. Titles /\ Silent /\ Present
  BY DEF Init, Titles, Silent, Present
<1> QED
  BY <1>1, <1>2, <1>3, <1>4 DEF IInv, Covered

(***************************************************************************)
(* Edits                                                                   *)
(***************************************************************************)
\* An edit never lowers a title, nor empties a language under Marking.
LEMMA EditedIs ==
  ASSUME Marking, TypeOK, Present, NEW d \in Docs, NEW r \in Edited(record[d])
  PROVE  /\ r \in [state : {"listed", "hidden", "dropped"}, title : Nat, shows : BOOLEAN]
         /\ r.state # "dropped" /\ r.title >= record[d].title
         /\ r.shows /\ ~ record[d].shows => ~ Inherited
<1>1. record[d] \in [state : {"listed", "hidden", "dropped"}, title : Nat, shows : BOOLEAN] /\ record[d].state # "dropped"
  BY DEF TypeOK, Present
<1>2. CASE r = [record[d] EXCEPT !.title = @ + 1]
  BY <1>1, <1>2
<1>3. CASE r = [record[d] EXCEPT !.state = IF @ = "listed" THEN "hidden" ELSE "listed"]
  BY <1>1, <1>3
<1>4. CASE r = [record[d] EXCEPT !.shows = ~ @] /\ "join" \in Changes
  <2>1. r.state = record[d].state /\ r.title = record[d].title /\ ~ Inherited
    BY <1>1, <1>4 DEF Marking
  <2>2. (~ record[d].shows) \in BOOLEAN
    OBVIOUS
  <2>3. r \in [state : {"listed", "hidden", "dropped"}, title : Nat, shows : BOOLEAN]
    BY <1>1, <1>4, <2>2
  <2> QED
    BY <1>1, <2>1, <2>3
<1> QED
  BY <1>2, <1>3, <1>4 DEF Edited, Marking

\* Pages stay right while what is known stays known.
LEMMA PagesKeep ==
  ASSUME IInv, \A d \in Docs : Known(d) => Known(d)', NEW t \in Ticks,
         tick'[t] = tick[t] \/ (tick'[t].page = {} /\ tick'[t].pc # "listed")
  PROVE  PageOK(t)'
<1>1. PageOK(t)
  BY DEF IInv, TicksOK
<1> QED
  BY <1>1 DEF PageOK

\* An edit marks its document, so no tick may still publish what it built of it.
LEMMA EditKeeps ==
  ASSUME Marking, IInv, NEW d \in Docs, Edit(d)
  PROVE  IInv' /\ UNCHANGED documents
<1>0. TypeOK /\ Present
  BY DEF IInv
<1>1. PICK r \in Edited(record[d]) :
        /\ r.shows /\ ~ record[d].shows => Unlocked
        /\ record' = [record EXCEPT ![d] = r]
        /\ dirty' = Marked({e \in {d} : Markable(e, r)})
  BY DEF Edit
<1>2. /\ r \in [state : {"listed", "hidden", "dropped"}, title : Nat, shows : BOOLEAN]
      /\ r.state # "dropped" /\ r.title >= record[d].title
      /\ r.shows /\ ~ record[d].shows => ~ Inherited
  BY <1>0, EditedIs
<1>3. {e \in {d} : Markable(e, r)} = {d}
  BY <1>2 DEF Markable
<1>4. /\ dirty' \in [Docs -> Nat] /\ dirty'[d] # 0
      /\ \A t \in Ticks : tick[t].doc = d => tick[t].revision # dirty'[d]
      /\ \A e \in Docs \ {d} : dirty'[e] = dirty[e]
  <2>1. {d} \in SUBSET Docs
    OBVIOUS
  <2> QED
    BY <1>0, <1>1, <1>3, <2>1, MarkedIs
<1>5. /\ record' \in [Docs -> [state : {"listed", "hidden", "dropped"}, title : Nat, shows : BOOLEAN]]
      /\ record'[d] = r /\ \A e \in Docs \ {d} : record'[e] = record[e]
  BY <1>0, <1>1, <1>2 DEF TypeOK
<1>6. UNCHANGED <<name, renaming, documents, deferred, backfill, tick, faults>> /\ edits' \in 0 .. MaxEdits
  BY <1>0, BoundAssumption DEF Edit, TypeOK
<1>7. TypeOK'
  BY <1>0, <1>4, <1>5, <1>6 DEF TypeOK
<1>8. \A e \in Docs \ {d} : Built(e)' = Built(e) /\ (Deferred(e)' <=> Deferred(e))
  BY <1>5, <1>6 DEF Built, Deferred
<1>9. \A e \in Docs : Known(e) => Known(e)'
  BY <1>4, <1>6, <1>8 DEF Known
<1>10. Covered'
  BY <1>4, <1>5, <1>6, <1>8 DEF IInv, Covered, Known, Unlisted
<1>11. ASSUME NEW t \in Ticks PROVE BuildOK(t)'
  <2>1. BuildOK(t) /\ tick'[t] = tick[t]
    BY <1>6 DEF IInv, TicksOK
  <2>2. CASE tick[t].doc = d
    BY <1>4, <2>1, <2>2 DEF BuildOK, Current
  <2>3. CASE tick[t].doc # d /\ tick[t].pc \in {"publish", "ack"}
    <3>1. tick[t].doc \in Docs \ {d}
      BY <1>0, <2>3, BoundAssumption DEF TypeOK, Cursors, Docs
    <3>2. Current(t)' <=> Current(t)
      BY <1>4, <2>1, <3>1 DEF Current
    <3>3. record'[tick[t].doc] = record[tick[t].doc]
      BY <1>5, <3>1
    <3>4. (Built(tick[t].doc))' = Built(tick[t].doc) /\ ((Deferred(tick[t].doc))' <=> Deferred(tick[t].doc))
      BY <1>6, <2>1, <3>3 DEF Built, Deferred
    <3> QED
      BY <1>6, <2>1, <3>2, <3>3, <3>4 DEF BuildOK, SameText
  <2> QED
    BY <2>1, <2>2, <2>3 DEF BuildOK
<1>12. \A t \in Ticks : PageOK(t)'
  BY <1>6, <1>9, PagesKeep
<1>13. Titles'
  <2> SUFFICES ASSUME NEW e \in Docs, documents[e] # Nothing PROVE documents[e].title <= record'[e].title
    BY <1>6 DEF Titles
  <2>1. documents[e].title <= record[e].title /\ documents[e].title \in Nat /\ record[e].title \in Nat /\ record'[e].title \in Nat
    BY <1>0, <1>5 DEF IInv, Titles, TypeOK, Builds
  <2> QED
    BY <1>2, <1>5, <2>1
<1>14. Silent'
  BY <1>1, <1>2, <1>5, <1>6 DEF IInv, Silent, Unlocked
<1>15. Present'
  BY <1>0, <1>2, <1>5 DEF Present
<1> QED
  BY <1>6, <1>7, <1>10, <1>11, <1>12, <1>13, <1>14, <1>15 DEF IInv, TicksOK

\* A rename that leaves no row changes no document.
LEMMA RenameKeeps ==
  ASSUME IInv, OpenRename \/ CommitRename
  PROVE  IInv' /\ UNCHANGED documents
<1>0. TypeOK
  BY DEF IInv
<1>1. UNCHANGED <<record, documents, dirty, backfill, tick, faults>>
  BY DEF OpenRename, CommitRename
<1>2. TypeOK' /\ (deferred' # NoRow \/ deferred' = deferred)
  <2>1. CASE OpenRename
    BY <1>0, <1>1, <2>1, BoundAssumption DEF OpenRename, TypeOK
  <2>2. CASE CommitRename
    <3>1. name' \in Nat /\ renaming' = "no" /\ UNCHANGED edits /\ deferred' \in {deferred, StartsOver}
      BY <1>0, <2>2 DEF CommitRename, TypeOK
    <3>2. StartsOver \in [revision : Nat, cursor : Cursors] /\ StartsOver.revision # 0 /\ StartsOver # NoRow
      <4>1. NewRow \in Nat \ {0} /\ 0 \in Cursors
        BY <1>0, NewRowIs, BoundAssumption DEF Cursors
      <4> QED
        BY <4>1 DEF StartsOver, NoRow
    <3> QED
      BY <1>0, <1>1, <3>1, <3>2 DEF TypeOK
  <2> QED
    BY <2>1, <2>2
<1>3. ASSUME NEW d \in Docs
      PROVE (Deferred(d) => Deferred(d)') /\ (Built(d)' = Built(d) \/ Deferred(d)')
  <2>1. CASE OpenRename
    BY <1>1, <2>1 DEF OpenRename, Built, Deferred
  <2>2. CASE CommitRename /\ renaming = "leaves"
    <3>1. deferred' = StartsOver /\ deferred' # NoRow /\ deferred'.cursor = 0
      <4>1. NewRow # 0
        BY <1>0, NewRowIs
      <4> QED
        BY <2>2, <4>1 DEF CommitRename, StartsOver, NoRow
    <3>2. record[d].shows => Deferred(d)'
      BY <1>1, <3>1, BoundAssumption DEF Deferred, Docs
    <3> QED
      BY <1>1, <3>2 DEF Deferred, Built
  <2>3. CASE CommitRename /\ renaming # "leaves"
    <3>1. ~ record[d].shows /\ deferred' = deferred
      BY <1>0, <2>3 DEF CommitRename, IInv, Silent, TypeOK
    <3> QED
      BY <1>1, <3>1 DEF Deferred, Built
  <2> QED
    BY <2>1, <2>2, <2>3
<1>4. \A d \in Docs : Known(d) => Known(d)'
  BY <1>1, <1>3 DEF Known
<1>5. Covered'
  BY <1>1, <1>4 DEF IInv, Covered, Unlisted
<1>6. ASSUME NEW t \in Ticks PROVE BuildOK(t)'
  <2>1. BuildOK(t)
    BY DEF IInv, TicksOK
  <2>2. tick[t].pc \in {"publish", "ack"} => tick[t].doc \in Docs
    BY <1>0, BoundAssumption DEF TypeOK, Cursors, Docs
  <2> QED
    BY <1>1, <1>3, <2>1, <2>2 DEF BuildOK, Current, SameText
<1>7. \A t \in Ticks : PageOK(t)'
  BY <1>1, <1>4, PagesKeep
<1>8. Titles' /\ Present'
  BY <1>1 DEF IInv, Titles, Present
<1>9. Silent'
  BY <1>1 DEF OpenRename, CommitRename, Silent
<1> QED
  BY <1>1, <1>2, <1>5, <1>6, <1>7, <1>8, <1>9 DEF IInv, TicksOK

(***************************************************************************)
(* Ticks                                                                   *)
(***************************************************************************)
TickValues ==
  [pc : PCs, doc : Cursors, revision : Nat, built : Builds,
   row : [revision : Nat, cursor : Cursors],
   at : [cursor : Cursors, state : {"running", "failed", "done"}],
   page : SUBSET Docs, done : BOOLEAN]

\* What a tick may become.
Knowing(what) == what \in TickValues /\ (what.doc # 0 <=> what.pc \in {"build", "publish", "ack"})

\* The tables keep their kinds.
Tables ==
  /\ documents \in [Docs -> Builds] /\ dirty \in [Docs -> Nat]
  /\ deferred \in [revision : Nat, cursor : Cursors]
  /\ deferred.revision = 0 => deferred = NoRow
  /\ backfill \in [cursor : Cursors, state : {"running", "failed", "done"}]
  /\ faults \in 0 .. MaxFaults

LEMMA TablesTyped == TypeOK => Tables /\ \A t \in Ticks : Knowing(tick[t])
BY DEF TypeOK, Tables, Knowing, TickValues

LEMMA DocTyped ==
  ASSUME TypeOK, NEW t \in Ticks, tick[t].pc \in {"build", "publish", "ack"}
  PROVE  tick[t].doc \in Docs
BY BoundAssumption DEF TypeOK, Cursors, Docs

\* A tick changes itself and the tables, never a record.
LEMMA TickKeeps ==
  ASSUME IInv, NEW t \in Ticks, NEW what, Knowing(what), tick' = [tick EXCEPT ![t] = what],
         RecordsSame, Tables',
         \A d \in Docs : Known(d) => Known(d)',
         \A d \in Docs : ~ Known(d) /\ Unlisted(d) => Known(d)' \/ Unlisted(d)',
         \A u \in Ticks \ {t} : BuildOK(u)',
         BuildOK(t)', PageOK(t)', Titles'
  PROVE  IInv'
<1>1. TypeOK /\ tick'[t] = what /\ \A u \in Ticks \ {t} : tick'[u] = tick[u]
  BY DEF IInv, TypeOK
<1>2. TypeOK'
  <2>1. tick' \in [Ticks -> TickValues]
    BY <1>1 DEF TypeOK, Knowing, TickValues
  <2>2. \A u \in Ticks : tick'[u].doc # 0 <=> tick'[u].pc \in {"build", "publish", "ack"}
    BY <1>1 DEF TypeOK, Knowing
  <2> QED
    BY <1>1, <2>1, <2>2 DEF TypeOK, RecordsSame, Tables, TickValues
<1>3. Covered'
  BY DEF IInv, Covered
<1>4. ASSUME NEW u \in Ticks \ {t} PROVE PageOK(u)'
  BY <1>1, PagesKeep
<1>5. Silent' /\ Present'
  BY DEF IInv, RecordsSame, Silent, Present
<1> QED
  BY <1>2, <1>3, <1>4, <1>5 DEF IInv, TicksOK

\* What another tick has built stays right as long as its row is as it was.
LEMMA OthersKeep ==
  ASSUME IInv, NEW u \in Ticks, tick'[u] = tick[u], RecordsSame, NEW d, d = tick[u].doc,
         Current(u)' => /\ Current(u)
                        /\ Deferred(d) => Deferred(d)'
                        /\ documents'[d] = documents[d] \/ documents'[d] = Built(d) \/ Deferred(d)'
  PROVE  BuildOK(u)'
<1>1. BuildOK(u) /\ Built(d)' = Built(d)
  BY DEF IInv, TicksOK, RecordsSame, Built
<1>2. \A b : SameText(b, d) => SameText(b, d)'
  BY DEF SameText, RecordsSame
<1> QED
  BY <1>1, <1>2 DEF BuildOK

\* A step that only reads.
LEMMA LookKeeps ==
  ASSUME IInv, NEW t \in Ticks, NEW what, Knowing(what), tick' = [tick EXCEPT ![t] = what],
         RecordsSame, UNCHANGED <<documents, dirty, deferred>>, Tables',
         \A d \in Docs : Unlisted(d) => Unlisted(d)',
         BuildOK(t)', PageOK(t)'
  PROVE  IInv'
<1>1. \A d : (Deferred(d) <=> Deferred(d)') /\ Built(d)' = Built(d)
  BY DEF Deferred, Built, RecordsSame
<1>2. \A d \in Docs : Known(d) => Known(d)'
  BY <1>1 DEF Known
<1>3. \A u \in Ticks \ {t} : tick'[u] = tick[u]
  BY DEF IInv, TypeOK
<1>4. ASSUME NEW u \in Ticks \ {t} PROVE BuildOK(u)'
  BY <1>1, <1>3, OthersKeep DEF Current
<1>5. Titles'
  BY DEF IInv, Titles, RecordsSame
<1> QED
  BY <1>2, <1>4, <1>5, TickKeeps

\* A tick between its statements.
Resting(what) ==
  /\ what.page = {} /\ what.pc \in {"idle", "expand", "drain", "backfill"}
  /\ what.pc = "expand" => what.row.revision # 0

LEMMA RestingIs ==
  ASSUME TypeOK, NEW t \in Ticks, NEW what, Resting(what), tick' = [tick EXCEPT ![t] = what]
  PROVE  BuildOK(t)' /\ PageOK(t)'
<1>1. tick'[t] = what
  BY DEF TypeOK
<1> QED
  BY <1>1 DEF BuildOK, PageOK, Resting

\* A tick that rests holds nothing that could go wrong.
LEMMA IdleRests ==
  /\ Knowing(Idle) /\ Resting(Idle)
  /\ \A pc \in {"idle", "drain", "backfill"} : Knowing([Idle EXCEPT !.pc = pc]) /\ Resting([Idle EXCEPT !.pc = pc])
BY IdleTyped DEF Knowing, Resting, TickValues, PCs

LEMMA ReadDeferredKeeps ==
  ASSUME IInv, NEW t \in Ticks, ReadDeferred(t)
  PROVE  IInv' /\ UNCHANGED documents
<1>1. TypeOK /\ UNCHANGED <<documents, dirty, deferred, backfill, faults>> /\ RecordsSame
  BY DEF IInv, ReadDeferred, Same
<1>2. PICK what : /\ \/ what = [Idle EXCEPT !.pc = "drain"]
                     \/ what = [Idle EXCEPT !.pc = "expand", !.row = deferred] /\ deferred.revision # 0
                  /\ tick' = [tick EXCEPT ![t] = what]
  BY <1>1 DEF ReadDeferred, Know, TypeOK
<1>3. Knowing(what) /\ Resting(what)
  <2>1. CASE what = [Idle EXCEPT !.pc = "drain"]
    BY <2>1, IdleRests
  <2>2. CASE what = [Idle EXCEPT !.pc = "expand", !.row = deferred] /\ deferred.revision # 0
    <3>1. what \in TickValues
      BY <1>1, <2>2, IdleTyped DEF TypeOK, TickValues, PCs
    <3>2. what.pc = "expand" /\ what.doc = 0 /\ what.page = {} /\ what.row = deferred
      BY <2>2, IdleTyped
    <3> QED
      BY <2>2, <3>1, <3>2 DEF Knowing, Resting
  <2> QED
    BY <1>2, <2>1, <2>2
<1>4. Tables' /\ \A d \in Docs : Unlisted(d) => Unlisted(d)'
  BY <1>1, TablesTyped DEF Tables, Unlisted, RecordsSame
<1> QED
  BY <1>1, <1>2, <1>3, <1>4, RestingIs, LookKeeps

LEMMA ReadDirtyKeeps ==
  ASSUME IInv, NEW t \in Ticks, ReadDirty(t)
  PROVE  IInv' /\ UNCHANGED documents
<1>1. TypeOK /\ UNCHANGED <<documents, dirty, deferred, backfill, faults>> /\ RecordsSame
  BY DEF IInv, ReadDirty, Same
<1>2. Tables' /\ \A d \in Docs : Unlisted(d) => Unlisted(d)'
  BY <1>1, TablesTyped DEF Tables, Unlisted, RecordsSame
<1>3. CASE tick' = [tick EXCEPT ![t] = [Idle EXCEPT !.pc = "backfill"]]
  BY <1>1, <1>2, <1>3, IdleRests, RestingIs, LookKeeps
<1>4. ASSUME NEW d \in Docs, dirty[d] # 0,
             tick' = [tick EXCEPT ![t] = [Idle EXCEPT !.pc = "build", !.doc = d, !.revision = dirty[d]]]
      PROVE  IInv'
  <2> DEFINE what == [Idle EXCEPT !.pc = "build", !.doc = d, !.revision = dirty[d]]
  <2>1. Knowing(what) /\ what.pc = "build" /\ what.page = {} /\ what.revision # 0
    <3>1. dirty[d] \in Nat /\ d \in Cursors /\ d # 0
      BY <1>1, BoundAssumption DEF TypeOK, Cursors, Docs
    <3>2. what \in TickValues
      BY <3>1, IdleTyped DEF TickValues, PCs
    <3>3. what.pc = "build" /\ what.doc = d /\ what.page = {} /\ what.revision = dirty[d]
      BY IdleTyped
    <3> HIDE DEF what
    <3> QED
      BY <1>4, <3>1, <3>2, <3>3 DEF Knowing
  <2>2. tick'[t] = what
    BY <1>1, <1>4 DEF TypeOK
  <2> HIDE DEF what
  <2>3. BuildOK(t)' /\ PageOK(t)'
    BY <2>1, <2>2 DEF BuildOK, PageOK
  <2>4. tick' = [tick EXCEPT ![t] = what]
    BY <1>4 DEF what
  <2> QED
    BY <1>1, <1>2, <2>1, <2>3, <2>4, LookKeeps
<1> QED
  BY <1>1, <1>3, <1>4 DEF ReadDirty, Know

LEMMA BuildKeeps ==
  ASSUME IInv, NEW t \in Ticks, Build(t)
  PROVE  IInv' /\ UNCHANGED documents
<1>1. TypeOK /\ UNCHANGED <<documents, dirty, deferred, backfill, faults>> /\ RecordsSame /\ BuildOK(t) /\ PageOK(t)
  BY DEF IInv, TicksOK, Build, Same
<1>2. Tables' /\ \A d \in Docs : Unlisted(d) => Unlisted(d)'
  BY <1>1, TablesTyped DEF Tables, Unlisted, RecordsSame
<1>0. PICK d : d = tick[t].doc
  OBVIOUS
<1> DEFINE what == [tick[t] EXCEPT !.pc = "publish", !.built = Built(d)]
<1>3. tick[t].pc = "build" /\ d \in Docs
  BY <1>0, <1>1, DocTyped DEF Build
<1>4. Built(d) \in Builds /\ SameText(Built(d), d)
  <2>1. record[d] \in [state : {"listed", "hidden", "dropped"}, title : Nat, shows : BOOLEAN] /\ name \in Nat
    BY <1>1, <1>3 DEF TypeOK
  <2> DEFINE b == [title |-> record[d].title, name |-> IF record[d].shows THEN name ELSE 0]
  <2>2. b \in [title : Nat, name : Nat] /\ b.title = record[d].title
    BY <2>1
  <2>3. Built(d) = IF record[d].state = "listed" THEN b ELSE Nothing
    BY DEF Built
  <2> HIDE DEF b
  <2> QED
    BY <2>2, <2>3, TickAssumption DEF SameText, Builds
<1>5. Knowing(what) /\ tick'[t] = what /\ tick' = [tick EXCEPT ![t] = what]
  <2>1. tick[t] \in TickValues /\ tick[t].doc # 0
    BY <1>0, <1>1, <1>3, TablesTyped DEF Knowing
  <2>2. what \in TickValues /\ what.doc # 0 /\ what.pc = "publish"
    BY <1>4, <2>1 DEF TickValues, PCs
  <2> QED
    BY <1>0, <1>1, <2>2 DEF Build, Know, TypeOK, Knowing
<1>6. what.doc = d /\ what.pc = "publish" /\ what.built = Built(d) /\ what.page = tick[t].page /\ what.revision = tick[t].revision
  BY <1>0, <1>1, TablesTyped DEF Knowing, TickValues
<1>7. Built(d)' = Built(d) /\ SameText(Built(d), d)'
  BY <1>1, <1>4 DEF RecordsSame, Built, SameText
<1> HIDE DEF what
<1>8. BuildOK(t)'
  BY <1>1, <1>3, <1>5, <1>6, <1>7 DEF BuildOK
<1>9. PageOK(t)'
  BY <1>1, <1>5, <1>6 DEF PageOK
<1> QED
  BY <1>1, <1>2, <1>5, <1>8, <1>9, LookKeeps

LEMMA FailKeeps ==
  ASSUME IInv, NEW t \in Ticks, Fail(t) \/ FailBackfill(t)
  PROVE  IInv' /\ UNCHANGED documents
<1>1. TypeOK /\ UNCHANGED <<documents, dirty, deferred>> /\ RecordsSame /\ tick' = [tick EXCEPT ![t] = Idle]
  BY DEF IInv, Fail, FailBackfill, Know
<1>2. faults' \in 0 .. MaxFaults
  BY <1>1, BoundAssumption DEF Fail, FailBackfill, Fault, TypeOK
<1>3. /\ backfill' \in [cursor : Cursors, state : {"running", "failed", "done"}]
      /\ backfill'.cursor = backfill.cursor /\ (backfill.state # "done" => backfill'.state # "done")
  BY <1>1 DEF Fail, FailBackfill, TypeOK
<1>4. Tables' /\ \A d \in Docs : Unlisted(d) => Unlisted(d)'
  BY <1>1, <1>2, <1>3, TablesTyped DEF Tables, Unlisted, RecordsSame
<1> QED
  BY <1>1, <1>4, IdleRests, RestingIs, LookKeeps

\* A current build has the record's text; its name, if old, is still deferred.
LEMMA PublishKeeps ==
  ASSUME IInv, NEW t \in Ticks, Publish(t)
  PROVE  IInv' /\ \A d \in Docs : documents[d] # Nothing /\ documents'[d] # Nothing =>
                     documents'[d].title >= documents[d].title
<1>0. PICK d : d = tick[t].doc
  OBVIOUS
<1>1. /\ TypeOK /\ UNCHANGED <<dirty, deferred, backfill, faults>> /\ RecordsSame
      /\ BuildOK(t) /\ PageOK(t) /\ tick[t].pc = "publish"
  BY DEF IInv, TicksOK, Publish, Same
<1>2. d \in Docs /\ Knowing(tick[t])
  BY <1>0, <1>1, DocTyped, TablesTyped
<1>3. \A e \in Docs : documents[e] # Nothing => documents[e].title <= record[e].title /\ documents[e].title \in Nat /\ record[e].title \in Nat
  BY <1>1 DEF IInv, Titles, TypeOK, Builds
<1>4. CASE ~ Current(t)
  <2>1. NextBatch(t) /\ UNCHANGED documents
    BY <1>4 DEF Publish
  <2>2. Tables' /\ \A e \in Docs : Unlisted(e) => Unlisted(e)'
    BY <1>1, <2>1, TablesTyped DEF Tables, Unlisted, RecordsSame
  <2>3. IInv'
    BY <1>1, <2>1, <2>2, IdleRests, RestingIs, LookKeeps DEF NextBatch, Know
  <2> QED
    BY <1>3, <2>1, <2>3
<1>5. CASE Current(t)
  <2> DEFINE built == tick[t].built
             what == [tick[t] EXCEPT !.pc = "ack", !.built = Nothing]
  <2>1. /\ SameText(tick[t].built, d) /\ (tick[t].built = Built(d) \/ Deferred(d))
        /\ tick[t].revision # 0 /\ dirty[d] = tick[t].revision /\ tick[t].built \in Builds
    BY <1>0, <1>1, <1>2, <1>5 DEF BuildOK, Current, Knowing, TickValues
  <2>2. documents' = [documents EXCEPT ![d] = tick[t].built] /\ tick' = [tick EXCEPT ![t] = what]
    BY <1>0, <1>5 DEF Publish, Know
  <2>3. /\ documents' \in [Docs -> Builds] /\ documents'[d] = tick[t].built
        /\ \A e \in Docs \ {d} : documents'[e] = documents[e]
    BY <1>1, <1>2, <2>1, <2>2 DEF TypeOK
  <2>4. Tables'
    BY <1>1, <2>3, TablesTyped DEF Tables
  <2>5. Knowing(what) /\ tick'[t] = what
    <3>1. tick[t] \in TickValues /\ tick[t].doc # 0 /\ Nothing \in Builds
      BY <1>1, <1>2 DEF Knowing, Builds
    <3>2. what \in TickValues /\ what.doc # 0 /\ what.pc = "ack"
      BY <3>1 DEF TickValues, PCs
    <3> QED
      BY <1>1, <2>2, <3>2 DEF TypeOK, Knowing
  <2>6. what.doc = d /\ what.pc = "ack" /\ what.page = tick[t].page /\ what.revision = tick[t].revision
    BY <1>0, <1>2 DEF Knowing, TickValues
  <2> HIDE DEF what
  <2>7. \A e : Built(e)' = Built(e) /\ (Deferred(e)' <=> Deferred(e))
    BY <1>1 DEF RecordsSame, Built, Deferred
  <2>8. documents'[d] = Built(d) \/ Deferred(d)
    BY <2>1, <2>3
  <2>9. \A e \in Docs : Known(e) => Known(e)'
    BY <1>1, <2>1, <2>3, <2>7 DEF Known
  <2>10. \A e \in Docs : Unlisted(e) => Unlisted(e)'
    BY <1>1 DEF Unlisted, RecordsSame
  <2>11. ASSUME NEW u \in Ticks \ {t} PROVE BuildOK(u)'
    <3>1. tick'[u] = tick[u]
      BY <1>1, <2>2 DEF TypeOK
    <3>2. CASE tick[u].pc \in {"publish", "ack"}
      <4>1. tick[u].doc \in Docs
        BY <1>1, <3>2, DocTyped
      <4>2. Current(u)' <=> Current(u)
        BY <1>1, <3>1 DEF Current
      <4>3. PICK e \in Docs : e = tick[u].doc
        BY <4>1
      <4>4. documents'[e] = documents[e] \/ documents'[e] = Built(e) \/ Deferred(e)'
        BY <2>3, <2>7, <2>8
      <4> QED
        BY <1>1, <2>7, <3>1, <4>2, <4>3, <4>4, OthersKeep
    <3>3. CASE tick[u].pc \notin {"publish", "ack"}
      BY <3>1, <3>3 DEF IInv, TicksOK, BuildOK
    <3> QED
      BY <3>2, <3>3
  <2>12. BuildOK(t)'
    BY <1>1, <2>1, <2>5, <2>6, <2>7, <2>8 DEF BuildOK
  <2>13. PageOK(t)'
    BY <1>1, <2>5, <2>6 DEF PageOK
  <2>14. documents'[d] # Nothing => documents'[d].title = record[d].title
    BY <2>1, <2>3 DEF SameText
  <2>15. record[d].title \in Nat
    BY <1>1, <1>2 DEF TypeOK
  <2>16. Titles'
    BY <1>1, <1>3, <2>3, <2>14, <2>15 DEF Titles, RecordsSame
  <2>17. IInv'
    BY <1>1, <2>2, <2>4, <2>5, <2>9, <2>10, <2>11, <2>12, <2>13, <2>16, TickKeeps
  <2>18. \A e \in Docs : documents[e] # Nothing /\ documents'[e] # Nothing => documents'[e].title >= documents[e].title
    BY <1>3, <2>3, <2>14, <2>15
  <2> QED
    BY <2>17, <2>18
<1> QED
  BY <1>4, <1>5

\* An acknowledged row at the revision read leaves a document that was published
\* from it.
LEMMA AckKeeps ==
  ASSUME IInv, NEW t \in Ticks, Ack(t)
  PROVE  IInv' /\ UNCHANGED documents
<1>0. PICK d : d = tick[t].doc
  OBVIOUS
<1>1. /\ TypeOK /\ UNCHANGED <<documents, deferred, backfill, faults>> /\ RecordsSame
      /\ BuildOK(t) /\ tick[t].pc = "ack" /\ NextBatch(t)
  BY DEF IInv, TicksOK, Ack, Same
<1>2. d \in Docs
  BY <1>0, <1>1, DocTyped
<1>3. PICK what : Knowing(what) /\ Resting(what) /\ tick' = [tick EXCEPT ![t] = what]
  BY <1>1, IdleRests DEF NextBatch, Know
<1>4. /\ dirty' \in [Docs -> Nat]
      /\ \A e \in Docs : dirty'[e] = dirty[e] \/ (e = d /\ dirty'[e] = 0 /\ Current(t))
  BY <1>0, <1>1, <1>2 DEF Ack, MayAck, TypeOK
<1>5. Tables'
  BY <1>1, <1>4, TablesTyped DEF Tables
<1>6. \A e : Built(e)' = Built(e) /\ (Deferred(e)' <=> Deferred(e))
  BY <1>1 DEF RecordsSame, Built, Deferred
<1>7. Current(t) => documents[d] = Built(d) \/ Deferred(d)
  BY <1>0, <1>1 DEF BuildOK
<1>8. \A e \in Docs : Known(e) => Known(e)'
  BY <1>1, <1>4, <1>6, <1>7 DEF Known
<1>9. \A e \in Docs : Unlisted(e) => Unlisted(e)'
  BY <1>1 DEF Unlisted, RecordsSame
<1>10. ASSUME NEW u \in Ticks \ {t} PROVE BuildOK(u)'
  <2>1. tick'[u] = tick[u] /\ BuildOK(u)
    BY <1>1, <1>3 DEF TypeOK, IInv, TicksOK
  <2>2. CASE tick[u].pc \in {"publish", "ack"}
    <3>1. PICK e \in Docs : e = tick[u].doc
      BY <1>1, <2>2, DocTyped
    <3>2. tick[u].revision # 0
      BY <2>1, <2>2 DEF BuildOK
    <3>3. Current(u)' => Current(u)
      BY <1>4, <2>1, <3>1, <3>2 DEF Current
    <3> QED
      BY <1>1, <1>6, <2>1, <3>1, <3>3, OthersKeep
  <2>3. CASE tick[u].pc \notin {"publish", "ack"}
    BY <2>1, <2>3 DEF BuildOK
  <2> QED
    BY <2>2, <2>3
<1>11. Titles'
  BY <1>1 DEF IInv, Titles, RecordsSame
<1> QED
  BY <1>1, <1>3, <1>5, <1>8, <1>9, <1>10, <1>11, RestingIs, TickKeeps

\* The rename's row passes a document only when it marks it.
LEMMA ExpandKeeps ==
  ASSUME IInv, NEW t \in Ticks, Expand(t)
  PROVE  IInv' /\ UNCHANGED documents
<1>1. /\ TypeOK /\ UNCHANGED <<documents, backfill, faults>> /\ RecordsSame
      /\ tick[t].pc = "expand" /\ tick[t].row.revision # 0
  BY DEF IInv, TicksOK, BuildOK, Expand, Same
<1>2. PICK what : Knowing(what) /\ Resting(what) /\ tick' = [tick EXCEPT ![t] = what]
  BY IdleRests DEF Expand, Know
<1> DEFINE row == tick[t].row
           page == First(Shown(tick[t].row.cursor))
<1>3. PICK shown \in SUBSET Docs : shown = Shown(row.cursor)
  BY DEF Shown
<1>4. PICK ds \in SUBSET Docs : ds = page
  BY <1>3, FirstIs
<1>5. /\ ds \subseteq shown /\ (shown # {} => ds # {})
      /\ \A e \in ds, d \in shown : e <= d
  BY <1>3, <1>4, FirstIs
<1>6. dirty' = Marked(ds)
  <2>1. {d \in ds : Markable(d, record[d])} = ds
    BY DEF IInv, Present, Markable
  <2> QED
    BY <1>4, <2>1 DEF Expand
<1>7. /\ dirty' \in [Docs -> Nat]
      /\ \A d \in ds : /\ dirty'[d] # 0
                       /\ \A u \in Ticks : tick[u].doc = d => tick[u].revision # dirty'[d]
      /\ \A d \in Docs \ ds : dirty'[d] = dirty[d]
  BY <1>1, <1>6, MarkedIs
<1>8. \/ deferred' = deferred /\ ~ SameRow(row)
      \/ deferred' = NoRow /\ ds = {} /\ SameRow(row)
      \/ ds # {} /\ SameRow(row) /\ \E c \in ds : deferred' = [deferred EXCEPT !.cursor = c]
  BY <1>4 DEF Expand
<1>9. ASSUME NEW d \in Docs, Deferred(d) PROVE Deferred(d)' \/ d \in ds
  <2>1. CASE ~ SameRow(row)
    BY <1>1, <1>8, <1>9, <2>1 DEF Deferred, RecordsSame
  <2>2. CASE SameRow(row)
    <3>1. d \in shown /\ ds # {}
      BY <1>3, <1>5, <1>9, <2>2 DEF Deferred, SameRow, Shown
    <3>2. PICK c \in ds : deferred' = [deferred EXCEPT !.cursor = c]
      BY <1>8, <2>2, <3>1
    <3>3. c <= d /\ c \in Nat /\ d \in Nat
      BY <1>5, <3>1, BoundAssumption DEF Docs
    <3>4. deferred'.cursor = c /\ deferred'.revision # 0
      BY <1>1, <2>2, <3>2 DEF TypeOK, SameRow
    <3>5. deferred' # NoRow
      BY <3>4 DEF NoRow
    <3> QED
      BY <1>1, <1>9, <3>2, <3>3, <3>4, <3>5 DEF Deferred, RecordsSame
  <2> QED
    BY <2>1, <2>2
<1>10. \A e : Built(e)' = Built(e)
  BY <1>1 DEF RecordsSame, Built
<1>11. Tables'
  <2>1. deferred' \in [revision : Nat, cursor : Cursors] /\ (deferred'.revision = 0 => deferred' = NoRow)
    <3>1. CASE deferred' = deferred
      BY <1>1, <3>1 DEF TypeOK
    <3>2. CASE deferred' = NoRow
      BY <3>2, BoundAssumption DEF NoRow, Cursors
    <3>3. ASSUME NEW c \in ds, SameRow(row), deferred' = [deferred EXCEPT !.cursor = c]
          PROVE  deferred' \in [revision : Nat, cursor : Cursors] /\ deferred'.revision # 0
      <4>1. c \in Cursors
        BY BoundAssumption DEF Docs, Cursors
      <4> QED
        BY <1>1, <3>3, <4>1 DEF TypeOK, SameRow
    <3> QED
      BY <1>8, <3>1, <3>2, <3>3
  <2> QED
    BY <1>1, <1>7, <2>1, TablesTyped DEF Tables
<1> HIDE DEF row, page
<1>12. \A d \in Docs : Known(d) => Known(d)'
  BY <1>1, <1>7, <1>9, <1>10 DEF Known
<1>13. \A d \in Docs : Unlisted(d) => Unlisted(d)'
  BY <1>1 DEF Unlisted, RecordsSame
<1>14. ASSUME NEW u \in Ticks \ {t} PROVE BuildOK(u)'
  <2>1. tick'[u] = tick[u] /\ BuildOK(u)
    BY <1>1, <1>2 DEF TypeOK, IInv, TicksOK
  <2>2. CASE tick[u].pc \in {"publish", "ack"}
    <3>1. PICK e \in Docs : e = tick[u].doc
      BY <1>1, <2>2, DocTyped
    <3>2. Current(u)' => Current(u) /\ (Deferred(e) => Deferred(e)')
      BY <1>7, <1>9, <2>1, <3>1 DEF Current
    <3> QED
      BY <1>1, <2>1, <3>1, <3>2, OthersKeep
  <2>3. CASE tick[u].pc \notin {"publish", "ack"}
    BY <2>1, <2>3 DEF BuildOK
  <2> QED
    BY <2>2, <2>3
<1>15. Titles'
  BY <1>1 DEF IInv, Titles, RecordsSame
<1> QED
  BY <1>1, <1>2, <1>11, <1>12, <1>13, <1>14, <1>15, RestingIs, TickKeeps

LEMMA ReadBackfillKeeps ==
  ASSUME IInv, NEW t \in Ticks, ReadBackfill(t)
  PROVE  IInv' /\ UNCHANGED documents
<1>1. TypeOK /\ UNCHANGED <<documents, dirty, deferred, backfill, faults>> /\ RecordsSame
  BY DEF IInv, ReadBackfill, Same
<1>2. Tables' /\ \A d \in Docs : Unlisted(d) => Unlisted(d)'
  BY <1>1, TablesTyped DEF Tables, Unlisted, RecordsSame
<1>3. CASE backfill.state = "done"
  <2>1. tick' = [tick EXCEPT ![t] = Idle]
    BY <1>3 DEF ReadBackfill, Know
  <2> QED
    BY <1>1, <1>2, <2>1, IdleRests, RestingIs, LookKeeps
<1>4. CASE backfill.state # "done"
  <2>1. PICK left \in SUBSET Docs : left = Listed(backfill.cursor)
    BY DEF Listed
  <2>2. PICK ds \in SUBSET Docs : ds = First(left)
    BY FirstIs
  <2>3. ds \subseteq left /\ (left # {} => ds # {}) /\ \A e \in ds, d \in left : e <= d
    BY <2>2, FirstIs
  <2> DEFINE what == [Idle EXCEPT !.pc = "listed", !.at = backfill, !.page = ds, !.done = left \subseteq ds]
  <2>4. tick' = [tick EXCEPT ![t] = what]
    BY <1>4, <2>1, <2>2 DEF ReadBackfill, Know
  <2>5. Knowing(what)
    <3>1. what \in TickValues
      <4>1. (left \subseteq ds) \in BOOLEAN /\ backfill \in [cursor : Cursors, state : {"running", "failed", "done"}]
        BY <1>1 DEF TypeOK
      <4> QED
        BY <4>1, IdleTyped DEF TickValues, PCs
    <3>2. what.pc = "listed" /\ what.doc = 0
      BY IdleTyped
    <3> QED
      BY <3>1, <3>2 DEF Knowing
  <2>6. what.pc = "listed" /\ what.at = backfill /\ what.page = ds /\ (what.done => left \subseteq ds)
    BY IdleTyped
  <2>7. tick'[t] = what
    BY <1>1, <2>4 DEF TypeOK
  <2> HIDE DEF what
  <2>8. \A d \in Docs : (Known(d) <=> Known(d)')
    BY <1>1 DEF Known, Deferred, Built, RecordsSame
  <2>9. \A d \in Docs : ~ Known(d) => d \in left
    BY <2>1 DEF IInv, Covered, Unlisted, Listed
  <2>10. PageOK(t)'
    BY <2>3, <2>6, <2>7, <2>8, <2>9 DEF PageOK
  <2>11. BuildOK(t)'
    BY <2>6, <2>7 DEF BuildOK
  <2> QED
    BY <1>1, <1>2, <2>4, <2>5, <2>10, <2>11, LookKeeps
<1> QED
  BY <1>1, <1>3, <1>4

\* The backfill's cursor passes a document only when it marks it or knows of it.
LEMMA BackfillKeeps ==
  ASSUME IInv, NEW t \in Ticks, Backfill(t)
  PROVE  IInv' /\ UNCHANGED documents
<1>1. /\ TypeOK /\ UNCHANGED <<documents, deferred, faults>> /\ RecordsSame /\ PageOK(t)
      /\ tick[t].pc = "listed" /\ tick' = [tick EXCEPT ![t] = Idle]
  BY DEF IInv, TicksOK, Backfill, Same, Know
<1>2. PICK ds \in SUBSET Docs : ds = tick[t].page
  BY <1>1 DEF TypeOK
<1>3. /\ dirty' \in [Docs -> Nat]
      /\ \A d \in Docs : \/ dirty'[d] = dirty[d]
                         \/ /\ dirty'[d] # 0
                            /\ \A u \in Ticks : tick[u].doc = d => tick[u].revision # dirty'[d]
      /\ backfill = tick[t].at => \A d \in ds : dirty'[d] # 0
  <2>1. dirty' = dirty \/ dirty' = KeepsRevision(ds)
    BY <1>2 DEF Backfill
  <2>2. backfill = tick[t].at => dirty' = KeepsRevision(ds)
    BY <1>2 DEF Backfill
  <2> QED
    BY <1>1, <2>1, <2>2, KeptIs DEF TypeOK
<1>4. /\ backfill' \in [cursor : Cursors, state : {"running", "failed", "done"}]
      /\ backfill # tick[t].at => backfill' = backfill
      /\ backfill = tick[t].at => /\ backfill'.cursor = backfill.cursor \/ backfill'.cursor \in ds
                                  /\ ~ tick[t].done => backfill'.state = "running"
  <2>1. CASE backfill # tick[t].at
    BY <1>1, <2>1 DEF Backfill, TypeOK
  <2>2. CASE backfill = tick[t].at
    <3>1. PICK c : /\ (c = backfill.cursor) \/ (c \in ds)
                   /\ backfill' = [cursor |-> c, state |-> IF tick[t].done THEN "done" ELSE "running"]
      BY <1>2, <2>2 DEF Backfill
    <3>2. c \in Cursors
      <4>1. backfill.cursor \in Cursors
        BY <1>1 DEF TypeOK
      <4>2. \A d \in Docs : d \in Cursors
        BY BoundAssumption DEF Docs, Cursors
      <4> QED
        BY <3>1, <4>1, <4>2
    <3> QED
      BY <2>2, <3>1, <3>2
  <2> QED
    BY <2>1, <2>2
<1>5. Tables'
  BY <1>1, <1>3, <1>4, TablesTyped DEF Tables
<1>6. \A e : Built(e)' = Built(e) /\ (Deferred(e)' <=> Deferred(e))
  BY <1>1 DEF RecordsSame, Built, Deferred
<1>7. \A d \in Docs : Known(d) => Known(d)'
  BY <1>1, <1>3, <1>6 DEF Known
<1>8. ASSUME NEW d \in Docs, ~ Known(d), Unlisted(d) PROVE Known(d)' \/ Unlisted(d)'
  <2>1. CASE backfill # tick[t].at
    BY <1>1, <1>4, <1>8, <2>1 DEF Unlisted, RecordsSame
  <2>2. CASE backfill = tick[t].at
    <3>1. \A e \in ds : e <= d
      BY <1>1, <1>2, <1>8, <2>2 DEF PageOK, Unlisted
    <3>2. tick[t].done => d \in ds
      BY <1>1, <1>2, <1>8, <2>2 DEF PageOK, Unlisted
    <3>3. d \in ds => Known(d)'
      BY <1>3, <2>2 DEF Known
    <3>4. backfill.cursor \in Nat /\ backfill.cursor < d /\ d \in Nat /\ \A e \in ds : e \in Nat
      BY <1>1, <1>8, BoundAssumption DEF TypeOK, Unlisted, Cursors, Docs
    <3>5. d \notin ds => backfill'.cursor < d /\ backfill'.state = "running"
      <4>1. \A e \in ds : d \notin ds => e < d
        BY <3>1, <3>4
      <4>2. CASE backfill'.cursor = backfill.cursor
        BY <1>4, <2>2, <3>2, <3>4, <4>2
      <4>3. CASE backfill'.cursor \in ds
        BY <1>4, <2>2, <3>2, <4>1, <4>3
      <4> QED
        BY <1>4, <2>2, <4>2, <4>3
    <3> QED
      BY <1>1, <1>8, <3>3, <3>5 DEF Unlisted, RecordsSame
  <2> QED
    BY <2>1, <2>2
<1>9. ASSUME NEW u \in Ticks \ {t} PROVE BuildOK(u)'
  <2>1. tick'[u] = tick[u] /\ BuildOK(u)
    BY <1>1 DEF TypeOK, IInv, TicksOK
  <2>2. CASE tick[u].pc \in {"publish", "ack"}
    <3>1. PICK e \in Docs : e = tick[u].doc
      BY <1>1, <2>2, DocTyped
    <3>2. Current(u)' => Current(u)
      BY <1>3, <2>1, <3>1 DEF Current
    <3> QED
      BY <1>1, <1>6, <2>1, <3>1, <3>2, OthersKeep
  <2>3. CASE tick[u].pc \notin {"publish", "ack"}
    BY <2>1, <2>3 DEF BuildOK
  <2> QED
    BY <2>2, <2>3
<1>10. Titles'
  BY <1>1 DEF IInv, Titles, RecordsSame
<1> QED
  BY <1>1, <1>5, <1>7, <1>8, <1>9, <1>10, IdleRests, RestingIs, TickKeeps

(***************************************************************************)
(* The theorems                                                            *)
(***************************************************************************)
NoOlder ==
  \A d \in Docs :
    documents[d] # Nothing /\ documents'[d] # Nothing => documents'[d].title >= documents[d].title

LEMMA StutterKeeps == IInv /\ UNCHANGED documents => NoOlder
<1> SUFFICES ASSUME IInv, UNCHANGED documents, NEW d \in Docs, documents[d] # Nothing
             PROVE  documents'[d].title >= documents[d].title
  BY DEF NoOlder
<1>1. documents[d].title \in Nat
  BY DEF IInv, TypeOK, Builds
<1> QED
  BY <1>1

LEMMA NextKeeps ==
  ASSUME Marking, IInv, [Next]_vars
  PROVE  IInv' /\ NoOlder
<1>1. ASSUME NEW d \in Docs, Edit(d) PROVE IInv' /\ NoOlder
  BY <1>1, EditKeeps, StutterKeeps
<1>2. CASE OpenRename \/ CommitRename
  BY <1>2, RenameKeeps, StutterKeeps
<1>3. ASSUME NEW t \in Ticks, Step(t) PROVE IInv' /\ NoOlder
  <2>1. CASE ReadDeferred(t)
    BY <2>1, ReadDeferredKeeps, StutterKeeps
  <2>2. CASE Expand(t)
    BY <2>2, ExpandKeeps, StutterKeeps
  <2>3. CASE ReadDirty(t)
    BY <2>3, ReadDirtyKeeps, StutterKeeps
  <2>4. CASE Build(t)
    BY <2>4, BuildKeeps, StutterKeeps
  <2>5. CASE Publish(t)
    BY <2>5, PublishKeeps DEF NoOlder
  <2>6. CASE Ack(t)
    BY <2>6, AckKeeps, StutterKeeps
  <2>7. CASE ReadBackfill(t)
    BY <2>7, ReadBackfillKeeps, StutterKeeps
  <2>8. CASE Backfill(t)
    BY <2>8, BackfillKeeps, StutterKeeps
  <2> QED
    BY <1>3, <2>1, <2>2, <2>3, <2>4, <2>5, <2>6, <2>7, <2>8 DEF Step
<1>4. ASSUME NEW t \in Ticks, FailBackfill(t) \/ Fail(t) PROVE IInv' /\ NoOlder
  BY <1>4, FailKeeps, StutterKeeps
<1>5. CASE UNCHANGED vars
  <2>1. UNCHANGED documents
    BY <1>5 DEF vars
  <2>2. IInv'
    BY <1>5 DEF vars, IInv, TypeOK, Covered, Known, Deferred, Unlisted, Built, TicksOK, BuildOK, PageOK,
                Current, SameText, Titles, Silent, Present
  <2> QED
    BY <2>1, <2>2, StutterKeeps
<1> QED
  BY <1>1, <1>2, <1>3, <1>4, <1>5 DEF Next

\* The inductive invariant holds while the marks reach every changed document.
THEOREM Invariance == ASSUME Marking PROVE Spec => []IInv
<1>1. IInv /\ [Next]_vars => IInv'
  BY NextKeeps
<1> QED
  BY <1>1, InitIInv, PTL DEF Spec

\* With the edits whose marks reach every document they change, a stale search
\* document is always still queued, whatever ticks overlap, fail or publish late.
THEOREM QueueCoversStale == ASSUME Marking PROVE Spec => []QueueOK
BY Invariance, InvImpliesQueueOK, PTL

\* Publish never replaces a document by one built from an older text.
THEOREM PublishNeverOlder == ASSUME Marking PROVE Spec => NeverOlder
<1>1. IInv /\ [Next]_vars => [NoOlder]_vars
  BY NextKeeps
<1>2. ([][NoOlder]_vars) <=> NeverOlder
  BY DEF NoOlder, NeverOlder
<1> QED
  BY <1>1, <1>2, Invariance, PTL DEF Spec
==============================================================================
