------------------------ MODULE ManifestJournalProofs ------------------------
(***************************************************************************)
(* Proofs about ManifestJournal, for every folder, workload, number of     *)
(* processes and number of faults.                                         *)
(*                                                                         *)
(* The argument.  An operation's row holds bytes from prepare until it is  *)
(* settled, and a folder has one unsettled row at a time.  Every PUT that  *)
(* can still be delivered is either stale, because its ETag was replaced,  *)
(* or is the exact PUT of that row (RequestsFenced).  So the next body to  *)
(* land is the row's own, and the row is given up only while it never held *)
(* bytes: what lands is settled as applied, and what is absent stays out.  *)
(*                                                                         *)
(* Two more invariants rest on this one.  OInv is about keys: bytes are    *)
(* admitted when they own what they name, a row retires only what neither  *)
(* its bytes nor the manifest name, and nothing else retires while it is   *)
(* unsettled, so the bytes still own their keys when they land.  It gives  *)
(* RefsOwned, the refinement of ManifestStore and the recovery of admitted *)
(* work.  CInv is about the quota: a row charges what its bytes change.    *)
(***************************************************************************)
EXTENDS ManifestJournal, FiniteSetTheorems, TLAPS

\* The folder's unique index admits one unfinished row.
OnePending == \A o1, o2 \in Pending : o1 = o2

\* Only an unsettled edit holds bytes, and they carry its own receipt.
RowsShaped ==
  \A o \in Ops :
    /\ row[o].body # None =>
         /\ row[o].state \in {"prepared", "frozen"} /\ Kind(o) \notin Cleanups
         /\ row[o].body.op = o /\ row[o].body.attempt = row[o].attempt
    /\ row[o].body = None /\ row[o].state # "applied" => row[o].attempt = 0

\* A PUT of these bytes under this ETag can no longer land, or it is the exact
\* PUT of the row that admitted it.  An empty root never replaces anything.
Fenced(etag, b) ==
  IF b.op = Root THEN etag = 0
  ELSE \/ etag < manifest.etag
       \/ row[b.op].body = b /\ row[b.op].etag = etag

RequestsFenced ==
  /\ \A m \in late : Fenced(m.etag, m.body)
  /\ \A p \in Procs : At(p, "put") => Fenced(task[p].cur.etag, task[p].plan.body)

\* What reached S3 is recorded as applied, or is the pending row's own attempt.
LandedOwned ==
  /\ manifest.etag = 0 => landed = {}
  /\ manifest.body # None /\ manifest.body.op # Root => Receipt(manifest.body) \in landed
  /\ \A r \in landed : r[1] # Root =>
       /\ row[r[1]].attempt = r[2]
       /\ \/ row[r[1]].state = "applied"
          \/ row[r[1]].body # None /\ row[r[1]].etag < manifest.etag
  /\ \A o \in Ops :
       row[o].state = "applied" /\ row[o].attempt # 0 => <<o, row[o].attempt>> \in landed

\* The row a process works on is unsettled and still leased to it.
Holds(p, o) == row[o].lease = p /\ ~ Terminal(o)

\* What a process may rely on at each point of an operation.
Recovering == {"freeze", "own", "compare", "reput", "begin", "outcome"}
Editing == {"read", "check", "prepare", "retire", "put"}

ProcessOK(p) ==
  LET o == task[p].op
      w == task[p].work IN
  /\ pc[p] # "idle" => o \in Ops
  /\ pc[p] \in Recovering => task[p].mode # "own"
  /\ pc[p] \in {"own", "compare", "reput", "absent", "settle", "finish"} => w \in Ops
  /\ pc[p] \notin {"idle", "root", "claim"} => Kind(o) # "retire"
  /\ pc[p] \in Editing \cup {"root"} /\ Kind(o) # "retire" =>
       /\ w = o
       /\ ~ At(p, "put") /\ Holds(p, o) => row[o].state = "open"
  /\ pc[p] \in {"check", "retire"} /\ Kind(o) = "alloc" => task[p].cur.body # None
  /\ At(p, "claim") => task[p].cur.body # None /\ Kind(o) = "retire"
  /\ At(p, "retire") => Kind(o) \in Cleanups
  /\ At(p, "prepare") => Kind(o) \notin Cleanups
  /\ pc[p] \in {"prepare", "put"} => task[p].plan.body # None /\ task[p].plan.body.op = o
  /\ At(p, "absent") =>
       (Holds(p, w) /\ row[w].state # "prepared" => row[w].body = None)
  /\ pc[p] \in {"settle", "finish"} =>
       /\ Holds(p, w) /\ row[w].body # None => <<w, row[w].attempt>> \in landed
       /\ task[p].mode = "own" => w = o
       /\ task[p].mode = "own" /\ Kind(o) \in Stable => \E r \in landed : r[1] = o

JobsAreCommits == \A o \in jobs : Kind(o) = "commit"

IInv ==
  /\ TypeOK
  /\ OnePending
  /\ RowsShaped
  /\ RequestsFenced
  /\ LandedOwned
  /\ \A p \in Procs : ProcessOK(p)
  /\ AckDurable
  /\ JobsAreCommits

(***************************************************************************)
(* Types                                                                   *)
(***************************************************************************)
\* A settled row, a frozen row and an opened row are rows.
LEMMA RowTypes ==
  ASSUME NEW r \in Rows, NEW p \in Procs
  PROVE  /\ [r EXCEPT !.state = "frozen", !.lease = p] \in Rows
         /\ [r EXCEPT !.state = "applied", !.body = None] \in Rows
         /\ [r EXCEPT !.state = "absent", !.body = None] \in Rows
         /\ [Unborn EXCEPT !.state = "open", !.lease = p, !.tries = r.tries] \in Rows
         /\ \A keys \in SUBSET Keys :
              [r EXCEPT !.state = "prepared", !.private = keys] \in Rows
<1>1. [r EXCEPT !.state = "frozen", !.lease = p] \in Rows
  BY DEF Rows
<1>2. [r EXCEPT !.state = "applied", !.body = None] \in Rows
  BY DEF Rows
<1>3. [r EXCEPT !.state = "absent", !.body = None] \in Rows
  BY DEF Rows
<1>0. Unborn \in Rows
  BY DEF Rows, Unborn
<1>4. [Unborn EXCEPT !.state = "open", !.lease = p, !.tries = r.tries] \in Rows
  BY <1>0 DEF Rows
<1>5. ASSUME NEW keys \in SUBSET Keys
      PROVE  [r EXCEPT !.state = "prepared", !.private = keys] \in Rows
  BY DEF Rows
<1> QED BY <1>1, <1>2, <1>3, <1>4, <1>5

\* Editing a manifest gives a manifest body by the operation itself.
LEMMA EditTypes ==
  ASSUME NEW o \in Ops, NEW b \in Bodies \cup {None}, row \in [Ops -> Rows], expired \subseteq Keys
  PROVE  /\ EditPlan(o, b) \in Plans
         /\ EditPlan(o, b).body \in Bodies /\ EditPlan(o, b).body # None
         /\ EditPlan(o, b).body.op = o
<1> DEFINE refs == EditRefs(o, b)
<1>1. Refs(b) \in SUBSET Keys /\ Work[o].adds \in SUBSET Keys /\ Work[o].drops \in SUBSET Keys
  BY WorkAssumption DEF Refs, Bodies
<1>2. refs \in SUBSET Keys
  BY <1>1 DEF EditRefs
<1>3. Cardinality(refs) \in Nat /\ Bytes(b) \in Nat
  BY <1>1, <1>2, FiniteAssumption, FS_Subset, FS_CardinalityType DEF Bytes
<1>4. EditDelta(o, b) \in Int
  BY <1>3 DEF EditDelta
<1>5. EditPrivate(o, b) \in SUBSET Keys
  BY <1>1, <1>2 DEF EditPrivate
<1>6. Current(o, b) \in Bodies
  BY DEF Current, RootBody, Bodies, Authors
<1>7. row[o].tries + 1 \in Nat
  BY DEF Rows
<1>8. EditBody(o, b) \in Bodies /\ EditBody(o, b).op = o
  BY <1>2, <1>6, <1>7 DEF EditBody, Bodies, Authors
<1> QED BY <1>4, <1>5, <1>8, NamesAssumption DEF EditPlan, Plans


\* What a process learns keeps its knowledge well formed.
LEMMA TaskTypes ==
  ASSUME NEW t \in Tasks
  PROVE  /\ Idle \in Tasks
         /\ \A mode \in {"own", "clash"} : [t EXCEPT !.mode = mode] \in Tasks
         /\ \A o \in Ops : /\ [t EXCEPT !.mode = "own", !.work = o] \in Tasks
                          /\ [t EXCEPT !.work = o] \in Tasks
         /\ \A o \in Ops, mode \in {"edit", "job", "own"} :
              [Idle EXCEPT !.mode = mode, !.op = o] \in Tasks
         /\ \A m \in Manifests : [t EXCEPT !.cur = m] \in Tasks
         /\ \A plan \in Plans : [t EXCEPT !.plan = plan] \in Tasks
<1>1. NoManifest \in Manifests /\ NoPlan \in Plans
  BY DEF NoManifest, NoPlan, Manifests, Plans
<1>2. Idle \in Tasks
  BY <1>1 DEF Idle, Tasks
<1>3. \A mode \in {"own", "clash"} : [t EXCEPT !.mode = mode] \in Tasks
  BY DEF Tasks
<1>4. \A o \in Ops : /\ [t EXCEPT !.mode = "own", !.work = o] \in Tasks
                    /\ [t EXCEPT !.work = o] \in Tasks
  BY DEF Tasks
<1>5. \A o \in Ops, mode \in {"edit", "job", "own"} :
        [Idle EXCEPT !.mode = mode, !.op = o] \in Tasks
  BY <1>2 DEF Tasks
<1>6. \A m \in Manifests : [t EXCEPT !.cur = m] \in Tasks
  BY DEF Tasks
<1>7. \A plan \in Plans : [t EXCEPT !.plan = plan] \in Tasks
  BY DEF Tasks
<1> QED BY <1>2, <1>3, <1>4, <1>5, <1>6, <1>7

\* A process that returns, moves on, or learns something keeps its type.
LEMMA ControlTypes ==
  ASSUME TypeOK, NEW p \in Procs
  PROVE  /\ Leave(p) => /\ pc' \in [Procs -> Labels] /\ task' \in [Procs -> Tasks]
                        /\ lock' \in Procs \cup {None}
         /\ \A label \in Labels : Goto(p, label) => pc' \in [Procs -> Labels]
         /\ \A t \in Tasks : Know(p, t) => task' \in [Procs -> Tasks]
         /\ Keep(p) => task' \in [Procs -> Tasks]
         /\ Stay => lock' \in Procs \cup {None}
<1>1. Leave(p) => task' \in [Procs -> Tasks]
  BY TaskTypes DEF TypeOK, Leave, Know
<1>2. Leave(p) => pc' \in [Procs -> Labels] /\ lock' \in Procs \cup {None}
  BY DEF TypeOK, Leave, Goto, Labels
<1>3. \A label \in Labels : Goto(p, label) => pc' \in [Procs -> Labels]
  BY DEF TypeOK, Goto
<1>4. \A t \in Tasks : Know(p, t) => task' \in [Procs -> Tasks]
  BY DEF TypeOK, Know
<1> QED BY <1>1, <1>2, <1>3, <1>4 DEF TypeOK, Keep, Stay

LEMMA TypeStart ==
  ASSUME TypeOK, NEW p \in Procs, NEW o \in Ops,
         Start(p, o) \/ RunJob(p, o) \/ StartRetire(p, o)
  PROVE  TypeOK'
<1>1. task' \in [Procs -> Tasks]
  BY ControlTypes, TaskTypes DEF TypeOK, Start, RunJob, StartRetire
<1>2. pc' \in [Procs -> Labels] /\ lock' \in Procs \cup {None}
  BY ControlTypes DEF TypeOK, Start, RunJob, StartRetire, Labels
<1> QED BY <1>1, <1>2 DEF TypeOK, Start, RunJob, StartRetire, StoreSame, RowsSame, KeysSame, EnvSame

LEMMA TypeFreeze ==
  ASSUME TypeOK, NEW p \in Procs, Freeze(p)
  PROVE  TypeOK'
<1> USE DEF Freeze, Stay, StoreSame, KeysSame, EnvSame, Goto, Know, Keep
<1>1. row' \in [Ops -> Rows] /\ task' \in [Procs -> Tasks]
  <2>1. CASE UNCHANGED <<row, task>>
    BY <2>1 DEF TypeOK
  <2>2. CASE \E o \in Pending :
               /\ row' = [row EXCEPT ![o] = [@ EXCEPT !.state = "frozen", !.lease = p]]
               /\ task' = [task EXCEPT ![p] = [task[p] EXCEPT !.work = o]]
    <3>1. PICK o \in Pending :
               /\ row' = [row EXCEPT ![o] = [@ EXCEPT !.state = "frozen", !.lease = p]]
               /\ task' = [task EXCEPT ![p] = [task[p] EXCEPT !.work = o]]
      BY <2>2
    <3>2. o \in Ops /\ row[o] \in Rows /\ task[p] \in Tasks
      BY DEF Pending, TypeOK
    <3> QED BY <3>1, <3>2, TaskTypes, RowTypes DEF TypeOK
  <2> QED BY <2>1, <2>2
<1>2. pc' \in [Procs -> Labels]
  BY DEF TypeOK, Labels, Recovered, Recovery
<1> QED BY <1>1, <1>2 DEF TypeOK

LEMMA TypeBegin ==
  ASSUME TypeOK, NEW p \in Procs, Begin(p), task[p].op \in Ops
  PROVE  TypeOK'
<1> DEFINE o == task[p].op
           opened == [Unborn EXCEPT !.state = "open", !.lease = p, !.tries = row[o].tries]
           learnt == [task[p] EXCEPT !.mode = "own", !.work = o]
<1>1. opened \in Rows
  BY RowTypes DEF TypeOK
<1>2. learnt \in Tasks
  BY TaskTypes DEF TypeOK
<1>3. row' \in [Ops -> Rows]
  <2>1. row' = row \/ row' = [row EXCEPT ![o] = opened]
    BY DEF Begin
  <2> QED BY <2>1, <1>1 DEF TypeOK
<1>4. task' \in [Procs -> Tasks] /\ lock' \in Procs \cup {None} /\ pc' \in [Procs -> Labels]
  <2>1. Leave(p) \/ (Know(p, learnt) /\ Goto(p, "read") /\ Stay)
    BY DEF Begin
  <2>2. CASE Leave(p)
    BY <2>2, ControlTypes
  <2>3. CASE Know(p, learnt) /\ Goto(p, "read") /\ Stay
    <3>1. "read" \in Labels
      BY DEF Labels
    <3> HIDE DEF learnt
    <3> QED BY <2>3, <3>1, <1>2, ControlTypes
  <2> QED BY <2>1, <2>2, <2>3
<1>5. acked' \subseteq Ops
  BY DEF Begin, TypeOK
<1> QED BY <1>3, <1>4, <1>5 DEF TypeOK, Begin, StoreSame, KeysSame, EnvSame

LEMMA TypeRecovery ==
  ASSUME TypeOK, NEW p \in Procs, task[p].op \in Ops,
         CheckOwned(p) \/ Compare(p) \/ Settle(p) \/ Outcome(p) \/ PutRefused(p)
  PROVE  TypeOK'
<1>1. task' \in [Procs -> Tasks]
  BY ControlTypes, TaskTypes DEF TypeOK, CheckOwned, Compare, Settle, Outcome, PutRefused
<1>2. pc' \in [Procs -> Labels] /\ lock' \in Procs \cup {None}
  BY ControlTypes DEF CheckOwned, Compare, Settle, Outcome, PutRefused, Labels
<1>3. alloc' \in [Keys -> Allocations]
  BY DEF TypeOK, CheckOwned, Compare, Settle, Outcome, PutRefused, KeysSame, RetireKeys, Allocations
<1>4. acked' \subseteq Ops /\ jobs' \subseteq Ops
  BY DEF TypeOK, CheckOwned, Compare, Settle, Outcome, PutRefused, RowsSame
<1> QED BY <1>1, <1>2, <1>3, <1>4 DEF TypeOK, CheckOwned, Compare, Settle, Outcome, PutRefused,
            StoreSame, RowsSame, KeysSame, EnvSame

LEMMA TypeFinish ==
  ASSUME TypeOK, NEW p \in Procs, task[p].op \in Ops, task[p].work \in Ops,
         Finish(p) \/ FinishAbsent(p)
  PROVE  TypeOK'
<1> DEFINE o == task[p].work
           applied == [row[o] EXCEPT !.state = "applied", !.body = None]
           absent == [row[o] EXCEPT !.state = "absent", !.body = None]
<1>1. row' \in [Ops -> Rows]
  <2>1. row' = row \/ row' = [row EXCEPT ![o] = applied] \/ row' = [row EXCEPT ![o] = absent]
    BY DEF Finish, FinishAbsent, FinishRow
  <2>2. applied \in Rows /\ absent \in Rows
    BY RowTypes DEF TypeOK
  <2> HIDE DEF applied, absent
  <2> QED BY <2>1, <2>2 DEF TypeOK
<1>2. used' \in Nat
  <2>1. used' = used \/ used' = Settled(o, TRUE) \/ used' = Settled(o, FALSE)
    BY DEF Finish, FinishAbsent, FinishRow
  <2>2. row[o].delta \in Int /\ row[o].charged \in Nat
    BY DEF TypeOK, Rows
  <2> QED BY <2>1, <2>2 DEF TypeOK, Settled, AtLeastZero
<1>3. task' \in [Procs -> Tasks] /\ lock' \in Procs \cup {None} /\ pc' \in [Procs -> Labels]
  <2>1. Leave(p) \/ (Recovered(p) /\ Keep(p) /\ Stay)
    BY DEF Finish, FinishAbsent, Answer
  <2>2. CASE Leave(p)
    BY <2>2, ControlTypes
  <2>3. CASE Recovered(p) /\ Keep(p) /\ Stay
    <3>1. {"begin", "outcome"} \subseteq Labels
      BY DEF Labels
    <3> QED BY <2>3, <3>1, ControlTypes DEF Recovered
  <2> QED BY <2>1, <2>2, <2>3
<1>4. acked' \subseteq Ops
  BY DEF Finish, FinishAbsent, Answer, TypeOK
<1> QED BY <1>1, <1>2, <1>3, <1>4 DEF TypeOK, Finish, FinishAbsent, StoreSame, KeysSame, EnvSame

LEMMA TypeCompute ==
  ASSUME TypeOK, NEW p \in Procs, task[p].op \in Ops,
         Read(p) \/ CheckEdit(p) \/ CheckCleanup(p) \/ CaptureRoot(p)
  PROVE  TypeOK'
<1>1. task[p] \in Tasks /\ manifest \in Manifests /\ row \in [Ops -> Rows] /\ expired \subseteq Keys
  BY DEF TypeOK
<1>2. task' \in [Procs -> Tasks]
  <2>1. CASE Read(p) \/ CaptureRoot(p)
    BY <2>1, <1>1, TaskTypes, ControlTypes DEF Read, CaptureRoot
  <2>2. CASE CheckEdit(p)
    <3> DEFINE plan == EditPlan(task[p].op, task[p].cur.body)
    <3>1. task[p].cur.body \in Bodies \cup {None}
      BY <1>1 DEF Tasks, Manifests
    <3>2. plan \in Plans
      BY <3>1, <1>1, EditTypes
    <3>3. Keep(p) \/ Know(p, [task[p] EXCEPT !.plan = plan])
      BY <2>2 DEF CheckEdit
    <3> HIDE DEF plan
    <3> QED BY <3>2, <3>3, <1>1, TaskTypes, ControlTypes
  <2>3. CASE CheckCleanup(p)
    <3> DEFINE private == IF Kind(task[p].op) = "drop"
                            THEN Work[task[p].op].drops \ Refs(task[p].cur.body) ELSE {}
               plan == [NoPlan EXCEPT !.private = private]
    <3>1. private \in SUBSET Keys
      BY WorkAssumption
    <3> HIDE DEF private
    <3>2. plan \in Plans
      BY <3>1 DEF NoPlan, Plans
    <3>3. Keep(p) \/ Know(p, [task[p] EXCEPT !.plan = plan])
      BY <2>3 DEF CheckCleanup, private
    <3> HIDE DEF plan
    <3> QED BY <3>2, <3>3, <1>1, TaskTypes, ControlTypes
  <2> QED BY <2>1, <2>2, <2>3
<1>3. pc' \in [Procs -> Labels]
  BY DEF TypeOK, Labels, Goto, Read, CheckEdit, CheckCleanup, CaptureRoot
<1> QED BY <1>2, <1>3 DEF TypeOK, Read, CheckEdit, CheckCleanup, CaptureRoot,
            Stay, StoreSame, RowsSame, KeysSame, EnvSame

LEMMA TypePrepare ==
  ASSUME TypeOK, NEW p \in Procs, task[p].op \in Ops, task[p].plan.body # None, Prepare(p)
  PROVE  TypeOK'
<1> DEFINE o == task[p].op
           plan == task[p].plan
           charge == AtLeastZero(plan.delta)
           prepared == [row[o] EXCEPT !.state = "prepared", !.attempt = plan.body.attempt,
                               !.tries = plan.body.attempt, !.etag = task[p].cur.etag,
                               !.body = plan.body, !.delta = plan.delta,
                               !.charged = charge, !.private = plan.private]
<1>1. row[o] \in Rows /\ plan \in Plans /\ task[p].cur.etag \in Nat
  BY DEF TypeOK, Tasks, Manifests
<1>2. charge \in Nat
  BY <1>1 DEF AtLeastZero, Plans
<1>3. plan.body \in Bodies /\ plan.body.attempt \in Nat
  BY <1>1 DEF Plans, Bodies
<1>4. prepared \in Rows
  BY <1>1, <1>2, <1>3 DEF Rows, Plans
<1>5. \/ UNCHANGED <<row, used, jobs>>
      \/ row' = [row EXCEPT ![o] = prepared] /\ used' = used + charge /\ jobs' = Enqueued(o)
  BY DEF Prepare
<1>6. row' \in [Ops -> Rows] /\ used' \in Nat /\ jobs' \subseteq Ops
  <2> HIDE DEF prepared, charge
  <2> QED BY <1>2, <1>4, <1>5 DEF TypeOK, Enqueued
<1>7. pc' \in [Procs -> Labels] /\ faults' \in Nat
  BY DEF TypeOK, Prepare, Acknowledged, Goto, EnvSame, Fault, Labels
<1> QED BY <1>6, <1>7 DEF TypeOK, Prepare, Keep, Stay, StoreSame, KeysSame

LEMMA TypePrepareCleanup ==
  ASSUME TypeOK, NEW p \in Procs, task[p].op \in Ops, PrepareCleanup(p),
         Kind(task[p].op) = "alloc" => task[p].cur.body # None
  PROVE  TypeOK'
<1> DEFINE o == task[p].op
           keys == task[p].plan.private
           prepared == [row[o] EXCEPT !.state = "prepared", !.private = keys]
           inc == task[p].cur.body.inc
           fresh == IF Kind(o) = "alloc" THEN Work[o].adds ELSE {}
<1>1. row[o] \in Rows /\ keys \in SUBSET Keys
  BY DEF TypeOK, Tasks, Plans
<1>2. prepared \in Rows
  BY <1>1, RowTypes
<1>3. row' = row \/ row' = [row EXCEPT ![o] = prepared]
  BY DEF PrepareCleanup
<1>4. row' \in [Ops -> Rows]
  <2> HIDE DEF prepared
  <2> QED BY <1>2, <1>3 DEF TypeOK
<1>5. alloc' \in [Keys -> Allocations]
  <2>1. fresh # {} => inc \in Authors \cup {None}
    BY DEF TypeOK, Tasks, Manifests, Bodies
  <2> QED BY <2>1 DEF TypeOK, PrepareCleanup, RetireKeys, Allocations
<1>6. pc' \in [Procs -> Labels] /\ faults' \in Nat
  BY DEF TypeOK, PrepareCleanup, Acknowledged, Goto, EnvSame, Fault, Labels
<1> QED BY <1>4, <1>5, <1>6 DEF TypeOK, PrepareCleanup, Keep, Stay, StoreSame

\* A PUT leaves a well-formed object, whoever sent it and whenever it lands.
LEMMA StoreTypes ==
  ASSUME TypeOK, NEW etag \in Nat, NEW b \in Bodies, Store(etag, b)
  PROVE  manifest' \in Manifests /\ landed' \subseteq Authors \X Nat
<1>1. Receipt(b) \in Authors \X Nat
  BY DEF Receipt, Bodies
<1> QED BY <1>1 DEF TypeOK, Store, Manifests

LEMMA TypePut ==
  ASSUME TypeOK, NEW p \in Procs, Sending(p) => task[p].work \in Ops, PutOk(p) \/ PutUnknown(p)
  PROVE  TypeOK'
<1>1. IfMatch(p) \in Nat /\ Content(p) \in Bodies
  <2>1. task[p] \in Tasks /\ (Sending(p) => row[task[p].work] \in Rows)
    BY DEF TypeOK
  <2>2. RootBody \in Bodies
    BY DEF RootBody, Bodies, Authors
  <2>3. Request(p).body = Content(p) /\ Content(p) # None
    BY NamesAssumption, <2>2 DEF Request, PutOk, PutUnknown
  <2> QED BY <2>1, <2>2, <2>3 DEF IfMatch, Content, Tasks, Manifests, Plans, Rows, Sending, At
<1>2. Request(p) \in Requests /\ Request(p).etag = IfMatch(p) /\ Request(p).body = Content(p)
  BY <1>1 DEF Request, Requests
<1>3. late' \subseteq Requests
  BY <1>2 DEF TypeOK, PutOk, PutUnknown
<1>4. manifest' \in Manifests /\ landed' \subseteq Authors \X Nat
  BY <1>1, <1>2, StoreTypes DEF TypeOK, PutOk, PutUnknown
<1>5. task' \in [Procs -> Tasks] /\ pc' \in [Procs -> Labels] /\ lock' \in Procs \cup {None}
  <2>1. {"settle", "absent"} \subseteq Labels
    BY DEF Labels
  <2> QED BY <2>1, ControlTypes DEF PutOk, PutUnknown
<1>6. faults' \in Nat
  BY DEF TypeOK, PutOk, PutUnknown, EnvSame, Fault
<1> QED BY <1>3, <1>4, <1>5, <1>6 DEF TypeOK, PutOk, PutUnknown, RowsSame, KeysSame

LEMMA TypeLate ==
  ASSUME TypeOK, NEW m \in late, Land(m) \/ Drop(m)
  PROVE  TypeOK'
<1>1. m.etag \in Nat /\ m.body \in Bodies
  BY DEF TypeOK, Requests
<1>2. manifest' \in Manifests /\ landed' \subseteq Authors \X Nat
  BY <1>1, StoreTypes DEF TypeOK, Land, Drop
<1> QED BY <1>2 DEF TypeOK, Land, Drop, Stay, RowsSame, KeysSame, EnvSame

LEMMA TypeRoot ==
  ASSUME TypeOK, NEW p \in Procs, PutRoot(p)
  PROVE  TypeOK'
<1>1. RootBody \in Bodies
  BY DEF RootBody, Bodies, Authors
<1>2. manifest' \in Manifests /\ landed' \subseteq Authors \X Nat
  BY <1>1, StoreTypes DEF PutRoot
<1>3. task' \in [Procs -> Tasks]
  BY <1>2, TaskTypes DEF TypeOK, PutRoot, Know
<1>4. pc' \in [Procs -> Labels]
  BY DEF TypeOK, Labels, Goto, PutRoot
<1> QED BY <1>2, <1>3, <1>4 DEF TypeOK, PutRoot, Stay, RowsSame, KeysSame, EnvSame

LEMMA TypeFaults ==
  ASSUME TypeOK, NEW p \in Procs, Crash(p) \/ LoseLock(p) \/ ClaimRetirement(p),
         At(p, "claim") => task[p].op \in Ops /\ task[p].cur.body # None
  PROVE  TypeOK'
<1>1. task' \in [Procs -> Tasks] /\ pc' \in [Procs -> Labels] /\ lock' \in Procs \cup {None}
  <2>1. CASE Leave(p)
    BY <2>1, ControlTypes
  <2>2. CASE LoseLock(p)
    BY <2>2 DEF TypeOK, LoseLock
  <2> QED BY <2>1, <2>2 DEF Crash, ClaimRetirement
<1>2. faults' \in Nat
  BY DEF TypeOK, Crash, LoseLock, ClaimRetirement, EnvSame, Fault
<1>3. retired' \subseteq Authors /\ acked' \subseteq Ops
  <2>1. At(p, "claim") => task[p].cur.body \in Bodies
    BY DEF TypeOK, Tasks, Manifests
  <2> QED BY <2>1 DEF TypeOK, Crash, LoseLock, ClaimRetirement, KeysSame, Bodies
<1> QED BY <1>1, <1>2, <1>3 DEF TypeOK, Crash, LoseLock, ClaimRetirement,
            StoreSame, RowsSame, KeysSame, EnvSame

LEMMA TypeExpire ==
  ASSUME TypeOK, NEW k \in Keys, Expire(k)
  PROVE  TypeOK'
  BY DEF TypeOK, Expire, Stay, StoreSame, RowsSame, EnvSame

LEMMA TypeNext ==
  ASSUME TypeOK, \A p \in Procs : ProcessOK(p), [Next]_vars
  PROVE  TypeOK'
<1>1. CASE UNCHANGED vars
  BY <1>1 DEF TypeOK, vars
<1>2. ASSUME NEW p \in Procs, NEW o \in Ops, Start(p, o) \/ RunJob(p, o) \/ StartRetire(p, o)
      PROVE  TypeOK'
  BY <1>2, TypeStart
<1>3. ASSUME NEW p \in Procs, Step(p)
      PROVE  TypeOK'
  <2>1. ProcessOK(p)
    OBVIOUS
  <2>2. CASE Freeze(p)
    BY <2>2, TypeFreeze
  <2>3. CASE CheckOwned(p) \/ Compare(p) \/ Settle(p) \/ Outcome(p) \/ PutRefused(p)
    <3>1. task[p].op \in Ops
      BY <2>1, <2>3 DEF ProcessOK, CheckOwned, Compare, Settle, Outcome, PutRefused, Sending, At
    <3> QED BY <2>3, <3>1, TypeRecovery
  <2>4. CASE Finish(p) \/ FinishAbsent(p)
    <3>1. task[p].op \in Ops /\ task[p].work \in Ops
      BY <2>1, <2>4 DEF ProcessOK, Finish, FinishAbsent, At
    <3> QED BY <2>4, <3>1, TypeFinish
  <2>5. CASE Begin(p)
    <3>1. task[p].op \in Ops
      BY <2>1, <2>5 DEF ProcessOK, Begin, At
    <3> QED BY <2>5, <3>1, TypeBegin
  <2>6. CASE Read(p) \/ CheckEdit(p) \/ CheckCleanup(p) \/ CaptureRoot(p)
    <3>1. task[p].op \in Ops
      BY <2>1, <2>6 DEF ProcessOK, Read, CheckEdit, CheckCleanup, CaptureRoot, At
    <3> QED BY <2>6, <3>1, TypeCompute
  <2>7. CASE Prepare(p)
    <3>1. task[p].op \in Ops /\ task[p].plan.body # None
      BY <2>1, <2>7 DEF ProcessOK, Prepare, At
    <3> QED BY <2>7, <3>1, TypePrepare
  <2>8. CASE PrepareCleanup(p)
    <3>1. task[p].op \in Ops /\ (Kind(task[p].op) = "alloc" => task[p].cur.body # None)
      BY <2>1, <2>8 DEF ProcessOK, PrepareCleanup, At
    <3> QED BY <2>8, <3>1, TypePrepareCleanup
  <2>9. CASE PutOk(p)
    <3>1. Sending(p) => task[p].work \in Ops
      BY <2>1 DEF ProcessOK, Sending, Editing, At
    <3> QED BY <2>9, <3>1, TypePut
  <2>10. CASE PutRoot(p)
    BY <2>10, TypeRoot
  <2>11. CASE ClaimRetirement(p)
    <3>1. At(p, "claim") => task[p].op \in Ops /\ task[p].cur.body # None
      BY <2>1 DEF ProcessOK, At
    <3> QED BY <2>11, <3>1, TypeFaults
  <2> QED BY <1>3, <2>2, <2>3, <2>4, <2>5, <2>6, <2>7, <2>8, <2>9, <2>10, <2>11 DEF Step
<1>4. ASSUME NEW p \in Procs, PutUnknown(p)
      PROVE  TypeOK'
  <2>1. Sending(p) => task[p].work \in Ops
    BY DEF ProcessOK, Sending, Editing, At
  <2> QED BY <1>4, <2>1, TypePut
<1>5. ASSUME NEW p \in Procs, Crash(p) \/ LoseLock(p)
      PROVE  TypeOK'
  <2>1. At(p, "claim") => task[p].op \in Ops /\ task[p].cur.body # None
    BY DEF ProcessOK, At
  <2> QED BY <1>5, <2>1, TypeFaults
<1>6. ASSUME NEW m \in late, Land(m) \/ Drop(m)
      PROVE  TypeOK'
  BY <1>6, TypeLate
<1>7. ASSUME NEW k \in Keys, Expire(k)
      PROVE  TypeOK'
  BY <1>7, TypeExpire
<1> QED BY <1>1, <1>2, <1>3, <1>4, <1>5, <1>6, <1>7 DEF Next

(***************************************************************************)
(* Steps                                                                   *)
(***************************************************************************)
\* A step of another process takes nothing from q: it only touches rows that
\* q does not hold afterwards.
LEMMA OthersKeep ==
  ASSUME NEW q \in Procs, ProcessOK(q), pc'[q] = pc[q], task'[q] = task[q],
         task[q].op \in Ops \cup {None}, task[q].work \in Ops \cup {None},
         landed \subseteq landed',
         \A w \in Ops : row'[w] = row[w] \/ row'[w].lease # q \/ row'[w].state \in {"applied", "absent"}
  PROVE  ProcessOK(q)'
<1> DEFINE o == task[q].op
           w == task[q].work
<1>1. \A x \in Ops : row'[x].lease = q /\ row'[x].state \notin {"applied", "absent"}
                       => row'[x] = row[x]
  OBVIOUS
<1>2. pc[q] \in Editing \cup {"root"} /\ Kind(o) # "retire" =>
        /\ w = o
        /\ pc[q] # "put" /\ row'[o].lease = q /\ row'[o].state \notin {"applied", "absent"}
             => row'[o].state = "open"
  BY <1>1 DEF ProcessOK, At, Holds, Terminal, Editing
<1>3. pc[q] = "absent" =>
        (row'[w].lease = q /\ row'[w].state \notin {"applied", "absent", "prepared"}
           => row'[w].body = None)
  BY <1>1 DEF ProcessOK, At, Holds, Terminal
<1>4. pc[q] \in {"settle", "finish"} =>
        /\ row'[w].lease = q /\ row'[w].state \notin {"applied", "absent"} /\ row'[w].body # None
             => <<w, row'[w].attempt>> \in landed'
        /\ task[q].mode = "own" /\ Kind(o) \in Stable => \E r \in landed' : r[1] = o
  BY <1>1 DEF ProcessOK, Holds, Terminal
<1> QED BY <1>2, <1>3, <1>4 DEF ProcessOK, At, Holds, Terminal

\* A process that returned relies on nothing.
LEMMA IdleOK ==
  ASSUME NEW p \in Procs, pc'[p] = "idle"
  PROVE  ProcessOK(p)'
  BY DEF ProcessOK, At, Recovering, Editing

\* Steps that touch neither storage nor a row.
LEMMA LocalStep ==
  ASSUME IInv, TypeOK', NEW p \in Procs,
         UNCHANGED <<manifest, row, landed>>, late' \subseteq late, jobs' \subseteq jobs,
         \A q \in Procs \ {p} : pc'[q] = pc[q] /\ task'[q] = task[q],
         pc'[p] = "put" => pc[p] = "put" /\ task'[p] = task[p],
         ProcessOK(p)',
         \A o \in acked' \ acked : Kind(o) \in Stable => row[o].state = "applied"
  PROVE  IInv'
<1>1. OnePending' /\ RowsShaped'
  BY DEF IInv, OnePending, RowsShaped, Pending
<1>2. RequestsFenced'
  BY DEF IInv, RequestsFenced, Fenced, At
<1>3. LandedOwned'
  BY DEF IInv, LandedOwned
<1>4. ASSUME NEW q \in Procs PROVE ProcessOK(q)'
  <2>1. CASE q = p
    BY <2>1
  <2>2. CASE q # p
    <3>1. task[q].op \in Ops \cup {None} /\ task[q].work \in Ops \cup {None}
      BY DEF IInv, TypeOK, Tasks
    <3> QED BY <2>2, <3>1, OthersKeep DEF IInv
  <2> QED BY <2>1, <2>2
<1>5. AckDurable' /\ JobsAreCommits'
  BY DEF IInv, AckDurable, JobsAreCommits
<1> QED BY <1>1, <1>2, <1>3, <1>4, <1>5 DEF IInv

\* Steps that change one row, and no object.
LEMMA RowStep ==
  ASSUME IInv, TypeOK', NEW p \in Procs, NEW o \in Ops, NEW r,
         row' = [row EXCEPT ![o] = r],
         UNCHANGED <<manifest, late, landed>>,
         \A q \in Procs \ {p} : pc'[q] = pc[q] /\ task'[q] = task[q],
         r.lease = p \/ r.state \in {"applied", "absent"},
         r.state \in {"open", "prepared", "frozen"} => o \in Pending \/ Pending = {},
         r.body # None =>
           /\ r.state \in {"prepared", "frozen"} /\ Kind(o) \notin Cleanups
           /\ r.body.op = o /\ r.body.attempt = r.attempt,
         r.body = None /\ r.state # "applied" => r.attempt = 0,
         \/ row[o].body = None
         \/ r.body = row[o].body /\ r.etag = row[o].etag
         \/ row[o].etag < manifest.etag,
         pc'[p] = "put" => Fenced(task[p].cur.etag, task[p].plan.body)' /\ task'[p] = task[p],
         (\E x \in landed : x[1] = o) =>
           /\ r.attempt = row[o].attempt
           /\ r.state = "applied" \/ (r.body = row[o].body /\ r.etag = row[o].etag
                                      /\ row[o].state # "applied"),
         r.state = "applied" /\ r.attempt # 0 => <<o, r.attempt>> \in landed,
         row[o].state = "applied" => r.state = "applied",
         ProcessOK(p)',
         \A x \in acked' \ acked : Kind(x) \in Stable => row'[x].state = "applied",
         \A x \in jobs' \ jobs : Kind(x) = "commit"
  PROVE  IInv'
<1>0. row \in [Ops -> Rows] /\ manifest \in Manifests
  BY DEF IInv, TypeOK
<1>1. row'[o] = r /\ \A x \in Ops \ {o} : row'[x] = row[x]
  BY <1>0
<1>2. OnePending'
  BY <1>0, <1>1 DEF IInv, OnePending, Pending
<1>3. RowsShaped'
  BY <1>0, <1>1 DEF IInv, RowsShaped, Pending
<1>4. ASSUME NEW etag \in Nat, NEW b \in Bodies, Fenced(etag, b)
      PROVE  Fenced(etag, b)'
  <2>1. CASE b.op = Root
    BY <1>4, <2>1 DEF Fenced
  <2>2. CASE b.op \in Ops
    BY <1>0, <1>1, <1>4, <2>2, NamesAssumption DEF Fenced
  <2> QED BY <2>1, <2>2 DEF Bodies, Authors
<1>5. RequestsFenced'
  <2>1. \A m \in late' : Fenced(m.etag, m.body)'
    BY <1>4 DEF IInv, TypeOK, Requests, RequestsFenced
  <2>2. ASSUME NEW q \in Procs, At(q, "put")'
        PROVE  Fenced(task[q].cur.etag, task[q].plan.body)'
    <3>1. CASE q = p
      BY <2>2, <3>1 DEF At
    <3>2. CASE q # p
      <4>1. At(q, "put") /\ task'[q] = task[q] /\ task[q] \in Tasks
        BY <2>2, <3>2 DEF At, IInv, TypeOK
      <4>2. task[q].cur.etag \in Nat /\ task[q].plan.body \in Bodies
        BY <4>1 DEF Tasks, Manifests, Plans, IInv, ProcessOK, At
      <4>3. Fenced(task[q].cur.etag, task[q].plan.body)
        BY <4>1 DEF IInv, RequestsFenced
      <4> QED BY <4>1, <4>2, <4>3, <1>4 DEF Fenced
    <3> QED BY <3>1, <3>2
  <2> QED BY <2>1, <2>2 DEF RequestsFenced
<1>6. LandedOwned'
  <2>1. ASSUME NEW x \in landed', x[1] # Root
        PROVE  /\ row'[x[1]].attempt = x[2]
               /\ \/ row'[x[1]].state = "applied"
                  \/ row'[x[1]].body # None /\ row'[x[1]].etag < manifest'.etag
    <3>1. x \in landed /\ x[1] \in Ops
      BY <2>1 DEF IInv, TypeOK, Authors
    <3> QED BY <1>1, <2>1, <3>1 DEF IInv, LandedOwned
  <2>2. \A x \in Ops : row'[x].state = "applied" /\ row'[x].attempt # 0
                         => <<x, row'[x].attempt>> \in landed'
    BY <1>1 DEF IInv, LandedOwned
  <2> QED BY <2>1, <2>2 DEF IInv, LandedOwned, Receipt
<1>7. ASSUME NEW q \in Procs PROVE ProcessOK(q)'
  <2>1. CASE q = p
    BY <2>1
  <2>2. CASE q # p
    <3>1. task[q].op \in Ops \cup {None} /\ task[q].work \in Ops \cup {None}
      BY DEF IInv, TypeOK, Tasks
    <3>2. \A w \in Ops : row'[w] = row[w] \/ row'[w].lease # q
                           \/ row'[w].state \in {"applied", "absent"}
      BY <1>1, <2>2
    <3> QED BY <2>2, <3>1, <3>2, OthersKeep DEF IInv
  <2> QED BY <2>1, <2>2
<1>8. AckDurable' /\ JobsAreCommits'
  BY <1>1 DEF IInv, TypeOK, AckDurable, JobsAreCommits
<1> QED BY <1>2, <1>3, <1>5, <1>6, <1>7, <1>8 DEF IInv

\* The steps of a call that read, compute, wait or return.
LEMMA LocalActions ==
  ASSUME IInv, TypeOK', NEW p \in Procs,
         \/ \E o \in Ops : Start(p, o) \/ RunJob(p, o) \/ StartRetire(p, o)
         \/ CheckOwned(p) \/ Compare(p) \/ Settle(p) \/ Outcome(p) \/ Read(p) \/ CheckEdit(p)
         \/ CheckCleanup(p) \/ PutRefused(p) \/ CaptureRoot(p) \/ ClaimRetirement(p) \/ Crash(p)
  PROVE  IInv'
<1> DEFINE o == task[p].op
           w == task[p].work
<1>1. /\ task \in [Procs -> Tasks] /\ pc \in [Procs -> Labels] /\ ProcessOK(p)
      /\ row \in [Ops -> Rows]
  BY DEF IInv, TypeOK
<1>2. SUFFICES /\ UNCHANGED <<manifest, row, landed, late>> /\ jobs' \subseteq jobs
               /\ \A q \in Procs \ {p} : pc'[q] = pc[q] /\ task'[q] = task[q]
               /\ pc'[p] # "put"
               /\ ProcessOK(p)'
               /\ \A x \in acked' \ acked : Kind(x) \in Stable => row[x].state = "applied"
  BY LocalStep
<1> USE DEF StoreSame, RowsSame, Goto, Know, Keep, At
<1>3. ASSUME NEW x \in Ops, Start(p, x) \/ RunJob(p, x) \/ StartRetire(p, x)
      PROVE  /\ UNCHANGED <<manifest, row, landed, late, acked, jobs>>
             /\ \A q \in Procs \ {p} : pc'[q] = pc[q] /\ task'[q] = task[q]
             /\ pc'[p] # "put"
             /\ ProcessOK(p)'
  <2>1. /\ UNCHANGED <<manifest, row, landed, late, acked, jobs>>
        /\ \A q \in Procs \ {p} : pc'[q] = pc[q] /\ task'[q] = task[q]
    BY <1>1, <1>3 DEF Start, RunJob, StartRetire
  <2>2. CASE Start(p, x) \/ RunJob(p, x)
    <3>1. /\ pc'[p] = "freeze" /\ task'[p].op = x /\ Kind(x) # "retire"
          /\ task'[p].mode \in {"edit", "job"}
      BY <1>1, <2>2 DEF Start, RunJob, Idle, IInv, JobsAreCommits
    <3> QED BY <2>1, <3>1 DEF ProcessOK, Recovering, Editing
  <2>3. CASE StartRetire(p, x)
    <3>1. pc'[p] = "root" /\ task'[p].op = x /\ Kind(x) = "retire"
      BY <1>1, <2>3 DEF StartRetire, Idle
    <3> QED BY <2>1, <3>1 DEF ProcessOK, Recovering, Editing
  <2> QED BY <1>3, <2>1, <2>2, <2>3
<1>4. ASSUME \/ CheckOwned(p) \/ Compare(p) \/ Settle(p) \/ Outcome(p) \/ Read(p) \/ CheckEdit(p)
             \/ CheckCleanup(p) \/ PutRefused(p) \/ CaptureRoot(p) \/ ClaimRetirement(p) \/ Crash(p)
      PROVE  /\ UNCHANGED <<manifest, row, landed, late>> /\ jobs' \subseteq jobs
             /\ \A q \in Procs \ {p} : pc'[q] = pc[q] /\ task'[q] = task[q]
  <2>1. UNCHANGED <<manifest, row, landed, late>> /\ jobs' \subseteq jobs
    BY <1>4 DEF CheckOwned, Compare, Settle, Outcome, Read, CheckEdit, CheckCleanup, PutRefused,
                CaptureRoot, ClaimRetirement, Crash
  <2>2. \A q \in Procs \ {p} : pc'[q] = pc[q] /\ task'[q] = task[q]
    BY <1>1, <1>4 DEF CheckOwned, Compare, Settle, Outcome, Read, CheckEdit, CheckCleanup,
                PutRefused, CaptureRoot, ClaimRetirement, Crash, Leave
  <2> QED BY <2>1, <2>2
<1>5. CASE pc'[p] = "idle"
  <2>1. ProcessOK(p)'
    BY <1>5, IdleOK
  <2>2. \A x \in acked' \ acked : Kind(x) \in Stable => row[x].state = "applied"
    BY <1>1, <1>3 DEF CheckOwned, Compare, Settle, Outcome, Read, CheckEdit, CheckCleanup,
                PutRefused, CaptureRoot, ClaimRetirement, Crash, ProcessOK, Stable
  <2> QED BY <1>3, <1>4, <1>5, <2>1, <2>2
<1>6. CASE CheckOwned(p) /\ pc'[p] # "idle"
  <2>1. At(p, "own") /\ pc'[p] = "compare" /\ task'[p] = task[p] /\ acked' = acked
    BY <1>1, <1>6 DEF CheckOwned, Leave
  <2> QED BY <1>1, <1>4, <1>6, <2>1 DEF ProcessOK, Recovering, Editing
<1>7. CASE Compare(p) /\ pc'[p] # "idle"
  <2>1. /\ At(p, "compare") /\ task'[p] = task[p] /\ acked' = acked
        /\ pc'[p] = "reput" \/ (pc'[p] = "settle" /\ Matches(w, manifest.body))
    BY <1>1, <1>7 DEF Compare, Leave
  <2>2. w \in Ops /\ o \in Ops /\ Kind(o) # "retire" /\ task[p].mode # "own"
    BY <1>1, <2>1 DEF ProcessOK, Recovering
  <2>3. Matches(w, manifest.body) => <<w, row[w].attempt>> \in landed
    BY <2>2, NamesAssumption DEF Matches, IInv, LandedOwned, Receipt
  <2> QED BY <1>4, <1>7, <2>1, <2>2, <2>3 DEF ProcessOK, Recovering, Editing
<1>8. CASE Settle(p)
  <2>1. At(p, "settle") /\ pc'[p] = "finish" /\ task'[p] = task[p] /\ acked' = acked
    BY <1>1, <1>8 DEF Settle
  <2> QED BY <1>1, <1>4, <1>8, <2>1 DEF ProcessOK, Recovering, Editing, Holds, Terminal
<1>9. CASE Outcome(p)
  BY <1>1, <1>5, <1>9 DEF Outcome, Leave
<1>10. CASE ClaimRetirement(p) \/ Crash(p)
  BY <1>1, <1>5, <1>10 DEF ClaimRetirement, Crash, Leave
<1>11. CASE Read(p)
  <2>1. /\ At(p, "read") /\ acked' = acked
        /\ task'[p] = [task[p] EXCEPT !.cur = manifest]
        /\ pc'[p] \in {"absent", "root", "check"}
        /\ pc'[p] = "check" /\ Kind(o) = "alloc" => manifest.body # None
    BY <1>1, <1>11 DEF Read
  <2>2. /\ task'[p].op = o /\ task'[p].work = w /\ task'[p].mode = task[p].mode
        /\ task'[p].cur = manifest /\ task'[p].plan = task[p].plan
    BY <1>1, <2>1 DEF Tasks
  <2>3. o \in Ops /\ w = o /\ Kind(o) # "retire" /\ (Holds(p, o) => row[o].state = "open")
    BY <1>1, <2>1 DEF ProcessOK, Editing
  <2>4. row[o].state = "open" => row[o].body = None
    BY <2>3 DEF IInv, RowsShaped
  <2> QED BY <1>4, <1>11, <2>1, <2>2, <2>3, <2>4 DEF ProcessOK, Recovering, Editing, Holds, Terminal
<1>12. CASE CheckEdit(p)
  <2> DEFINE plan == EditPlan(o, task[p].cur.body)
  <2>1. /\ At(p, "check") /\ acked' = acked /\ Kind(o) \notin Cleanups
        /\ \/ pc'[p] = "absent" /\ task'[p] = task[p]
           \/ pc'[p] = "finish" /\ task'[p] = task[p] /\ Kind(o) \in {"record", "expire"}
           \/ pc'[p] = "prepare" /\ task'[p] = [task[p] EXCEPT !.plan = plan]
    BY <1>1, <1>12 DEF CheckEdit, Unchanged
  <2>2. o \in Ops /\ w = o /\ Kind(o) # "retire" /\ (Holds(p, o) => row[o].state = "open")
    BY <1>1, <2>1 DEF ProcessOK, Editing
  <2>3. row[o].state = "open" => row[o].body = None
    BY <2>2 DEF IInv, RowsShaped
  <2>4. plan.body # None /\ plan.body.op = o
    <3>1. task[p].cur.body \in Bodies \cup {None} /\ expired \subseteq Keys
      BY <1>1 DEF Tasks, Manifests, IInv, TypeOK
    <3> QED BY <1>1, <2>2, <3>1, EditTypes
  <2>5. CASE pc'[p] \in {"absent", "finish"}
    BY <1>4, <1>12, <2>1, <2>2, <2>3, <2>5
       DEF ProcessOK, Recovering, Editing, Holds, Terminal, Stable
  <2>6. CASE pc'[p] = "prepare"
    <3> HIDE DEF plan
    <3>1. /\ task'[p].op = o /\ task'[p].work = w /\ task'[p].plan = plan
      BY <1>1, <2>1, <2>6 DEF Tasks
    <3> QED BY <1>4, <1>12, <2>1, <2>2, <2>4, <2>6, <3>1
         DEF ProcessOK, Recovering, Editing, Holds, Terminal
  <2> QED BY <2>1, <2>5, <2>6
<1>13. CASE CheckCleanup(p)
  <2>1. /\ At(p, "check") /\ acked' = acked /\ Kind(o) \in Cleanups
        /\ \/ pc'[p] = "absent" /\ task'[p] = task[p]
           \/ pc'[p] = "retire" /\ \E plan : task'[p] = [task[p] EXCEPT !.plan = plan]
    BY <1>1, <1>13 DEF CheckCleanup
  <2>2. /\ o \in Ops /\ w = o /\ Kind(o) # "retire" /\ (Holds(p, o) => row[o].state = "open")
        /\ Kind(o) = "alloc" => task[p].cur.body # None
    BY <1>1, <2>1 DEF ProcessOK, Editing
  <2>3. row[o].state = "open" => row[o].body = None
    BY <2>2 DEF IInv, RowsShaped
  <2>4. task'[p].op = o /\ task'[p].work = w /\ task'[p].cur = task[p].cur
    BY <1>1, <2>1 DEF Tasks
  <2> QED BY <1>4, <1>13, <2>1, <2>2, <2>3, <2>4
       DEF ProcessOK, Recovering, Editing, Holds, Terminal
<1>14. CASE PutRefused(p)
  <2>1. /\ Sending(p) /\ acked' = acked
        /\ \/ At(p, "put") /\ pc'[p] = "freeze" /\ task'[p] = [task[p] EXCEPT !.mode = "clash"]
           \/ At(p, "reput") /\ pc'[p] = "compare" /\ task'[p] = task[p]
    BY <1>1, <1>14 DEF PutRefused, Sending
  <2>2. o \in Ops /\ Kind(o) # "retire"
    BY <1>1, <2>1 DEF ProcessOK
  <2>3. CASE At(p, "put")
    <3>1. pc'[p] = "freeze" /\ task'[p].op = o /\ task'[p].mode = "clash"
      BY <1>1, <2>1, <2>3 DEF Tasks
    <3> QED BY <1>4, <1>14, <2>1, <2>2, <3>1 DEF ProcessOK, Recovering, Editing
  <2>4. CASE At(p, "reput")
    <3>1. pc'[p] = "compare" /\ task'[p] = task[p] /\ w \in Ops /\ task[p].mode # "own"
      BY <1>1, <2>1, <2>4 DEF ProcessOK, Recovering
    <3> QED BY <1>4, <1>14, <2>1, <2>2, <3>1 DEF ProcessOK, Recovering, Editing
  <2> QED BY <2>1, <2>3, <2>4
<1>15. CASE CaptureRoot(p)
  <2>1. /\ At(p, "root") /\ acked' = acked /\ manifest.body # None
        /\ task'[p] = [task[p] EXCEPT !.cur = manifest]
        /\ pc'[p] = IF Kind(o) = "retire" THEN "claim" ELSE "check"
    BY <1>1, <1>15 DEF CaptureRoot
  <2>2. /\ task'[p].op = o /\ task'[p].work = w /\ task'[p].cur = manifest
    BY <1>1, <2>1 DEF Tasks
  <2>3. o \in Ops
    BY <1>1, <2>1 DEF ProcessOK
  <2>4. Kind(o) # "retire" => w = o /\ (Holds(p, o) => row[o].state = "open")
    BY <1>1, <2>1 DEF ProcessOK, Editing
  <2> QED BY <1>4, <1>15, <2>1, <2>2, <2>3, <2>4
       DEF ProcessOK, Recovering, Editing, Holds, Terminal
<1> QED BY <1>3, <1>4, <1>5, <1>6, <1>7, <1>8, <1>9, <1>10, <1>11, <1>12, <1>13, <1>14, <1>15

\* Recovery takes the unfinished row over, with everything it holds.
LEMMA FreezeStep ==
  ASSUME IInv, TypeOK', NEW p \in Procs, Freeze(p)
  PROVE  IInv'
<1> DEFINE t == task[p]
<1>1. /\ task \in [Procs -> Tasks] /\ pc \in [Procs -> Labels] /\ ProcessOK(p)
      /\ row \in [Ops -> Rows] /\ At(p, "freeze")
  BY DEF IInv, TypeOK, Freeze
<1>2. t.op \in Ops /\ t.mode # "own" /\ Kind(t.op) # "retire"
  BY <1>1 DEF ProcessOK, Recovering, At
<1>3. UNCHANGED <<manifest, late, landed, acked, jobs>>
  BY DEF Freeze, StoreSame
<1>4. \A q \in Procs \ {p} : pc'[q] = pc[q] /\ task'[q] = task[q]
  BY <1>1 DEF Freeze, Recovered, Goto, Keep, Know
<1>5. CASE row' = row /\ task' = task /\ Recovered(p)
  <2>1. pc'[p] \in {"begin", "outcome"}
    BY <1>1, <1>5 DEF Recovered, Goto
  <2>2. ProcessOK(p)'
    BY <1>2, <1>5, <2>1 DEF ProcessOK, Recovering, Editing, At
  <2> QED BY <1>3, <1>4, <1>5, <2>1, <2>2, LocalStep
<1>6. ASSUME NEW o \in Pending,
             row' = [row EXCEPT ![o] = [@ EXCEPT !.state = "frozen", !.lease = p]],
             Know(p, [task[p] EXCEPT !.work = o]), Goto(p, Recovery(o))
      PROVE  IInv'
  <2> DEFINE r == [row[o] EXCEPT !.state = "frozen", !.lease = p]
  <2>1. o \in Ops /\ row[o] \in Rows /\ row[o].state \in {"open", "prepared", "frozen"}
    BY <1>1 DEF Pending
  <2>2. /\ r.state = "frozen" /\ r.lease = p /\ r.body = row[o].body /\ r.etag = row[o].etag
        /\ r.attempt = row[o].attempt
    BY <2>1 DEF Rows
  <2>3. row' = [row EXCEPT ![o] = r] /\ row'[o] = r
    BY <1>1, <1>6, <2>1
  <2>4. /\ pc'[p] = Recovery(o) /\ task'[p].op = t.op /\ task'[p].work = o
        /\ task'[p].mode = t.mode
    BY <1>1, <1>6 DEF Know, Goto, Tasks
  <2>5. /\ row[o].body # None =>
             /\ row[o].state \in {"prepared", "frozen"} /\ Kind(o) \notin Cleanups
             /\ row[o].body.op = o /\ row[o].body.attempt = row[o].attempt
        /\ row[o].body = None => row[o].attempt = 0
    BY <2>1 DEF IInv, RowsShaped
  <2>6. /\ pc'[p] \in {"settle", "absent", "own"}
        /\ pc'[p] \in {"settle", "absent"} => row[o].body = None
    BY <2>4, <2>5 DEF Recovery
  <2> HIDE DEF r
  <2>7. ProcessOK(p)'
    BY <1>2, <2>1, <2>2, <2>3, <2>4, <2>6 DEF ProcessOK, Recovering, Editing, At
  <2>8. \A x \in landed : x[1] = o => row[o].state # "applied"
    BY <2>1
  <2> QED BY <1>3, <1>4, <2>1, <2>2, <2>3, <2>5, <2>6, <2>7, <2>8, RowStep
<1> QED BY <1>5, <1>6 DEF Freeze, Keep

\* begin: only an operation that never landed is opened again.
LEMMA BeginStep ==
  ASSUME IInv, TypeOK', NEW p \in Procs, Begin(p)
  PROVE  IInv'
<1> DEFINE o == task[p].op
           r == [Unborn EXCEPT !.state = "open", !.lease = p, !.tries = row[o].tries]
<1>1. /\ task \in [Procs -> Tasks] /\ pc \in [Procs -> Labels] /\ ProcessOK(p)
      /\ row \in [Ops -> Rows] /\ At(p, "begin")
  BY DEF IInv, TypeOK, Begin
<1>2. o \in Ops /\ Kind(o) # "retire"
  BY <1>1 DEF ProcessOK, At
<1>3. UNCHANGED <<manifest, late, landed, jobs>>
  BY DEF Begin, StoreSame
<1>4. \A q \in Procs \ {p} : pc'[q] = pc[q] /\ task'[q] = task[q]
  BY <1>1 DEF Begin, Leave, Goto, Know
<1>5. CASE row' = row /\ Leave(p) /\ (acked' = acked \/ (Done(o) /\ acked' = acked \cup {o}))
  <2>1. pc'[p] = "idle"
    BY <1>1, <1>5 DEF Leave, Goto
  <2> QED BY <1>3, <1>4, <1>5, <2>1, IdleOK, LocalStep DEF Done
<1>6. CASE /\ ~ Done(o) /\ ~ Blocked /\ row' = [row EXCEPT ![o] = r]
           /\ Know(p, [task[p] EXCEPT !.mode = "own", !.work = o]) /\ Goto(p, "read")
           /\ UNCHANGED acked
  <2>1. /\ r.state = "open" /\ r.lease = p /\ r.body = None /\ r.attempt = 0
    BY DEF Unborn
  <2>2. row[o].state \notin {"open", "prepared", "frozen", "applied"} /\ Pending = {}
    BY <1>2, <1>6 DEF Done, Blocked, Pending
  <2>3. row[o].body = None
    BY <1>2, <2>2 DEF IInv, RowsShaped
  <2>4. \A x \in landed : x[1] # o
    BY <1>2, <2>2, <2>3, NamesAssumption DEF IInv, LandedOwned
  <2>5. /\ pc'[p] = "read" /\ task'[p].op = o /\ task'[p].work = o
    BY <1>1, <1>6 DEF Know, Goto, Tasks
  <2>6. row'[o] = r
    BY <1>1, <1>2, <1>6
  <2> HIDE DEF r
  <2>7. ProcessOK(p)'
    BY <1>2, <2>1, <2>5, <2>6 DEF ProcessOK, Recovering, Editing, At, Holds
  <2> QED BY <1>2, <1>3, <1>4, <1>6, <2>1, <2>2, <2>3, <2>4, <2>5, <2>7, RowStep
<1> QED BY <1>5, <1>6 DEF Begin

\* finish(applied): the row is settled by a holder whose bytes reached S3.
LEMMA FinishStep ==
  ASSUME IInv, TypeOK', NEW p \in Procs, Finish(p)
  PROVE  IInv'
<1> DEFINE t == task[p]
           o == task[p].work
           r == [row[o] EXCEPT !.state = "applied", !.body = None]
<1>1. /\ task \in [Procs -> Tasks] /\ pc \in [Procs -> Labels] /\ ProcessOK(p)
      /\ row \in [Ops -> Rows] /\ At(p, "finish")
  BY DEF IInv, TypeOK, Finish
<1>2. /\ o \in Ops /\ t.op \in Ops /\ Kind(t.op) # "retire"
      /\ Holds(p, o) /\ row[o].body # None => <<o, row[o].attempt>> \in landed
      /\ t.mode = "own" /\ Kind(t.op) \in Stable => \E x \in landed : x[1] = t.op
  BY <1>1 DEF ProcessOK, At
<1>3. UNCHANGED <<manifest, late, landed, jobs>>
  BY DEF Finish, StoreSame
<1>4. \A q \in Procs \ {p} : pc'[q] = pc[q] /\ task'[q] = task[q]
  BY <1>1 DEF Finish, Answer, Recovered, Leave, Goto, Know, Keep
<1>5. /\ pc'[p] \in {"idle", "begin", "outcome"}
      /\ pc'[p] # "idle" => task'[p] = task[p] /\ t.mode # "own"
      /\ acked' = acked \/ (t.mode = "own" /\ acked' = acked \cup {t.op})
  BY <1>1 DEF Finish, Answer, Recovered, Leave, Goto, Know, Keep
<1>6. ProcessOK(p)'
  <2>1. CASE pc'[p] = "idle"
    BY <2>1, IdleOK
  <2>2. CASE pc'[p] # "idle"
    BY <1>2, <1>5, <2>2 DEF ProcessOK, Recovering, Editing, At
  <2> QED BY <2>1, <2>2
<1>7. CASE row' = row /\ (Terminal(o) \/ acked' = acked)
  <2>1. ASSUME NEW x \in acked' \ acked, Kind(x) \in Stable
        PROVE  row[x].state = "applied"
    <3>1. x = t.op /\ t.mode = "own" /\ Terminal(o)
      BY <1>5, <1>7, <2>1
    <3>2. PICK y \in landed : y[1] = x
      BY <1>2, <2>1, <3>1
    <3>3. x # Root /\ (row[x].state = "applied" \/ row[x].body # None)
      BY <1>2, <3>1, <3>2, NamesAssumption DEF IInv, LandedOwned
    <3>4. x = o
      BY <1>1, <3>1 DEF ProcessOK, At
    <3> QED BY <1>2, <3>1, <3>3, <3>4 DEF Terminal, IInv, RowsShaped
  <2> QED BY <1>3, <1>4, <1>5, <1>6, <1>7, <2>1, LocalStep
<1>8. CASE Holds(p, o) /\ row' = [row EXCEPT ![o] = r]
  <2>1. row[o] \in Rows /\ row[o].state \notin {"applied", "absent"}
    BY <1>1, <1>2, <1>8 DEF Holds, Terminal
  <2>2. r.state = "applied" /\ r.body = None /\ r.attempt = row[o].attempt /\ row'[o] = r
    BY <1>1, <1>2, <1>8, <2>1 DEF Rows
  <2>3. row[o].body = None \/ <<o, row[o].attempt>> \in landed
    BY <1>2, <1>8
  <2>4. row[o].body = None \/ row[o].etag < manifest.etag
    BY <1>2, <2>1, <2>3, NamesAssumption DEF IInv, LandedOwned
  <2>5. r.attempt # 0 => <<o, r.attempt>> \in landed
    BY <1>2, <2>1, <2>2, <2>3 DEF IInv, RowsShaped
  <2>6. \A x \in acked' \ acked : row'[x].state = "applied"
    BY <1>1, <1>5, <2>2 DEF ProcessOK, At
  <2>7. pc'[p] # "put"
    BY <1>5
  <2> HIDE DEF r, o, t
  <2> QED BY <1>2, <1>3, <1>4, <1>6, <1>8, <2>2, <2>4, <2>5, <2>6, <2>7, RowStep
<1> QED BY <1>7, <1>8, <1>5 DEF Finish, FinishRow, Holds, Answer, Recovered

\* finish(absent): only a row that never held bytes is given up.
LEMMA FinishAbsentStep ==
  ASSUME IInv, TypeOK', NEW p \in Procs, FinishAbsent(p)
  PROVE  IInv'
<1> DEFINE t == task[p]
           o == task[p].work
           r == [row[o] EXCEPT !.state = "absent", !.body = None]
<1>1. /\ task \in [Procs -> Tasks] /\ pc \in [Procs -> Labels] /\ ProcessOK(p)
      /\ row \in [Ops -> Rows] /\ At(p, "absent")
  BY DEF IInv, TypeOK, FinishAbsent
<1>2. /\ o \in Ops /\ t.op \in Ops /\ Kind(t.op) # "retire"
      /\ Holds(p, o) /\ row[o].state # "prepared" => row[o].body = None
  BY <1>1 DEF ProcessOK, At
<1>3. UNCHANGED <<manifest, late, landed, acked, jobs>>
  BY DEF FinishAbsent, StoreSame
<1>4. \A q \in Procs \ {p} : pc'[q] = pc[q] /\ task'[q] = task[q]
  BY <1>1 DEF FinishAbsent, Recovered, Leave, Goto, Know, Keep
<1>5. /\ pc'[p] \in {"idle", "begin", "outcome"}
      /\ pc'[p] # "idle" => task'[p] = task[p] /\ t.mode # "own"
  BY <1>1 DEF FinishAbsent, Recovered, Leave, Goto, Know, Keep
<1>6. ProcessOK(p)'
  <2>1. CASE pc'[p] = "idle"
    BY <2>1, IdleOK
  <2>2. CASE pc'[p] # "idle"
    BY <1>2, <1>5, <2>2 DEF ProcessOK, Recovering, Editing, At
  <2> QED BY <2>1, <2>2
<1>7. CASE row' = row
  BY <1>3, <1>4, <1>5, <1>6, <1>7, LocalStep
<1>8. CASE Holds(p, o) /\ row[o].state # "prepared" /\ row' = [row EXCEPT ![o] = r]
  <2>1. row[o] \in Rows /\ row[o].state \notin {"applied", "absent"} /\ row[o].body = None
    BY <1>1, <1>2, <1>8 DEF Holds, Terminal
  <2>2. r.state = "absent" /\ r.body = None /\ r.attempt = row[o].attempt
    BY <2>1 DEF Rows
  <2>3. r.attempt = 0
    BY <1>2, <2>1, <2>2 DEF IInv, RowsShaped
  <2>4. \A x \in landed : x[1] # o
    BY <1>2, <2>1, NamesAssumption DEF IInv, LandedOwned
  <2>5. pc'[p] # "put"
    BY <1>5
  <2> HIDE DEF r, o, t
  <2> QED BY <1>2, <1>3, <1>4, <1>6, <1>8, <2>1, <2>2, <2>3, <2>4, <2>5, RowStep
<1> QED BY <1>7, <1>8 DEF FinishAbsent, FinishRow, MayAbandon, Holds

\* prepare: the row takes the bytes of the one PUT that may now be sent.
LEMMA PrepareStep ==
  ASSUME IInv, TypeOK', NEW p \in Procs, Prepare(p)
  PROVE  IInv'
<1> DEFINE t == task[p]
           o == task[p].op
           r == [row[o] EXCEPT !.state = "prepared", !.attempt = t.plan.body.attempt,
                               !.tries = t.plan.body.attempt, !.etag = t.cur.etag,
                               !.body = t.plan.body, !.delta = t.plan.delta,
                               !.charged = AtLeastZero(t.plan.delta),
                               !.private = t.plan.private]
<1>1. /\ task \in [Procs -> Tasks] /\ pc \in [Procs -> Labels] /\ ProcessOK(p)
      /\ row \in [Ops -> Rows] /\ At(p, "prepare")
  BY DEF IInv, TypeOK, Prepare
<1>2. /\ o \in Ops /\ t.work = o /\ Kind(o) # "retire" /\ Kind(o) \notin Cleanups
      /\ Holds(p, o) => row[o].state = "open"
      /\ t.plan.body # None /\ t.plan.body.op = o
  BY <1>1 DEF ProcessOK, Editing, At
<1>3. UNCHANGED <<manifest, late, landed, acked, task>>
  BY DEF Prepare, StoreSame, Keep
<1>4. \A q \in Procs \ {p} : pc'[q] = pc[q] /\ task'[q] = task[q]
  BY <1>1, <1>3 DEF Prepare, Acknowledged, Goto
<1>5. row[o].state = "open" => row[o].body = None
  BY <1>2 DEF IInv, RowsShaped
<1>6. CASE row' = row /\ Goto(p, "absent") /\ jobs' = jobs
  <2>1. pc'[p] = "absent" /\ task'[p] = task[p]
    BY <1>1, <1>3, <1>6 DEF Goto
  <2>2. ProcessOK(p)'
    BY <1>2, <1>5, <1>6, <2>1 DEF ProcessOK, Recovering, Editing, At, Holds, Terminal
  <2> QED BY <1>3, <1>4, <1>6, <2>1, <2>2, LocalStep
<1>7. CASE Owner(p) /\ row' = [row EXCEPT ![o] = r] /\ jobs' = Enqueued(o) /\ Acknowledged(p, "put")
  <2>1. row[o] \in Rows /\ row[o].lease = p /\ row[o].state = "open" /\ row[o].body = None
    BY <1>1, <1>2, <1>5, <1>7 DEF Owner
  <2>2. /\ r.state = "prepared" /\ r.lease = p /\ r.attempt = t.plan.body.attempt
        /\ r.body = t.plan.body /\ r.etag = t.cur.etag /\ row'[o] = r
    BY <1>1, <1>2, <1>7, <2>1 DEF Rows
  <2>3. pc'[p] \in {"put", "absent"} /\ task'[p] = task[p]
    BY <1>1, <1>3, <1>7 DEF Acknowledged, Goto
  <2> HIDE DEF r
  <2>4. ProcessOK(p)'
    BY <1>2, <2>2, <2>3 DEF ProcessOK, Recovering, Editing, At, Holds
  <2>5. Fenced(t.cur.etag, t.plan.body)'
    BY <1>2, <1>3, <2>2, NamesAssumption DEF Fenced
  <2>6. \A x \in landed : x[1] # o
    BY <1>2, <2>1, NamesAssumption DEF IInv, LandedOwned
  <2>7. \A x \in jobs' \ jobs : Kind(x) = "commit"
    BY <1>7 DEF Enqueued
  <2>8. o \in Pending
    BY <1>2, <2>1 DEF Pending
  <2> HIDE DEF o
  <2> QED BY <1>2, <1>3, <1>4, <1>7, <2>1, <2>2, <2>3, <2>4, <2>5, <2>6, <2>7, <2>8, RowStep
<1> QED BY <1>6, <1>7 DEF Prepare

\* prepareCleanup: a row without bytes is bound to exact keys.
LEMMA PrepareCleanupStep ==
  ASSUME IInv, TypeOK', NEW p \in Procs, PrepareCleanup(p)
  PROVE  IInv'
<1> DEFINE t == task[p]
           o == task[p].op
           r == [row[o] EXCEPT !.state = "prepared", !.private = t.plan.private]
<1>1. /\ task \in [Procs -> Tasks] /\ pc \in [Procs -> Labels] /\ ProcessOK(p)
      /\ row \in [Ops -> Rows] /\ At(p, "retire")
  BY DEF IInv, TypeOK, PrepareCleanup
<1>2. /\ o \in Ops /\ t.work = o /\ Kind(o) # "retire" /\ Kind(o) \in Cleanups
      /\ Holds(p, o) => row[o].state = "open"
  BY <1>1 DEF ProcessOK, Editing, At
<1>3. UNCHANGED <<manifest, late, landed, acked, jobs, task>>
  BY DEF PrepareCleanup, StoreSame, Keep
<1>4. \A q \in Procs \ {p} : pc'[q] = pc[q] /\ task'[q] = task[q]
  BY <1>1, <1>3 DEF PrepareCleanup, Acknowledged, Goto
<1>5. row[o].state = "open" => row[o].body = None
  BY <1>2 DEF IInv, RowsShaped
<1>6. CASE row' = row /\ Goto(p, "absent")
  <2>1. pc'[p] = "absent" /\ task'[p] = task[p]
    BY <1>1, <1>3, <1>6 DEF Goto
  <2>2. ProcessOK(p)'
    BY <1>2, <1>5, <1>6, <2>1 DEF ProcessOK, Recovering, Editing, At, Holds, Terminal
  <2> QED BY <1>3, <1>4, <1>6, <2>1, <2>2, LocalStep
<1>7. CASE Owner(p) /\ row' = [row EXCEPT ![o] = r] /\ Acknowledged(p, "settle")
  <2>1. row[o] \in Rows /\ row[o].lease = p /\ row[o].state = "open" /\ row[o].body = None
    BY <1>1, <1>2, <1>5, <1>7 DEF Owner
  <2>2. /\ r.state = "prepared" /\ r.lease = p /\ r.attempt = row[o].attempt
        /\ r.body = None /\ row'[o] = r
    BY <1>1, <1>2, <1>7, <2>1 DEF Rows
  <2>3. pc'[p] \in {"settle", "absent"} /\ task'[p] = task[p]
    BY <1>1, <1>3, <1>7 DEF Acknowledged, Goto
  <2>4. Kind(o) \notin Stable
    BY <1>2 DEF Cleanups, Stable
  <2> HIDE DEF r
  <2>5. ProcessOK(p)'
    BY <1>2, <2>2, <2>3, <2>4 DEF ProcessOK, Recovering, Editing, At, Holds
  <2>6. r.attempt = 0
    BY <1>2, <2>1, <2>2 DEF IInv, RowsShaped
  <2>7. \A x \in landed : x[1] # o
    BY <1>2, <2>1, NamesAssumption DEF IInv, LandedOwned
  <2>8. o \in Pending
    BY <1>2, <2>1 DEF Pending
  <2> HIDE DEF o
  <2> QED BY <1>2, <1>3, <1>4, <1>7, <2>1, <2>2, <2>3, <2>5, <2>6, <2>7, <2>8, RowStep
<1> QED BY <1>6, <1>7 DEF PrepareCleanup

\* Every request that is sent is fenced.
LEMMA RequestFenced ==
  ASSUME IInv, NEW p \in Procs, Sending(p) \/ At(p, "root"), Content(p) # None
  PROVE  Fenced(IfMatch(p), Content(p))
<1>1. ProcessOK(p) /\ row \in [Ops -> Rows]
  BY DEF IInv, TypeOK
<1>2. CASE At(p, "put")
  <2>1. IfMatch(p) = task[p].cur.etag /\ Content(p) = task[p].plan.body
    BY <1>2 DEF IfMatch, Content, At
  <2>2. Fenced(task[p].cur.etag, task[p].plan.body)
    BY <1>2 DEF IInv, RequestsFenced
  <2> QED BY <2>1, <2>2
<1>3. CASE At(p, "reput")
  <2> DEFINE o == task[p].work
  <2>1. o \in Ops /\ IfMatch(p) = row[o].etag /\ Content(p) = row[o].body
    BY <1>1, <1>3 DEF ProcessOK, IfMatch, Content, At
  <2>2. row[o].body.op = o
    BY <2>1 DEF IInv, RowsShaped
  <2> QED BY <2>1, <2>2, NamesAssumption DEF Fenced
<1>4. CASE At(p, "root")
  <2>1. IfMatch(p) = 0 /\ Content(p) = RootBody
    BY <1>4 DEF IfMatch, Content, At
  <2>2. RootBody.op = Root
    BY DEF RootBody
  <2> QED BY <2>1, <2>2 DEF Fenced
<1> QED BY <1>2, <1>3, <1>4 DEF Sending, At

\* A fenced body that lands is new to storage, and belongs to the row that
\* admitted it; everything else that was fenced stays fenced.
LEMMA StoreStep ==
  ASSUME IInv, NEW etag \in Nat, NEW b \in Bodies, Fenced(etag, b), Store(etag, b), row' = row
  PROVE  /\ \A r \in landed : r[1] # b.op
         /\ Receipt(b) \in landed'
         /\ b.op # Root => row[b.op].body = b
         /\ LandedOwned'
         /\ \A e \in Nat, c \in Bodies : Fenced(e, c) => Fenced(e, c)'
<1>1. /\ manifest.etag = etag /\ manifest' = [etag |-> etag + 1, body |-> b]
      /\ landed' = landed \cup {Receipt(b)} /\ Receipt(b)[1] = b.op /\ Receipt(b)[2] = b.attempt
      /\ landed \subseteq Authors \X Nat /\ row \in [Ops -> Rows] /\ b.op \in Authors
  BY DEF Store, Receipt, IInv, TypeOK, Bodies
<1>2. CASE b.op = Root
  <2>1. landed = {}
    BY <1>1, <1>2 DEF Fenced, IInv, LandedOwned
  <2>2. LandedOwned'
    BY <1>1, <1>2, <2>1 DEF IInv, LandedOwned
  <2>3. \A e \in Nat, c \in Bodies : Fenced(e, c) => Fenced(e, c)'
    BY <1>1 DEF Fenced
  <2> QED BY <1>1, <1>2, <2>1, <2>2, <2>3
<1>3. CASE b.op \in Ops
  <2> DEFINE o == b.op
  <2>1. o # Root /\ b # None
    BY <1>3, NamesAssumption
  <2>2. row[o].body = b /\ row[o].etag = etag
    BY <1>1, <2>1 DEF Fenced
  <2>3. row[o].attempt = b.attempt /\ row[o].state # "applied"
    BY <1>3, <2>1, <2>2 DEF IInv, RowsShaped
  <2>4. \A r \in landed : r[1] # o
    BY <1>1, <2>1, <2>2, <2>3 DEF IInv, LandedOwned
  <2>5. LandedOwned'
    <3>1. ASSUME NEW r \in landed', r[1] # Root
          PROVE  /\ row[r[1]].attempt = r[2]
                 /\ \/ row[r[1]].state = "applied"
                    \/ row[r[1]].body # None /\ row[r[1]].etag < manifest'.etag
      <4>1. CASE r \in landed
        <5>1. r[1] \in Ops /\ row[r[1]].etag \in Nat
          BY <1>1, <3>1, <4>1 DEF Authors, Rows
        <5> QED BY <1>1, <3>1, <4>1, <5>1 DEF IInv, LandedOwned
      <4>2. CASE r = Receipt(b)
        BY <1>1, <4>2, <2>1, <2>2, <2>3
      <4> QED BY <1>1, <4>1, <4>2
    <3>2. \A x \in Ops : row[x].state = "applied" /\ row[x].attempt # 0
                           => <<x, row[x].attempt>> \in landed'
      BY <1>1 DEF IInv, LandedOwned
    <3>3. manifest'.etag # 0 /\ Receipt(manifest'.body) \in landed'
      BY <1>1
    <3> QED BY <3>1, <3>2, <3>3 DEF LandedOwned, Receipt
  <2>6. \A e \in Nat, c \in Bodies : Fenced(e, c) => Fenced(e, c)'
    BY <1>1 DEF Fenced
  <2> QED BY <1>1, <2>2, <2>4, <2>5, <2>6
<1> QED BY <1>1, <1>2, <1>3 DEF Authors

\* What the steps that reach storage have in common.
LEMMA StorageStep ==
  ASSUME IInv, TypeOK', NEW p,
         UNCHANGED <<row, acked, jobs>>, LandedOwned', landed \subseteq landed',
         \A e \in Nat, c \in Bodies : Fenced(e, c) => Fenced(e, c)',
         \A m \in late' \ late : Fenced(m.etag, m.body)',
         \A q \in Procs \ {p} : pc'[q] = pc[q] /\ task'[q] = task[q],
         p \in Procs => pc'[p] # "put" /\ ProcessOK(p)'
  PROVE  IInv'
<1>1. OnePending' /\ RowsShaped'
  BY DEF IInv, OnePending, RowsShaped, Pending
<1>2. \A m \in late' : Fenced(m.etag, m.body)'
  BY DEF IInv, TypeOK, Requests, RequestsFenced
<1>3. ASSUME NEW q \in Procs
      PROVE  /\ ProcessOK(q)'
             /\ At(q, "put")' => Fenced(task[q].cur.etag, task[q].plan.body)'
  <2>1. CASE q = p
    BY <2>1 DEF At
  <2>2. CASE q # p
    <3>1. task[q] \in Tasks /\ pc'[q] = pc[q] /\ task'[q] = task[q]
      BY <2>2 DEF IInv, TypeOK
    <3>2. ProcessOK(q)'
      <4>1. task[q].op \in Ops \cup {None} /\ task[q].work \in Ops \cup {None}
        BY <3>1 DEF Tasks
      <4> QED BY <3>1, <4>1, OthersKeep DEF IInv
    <3>3. ASSUME At(q, "put")'
          PROVE  Fenced(task[q].cur.etag, task[q].plan.body)'
      <4>1. At(q, "put")
        BY <3>1, <3>3 DEF At
      <4>2. task[q].cur.etag \in Nat /\ task[q].plan.body \in Bodies
        BY <3>1, <4>1 DEF Tasks, Manifests, Plans, IInv, ProcessOK, At
      <4>3. Fenced(task[q].cur.etag, task[q].plan.body)
        BY <4>1 DEF IInv, RequestsFenced
      <4> QED BY <3>1, <4>2, <4>3 DEF Fenced
    <3> QED BY <3>2, <3>3
  <2> QED BY <2>1, <2>2
<1>4. RequestsFenced'
  BY <1>2, <1>3 DEF RequestsFenced
<1>5. AckDurable' /\ JobsAreCommits'
  BY DEF IInv, AckDurable, JobsAreCommits
<1> QED BY <1>1, <1>3, <1>4, <1>5 DEF IInv

\* The request a process sends is an ETag and a body.
LEMMA SentTypes ==
  ASSUME TypeOK, NEW p \in Procs, ProcessOK(p), Sending(p) \/ At(p, "root"), Content(p) # None
  PROVE  IfMatch(p) \in Nat /\ Content(p) \in Bodies
<1>1. At(p, "reput") => task[p].work \in Ops
  BY DEF ProcessOK, At
<1>2. /\ task[p] \in Tasks /\ (At(p, "reput") => row[task[p].work] \in Rows)
      /\ RootBody \in Bodies
  BY <1>1 DEF TypeOK, RootBody, Bodies, Authors
<1> QED BY <1>2 DEF IfMatch, Content, Tasks, Manifests, Plans, Rows, Sending, At

\* A manifest PUT lands, or its end is unknown.
LEMMA PutStep ==
  ASSUME IInv, TypeOK', NEW p \in Procs, PutOk(p) \/ PutUnknown(p)
  PROVE  IInv'
<1> DEFINE t == task[p]
           o == task[p].op
           w == task[p].work
           b == Content(p)
           etag == IfMatch(p)
<1>1. /\ task \in [Procs -> Tasks] /\ pc \in [Procs -> Labels] /\ ProcessOK(p)
      /\ row \in [Ops -> Rows]
  BY DEF IInv, TypeOK
<1>2. /\ b # None /\ Request(p) = [etag |-> etag, body |-> b]
      /\ Sending(p) \/ At(p, "root")
  BY DEF Request, PutOk, PutUnknown
<1>3. Fenced(etag, b)
  BY <1>2, RequestFenced
<1>4. etag \in Nat /\ b \in Bodies
  BY <1>1, <1>2, SentTypes DEF IInv
<1>5. UNCHANGED <<row, acked, jobs>> /\ \A q \in Procs \ {p} : pc'[q] = pc[q] /\ task'[q] = task[q]
  BY <1>1 DEF PutOk, PutUnknown, RowsSame, Goto, Keep, Leave, Know
<1>6. CASE PutOk(p)
  <2>1. Store(etag, b) /\ late' = late /\ pc'[p] = "settle" /\ task'[p] = t
    BY <1>1, <1>2, <1>6 DEF PutOk, Goto, Keep
  <2>2. /\ \A r \in landed : r[1] # b.op
        /\ Receipt(b) \in landed'
        /\ b.op # Root => row[b.op].body = b
        /\ LandedOwned'
        /\ \A e \in Nat, c \in Bodies : Fenced(e, c) => Fenced(e, c)'
    BY <1>3, <1>4, <1>5, <2>1, StoreStep
  <2>3. w \in Ops /\ o \in Ops /\ Kind(o) # "retire" /\ b.op = w /\ b = row[w].body
    <3>1. CASE At(p, "put")
      BY <1>1, <2>2, <3>1, NamesAssumption DEF ProcessOK, Editing, Content, At
    <3>2. CASE At(p, "reput")
      <4>1. w \in Ops /\ o \in Ops /\ Kind(o) # "retire" /\ b = row[w].body
        BY <1>1, <3>2 DEF ProcessOK, Content, At
      <4> QED BY <4>1, <1>2 DEF IInv, RowsShaped
    <3> QED BY <1>6, <3>1, <3>2 DEF PutOk, Sending, At
  <2>4. t.mode = "own" => w = o
    BY <1>1, <1>6 DEF ProcessOK, Recovering, Editing, PutOk, Sending, At
  <2>5. Receipt(b) = <<w, row[w].attempt>> /\ Receipt(b)[1] = w
    BY <1>2, <2>3 DEF IInv, RowsShaped, Receipt
  <2>6. ProcessOK(p)'
    BY <1>5, <2>1, <2>2, <2>3, <2>4, <2>5 DEF ProcessOK, Recovering, Editing, At
  <2>7. landed \subseteq landed'
    BY <2>1 DEF Store
  <2> QED BY <1>5, <2>1, <2>2, <2>6, <2>7, StorageStep
<1>7. CASE PutUnknown(p)
  <2>1. /\ UNCHANGED <<manifest, landed>> /\ late' = late \cup {[etag |-> etag, body |-> b]}
        /\ \/ pc'[p] = "idle"
           \/ pc'[p] = "absent" /\ task'[p] = t /\ At(p, "root") /\ Kind(o) = "alloc"
    BY <1>1, <1>2, <1>7 DEF PutUnknown, Goto, Keep, Leave
  <2>2. \A m \in late' \ late : Fenced(m.etag, m.body)'
    BY <1>3, <1>5, <2>1 DEF Fenced
  <2>3. \A e \in Nat, c \in Bodies : Fenced(e, c) => Fenced(e, c)'
    BY <1>5, <2>1 DEF Fenced
  <2>4. LandedOwned'
    BY <1>5, <2>1 DEF IInv, LandedOwned
  <2>5. ProcessOK(p)'
    <3>1. CASE pc'[p] = "idle"
      BY <3>1, IdleOK
    <3>2. CASE pc'[p] = "absent" /\ task'[p] = t /\ At(p, "root") /\ Kind(o) = "alloc"
      <4>1. o \in Ops /\ w = o /\ (Holds(p, o) => row[o].state = "open")
        BY <1>1, <3>2 DEF ProcessOK, Editing, At
      <4>2. row[o].state = "open" => row[o].body = None
        BY <4>1 DEF IInv, RowsShaped
      <4> QED BY <1>5, <3>2, <4>1, <4>2 DEF ProcessOK, Recovering, Editing, At, Holds, Terminal
    <3> QED BY <2>1, <3>1, <3>2
  <2> QED BY <1>5, <2>1, <2>2, <2>3, <2>4, <2>5, StorageStep
<1> QED BY <1>6, <1>7

\* An empty root lands only where nothing is.
LEMMA RootStep ==
  ASSUME IInv, TypeOK', NEW p \in Procs, PutRoot(p)
  PROVE  IInv'
<1> DEFINE t == task[p]
<1>1. /\ task \in [Procs -> Tasks] /\ pc \in [Procs -> Labels] /\ ProcessOK(p) /\ At(p, "root")
  BY DEF IInv, TypeOK, PutRoot
<1>2. RootBody \in Bodies /\ RootBody.op = Root /\ Fenced(0, RootBody) /\ RootBody # None
  <2>1. RootBody \in Bodies /\ RootBody.op = Root
    BY DEF RootBody, Bodies, Authors
  <2> QED BY <2>1, NamesAssumption DEF Fenced
<1>3. UNCHANGED <<row, acked, jobs, late>> /\ Store(0, RootBody)
  BY DEF PutRoot, RowsSame
<1>4. /\ LandedOwned' /\ \A e \in Nat, c \in Bodies : Fenced(e, c) => Fenced(e, c)'
      /\ landed \subseteq landed' /\ manifest'.body = RootBody
  BY <1>2, <1>3, StoreStep DEF Store
<1>5. \A q \in Procs \ {p} : pc'[q] = pc[q] /\ task'[q] = task[q]
  BY <1>1 DEF PutRoot, Goto, Know
<1>6. /\ pc'[p] = (IF Kind(t.op) = "retire" THEN "claim" ELSE "check")
      /\ task'[p] = [t EXCEPT !.cur = manifest']
  BY <1>1 DEF PutRoot, Goto, Know
<1>7. task'[p].op = t.op /\ task'[p].work = t.work /\ task'[p].cur = manifest' /\ t.op \in Ops
  BY <1>1, <1>6 DEF Tasks, ProcessOK, At
<1>8. ProcessOK(p)'
  BY <1>1, <1>2, <1>3, <1>4, <1>6, <1>7 DEF ProcessOK, Recovering, Editing, At, Holds, Terminal
<1> QED BY <1>3, <1>4, <1>5, <1>6, <1>8, StorageStep

\* A late PUT lands or is lost, time passes, a lock is lost.
LEMMA WorldStep ==
  ASSUME IInv, TypeOK',
         \/ \E m \in late : Land(m) \/ Drop(m)
         \/ \E k \in Keys : Expire(k)
         \/ \E p \in Procs : LoseLock(p)
         \/ UNCHANGED vars
  PROVE  IInv'
<1> DEFINE nobody == CHOOSE p : p \notin Procs
<1>1. nobody \notin Procs
  BY NoSetContainsEverything
<1>2. UNCHANGED <<row, acked, jobs, pc, task>> /\ late' \subseteq late
  BY DEF Land, Drop, Expire, LoseLock, vars, RowsSame, StoreSame
<1>3. CASE UNCHANGED <<manifest, landed>>
  <2>1. LandedOwned' /\ \A e \in Nat, c \in Bodies : Fenced(e, c) => Fenced(e, c)'
    BY <1>2, <1>3 DEF IInv, LandedOwned, Fenced
  <2> HIDE DEF nobody
  <2> QED BY <1>1, <1>2, <1>3, <2>1, StorageStep
<1>4. ASSUME NEW m \in late, Land(m)
      PROVE  IInv'
  <2>1. m.etag \in Nat /\ m.body \in Bodies /\ Fenced(m.etag, m.body) /\ Store(m.etag, m.body)
    BY <1>4 DEF IInv, TypeOK, Requests, RequestsFenced, Land
  <2>2. /\ LandedOwned' /\ \A e \in Nat, c \in Bodies : Fenced(e, c) => Fenced(e, c)'
        /\ landed \subseteq landed'
    BY <1>2, <2>1, StoreStep DEF Store
  <2> HIDE DEF nobody
  <2> QED BY <1>1, <1>2, <2>2, StorageStep
<1> QED BY <1>3, <1>4 DEF Drop, Expire, LoseLock, vars, StoreSame

(***************************************************************************)
(* The inductive invariant                                                 *)
(***************************************************************************)
LEMMA InitIInv == Init => IInv
<1> SUFFICES ASSUME Init PROVE IInv
  OBVIOUS
<1>1. RootBody \in Bodies /\ RootBody.op = Root
  BY DEF RootBody, Bodies, Authors
<1>2. Unborn \in Rows /\ Unborn.state = "none" /\ Unborn.body = None /\ Unborn.attempt = 0
  BY DEF Unborn, Rows
<1>3. Idle \in Tasks
  BY DEF Idle, Tasks, NoManifest, NoPlan, Manifests, Plans
<1>4. \A o \in Ops : row[o] = Unborn
  BY DEF Init
<1>5. TypeOK
  <2>1. manifest \in Manifests
    BY <1>1 DEF Init, Manifests, NoManifest
  <2>2. row \in [Ops -> Rows]
    BY <1>2 DEF Init
  <2>3. alloc \in [Keys -> Allocations]
    BY DEF Init, Allocations, Unallocated, Authors
  <2>4. pc \in [Procs -> Labels] /\ task \in [Procs -> Tasks]
    BY <1>3 DEF Init, Labels
  <2> QED BY <2>1, <2>2, <2>3, <2>4 DEF Init, TypeOK
<1>6. OnePending /\ RowsShaped
  BY <1>2, <1>4 DEF OnePending, RowsShaped, Pending
<1>7. RequestsFenced /\ AckDurable /\ JobsAreCommits
  BY DEF Init, RequestsFenced, AckDurable, JobsAreCommits, At
<1>8. LandedOwned
  BY <1>1, <1>2, <1>4 DEF Init, LandedOwned, NoManifest
<1>9. \A p \in Procs : ProcessOK(p)
  BY DEF Init, ProcessOK, Recovering, Editing, At
<1> QED BY <1>5, <1>6, <1>7, <1>8, <1>9 DEF IInv

LEMMA Inductive == IInv /\ [Next]_vars => IInv'
<1> SUFFICES ASSUME IInv, [Next]_vars PROVE IInv'
  OBVIOUS
<1>1. TypeOK'
  BY TypeNext DEF IInv
<1>2. ASSUME NEW p \in Procs, Step(p)
      PROVE  IInv'
  BY <1>1, <1>2, FreezeStep, BeginStep, FinishStep, FinishAbsentStep, PrepareStep,
     PrepareCleanupStep, PutStep, RootStep, LocalActions DEF Step
<1>3. ASSUME NEW p \in Procs, PutUnknown(p) \/ Crash(p) \/ LoseLock(p)
      PROVE  IInv'
  BY <1>1, <1>3, PutStep, LocalActions, WorldStep
<1>4. ASSUME NEW p \in Procs, NEW o \in Ops, Start(p, o) \/ RunJob(p, o) \/ StartRetire(p, o)
      PROVE  IInv'
  BY <1>1, <1>4, LocalActions
<1>5. CASE UNCHANGED vars \/ (\E m \in late : Land(m) \/ Drop(m)) \/ \E k \in Keys : Expire(k)
  BY <1>1, <1>5, WorldStep
<1> QED BY <1>2, <1>3, <1>4, <1>5 DEF Next

\* The journal's inductive invariant holds of every behaviour.
THEOREM Invariance == Spec => []IInv
  BY InitIInv, Inductive, PTL DEF Spec

\* Every table, object and goroutine keeps values of its own kind: usage never
\* falls below zero, ETags and attempts are numbers, no row is malformed.
THEOREM TypeCorrect == Spec => []TypeOK
<1>1. IInv => TypeOK
  BY DEF IInv
<1> QED BY <1>1, Invariance, PTL

\* A client told by finish, begin or CompleteCommit that its operation is done
\* finds it applied for good.
THEOREM AnswersLast == Spec => []AckDurable
<1>1. IInv => AckDurable
  BY DEF IInv
<1> QED BY <1>1, Invariance, PTL

\* An operation recorded absent has written nothing and never will; one
\* recorded applied with bytes has written them.
THEOREM OutcomesHonest == Spec => []OutcomeHonest
<1>1. IInv => OutcomeHonest
  <2> SUFFICES ASSUME IInv, NEW o \in Ops PROVE
        /\ row[o].state = "absent" =>
             /\ \A r \in landed : r[1] # o
             /\ \A m \in late : m.body.op = o => m.etag # manifest.etag
        /\ row[o].state = "applied" /\ row[o].attempt # 0 => <<o, row[o].attempt>> \in landed
    BY DEF OutcomeHonest
  <2>1. o # Root /\ manifest.etag \in Nat
    BY NamesAssumption DEF IInv, TypeOK, Manifests
  <2>2. ASSUME row[o].state = "absent"
        PROVE  /\ \A r \in landed : r[1] # o
               /\ \A m \in late : m.body.op = o => m.etag # manifest.etag
    <3>1. row[o].body = None
      BY <2>2 DEF IInv, RowsShaped
    <3>2. \A r \in landed : r[1] # o
      BY <2>1, <2>2, <3>1 DEF IInv, LandedOwned
    <3>3. ASSUME NEW m \in late, m.body.op = o
          PROVE  m.etag # manifest.etag
      <4>1. m.etag \in Nat /\ m.body \in Bodies /\ Fenced(m.etag, m.body)
        BY DEF IInv, TypeOK, Requests, RequestsFenced
      <4>2. m.body # None
        BY <4>1, NamesAssumption
      <4> QED BY <2>1, <3>1, <3>3, <4>1, <4>2 DEF Fenced
    <3> QED BY <3>2, <3>3
  <2>3. row[o].state = "applied" /\ row[o].attempt # 0 => <<o, row[o].attempt>> \in landed
    BY DEF IInv, LandedOwned
  <2> QED BY <2>2, <2>3
<1> QED BY <1>1, Invariance, PTL

\* Only the ingest job itself, once its commit is applied, takes it off the
\* queue; prepare enqueues it with the bytes.
LEMMA JobKept == IInv /\ JobOwnsCommit /\ [Next]_vars => JobOwnsCommit'
<1> SUFFICES ASSUME IInv, JobOwnsCommit, [Next]_vars, NEW o \in Ops,
                    o \in Admitted', Kind(o) = "commit"
             PROVE  o \in jobs'
  BY DEF JobOwnsCommit, Admitted, Pending
<1>0. /\ row \in [Ops -> Rows] /\ task \in [Procs -> Tasks]
      /\ row'[o].body # None /\ row'[o].state \in {"open", "prepared", "frozen"}
  BY DEF Admitted, Pending, IInv, TypeOK
<1>1. row[o].body # None => o \in jobs /\ row[o].state # "applied"
  BY DEF IInv, RowsShaped, JobOwnsCommit, Admitted, Pending
<1>2. CASE row' = row /\ jobs' = jobs
  BY <1>0, <1>1, <1>2
<1>3. ASSUME NEW p \in Procs, Freeze(p)
      PROVE  o \in jobs'
  <2>1. PICK w \in Ops : \/ row' = row
                       \/ row' = [row EXCEPT ![w] = [@ EXCEPT !.state = "frozen", !.lease = p]]
    BY <1>3 DEF Freeze, Pending
  <2>2. [row[o] EXCEPT !.state = "frozen", !.lease = p].body = row[o].body
    BY <1>0 DEF Rows
  <2>3. jobs' = jobs /\ row'[o].body = row[o].body
    BY <1>0, <1>3, <2>1, <2>2 DEF Freeze
  <2> QED BY <1>0, <1>1, <2>3
<1>4. ASSUME NEW p \in Procs, Finish(p) \/ FinishAbsent(p)
      PROVE  o \in jobs'
  <2>1. jobs' = jobs /\ (row'[o].body = row[o].body \/ row'[o].body = None)
    BY <1>0, <1>4 DEF Finish, FinishAbsent, FinishRow, Rows, Answer, Recovered
  <2> QED BY <1>0, <1>1, <2>1
<1>5. ASSUME NEW p \in Procs, Outcome(p)
      PROVE  o \in jobs'
  BY <1>0, <1>1, <1>5 DEF Outcome
<1>6. ASSUME NEW p \in Procs, Begin(p)
      PROVE  o \in jobs'
  <2>1. jobs' = jobs /\ (row'[o].body = row[o].body \/ row'[o].body = None)
    BY <1>0, <1>6 DEF Begin, Unborn
  <2> QED BY <1>0, <1>1, <2>1
<1>7. ASSUME NEW p \in Procs, Prepare(p)
      PROVE  o \in jobs'
  <2>1. CASE row' = row
    BY <1>0, <1>1, <1>7, <2>1 DEF Prepare, Enqueued
  <2>2. CASE jobs' = Enqueued(task[p].op) /\ \E r : row' = [row EXCEPT ![task[p].op] = r]
    BY <1>0, <1>1, <2>2 DEF Enqueued
  <2> QED BY <1>7, <2>1, <2>2 DEF Prepare
<1>8. ASSUME NEW p \in Procs, PrepareCleanup(p)
      PROVE  o \in jobs'
  <2> DEFINE r == [row[o] EXCEPT !.state = "prepared", !.private = task[p].plan.private]
  <2>2. r.body = row[o].body
    BY <1>0 DEF Rows
  <2>3. jobs' = jobs /\ (row' = row \/ row' = [row EXCEPT ![task[p].op] =
                   [@ EXCEPT !.state = "prepared", !.private = task[p].plan.private]])
    BY <1>8 DEF PrepareCleanup
  <2>1. jobs' = jobs /\ row'[o].body = row[o].body
    BY <1>0, <2>2, <2>3
  <2> QED BY <1>0, <1>1, <2>1
<1>9. ASSUME NEW p \in Procs, Step(p)
      PROVE  o \in jobs'
  <2>1. \/ (row' = row /\ jobs' = jobs)
        \/ \/ Freeze(p) \/ Finish(p) \/ FinishAbsent(p) \/ Outcome(p) \/ Begin(p)
           \/ Prepare(p) \/ PrepareCleanup(p)
    BY <1>9 DEF Step, CheckOwned, Compare, Settle, Read, CheckEdit, CheckCleanup, PutOk,
       PutRefused, CaptureRoot, PutRoot, ClaimRetirement, RowsSame
  <2> QED BY <1>2, <1>3, <1>4, <1>5, <1>6, <1>7, <1>8, <2>1
<1>10. \/ (row' = row /\ jobs' = jobs)
       \/ \E p \in Procs : Step(p)
  BY DEF Next, vars, PutUnknown, Crash, LoseLock, Start, RunJob, StartRetire, Land, Drop,
     Expire, RowsSame
<1> QED BY <1>2, <1>9, <1>10

\* Every admitted commit still has the job that will finish it.
THEOREM JobsOwnCommits == Spec => []JobOwnsCommit
<1>1. Init => JobOwnsCommit
  BY DEF Init, JobOwnsCommit, Admitted, Pending, Unborn
<1> QED BY <1>1, JobKept, Invariance, PTL DEF Spec

\* What lands was never stored before, by anyone: a retried, recovered or
\* late PUT of an operation cannot write a second time.
THEOREM AtMostOnce == Spec => LandsOnce
<1>1. IInv /\ [Next]_vars =>
        (manifest' # manifest => \A r \in landed : r[1] # manifest'.body.op)
  <2> SUFFICES ASSUME IInv, [Next]_vars, manifest' # manifest
               PROVE  \A r \in landed : r[1] # manifest'.body.op
    OBVIOUS
  <2>0. ASSUME NEW p \in Procs, Step(p)
        PROVE  PutOk(p) \/ PutRoot(p)
    BY <2>0 DEF Step, Freeze, CheckOwned, Compare, Settle, Finish, FinishAbsent, Outcome,
       Begin, Read, CheckEdit, CheckCleanup, Prepare, PrepareCleanup, PutRefused, CaptureRoot,
       ClaimRetirement, StoreSame
  <2>1. \/ \E m \in late : Land(m)
        \/ \E p \in Procs : PutOk(p) \/ PutRoot(p)
    BY <2>0 DEF Next, vars, PutUnknown, Crash, LoseLock, Start, RunJob, StartRetire, Drop,
       Expire, StoreSame
  <2>2. CASE \E m \in late : Land(m)
    <3>1. PICK m \in late : Land(m)
      BY <2>2
    <3>2. /\ m.etag \in Nat /\ m.body \in Bodies /\ Fenced(m.etag, m.body)
          /\ Store(m.etag, m.body) /\ row' = row
      BY <3>1 DEF IInv, TypeOK, Requests, RequestsFenced, Land, RowsSame
    <3>3. \A r \in landed : r[1] # m.body.op
      BY <3>2, StoreStep
    <3> QED BY <3>2, <3>3 DEF Store
  <2>3. CASE \E p \in Procs : PutOk(p)
    <3>1. PICK p \in Procs : PutOk(p)
      BY <2>3
    <3>2. /\ Content(p) # None /\ Sending(p) /\ row' = row /\ Store(IfMatch(p), Content(p))
      BY <3>1 DEF PutOk, Request, RowsSame
    <3>3. IfMatch(p) \in Nat /\ Content(p) \in Bodies
      BY <3>2, SentTypes DEF IInv
    <3>4. \A r \in landed : r[1] # Content(p).op
      BY <3>2, <3>3, RequestFenced, StoreStep
    <3> QED BY <3>2, <3>4 DEF Store
  <2>4. CASE \E p \in Procs : PutRoot(p)
    <3>1. Store(0, RootBody) /\ row' = row
      BY <2>4 DEF PutRoot, RowsSame
    <3>2. RootBody \in Bodies /\ Fenced(0, RootBody)
      BY DEF RootBody, Bodies, Authors, Fenced
    <3>3. \A r \in landed : r[1] # RootBody.op
      BY <3>1, <3>2, StoreStep
    <3> QED BY <3>1, <3>3 DEF Store
  <2> QED BY <2>1, <2>2, <2>3, <2>4
<1> QED BY <1>1, Invariance, PTL DEF Spec, LandsOnce

(***************************************************************************)
(* Ownership and edits: the strengthening for RefsOwned, the refinement    *)
(* and the quota                                                           *)
(***************************************************************************)
Allocated(keys) == \A k \in keys : alloc[k].state # "none"
Retired(keys) == \A k \in keys : alloc[k].state = "retired"
Owns(keys, inc) == \A k \in keys : alloc[k] = [state |-> "live", inc |-> inc]

\* What an edit makes of a manifest, whichever staged keys have expired.
Swapped(o, b) == (Refs(b) \ Work[o].drops) \cup Work[o].adds
Edits(o, b, c) ==
  /\ EditAllowed(o, b) /\ c.op = o /\ Kind(o) \notin Cleanups \cup {"retire"}
  /\ c.inc = IF Kind(o) = "reset" THEN o ELSE Current(o, b).inc
  /\ c.deleted = (Kind(o) = "purge" \/ (Kind(o) # "reset" /\ Current(o, b).deleted))
  /\ CASE Kind(o) = "commit" -> c.refs = Swapped(o, b)
       [] Kind(o) = "record" -> c.refs = IF Placed(o, b) THEN Swapped(o, b) ELSE Refs(b)
       [] Kind(o) = "expire" -> c.refs \subseteq Refs(b)
       [] OTHER -> c.refs = {}

\* Nobody but the winner of a root can have overtaken what was read.
RootWon == ~ Seeded /\ manifest.body = RootBody
Fresh(etag) == etag = manifest.etag \/ (etag < manifest.etag /\ RootWon)

\* An ETag names one body.
Versions ==
  /\ manifest.etag = 0 <=> manifest.body = None
  /\ Seeded => manifest.etag # 0
  /\ \A m \in late : m.body.op = Root => m.body = RootBody
  /\ \A p \in Procs : LET cur == task[p].cur IN
       /\ cur.etag <= manifest.etag
       /\ cur.etag = manifest.etag => cur.body = manifest.body
       /\ Allocated(Refs(cur.body))

\* What a row retires was allocated, and is neither in the bytes it admitted
\* nor in the manifest; what an applied row retires is retired.
RowOwned(o) ==
  LET r == row[o] IN
  /\ Allocated(r.private)
  /\ r.body = None /\ r.state # "applied" /\ (Kind(o) \in Cleanups => r.state \notin {"prepared", "frozen"})
       => r.private = {}
  /\ r.state = "applied" => Retired(r.private) /\ (Kind(o) \in Stable => \E x \in landed : x[1] = o)
  /\ r.body # None =>
       /\ r.private \cap r.body.refs = {}
       /\ r.etag = manifest.etag => Owns(r.body.refs, r.body.inc) /\ Edits(o, manifest.body, r.body)
       /\ r.etag # manifest.etag => r.etag < manifest.etag /\ (manifest.body = r.body \/ RootWon)
  /\ Kind(o) \in Cleanups /\ o \in Pending => r.private \cap Refs(manifest.body) = {}

\* A process that settles has an operation that landed, or a cleanup's.
Settling(w) ==
  \/ row[w].state = "applied"
  \/ row[w].state \in {"prepared", "frozen"} /\ (Kind(w) \in Cleanups \/ \E x \in landed : x[1] = w)

TaskOwned(p) ==
  LET o == task[p].op
      w == task[p].work
      cur == task[p].cur
      plan == task[p].plan IN
  /\ pc[p] # "idle" /\ Kind(o) = "record" => Allocated(Work[o].adds)
  /\ pc[p] # "idle" /\ Kind(o) = "drop" => Allocated(Work[o].drops)
  /\ pc[p] \in {"check", "prepare", "retire"} /\ Owner(p) => Fresh(cur.etag)
  /\ At(p, "prepare") =>
       /\ Edits(o, cur.body, plan.body)
       /\ Allocated(plan.private) /\ plan.private \cap plan.body.refs = {}
       /\ Owner(p) => Owns(plan.body.refs, plan.body.inc)
  /\ At(p, "retire") => Allocated(plan.private) /\ plan.private \cap Refs(cur.body) = {}
  /\ At(p, "settle") => Settling(w)
  /\ At(p, "finish") /\ Holds(p, w) => Retired(row[w].private) /\ (Kind(w) \in Stable => \E x \in landed : x[1] = w)
  /\ At(p, "absent") /\ Holds(p, w) /\ Kind(w) \in Cleanups => row[w].state \in {"open", "prepared"}

OInv ==
  /\ Versions /\ RefsOwned /\ expired \subseteq Temp
  /\ \A o \in Ops : RowOwned(o)
  /\ \A p \in Procs : TaskOwned(p)

(***************************************************************************)
(* What a step leaves alone                                                *)
(***************************************************************************)
\* A step of another process takes nothing from q that q may still rely on.
LEMMA OthersOwned ==
  ASSUME IInv, OInv, manifest' \in Manifests, NEW q \in Procs, pc'[q] = pc[q], task'[q] = task[q],
         landed \subseteq landed',
         \A w \in Ops : row'[w] = row[w] \/ row'[w].lease # q \/ row'[w].state \in {"applied", "absent"},
         \A w \in Ops : Settling(w) => Settling(w)',
         \A k \in Keys : /\ alloc[k].state # "none" => alloc'[k].state # "none"
                         /\ alloc[k].state = "retired" => alloc'[k].state = "retired",
         pc[q] \in {"check", "prepare", "retire"} /\ Owner(q) =>
           /\ \A k \in Keys : alloc[k].state = "live" => alloc'[k] = alloc[k]
           /\ manifest' = manifest \/ (manifest.etag = 0 /\ manifest'.etag > 0 /\ RootWon')
  PROVE  TaskOwned(q)'
<1>0. PICK o, w, cur, plan : o = task[q].op /\ w = task[q].work /\ cur = task[q].cur /\ plan = task[q].plan
  OBVIOUS
<1>1. /\ TaskOwned(q) /\ ProcessOK(q) /\ task[q] \in Tasks /\ row \in [Ops -> Rows]
      /\ pc[q] # "idle" => o \in Ops
      /\ cur.etag \in Nat /\ manifest.etag \in Nat /\ manifest'.etag \in Nat /\ cur.etag <= manifest.etag
  BY <1>0 DEF OInv, IInv, TypeOK, ProcessOK, Tasks, Manifests, Versions
<1>2. o \in Ops => Work[o].adds \subseteq Keys /\ Work[o].drops \subseteq Keys
  BY WorkAssumption
<1>3. /\ pc[q] # "idle" /\ Kind(o) = "record" => \A k \in Work[o].adds : alloc'[k].state # "none"
      /\ pc[q] # "idle" /\ Kind(o) = "drop" => \A k \in Work[o].drops : alloc'[k].state # "none"
  BY <1>0, <1>1, <1>2 DEF TaskOwned, Allocated
<1>4. plan.private \subseteq Keys /\ (plan.body # None => plan.body.refs \subseteq Keys)
  BY <1>0, <1>1 DEF Tasks, Plans, Bodies
<1>5. ASSUME row'[o].lease = q /\ row'[o].state = "open", pc[q] \in {"check", "prepare", "retire"}
      PROVE  /\ Owner(q)
             /\ cur.etag = manifest'.etag \/ (cur.etag < manifest'.etag /\ RootWon')
  <2>1. o \in Ops
    BY <1>0, <1>1, <1>5
  <2>2. row'[o] = row[o]
    BY <1>5, <2>1
  <2>3. Owner(q) /\ Fresh(cur.etag)
    BY <1>0, <1>1, <1>5, <2>2 DEF Owner, TaskOwned
  <2>4. CASE manifest' = manifest
    BY <2>3, <2>4 DEF Fresh, RootWon
  <2>5. CASE manifest.etag = 0 /\ manifest'.etag > 0 /\ RootWon'
    <3>1. cur.etag = 0
      BY <1>0, <1>1, <2>5
    <3> QED
      BY <2>3, <2>5, <3>1
  <2> QED
    BY <1>5, <2>3, <2>4, <2>5
<1>6. pc[q] = "prepare" =>
        /\ Edits(o, cur.body, plan.body)
        /\ \A k \in plan.private : alloc'[k].state # "none"
        /\ plan.private \cap plan.body.refs = {}
        /\ row'[o].lease = q /\ row'[o].state = "open" =>
             \A k \in plan.body.refs : alloc'[k] = [state |-> "live", inc |-> plan.body.inc]
  <2> SUFFICES ASSUME pc[q] = "prepare" PROVE
        /\ Edits(o, cur.body, plan.body)
        /\ \A k \in plan.private : alloc'[k].state # "none"
        /\ plan.private \cap plan.body.refs = {}
        /\ row'[o].lease = q /\ row'[o].state = "open" =>
             \A k \in plan.body.refs : alloc'[k] = [state |-> "live", inc |-> plan.body.inc]
    OBVIOUS
  <2>1. /\ Edits(o, cur.body, plan.body) /\ Allocated(plan.private) /\ plan.private \cap plan.body.refs = {}
        /\ Owner(q) => Owns(plan.body.refs, plan.body.inc)
    BY <1>0, <1>1 DEF TaskOwned, At
  <2>2. plan.body # None
    BY <1>0, <1>1 DEF ProcessOK, At
  <2>3. row'[o].lease = q /\ row'[o].state = "open" =>
          \A k \in plan.body.refs : alloc'[k] = [state |-> "live", inc |-> plan.body.inc]
    BY <1>4, <1>5, <2>1, <2>2 DEF Owns
  <2> QED
    BY <1>4, <2>1, <2>3 DEF Allocated
<1>7. pc[q] = "retire" => /\ \A k \in plan.private : alloc'[k].state # "none"
                          /\ plan.private \cap Refs(cur.body) = {}
  BY <1>0, <1>1, <1>4 DEF TaskOwned, At, Allocated
<1>8. pc[q] = "settle" => Settling(w)'
  BY <1>0, <1>1 DEF TaskOwned, At, ProcessOK
<1>9. pc[q] = "finish" /\ row'[w].lease = q /\ row'[w].state \notin {"applied", "absent"} =>
        /\ \A k \in row'[w].private : alloc'[k].state = "retired"
        /\ Kind(w) \in Stable => \E x \in landed' : x[1] = w
  <2> SUFFICES ASSUME pc[q] = "finish", row'[w].lease = q, row'[w].state \notin {"applied", "absent"}
               PROVE  /\ \A k \in row'[w].private : alloc'[k].state = "retired"
                      /\ Kind(w) \in Stable => \E x \in landed' : x[1] = w
    OBVIOUS
  <2>1. w \in Ops
    BY <1>0, <1>1 DEF ProcessOK
  <2>2. row'[w] = row[w] /\ row[w].private \subseteq Keys
    BY <1>0, <1>1, <2>1 DEF Rows
  <2>3. Holds(q, w)
    BY <2>2 DEF Holds, Terminal
  <2> QED
    BY <1>0, <1>1, <2>2, <2>3 DEF TaskOwned, At, Retired
<1>10. pc[q] = "absent" /\ row'[w].lease = q /\ row'[w].state \notin {"applied", "absent"} /\ Kind(w) \in Cleanups
         => row'[w].state \in {"open", "prepared"}
  <2> SUFFICES ASSUME pc[q] = "absent", row'[w].lease = q, row'[w].state \notin {"applied", "absent"}, Kind(w) \in Cleanups
               PROVE  row'[w].state \in {"open", "prepared"}
    OBVIOUS
  <2>1. w \in Ops
    BY <1>0, <1>1 DEF ProcessOK
  <2>2. row'[w] = row[w]
    BY <2>1
  <2> QED
    BY <1>0, <1>1, <2>2 DEF TaskOwned, At, Holds, Terminal
<1>11. task'[q].op = o /\ task'[q].work = w /\ task'[q].cur = cur /\ task'[q].plan = plan
  BY <1>0
<1> QED
  BY <1>3, <1>5, <1>6, <1>7, <1>8, <1>9, <1>10, <1>11
     DEF TaskOwned, Allocated, Retired, Owns, Fresh, Owner, At, Holds, Terminal

\* A process that returned relies on nothing.
LEMMA IdleOwned ==
  ASSUME NEW p \in Procs, pc'[p] = "idle"
  PROVE  TaskOwned(p)'
BY DEF TaskOwned, At

\* The manifest's keys are allocated.
LEMMA NamedAllocated ==
  ASSUME RefsOwned
  PROVE  Allocated(Refs(manifest.body))
BY DEF RefsOwned, Allocated, Refs

\* Steps that change neither storage, rows nor keys.
LEMMA LocalOwned ==
  ASSUME IInv, OInv, IInv', NEW p,
         UNCHANGED <<manifest, row, landed, alloc>>, expired' \subseteq Temp,
         \A m \in late' \ late : m.body.op = Root => m.body = RootBody,
         \A q \in Procs \ {p} : pc'[q] = pc[q] /\ task'[q] = task[q],
         p \in Procs => /\ task'[p].cur \in {task[p].cur, manifest, NoManifest}
                        /\ TaskOwned(p)'
  PROVE  OInv'
<1>1. RefsOwned'
  BY DEF OInv, RefsOwned
<1>2. \A o \in Ops : RowOwned(o)'
  BY DEF OInv, RowOwned, Allocated, Retired, Owns, RootWon, Pending
<1>3. ASSUME NEW q \in Procs PROVE TaskOwned(q)'
  <2>1. CASE q = p
    BY <2>1
  <2>2. CASE q # p
    <3>1. manifest' \in Manifests /\ \A w \in Ops : Settling(w) => Settling(w)'
      BY DEF IInv, TypeOK, Settling
    <3> QED
      BY <2>2, <3>1, OthersOwned
  <2> QED
    BY <2>1, <2>2
<1>4. Versions'
  <2>1. ASSUME NEW q \in Procs
        PROVE  /\ task'[q].cur.etag <= manifest.etag
               /\ task'[q].cur.etag = manifest.etag => task'[q].cur.body = manifest.body
               /\ \A k \in Refs(task'[q].cur.body) : alloc[k].state # "none"
    <3>1. /\ task[q].cur.etag <= manifest.etag
          /\ task[q].cur.etag = manifest.etag => task[q].cur.body = manifest.body
          /\ \A k \in Refs(task[q].cur.body) : alloc[k].state # "none"
      BY DEF OInv, Versions, Allocated
    <3>2. task'[q].cur \in {task[q].cur, manifest, NoManifest}
      BY <2>1
    <3>3. /\ manifest.etag \in Nat /\ NoManifest.etag = 0 /\ NoManifest.body = None
          /\ manifest.etag = 0 => manifest.body = None
          /\ Refs(NoManifest.body) = {} /\ \A k \in Refs(manifest.body) : alloc[k].state # "none"
      BY NamedAllocated DEF IInv, TypeOK, Manifests, NoManifest, Refs, OInv, Versions, Allocated
    <3> QED
      BY <3>1, <3>2, <3>3
  <2>2. \A m \in late' : m.body.op = Root => m.body = RootBody
    BY DEF OInv, Versions
  <2> QED
    BY <2>1, <2>2 DEF OInv, Versions, Allocated
<1> QED
  BY <1>1, <1>2, <1>3, <1>4 DEF OInv

\* An edit's plan is an edit of what was read, and retires nothing it names.
LEMMA PlanIs ==
  ASSUME NEW o \in Ops, NEW b \in Bodies \cup {None}, row \in [Ops -> Rows], expired \subseteq Keys,
         EditAllowed(o, b), Kind(o) \notin Cleanups \cup {"retire"}, Allocated(Refs(b)),
         Kind(o) = "record" => Allocated(Work[o].adds)
  PROVE  /\ Edits(o, b, EditBody(o, b)) /\ Allocated(EditPrivate(o, b))
         /\ EditPrivate(o, b) \cap EditRefs(o, b) = {} /\ EditBody(o, b).refs = EditRefs(o, b)
<1>1. Current(o, b) \in Bodies
  BY DEF Current, RootBody, Bodies, Authors
<1>2. /\ EditBody(o, b).op = o /\ EditBody(o, b).refs = EditRefs(o, b)
      /\ EditBody(o, b).inc = IF Kind(o) = "reset" THEN o ELSE Current(o, b).inc
      /\ EditBody(o, b).deleted = (IF Kind(o) = "purge" THEN TRUE
                                   ELSE IF Kind(o) = "reset" THEN FALSE ELSE Current(o, b).deleted)
  BY <1>1 DEF EditBody, Bodies
<1>3. /\ Kind(o) = "commit" => EditRefs(o, b) = Swapped(o, b)
      /\ Kind(o) = "record" => EditRefs(o, b) = IF Placed(o, b) THEN Swapped(o, b) ELSE Refs(b)
      /\ Kind(o) = "expire" => EditRefs(o, b) \subseteq Refs(b)
      /\ Kind(o) \notin {"commit", "record", "expire"} => EditRefs(o, b) = {}
  BY DEF EditRefs, Swapped
<1>4. Edits(o, b, EditBody(o, b))
  <2>1. EditBody(o, b).deleted = (Kind(o) = "purge" \/ (Kind(o) # "reset" /\ Current(o, b).deleted))
    BY <1>1, <1>2 DEF Bodies
  <2>2. CASE Kind(o) = "commit"
    BY <1>2, <1>3, <2>1, <2>2 DEF Edits
  <2>3. CASE Kind(o) = "record"
    BY <1>2, <1>3, <2>1, <2>3 DEF Edits
  <2>4. CASE Kind(o) = "expire"
    BY <1>2, <1>3, <2>1, <2>4 DEF Edits
  <2>5. CASE Kind(o) \notin {"commit", "record", "expire"}
    BY <1>2, <1>3, <2>1, <2>5 DEF Edits
  <2> QED
    BY <2>2, <2>3, <2>4, <2>5
<1>5. EditPrivate(o, b) \cap EditRefs(o, b) = {}
  BY <1>3 DEF EditPrivate
<1>6. Allocated(EditPrivate(o, b))
  BY DEF EditPrivate, Allocated
<1> QED
  BY <1>2, <1>4, <1>5, <1>6

\* The steps that read, compute, wait or return.
LEMMA LocalActionsOwned ==
  ASSUME IInv, OInv, IInv', NEW p \in Procs,
         \/ \E o \in Ops : Start(p, o) \/ RunJob(p, o) \/ StartRetire(p, o)
         \/ CheckOwned(p) \/ Compare(p) \/ Outcome(p) \/ Read(p) \/ CheckEdit(p) \/ CheckCleanup(p)
         \/ PutRefused(p) \/ PutUnknown(p) \/ CaptureRoot(p) \/ ClaimRetirement(p) \/ Crash(p)
  PROVE  OInv'
<1>0. PICK t, o, w : t = task[p] /\ o = task[p].op /\ w = task[p].work
  OBVIOUS
<1>1. /\ task \in [Procs -> Tasks] /\ pc \in [Procs -> Labels] /\ ProcessOK(p) /\ TaskOwned(p)
      /\ row \in [Ops -> Rows] /\ t \in Tasks /\ expired \subseteq Keys /\ expired \subseteq Temp
      /\ Allocated(Refs(t.cur.body))
  BY <1>0 DEF OInv, IInv, TypeOK, Versions
<1>2. SUFFICES /\ UNCHANGED <<manifest, row, landed, alloc, expired>>
               /\ \A m \in late' \ late : m.body.op = Root => m.body = RootBody
               /\ \A q \in Procs \ {p} : pc'[q] = pc[q] /\ task'[q] = task[q]
               /\ task'[p].cur \in {t.cur, manifest, NoManifest}
               /\ TaskOwned(p)'
  BY <1>0, <1>1, LocalOwned
<1> USE DEF StoreSame, RowsSame, KeysSame, Goto, Know, Keep, At
<1>3. ASSUME NEW x \in Ops, Start(p, x) \/ RunJob(p, x) \/ StartRetire(p, x)
      PROVE  /\ UNCHANGED <<manifest, row, landed, alloc, expired, late>>
             /\ \A q \in Procs \ {p} : pc'[q] = pc[q] /\ task'[q] = task[q]
             /\ task'[p].cur = NoManifest /\ TaskOwned(p)'
  <2>1. /\ UNCHANGED <<manifest, row, landed, alloc, expired, late>>
        /\ \A q \in Procs \ {p} : pc'[q] = pc[q] /\ task'[q] = task[q]
    BY <1>1, <1>3 DEF Start, RunJob, StartRetire
  <2>2. /\ pc'[p] \in {"freeze", "root"} /\ task'[p].op = x /\ task'[p].cur = NoManifest
        /\ Kind(x) = "record" => \A k \in Work[x].adds : alloc[k].state # "none"
        /\ Kind(x) = "drop" => \A k \in Work[x].drops : alloc[k].state # "none"
    <3>1. CASE Start(p, x)
      BY <1>1, <3>1 DEF Start, Idle
    <3>2. CASE RunJob(p, x)
      BY <1>1, <3>2 DEF RunJob, Idle, IInv, JobsAreCommits
    <3>3. CASE StartRetire(p, x)
      BY <1>1, <3>3 DEF StartRetire, Idle
    <3> QED
      BY <1>3, <3>1, <3>2, <3>3
  <2> QED
    BY <2>1, <2>2 DEF TaskOwned, Allocated
<1>4. ASSUME \/ CheckOwned(p) \/ Compare(p) \/ Outcome(p) \/ Read(p) \/ CheckEdit(p) \/ CheckCleanup(p)
             \/ PutRefused(p) \/ PutUnknown(p) \/ CaptureRoot(p) \/ ClaimRetirement(p) \/ Crash(p)
      PROVE  /\ UNCHANGED <<manifest, row, landed, alloc, expired>>
             /\ \A m \in late' \ late : m.body.op = Root => m.body = RootBody
             /\ \A q \in Procs \ {p} : pc'[q] = pc[q] /\ task'[q] = task[q]
             /\ task'[p].cur \in {t.cur, manifest, NoManifest}
  <2>1. UNCHANGED <<manifest, row, landed, alloc, expired>>
    BY <1>4 DEF CheckOwned, Compare, Outcome, Read, CheckEdit, CheckCleanup, PutRefused, PutUnknown,
                CaptureRoot, ClaimRetirement, Crash
  <2>2. \A m \in late' \ late : m.body.op = Root => m.body = RootBody
    <3>1. CASE PutUnknown(p)
      <4>1. /\ \A m \in late' \ late : m.body = Content(p)
            /\ Content(p) # None
            /\ Sending(p) \/ pc[p] = "root"
        BY <3>1 DEF PutUnknown, Request
      <4>2. CASE pc[p] = "put"
        <5>1. Content(p) = task[p].plan.body /\ task[p].plan.body.op \in Ops
          BY <1>1, <4>2 DEF Content, ProcessOK, Editing
        <5> QED
          BY <4>1, <5>1, NamesAssumption
      <4>3. CASE pc[p] = "reput"
        <5>1. Content(p) = row[task[p].work].body /\ task[p].work \in Ops
          BY <1>1, <4>3 DEF Content, ProcessOK
        <5>2. Content(p).op \in Ops
          BY <4>1, <5>1 DEF IInv, RowsShaped
        <5> QED
          BY <4>1, <5>2, NamesAssumption
      <4>4. CASE pc[p] = "root"
        BY <4>1, <4>4 DEF Content
      <4> QED
        BY <4>1, <4>2, <4>3, <4>4 DEF Sending
    <3>2. CASE ~ PutUnknown(p)
      BY <1>4, <3>2 DEF CheckOwned, Compare, Outcome, Read, CheckEdit, CheckCleanup, PutRefused,
                CaptureRoot, ClaimRetirement, Crash
    <3> QED
      BY <3>1, <3>2
  <2>3. \A q \in Procs \ {p} : pc'[q] = pc[q] /\ task'[q] = task[q]
    BY <1>1, <1>4 DEF CheckOwned, Compare, Outcome, Read, CheckEdit, CheckCleanup, PutRefused,
                PutUnknown, CaptureRoot, ClaimRetirement, Crash, Leave
  <2>4. task'[p].cur \in {t.cur, manifest, NoManifest}
    <3>1. \/ task'[p] \in {t, Idle} \/ task'[p] = [t EXCEPT !.cur = manifest]
          \/ \E plan : task'[p] = [t EXCEPT !.plan = plan] \/ task'[p] = [t EXCEPT !.mode = "clash"]
      BY <1>0, <1>1, <1>4 DEF CheckOwned, Compare, Outcome, Read, CheckEdit, CheckCleanup, PutRefused,
                PutUnknown, CaptureRoot, ClaimRetirement, Crash, Leave
    <3>2. \A m : [t EXCEPT !.cur = m].cur = m
      BY <1>1 DEF Tasks
    <3>3. \A plan : [t EXCEPT !.plan = plan].cur = t.cur
      BY <1>1 DEF Tasks
    <3>4. [t EXCEPT !.mode = "clash"].cur = t.cur /\ Idle.cur = NoManifest
      BY <1>1 DEF Tasks, Idle
    <3> QED
      BY <3>1, <3>2, <3>3, <3>4
  <2> QED
    BY <2>1, <2>2, <2>3, <2>4
<1>5. CASE pc'[p] = "idle"
  <2>1. TaskOwned(p)'
    BY <1>5, IdleOwned
  <2> QED
    BY <1>3, <1>4, <2>1
<1>6. ASSUME NEW label, pc[p] = label, label # "idle"
      PROVE  /\ Kind(o) = "record" => \A k \in Work[o].adds : alloc[k].state # "none"
             /\ Kind(o) = "drop" => \A k \in Work[o].drops : alloc[k].state # "none"
             /\ o \in Ops
  BY <1>0, <1>1, <1>6 DEF TaskOwned, Allocated, ProcessOK
<1>7. CASE (CheckOwned(p) \/ PutRefused(p)) /\ pc'[p] # "idle"
  <2>1. /\ pc[p] # "idle" /\ pc'[p] \in {"compare", "freeze"} /\ alloc' = alloc
        /\ task'[p] = t \/ task'[p] = [t EXCEPT !.mode = "clash"]
    BY <1>0, <1>1, <1>7 DEF CheckOwned, PutRefused, Sending, Leave
  <2>2. task'[p].op = o
    BY <1>0, <1>1, <2>1 DEF Tasks
  <2>3. TaskOwned(p)'
    BY <1>6, <2>1, <2>2 DEF TaskOwned, Allocated
  <2> QED
    BY <1>4, <1>7, <2>3
<1>8. CASE Compare(p) /\ pc'[p] # "idle"
  <2>1. /\ pc[p] = "compare" /\ task'[p] = t
        /\ pc'[p] = "reput" \/ (pc'[p] = "settle" /\ Matches(w, manifest.body))
        /\ UNCHANGED <<row, landed, alloc>>
    BY <1>0, <1>1, <1>8 DEF Compare, Leave
  <2>2. w \in Ops
    BY <1>0, <1>1, <2>1 DEF ProcessOK
  <2>3. Matches(w, manifest.body) => Settling(w)
    <3>1. Matches(w, manifest.body) => \E x \in landed : x[1] = w
      BY <2>2, NamesAssumption DEF Matches, IInv, LandedOwned, Receipt
    <3>2. (\E x \in landed : x[1] = w) => row[w].state = "applied" \/ row[w].body # None
      BY <2>2, NamesAssumption DEF IInv, LandedOwned
    <3> QED
      BY <2>2, <3>1, <3>2 DEF Settling, IInv, RowsShaped
  <2>4. pc'[p] = "settle" => Settling(w)'
    BY <2>1, <2>3 DEF Settling
  <2>5. TaskOwned(p)'
    BY <1>0, <1>6, <2>1, <2>4 DEF TaskOwned, Allocated
  <2> QED
    BY <1>4, <1>8, <2>5
<1>9. CASE Read(p) \/ CaptureRoot(p)
  <2>1. /\ pc[p] \in {"read", "root"} /\ task'[p] = [t EXCEPT !.cur = manifest]
        /\ pc'[p] \in {"absent", "root", "check", "claim"} /\ UNCHANGED <<row, landed, alloc, manifest>>
        /\ pc[p] = "root" /\ pc'[p] # "claim" => Kind(o) # "retire" /\ pc'[p] = "check"
    BY <1>0, <1>1, <1>9 DEF Read, CaptureRoot
  <2>2. task'[p].op = o /\ task'[p].work = w /\ task'[p].cur = manifest
    BY <1>0, <1>1, <2>1 DEF Tasks
  <2>3. pc'[p] \in {"absent"} => w = o /\ (Holds(p, o) => row[o].state = "open")
    BY <1>0, <1>1, <2>1 DEF ProcessOK, Editing
  <2>4. TaskOwned(p)'
    BY <1>6, <2>1, <2>2, <2>3 DEF TaskOwned, Allocated, Holds, Terminal, Fresh
  <2> QED
    BY <1>4, <1>9, <2>4
<1>10. CASE PutUnknown(p) /\ pc'[p] # "idle"
  <2>1. pc[p] = "root" /\ pc'[p] = "absent" /\ task'[p] = t /\ Kind(o) = "alloc" /\ UNCHANGED <<row, landed, alloc>>
    BY <1>0, <1>1, <1>10 DEF PutUnknown, Leave
  <2>2. w = o /\ (Holds(p, o) => row[o].state = "open")
    BY <1>0, <1>1, <2>1 DEF ProcessOK, Editing
  <2>3. TaskOwned(p)'
    BY <1>0, <1>6, <2>1, <2>2 DEF TaskOwned, Allocated, Holds, Terminal
  <2> QED
    BY <1>4, <1>10, <2>3
<1>11. CASE CheckEdit(p)
  <2>0. PICK b, plan : b = t.cur.body /\ plan = EditPlan(o, b)
    OBVIOUS
  <2>1. /\ pc[p] = "check" /\ Kind(o) \notin Cleanups /\ UNCHANGED <<row, landed, alloc, manifest>>
        /\ \/ pc'[p] = "absent" /\ task'[p] = t
           \/ pc'[p] = "finish" /\ task'[p] = t /\ Kind(o) \in {"record", "expire"}
           \/ /\ pc'[p] = "prepare" /\ task'[p] = [t EXCEPT !.plan = plan]
              /\ EditAllowed(o, b) /\ LiveIn(plan.body.refs, plan.body.inc)
    BY <1>0, <1>1, <1>11, <2>0 DEF CheckEdit, Unchanged
  <2>2. /\ w = o /\ (Holds(p, o) => row[o].state = "open") /\ o \in Ops /\ Kind(o) # "retire"
        /\ Owner(p) => Fresh(t.cur.etag)
    BY <1>0, <1>1, <1>6, <2>1 DEF ProcessOK, Editing, TaskOwned
  <2>3. row[o].state = "open" => row[o].private = {}
    <3>1. row[o].state = "open" => row[o].body = None
      BY <2>2 DEF IInv, RowsShaped
    <3> QED
      BY <2>2, <3>1 DEF OInv, RowOwned
  <2>4. CASE pc'[p] = "absent"
    <3>1. TaskOwned(p)'
      BY <1>0, <1>6, <2>1, <2>2, <2>4 DEF TaskOwned, Allocated, Holds, Terminal
    <3> QED
      BY <1>4, <1>11, <3>1
  <2>5. CASE pc'[p] = "finish"
    <3>1. Holds(p, o) => row[o].private = {}
      BY <2>2, <2>3
    <3>2. TaskOwned(p)'
      BY <1>0, <1>6, <2>1, <2>2, <2>5, <3>1 DEF TaskOwned, Allocated, Retired, Holds, Terminal, Stable
    <3> QED
      BY <1>4, <1>11, <3>2
  <2>6. CASE pc'[p] = "prepare"
    <3>1. task'[p].op = o /\ task'[p].work = w /\ task'[p].cur = t.cur /\ task'[p].plan = plan
      BY <1>0, <1>1, <2>1, <2>6 DEF Tasks
    <3>2. b \in Bodies \cup {None} /\ Allocated(Refs(b)) /\ (Kind(o) = "record" => Allocated(Work[o].adds))
      BY <1>1, <1>6, <2>0, <2>1 DEF Tasks, Manifests, Allocated
    <3>3. EditAllowed(o, b)
      BY <2>1, <2>6
    <3>4. /\ Edits(o, b, EditBody(o, b)) /\ Allocated(EditPrivate(o, b))
          /\ EditPrivate(o, b) \cap EditRefs(o, b) = {} /\ EditBody(o, b).refs = EditRefs(o, b)
      BY <1>1, <2>1, <2>2, <3>2, <3>3, PlanIs
    <3>5. plan.body = EditBody(o, b) /\ plan.private = EditPrivate(o, b)
      BY <2>0 DEF EditPlan
    <3>6. \A k \in plan.body.refs : alloc[k] = [state |-> "live", inc |-> plan.body.inc]
      BY <2>1, <2>6 DEF LiveIn
    <3>7. /\ Edits(o, b, plan.body) /\ \A k \in plan.private : alloc[k].state # "none"
          /\ plan.private \cap plan.body.refs = {}
      BY <3>4, <3>5 DEF Allocated
    <3>8. row[o].lease = p /\ row[o].state = "open" =>
            t.cur.etag = manifest.etag \/ (t.cur.etag < manifest.etag /\ RootWon)
      BY <1>0, <2>2 DEF Owner, Fresh
    <3>9. RootWon' = RootWon
      BY <2>1 DEF RootWon
    <3>10. TaskOwned(p)'
      BY <1>6, <2>0, <2>1, <2>6, <3>1, <3>6, <3>7, <3>8, <3>9 DEF TaskOwned, Allocated, Owns, Fresh, Owner
    <3> QED
      BY <1>4, <1>11, <3>10
  <2> QED
    BY <2>1, <2>4, <2>5, <2>6
<1>12. CASE CheckCleanup(p)
  <2>0. PICK keys, plan : /\ keys = (IF Kind(o) = "drop" THEN Work[o].drops \ Refs(t.cur.body) ELSE {})
                          /\ plan = [NoPlan EXCEPT !.private = keys]
    OBVIOUS
  <2>1. /\ pc[p] = "check" /\ Kind(o) \in Cleanups /\ UNCHANGED <<row, landed, alloc, manifest>>
        /\ \/ pc'[p] = "absent" /\ task'[p] = t
           \/ pc'[p] = "retire" /\ task'[p] = [t EXCEPT !.plan = plan]
    BY <1>0, <1>1, <1>12, <2>0 DEF CheckCleanup
  <2>2. /\ w = o /\ (Holds(p, o) => row[o].state = "open") /\ Kind(o) # "retire"
        /\ Owner(p) => Fresh(t.cur.etag)
    BY <1>0, <1>1, <1>6, <2>1 DEF ProcessOK, Editing, TaskOwned, Cleanups
  <2>3. CASE pc'[p] = "absent"
    <3>1. TaskOwned(p)'
      BY <1>0, <1>6, <2>1, <2>2, <2>3 DEF TaskOwned, Allocated, Holds, Terminal
    <3> QED
      BY <1>4, <1>12, <3>1
  <2>4. CASE pc'[p] = "retire"
    <3>1. task'[p].op = o /\ task'[p].work = w /\ task'[p].cur = t.cur /\ task'[p].plan = plan
      BY <1>0, <1>1, <2>1, <2>4 DEF Tasks
    <3>2. plan.private = keys
      BY <2>0 DEF NoPlan
    <3>3. (\A k \in keys : alloc[k].state # "none") /\ keys \cap Refs(t.cur.body) = {}
      BY <1>6, <2>0, <2>1
    <3>4. row[o].lease = p /\ row[o].state = "open" =>
            t.cur.etag = manifest.etag \/ (t.cur.etag < manifest.etag /\ RootWon)
      BY <1>0, <2>2 DEF Owner, Fresh
    <3>5. RootWon' = RootWon
      BY <2>1 DEF RootWon
    <3>6. TaskOwned(p)'
      BY <1>6, <2>1, <2>4, <3>1, <3>2, <3>3, <3>4, <3>5 DEF TaskOwned, Allocated, Fresh, Owner
    <3> QED
      BY <1>4, <1>12, <3>6
  <2> QED
    BY <2>1, <2>3, <2>4
<1>13. CASE Outcome(p) \/ ClaimRetirement(p) \/ Crash(p)
  BY <1>1, <1>5, <1>13 DEF Outcome, ClaimRetirement, Crash, Leave
<1> QED
  BY <1>3, <1>5, <1>7, <1>8, <1>9, <1>10, <1>11, <1>12, <1>13

\* Steps that change one row, and neither storage nor keys.
LEMMA RowStepOwned ==
  ASSUME IInv, OInv, IInv', NEW p \in Procs, NEW o \in Ops, NEW r,
         row' = [row EXCEPT ![o] = r],
         UNCHANGED <<manifest, late, landed, alloc, expired>>,
         \A q \in Procs \ {p} : pc'[q] = pc[q] /\ task'[q] = task[q],
         task'[p].cur \in {task[p].cur, NoManifest},
         r.lease = p \/ r.state \in {"applied", "absent"},
         Settling(o) => Settling(o)', RowOwned(o)', TaskOwned(p)'
  PROVE  OInv'
<1>1. row'[o] = r /\ \A x \in Ops \ {o} : row'[x] = row[x]
  BY DEF IInv, TypeOK
<1>2. ASSUME NEW x \in Ops PROVE RowOwned(x)'
  <2>1. CASE x # o
    <3>1. row'[x] = row[x] /\ RowOwned(x) /\ (x \in Pending' => x \in Pending)
      BY <1>1, <2>1 DEF OInv, Pending
    <3> QED
      BY <3>1 DEF RowOwned, Allocated, Retired, Owns, RootWon
  <2> QED
    BY <2>1
<1>3. ASSUME NEW q \in Procs PROVE TaskOwned(q)'
  <2>1. CASE q # p
    <3>1. manifest' \in Manifests
      BY DEF IInv, TypeOK
    <3>2. \A w \in Ops : Settling(w) => Settling(w)'
      <4>1. \A w \in Ops \ {o} : Settling(w) => Settling(w)'
        BY <1>1 DEF Settling
      <4> QED
        BY <4>1
    <3>3. \A w \in Ops : row'[w] = row[w] \/ row'[w].lease # q \/ row'[w].state \in {"applied", "absent"}
      BY <1>1, <2>1
    <3> QED
      BY <2>1, <3>1, <3>2, <3>3, OthersOwned
  <2> QED
    BY <2>1
<1>4. Versions'
  <2>1. \A q \in Procs : task'[q].cur \in {task[q].cur, NoManifest}
    OBVIOUS
  <2>2. /\ manifest.etag \in Nat /\ NoManifest.etag = 0 /\ NoManifest.body = None /\ Refs(None) = {}
        /\ manifest.etag = 0 => manifest.body = None
    BY DEF IInv, TypeOK, Manifests, NoManifest, Refs, OInv, Versions
  <2> QED
    BY <2>1, <2>2 DEF OInv, Versions, Allocated
<1>5. RefsOwned'
  BY DEF OInv, RefsOwned
<1> QED
  BY <1>2, <1>3, <1>4, <1>5 DEF OInv

\* Recovery takes a row over with what it retires.
LEMMA FreezeOwned ==
  ASSUME IInv, OInv, IInv', NEW p \in Procs, Freeze(p)
  PROVE  OInv'
<1>0. PICK t : t = task[p]
  OBVIOUS
<1>1. /\ task \in [Procs -> Tasks] /\ pc \in [Procs -> Labels] /\ TaskOwned(p)
      /\ row \in [Ops -> Rows] /\ At(p, "freeze") /\ t \in Tasks
  BY <1>0 DEF OInv, IInv, TypeOK, Freeze
<1>2. /\ Kind(t.op) = "record" => \A k \in Work[t.op].adds : alloc[k].state # "none"
      /\ Kind(t.op) = "drop" => \A k \in Work[t.op].drops : alloc[k].state # "none"
  BY <1>0, <1>1 DEF TaskOwned, Allocated, At
<1>3. UNCHANGED <<manifest, late, landed, alloc, expired>>
  BY DEF Freeze, StoreSame, KeysSame
<1>4. \A q \in Procs \ {p} : pc'[q] = pc[q] /\ task'[q] = task[q]
  BY <1>1 DEF Freeze, Recovered, Goto, Keep, Know
<1>5. CASE row' = row /\ task' = task /\ Recovered(p)
  <2>1. pc'[p] \in {"begin", "outcome"} /\ task'[p] = t
    BY <1>0, <1>1, <1>5 DEF Recovered, Goto
  <2>2. TaskOwned(p)'
    BY <1>2, <1>3, <2>1 DEF TaskOwned, Allocated, At
  <2>3. expired' \subseteq Temp
    BY <1>3 DEF OInv
  <2> QED
    BY <1>0, <1>3, <1>4, <1>5, <2>1, <2>2, <2>3, LocalOwned
<1>6. ASSUME NEW o \in Pending,
             row' = [row EXCEPT ![o] = [@ EXCEPT !.state = "frozen", !.lease = p]],
             Know(p, [task[p] EXCEPT !.work = o]), Goto(p, Recovery(o))
      PROVE  OInv'
  <2>0. PICK r : r = [row[o] EXCEPT !.state = "frozen", !.lease = p]
    OBVIOUS
  <2>1. o \in Ops /\ row[o] \in Rows /\ row[o].state \in {"open", "prepared", "frozen"} /\ RowOwned(o)
    BY <1>1 DEF Pending, OInv
  <2>2. /\ r.state = "frozen" /\ r.lease = p /\ r.body = row[o].body /\ r.etag = row[o].etag
        /\ r.private = row[o].private
    BY <2>0, <2>1 DEF Rows
  <2>3. row' = [row EXCEPT ![o] = r] /\ row'[o] = r
    BY <1>1, <1>6, <2>0, <2>1
  <2>4. /\ pc'[p] = Recovery(o) /\ task'[p].op = t.op /\ task'[p].work = o /\ task'[p].cur = t.cur
    BY <1>0, <1>1, <1>6 DEF Know, Goto, Tasks
  <2>5. /\ pc'[p] \in {"settle", "absent", "own"}
        /\ pc'[p] = "settle" <=> Kind(o) \in Cleanups
    BY <2>4 DEF Recovery
  <2>6. Settling(o) => Settling(o)'
    BY <1>3, <2>1, <2>2, <2>3 DEF Settling
  <2>7. RowOwned(o)'
    BY <1>3, <2>1, <2>2, <2>3 DEF RowOwned, Allocated, Retired, Owns, RootWon, Pending
  <2>8. Kind(o) \in Cleanups => Settling(o)'
    BY <2>2, <2>3 DEF Settling
  <2>9. TaskOwned(p)'
    BY <1>2, <1>3, <2>4, <2>5, <2>8 DEF TaskOwned, Allocated, At
  <2> QED
    BY <1>0, <1>3, <1>4, <2>1, <2>2, <2>3, <2>4, <2>6, <2>7, <2>9, RowStepOwned
<1> QED
  BY <1>5, <1>6 DEF Freeze, Keep

\* A row that is opened retires nothing yet.
LEMMA BeginOwned ==
  ASSUME IInv, OInv, IInv', NEW p \in Procs, Begin(p)
  PROVE  OInv'
<1>0. PICK t, o, r : /\ t = task[p] /\ o = t.op
                     /\ r = [Unborn EXCEPT !.state = "open", !.lease = p, !.tries = row[o].tries]
  OBVIOUS
<1>1. /\ task \in [Procs -> Tasks] /\ pc \in [Procs -> Labels] /\ TaskOwned(p) /\ ProcessOK(p)
      /\ row \in [Ops -> Rows] /\ At(p, "begin") /\ t \in Tasks
  BY <1>0 DEF OInv, IInv, TypeOK, Begin
<1>2. /\ Kind(o) = "record" => \A k \in Work[o].adds : alloc[k].state # "none"
      /\ Kind(o) = "drop" => \A k \in Work[o].drops : alloc[k].state # "none"
      /\ o \in Ops
  BY <1>0, <1>1 DEF TaskOwned, Allocated, At, ProcessOK
<1>3. UNCHANGED <<manifest, late, landed, alloc, expired>>
  BY DEF Begin, StoreSame, KeysSame
<1>4. \A q \in Procs \ {p} : pc'[q] = pc[q] /\ task'[q] = task[q]
  BY <1>1 DEF Begin, Leave, Goto, Know
<1>5. CASE row' = row /\ Leave(p)
  <2>1. pc'[p] = "idle" /\ task'[p].cur = NoManifest
    BY <1>1, <1>5 DEF Leave, Goto, Know, Idle
  <2>2. TaskOwned(p)' /\ expired' \subseteq Temp
    BY <1>3, <2>1, IdleOwned DEF OInv
  <2> QED
    BY <1>3, <1>4, <1>5, <2>1, <2>2, LocalOwned
<1>6. CASE /\ ~ Done(o) /\ ~ Blocked /\ row' = [row EXCEPT ![o] = r]
           /\ Know(p, [task[p] EXCEPT !.mode = "own", !.work = o]) /\ Goto(p, "read")
  <2>1. r.state = "open" /\ r.lease = p /\ r.body = None /\ r.private = {} /\ row'[o] = r
    BY <1>0, <1>1, <1>2, <1>6 DEF Unborn
  <2>2. row[o].state \notin {"open", "prepared", "frozen", "applied"}
    BY <1>2, <1>6 DEF Done, Blocked, Pending
  <2>3. ~ Settling(o)
    BY <2>2 DEF Settling
  <2>4. pc'[p] = "read" /\ task'[p].op = o /\ task'[p].cur = t.cur
    BY <1>0, <1>1, <1>6 DEF Know, Goto, Tasks
  <2>5. RowOwned(o)'
    BY <2>1 DEF RowOwned, Allocated, Pending
  <2>6. TaskOwned(p)'
    BY <1>2, <1>3, <2>4 DEF TaskOwned, Allocated, At
  <2> QED
    BY <1>0, <1>2, <1>3, <1>4, <1>6, <2>1, <2>3, <2>4, <2>5, <2>6, RowStepOwned
<1> QED
  BY <1>0, <1>5, <1>6 DEF Begin

\* What finish settles as applied was retired by the same holder.
LEMMA FinishOwned ==
  ASSUME IInv, OInv, IInv', NEW p \in Procs, Finish(p) \/ FinishAbsent(p)
  PROVE  OInv'
<1>0. PICK t, o : t = task[p] /\ o = t.work
  OBVIOUS
<1>1. /\ task \in [Procs -> Tasks] /\ pc \in [Procs -> Labels] /\ TaskOwned(p) /\ ProcessOK(p)
      /\ row \in [Ops -> Rows] /\ pc[p] \in {"finish", "absent"} /\ t \in Tasks
  BY <1>0 DEF OInv, IInv, TypeOK, Finish, FinishAbsent, At
<1>2. /\ Kind(t.op) = "record" => \A k \in Work[t.op].adds : alloc[k].state # "none"
      /\ Kind(t.op) = "drop" => \A k \in Work[t.op].drops : alloc[k].state # "none"
      /\ o \in Ops
  BY <1>0, <1>1 DEF TaskOwned, Allocated, ProcessOK
<1>3. UNCHANGED <<manifest, late, landed, alloc, expired>>
  BY DEF Finish, FinishAbsent, StoreSame, KeysSame
<1>4. \A q \in Procs \ {p} : pc'[q] = pc[q] /\ task'[q] = task[q]
  BY <1>1 DEF Finish, FinishAbsent, Answer, Recovered, Leave, Goto, Know, Keep
<1>5. pc'[p] \in {"idle", "begin", "outcome"} /\ (pc'[p] # "idle" => task'[p] = t) /\ task'[p] \in {t, Idle}
  BY <1>0, <1>1 DEF Finish, FinishAbsent, Answer, Recovered, Leave, Goto, Know, Keep
<1>6. TaskOwned(p)' /\ task'[p].cur \in {t.cur, NoManifest}
  BY <1>2, <1>3, <1>5 DEF TaskOwned, Allocated, At, Idle
<1>7. CASE row' = row
  <2>1. expired' \subseteq Temp
    BY <1>3 DEF OInv
  <2> QED
    BY <1>0, <1>3, <1>4, <1>6, <1>7, <2>1, LocalOwned
<1>8. ASSUME NEW outcome \in {"applied", "absent"}, Holds(p, o),
             outcome = "applied" => At(p, "finish"),
             outcome = "absent" => At(p, "absent") /\ row[o].state # "prepared",
             row' = [row EXCEPT ![o] = [row[o] EXCEPT !.state = outcome, !.body = None]]
      PROVE  OInv'
  <2>0. PICK r : r = [row[o] EXCEPT !.state = outcome, !.body = None]
    OBVIOUS
  <2>1. row[o] \in Rows /\ row[o].state \notin {"applied", "absent"} /\ RowOwned(o)
    BY <1>1, <1>2, <1>8 DEF Holds, Terminal, OInv
  <2>2. r.state = outcome /\ r.body = None /\ r.private = row[o].private /\ row'[o] = r
    BY <1>1, <1>2, <1>8, <2>0, <2>1 DEF Rows
  <2>5. r.state \in {"applied", "absent"} /\ (Settling(o) => Settling(o)') /\ RowOwned(o)'
    <3>1. CASE outcome = "applied"
      <4>1. Retired(row[o].private) /\ (Kind(o) \in Stable => \E x \in landed : x[1] = o)
        BY <1>0, <1>1, <1>8, <3>1 DEF TaskOwned
      <4> QED
        BY <1>3, <2>1, <2>2, <3>1, <4>1 DEF RowOwned, Settling, Allocated, Retired, Pending
    <3>2. CASE outcome = "absent"
      <4>1. row[o].body = None
        BY <1>0, <1>1, <1>8, <3>2 DEF ProcessOK
      <4>2. Kind(o) \in Cleanups => row[o].state \notin {"prepared", "frozen"}
        BY <1>0, <1>1, <1>8, <3>2 DEF TaskOwned
      <4>3. row[o].private = {}
        BY <2>1, <4>1, <4>2 DEF RowOwned
      <4>4. \A x \in landed : x[1] # o
        BY <1>2, <2>1, <4>1, NamesAssumption DEF IInv, LandedOwned
      <4>5. ~ Settling(o)
        BY <2>1, <4>2, <4>4 DEF Settling
      <4> QED
        BY <1>3, <2>2, <3>2, <4>3, <4>5 DEF RowOwned, Allocated, Pending
    <3> QED
      BY <3>1, <3>2
  <2> QED
    BY <1>0, <1>2, <1>3, <1>4, <1>6, <1>8, <2>0, <2>2, <2>5, RowStepOwned
<1>9. \/ row' = row
      \/ \E outcome \in {"applied", "absent"} :
           /\ Holds(p, o) /\ row' = [row EXCEPT ![o] = [row[o] EXCEPT !.state = outcome, !.body = None]]
           /\ outcome = "applied" => At(p, "finish")
           /\ outcome = "absent" => At(p, "absent") /\ row[o].state # "prepared"
  BY <1>0 DEF Finish, FinishAbsent, FinishRow, MayAbandon, Holds
<1> QED
  BY <1>7, <1>8, <1>9

\* What prepare admits is the edit of the manifest it was computed from.
LEMMA PrepareOwned ==
  ASSUME IInv, OInv, IInv', NEW p \in Procs, Prepare(p)
  PROVE  OInv'
<1>0. PICK t, o, plan : t = task[p] /\ o = t.op /\ plan = t.plan
  OBVIOUS
<1>1. /\ task \in [Procs -> Tasks] /\ pc \in [Procs -> Labels] /\ TaskOwned(p) /\ ProcessOK(p)
      /\ row \in [Ops -> Rows] /\ pc[p] = "prepare" /\ t \in Tasks
  BY <1>0 DEF OInv, IInv, TypeOK, Prepare, At
<1>2. /\ o \in Ops /\ t.work = o /\ Kind(o) \notin Cleanups /\ Kind(o) # "retire"
      /\ Holds(p, o) => row[o].state = "open"
      /\ plan.body # None /\ Kind(o) # "drop"
  BY <1>0, <1>1 DEF ProcessOK, Editing, At, Cleanups
<1>3. Kind(o) = "record" => \A k \in Work[o].adds : alloc[k].state # "none"
  BY <1>0, <1>1 DEF TaskOwned, Allocated
<1>4. UNCHANGED <<manifest, late, landed, alloc, expired, task>>
  BY DEF Prepare, StoreSame, KeysSame, Keep
<1>5. \A q \in Procs \ {p} : pc'[q] = pc[q] /\ task'[q] = task[q]
  BY <1>1, <1>4 DEF Prepare, Acknowledged, Goto
<1>6. CASE row' = row /\ Goto(p, "absent")
  <2>1. pc'[p] = "absent" /\ task'[p] = t
    BY <1>0, <1>1, <1>4, <1>6 DEF Goto
  <2>2. TaskOwned(p)' /\ expired' \subseteq Temp
    BY <1>0, <1>2, <1>3, <1>4, <2>1 DEF TaskOwned, Allocated, At, OInv
  <2> QED
    BY <1>0, <1>4, <1>5, <1>6, <2>1, <2>2, LocalOwned
<1>7. ASSUME NEW r, Owner(p), row' = [row EXCEPT ![o] = r],
             r = [row[o] EXCEPT !.state = "prepared", !.attempt = plan.body.attempt,
                                !.tries = plan.body.attempt, !.etag = t.cur.etag,
                                !.body = plan.body, !.delta = plan.delta,
                                !.charged = AtLeastZero(plan.delta), !.private = plan.private],
             Acknowledged(p, "put")
      PROVE  OInv'
  <2>1. row[o] \in Rows /\ row[o].lease = p /\ row[o].state = "open"
    BY <1>0, <1>1, <1>2, <1>7 DEF Owner
  <2>2. /\ r.state = "prepared" /\ r.lease = p /\ r.body = plan.body /\ r.etag = t.cur.etag
        /\ r.private = plan.private /\ row'[o] = r
    BY <1>1, <1>2, <1>7, <2>1 DEF Rows
  <2>3. pc'[p] \in {"put", "absent"} /\ task'[p] = t
    BY <1>0, <1>1, <1>4, <1>7 DEF Acknowledged, Goto
  <2>4. /\ Edits(o, t.cur.body, plan.body) /\ Allocated(plan.private)
        /\ plan.private \cap plan.body.refs = {} /\ Owns(plan.body.refs, plan.body.inc)
        /\ Fresh(t.cur.etag)
    BY <1>0, <1>1, <1>7 DEF TaskOwned, At
  <2>5. t.cur.etag = manifest.etag => t.cur.body = manifest.body
    BY <1>0 DEF OInv, Versions
  <2>6. RowOwned(o)'
    BY <1>2, <1>4, <2>2, <2>4, <2>5 DEF RowOwned, Allocated, Retired, Owns, Fresh, RootWon
  <2>7. ~ Settling(o)
    BY <2>1 DEF Settling
  <2>8. TaskOwned(p)'
    BY <1>0, <1>2, <1>3, <1>4, <2>2, <2>3 DEF TaskOwned, Allocated, At
  <2> QED
    BY <1>0, <1>2, <1>4, <1>5, <1>7, <2>2, <2>3, <2>6, <2>7, <2>8, RowStepOwned
<1> QED
  BY <1>0, <1>6, <1>7 DEF Prepare

\* Steps that allocate or retire keys for the pending row, none that the
\* manifest names.
LEMMA KeyStepOwned ==
  ASSUME IInv, OInv, IInv', NEW p \in Procs, NEW w \in Pending,
         UNCHANGED <<manifest, late, landed, expired, task>>,
         \A x \in Ops \ {w} : row'[x] = row[x],
         row'[w] = row[w] \/ row'[w].lease = p,
         \A q \in Procs \ {p} : pc'[q] = pc[q] /\ (pc[q] \in {"check", "prepare", "retire"} => ~ Owner(q)),
         \A k \in Keys : /\ alloc[k].state # "none" => alloc'[k].state # "none"
                         /\ alloc[k].state = "retired" => alloc'[k].state = "retired"
                         /\ alloc[k].state = "live" /\ k \in Refs(manifest.body) => alloc'[k] = alloc[k],
         Settling(w) => Settling(w)', RowOwned(w)', TaskOwned(p)'
  PROVE  OInv'
<1>1. /\ manifest \in Manifests /\ row \in [Ops -> Rows] /\ task \in [Procs -> Tasks]
      /\ w \in Ops
  BY DEF IInv, TypeOK, Pending
<1>2. RefsOwned'
  <2> SUFFICES ASSUME manifest.body # None, NEW k \in manifest.body.refs
               PROVE  alloc'[k] = [state |-> "live", inc |-> manifest.body.inc]
    BY DEF RefsOwned
  <2>1. k \in Keys /\ k \in Refs(manifest.body)
    BY <1>1 DEF Manifests, Bodies, Refs
  <2>2. alloc[k] = [state |-> "live", inc |-> manifest.body.inc]
    BY DEF OInv, RefsOwned
  <2> QED
    BY <2>1, <2>2
<1>3. Versions'
  <2>1. ASSUME NEW q \in Procs, NEW k \in Refs(task[q].cur.body)
        PROVE  alloc'[k].state # "none"
    <3>1. k \in Keys
      BY <1>1, <2>1 DEF Tasks, Manifests, Bodies, Refs
    <3>2. alloc[k].state # "none"
      BY <2>1 DEF OInv, Versions, Allocated
    <3> QED
      BY <3>1, <3>2
  <2> QED
    BY <2>1 DEF OInv, Versions, Allocated
<1>4. ASSUME NEW x \in Ops PROVE RowOwned(x)'
  <2>1. CASE x # w
    <3>1. row'[x] = row[x] /\ RowOwned(x) /\ x \notin Pending /\ row[x].private \subseteq Keys
      BY <1>1, <2>1 DEF OInv, IInv, OnePending, Rows
    <3>2. row[x].body = None /\ (x \notin Pending)'
      BY <3>1 DEF IInv, RowsShaped, Pending
    <3> QED
      BY <3>1, <3>2 DEF RowOwned, Allocated, Retired
  <2> QED
    BY <2>1
<1>5. ASSUME NEW q \in Procs PROVE TaskOwned(q)'
  <2>1. CASE q # p
    <3>1. manifest' \in Manifests
      BY DEF IInv, TypeOK
    <3>2. \A x \in Ops : Settling(x) => Settling(x)'
      BY DEF Settling
    <3>3. \A x \in Ops : row'[x] = row[x] \/ row'[x].lease # q \/ row'[x].state \in {"applied", "absent"}
      BY <2>1
    <3> QED
      BY <2>1, <3>1, <3>2, <3>3, OthersOwned
  <2> QED
    BY <2>1
<1> QED
  BY <1>2, <1>3, <1>4, <1>5 DEF OInv

\* What finishCommit retires is in no manifest: the edit that dropped it landed.
LEMMA SettleOwned ==
  ASSUME IInv, OInv, IInv', NEW p \in Procs, Settle(p)
  PROVE  OInv'
<1>0. PICK t, o, w, keys : t = task[p] /\ o = t.op /\ w = t.work /\ keys = row[w].private
  OBVIOUS
<1>1. /\ task \in [Procs -> Tasks] /\ pc \in [Procs -> Labels] /\ TaskOwned(p) /\ ProcessOK(p)
      /\ row \in [Ops -> Rows] /\ pc[p] = "settle" /\ t \in Tasks
      /\ alloc \in [Keys -> Allocations]
  BY <1>0 DEF OInv, IInv, TypeOK, Settle, At
<1>2. /\ w \in Ops /\ o \in Ops /\ Settling(w) /\ row[w] \in Rows /\ keys \subseteq Keys /\ RowOwned(w)
      /\ Kind(o) = "record" => \A k \in Work[o].adds : alloc[k].state # "none"
      /\ Kind(o) = "drop" => \A k \in Work[o].drops : alloc[k].state # "none"
      /\ \A k \in keys : alloc[k].state # "none"
  BY <1>0, <1>1 DEF ProcessOK, TaskOwned, At, Rows, OInv, RowOwned, Allocated
<1>3. /\ UNCHANGED <<manifest, late, landed, expired, task, row>>
      /\ pc'[p] = "finish" /\ \A q \in Procs \ {p} : pc'[q] = pc[q]
  BY <1>1 DEF Settle, StoreSame, RowsSame, Keep, Goto
<1>4. /\ alloc' = [k \in Keys |-> IF k \in keys /\ alloc[k].state = "live"
                                   THEN [alloc[k] EXCEPT !.state = "retired"] ELSE alloc[k]]
      /\ \A k \in keys : alloc'[k].state = "retired"
      /\ \A k \in Keys \ keys : alloc'[k] = alloc[k]
      /\ \A k \in Keys : /\ alloc[k].state # "none" => alloc'[k].state # "none"
                         /\ alloc[k].state = "retired" => alloc'[k] = alloc[k]
  BY <1>0, <1>1, <1>2 DEF Settle, RetireKeys, Allocations
<1>5. \A x \in Ops : Work[x].adds \subseteq Keys /\ Work[x].drops \subseteq Keys
  BY WorkAssumption
<1>6. Kind(w) \in Stable /\ Holds(p, w) => \E x \in landed : x[1] = w
  BY <1>2 DEF Settling, Stable, Cleanups, Holds, Terminal
<1>7. TaskOwned(p)'
  BY <1>0, <1>2, <1>3, <1>4, <1>5, <1>6 DEF TaskOwned, Allocated, Retired, At, Holds, Terminal
<1>8. CASE row[w].state = "applied"
  <2>1. \A k \in keys : alloc[k].state = "retired"
    BY <1>0, <1>2, <1>8 DEF RowOwned, Retired
  <2>2. alloc' = alloc
    BY <1>1, <1>4, <2>1
  <2>3. expired' \subseteq Temp
    BY <1>3 DEF OInv
  <2> QED
    BY <1>3, <1>7, <2>2, <2>3, LocalOwned
<1>9. CASE row[w].state \in {"prepared", "frozen"}
  <2>1. w \in Pending
    BY <1>2, <1>9 DEF Pending
  <2>2. Kind(w) \notin Cleanups => row[w].body # None /\ row[w].etag < manifest.etag
    <3>1. SUFFICES ASSUME Kind(w) \notin Cleanups
                   PROVE  row[w].body # None /\ row[w].etag < manifest.etag
      OBVIOUS
    <3>2. PICK x \in landed : x[1] = w
      BY <1>2, <1>9, <3>1 DEF Settling
    <3> QED
      BY <1>2, <1>9, <3>2, NamesAssumption DEF IInv, LandedOwned
  <2>3. /\ row[w].etag \in Nat /\ manifest.etag \in Nat
        /\ Kind(w) \in Cleanups => row[w].body = None
    BY <1>2 DEF IInv, TypeOK, Manifests, Rows, RowsShaped
  <2>4. keys \cap Refs(manifest.body) = {}
    <3>1. CASE Kind(w) \in Cleanups
      BY <1>0, <1>2, <2>1, <3>1 DEF RowOwned
    <3>2. CASE Kind(w) \notin Cleanups
      <4>1. keys \cap row[w].body.refs = {} /\ (manifest.body = row[w].body \/ RootWon)
        BY <1>0, <1>2, <2>2, <2>3, <3>2 DEF RowOwned
      <4> QED
        BY <2>2, <3>2, <4>1 DEF RootWon, RootBody, Refs
    <3> QED
      BY <3>1, <3>2
  <2>5. \A q \in Procs \ {p} : pc[q] \in {"check", "prepare", "retire"} => ~ Owner(q)
    <3> SUFFICES ASSUME NEW q \in Procs, pc[q] \in {"check", "prepare", "retire"}, Owner(q)
                 PROVE  FALSE
      OBVIOUS
    <3>1. task[q].op \in Ops /\ row[task[q].op].state = "open"
      BY DEF IInv, ProcessOK, Owner
    <3>2. task[q].op \in Pending
      BY <3>1 DEF Pending
    <3> QED
      BY <1>9, <2>1, <3>1, <3>2 DEF IInv, OnePending
  <2>6. RowOwned(w)'
    <3>1. row[w].body # None => row[w].etag # manifest.etag
      BY <2>2, <2>3
    <3>2. Allocated(keys)' /\ Retired(keys)'
      BY <1>2, <1>4 DEF Allocated, Retired
    <3> QED
      BY <1>0, <1>2, <1>3, <1>9, <3>1, <3>2 DEF RowOwned, Pending, RootWon, Allocated, Retired
  <2>7. \A k \in Keys : alloc[k].state = "live" /\ k \in Refs(manifest.body) => alloc'[k] = alloc[k]
    BY <1>4, <2>4
  <2>8. Settling(w) => Settling(w)'
    BY <1>3 DEF Settling
  <2> QED
    BY <1>3, <1>4, <1>7, <2>1, <2>5, <2>6, <2>7, <2>8, KeyStepOwned
<1> QED
  BY <1>2, <1>8, <1>9 DEF Settling

\* A cleanup binds its row to keys that nobody names, and allocates unused ones.
LEMMA PrepareCleanupOwned ==
  ASSUME IInv, OInv, IInv', NEW p \in Procs, PrepareCleanup(p)
  PROVE  OInv'
<1>0. PICK t, o, keys, fresh :
        /\ t = task[p] /\ o = t.op /\ keys = t.plan.private
        /\ fresh = (IF Kind(o) = "alloc" THEN Work[o].adds ELSE {})
  OBVIOUS
<1>1. /\ task \in [Procs -> Tasks] /\ pc \in [Procs -> Labels] /\ TaskOwned(p) /\ ProcessOK(p)
      /\ row \in [Ops -> Rows] /\ pc[p] = "retire" /\ t \in Tasks
      /\ alloc \in [Keys -> Allocations]
  BY <1>0 DEF OInv, IInv, TypeOK, PrepareCleanup, At
<1>2. /\ o \in Ops /\ t.work = o /\ Kind(o) \in Cleanups
      /\ Holds(p, o) => row[o].state = "open"
      /\ Kind(o) = "record" => \A k \in Work[o].adds : alloc[k].state # "none"
      /\ Kind(o) = "drop" => \A k \in Work[o].drops : alloc[k].state # "none"
      /\ \A k \in keys : alloc[k].state # "none"
      /\ keys \cap Refs(t.cur.body) = {} /\ keys \subseteq Keys /\ fresh \subseteq Keys
  BY <1>0, <1>1, WorkAssumption DEF ProcessOK, Editing, TaskOwned, At, Tasks, Plans, Allocated, Cleanups
<1>3. /\ UNCHANGED <<manifest, late, landed, expired, task>>
      /\ \A q \in Procs \ {p} : pc'[q] = pc[q]
  BY <1>1 DEF PrepareCleanup, StoreSame, Keep, Goto, Acknowledged
<1>4. CASE row' = row /\ alloc' = alloc /\ Goto(p, "absent")
  <2>1. pc'[p] = "absent" /\ task'[p] = t
    BY <1>0, <1>1, <1>3, <1>4 DEF Goto
  <2>2. TaskOwned(p)'
    BY <1>0, <1>2, <1>3, <1>4, <2>1 DEF TaskOwned, Allocated, At, Holds, Terminal
  <2>3. expired' \subseteq Temp
    BY <1>3 DEF OInv
  <2> QED
    BY <1>3, <1>4, <2>2, <2>3, LocalOwned
<1>5. ASSUME NEW inc, NEW r, Owner(p), \A k \in fresh : alloc[k] = Unallocated,
             alloc' = [k \in Keys |-> IF k \in fresh THEN [state |-> "live", inc |-> inc]
                                      ELSE RetireKeys(keys)[k]],
             row' = [row EXCEPT ![o] = r], r = [row[o] EXCEPT !.state = "prepared", !.private = keys],
             Acknowledged(p, "settle")
      PROVE  OInv'
  <2>1. row[o] \in Rows /\ row[o].lease = p /\ row[o].state = "open" /\ o \in Pending
    BY <1>0, <1>1, <1>2, <1>5 DEF Owner, Pending
  <2>2. /\ r.state = "prepared" /\ r.lease = p /\ r.body = row[o].body /\ r.private = keys
        /\ row'[o] = r /\ row[o].body = None /\ \A x \in Ops \ {o} : row'[x] = row[x]
    BY <1>1, <1>2, <1>5, <2>1 DEF Rows, IInv, RowsShaped
  <2>3. pc'[p] \in {"settle", "absent"} /\ task'[p] = t
    BY <1>0, <1>1, <1>3, <1>5 DEF Acknowledged, Goto
  <2>4. keys \cap Refs(manifest.body) = {}
    <3>1. Fresh(t.cur.etag)
      BY <1>0, <1>1, <1>5 DEF TaskOwned
    <3>2. t.cur.etag = manifest.etag => t.cur.body = manifest.body
      BY <1>0 DEF OInv, Versions
    <3>3. RootWon => Refs(manifest.body) = {}
      BY DEF RootWon, Refs, RootBody
    <3> QED
      BY <1>2, <3>1, <3>2, <3>3 DEF Fresh
  <2>5. \A k \in Keys : /\ alloc[k].state # "none" => alloc'[k].state # "none"
                        /\ alloc[k].state = "retired" => alloc'[k].state = "retired"
                        /\ alloc[k].state = "live" /\ k \notin keys => alloc'[k] = alloc[k]
    BY <1>1, <1>5 DEF RetireKeys, Unallocated, Allocations
  <2>6. \A q \in Procs \ {p} : pc[q] \in {"check", "prepare", "retire"} => ~ Owner(q)
    <3> SUFFICES ASSUME NEW q \in Procs \ {p}, pc[q] \in {"check", "prepare", "retire"}, Owner(q)
                 PROVE  FALSE
      OBVIOUS
    <3>1. task[q].op \in Ops /\ row[task[q].op].state = "open" /\ row[task[q].op].lease = q
      BY DEF IInv, ProcessOK, Owner
    <3>2. task[q].op \in Pending
      BY <3>1 DEF Pending
    <3> QED
      BY <2>1, <3>1, <3>2 DEF IInv, OnePending
  <2>7. RowOwned(o)'
    BY <1>2, <1>3, <2>2, <2>4, <2>5 DEF RowOwned, Allocated
  <2>8. TaskOwned(p)'
    <3>1. /\ Kind(o) = "record" => \A k \in Work[o].adds : alloc'[k].state # "none"
          /\ Kind(o) = "drop" => \A k \in Work[o].drops : alloc'[k].state # "none"
      BY <1>2, <2>5, WorkAssumption
    <3> QED
      BY <1>0, <1>2, <2>2, <2>3, <3>1 DEF TaskOwned, Allocated, At, Settling
  <2>9. ~ Settling(o)
    BY <2>1 DEF Settling
  <2> QED
    BY <1>3, <2>1, <2>2, <2>4, <2>5, <2>6, <2>7, <2>8, <2>9, KeyStepOwned
<1>6. \/ row' = row /\ alloc' = alloc /\ Goto(p, "absent")
      \/ /\ Owner(p) /\ \A k \in fresh : alloc[k] = Unallocated
         /\ alloc' = [k \in Keys |-> IF k \in fresh THEN [state |-> "live", inc |-> t.cur.body.inc]
                                     ELSE RetireKeys(keys)[k]]
         /\ row' = [row EXCEPT ![o] = [row[o] EXCEPT !.state = "prepared", !.private = keys]]
         /\ Acknowledged(p, "settle")
  BY <1>0 DEF PrepareCleanup
<1> QED
  BY <1>4, <1>5, <1>6

\* A body that lands owns what it names: its row checked that in the same
\* version of the manifest, and nobody retired it since.
LEMMA StoreOwned ==
  ASSUME IInv, OInv, IInv', NEW p, NEW etag \in Nat, NEW b \in Bodies, Fenced(etag, b), Store(etag, b),
         b.op = Root => b = RootBody,
         UNCHANGED <<row, alloc, expired>>, late' \subseteq late,
         \A q \in Procs \ {p} : pc'[q] = pc[q] /\ task'[q] = task[q],
         p \in Procs => task'[p].cur \in {task[p].cur, manifest'} /\ TaskOwned(p)'
  PROVE  OInv'
<1>1. /\ manifest.etag = etag /\ manifest'.etag = etag + 1 /\ manifest'.body = b
      /\ landed \subseteq landed' /\ b # None /\ manifest' \in Manifests
  BY NamesAssumption DEF Store, IInv, TypeOK
<1>2. row \in [Ops -> Rows] /\ task \in [Procs -> Tasks] /\ manifest \in Manifests
  BY DEF IInv, TypeOK
<1>3. \A x \in Ops : Settling(x) => Settling(x)'
  BY <1>1 DEF Settling
<1>4. Refs(manifest'.body) = b.refs /\ RootBody.refs = {}
  BY <1>1 DEF Refs, RootBody
<1>5. RefsOwned' => Versions'
  <2> SUFFICES ASSUME RefsOwned' PROVE Versions'
    OBVIOUS
  <2>1. ASSUME NEW q \in Procs
        PROVE  /\ task'[q].cur.etag <= manifest'.etag
               /\ task'[q].cur.etag = manifest'.etag => task'[q].cur.body = manifest'.body
               /\ \A k \in Refs(task'[q].cur.body) : alloc[k].state # "none"
    <3>1. task'[q].cur \in {task[q].cur, manifest'}
      BY <2>1
    <3>2. /\ task[q].cur.etag <= manifest.etag /\ task[q].cur.etag \in Nat
          /\ \A k \in Refs(task[q].cur.body) : alloc[k].state # "none"
      BY <1>2, <2>1 DEF OInv, Versions, Allocated, Tasks, Manifests
    <3>3. \A k \in Refs(manifest'.body) : alloc[k].state # "none"
      BY <1>1, <1>4 DEF RefsOwned
    <3> QED
      BY <1>1, <3>1, <3>2, <3>3
  <2>2. manifest'.etag # 0
    BY <1>1
  <2> QED
    BY <1>1, <2>1, <2>2 DEF OInv, Versions, Allocated
<1>6. CASE b.op = Root
  <2>1. etag = 0 /\ b = RootBody
    BY <1>6 DEF Fenced
  <2>2. RootWon'
    BY <1>1, <2>1 DEF RootWon, OInv, Versions
  <2>3. RefsOwned'
    BY <1>1, <1>4, <2>1 DEF RefsOwned
  <2>4. ASSUME NEW x \in Ops PROVE RowOwned(x)'
    <3>1. RowOwned(x) /\ row[x].etag \in Nat /\ row'[x] = row[x]
      BY <1>2 DEF OInv, Rows
    <3>2. row[x].body # None => row[x].etag = 0
      BY <1>1, <2>1, <3>1 DEF RowOwned
    <3> QED
      BY <1>1, <1>4, <2>1, <2>2, <3>1, <3>2 DEF RowOwned, Allocated, Retired, Pending
  <2>5. ASSUME NEW q \in Procs PROVE TaskOwned(q)'
    <3>1. CASE q = p
      BY <3>1
    <3>2. CASE q # p
      <4>1. manifest.etag = 0 /\ manifest'.etag > 0
        BY <1>1, <2>1
      <4> QED
        BY <1>1, <1>3, <2>2, <3>2, <4>1, OthersOwned
    <3> QED
      BY <3>1, <3>2
  <2> QED
    BY <1>5, <2>3, <2>4, <2>5 DEF OInv
<1>7. CASE b.op \in Ops
  <2>0. PICK o : o = b.op
    OBVIOUS
  <2>1. /\ o \in Ops /\ row[o].body = b /\ row[o].etag = etag /\ RowOwned(o)
    BY <1>1, <1>7, <2>0, NamesAssumption DEF Fenced, OInv
  <2>2. row[o].state \in {"prepared", "frozen"} /\ Kind(o) \notin Cleanups /\ o \in Pending
    BY <1>1, <2>1 DEF IInv, RowsShaped, Pending
  <2>3. RefsOwned'
    BY <1>1, <2>1 DEF RefsOwned, RowOwned, Owns
  <2>4. ASSUME NEW x \in Ops PROVE RowOwned(x)'
    <3>1. RowOwned(x) /\ row'[x] = row[x]
      BY DEF OInv
    <3>2. CASE x = o
      BY <1>1, <2>1, <2>2, <3>1, <3>2 DEF RowOwned, Allocated, Retired
    <3>3. CASE x # o
      <4>1. x \notin Pending
        BY <2>2, <3>3 DEF IInv, OnePending
      <4>2. row[x].body = None /\ (x \notin Pending)'
        BY <4>1 DEF IInv, RowsShaped, Pending
      <4> QED
        BY <1>1, <3>1, <4>1, <4>2 DEF RowOwned, Allocated, Retired
    <3> QED
      BY <3>2, <3>3
  <2>5. ASSUME NEW q \in Procs PROVE TaskOwned(q)'
    <3>1. CASE q = p
      BY <3>1
    <3>2. CASE q # p
      <4>1. pc[q] \in {"check", "prepare", "retire"} => ~ Owner(q)
        <5> SUFFICES ASSUME pc[q] \in {"check", "prepare", "retire"}, Owner(q)
                     PROVE  FALSE
          OBVIOUS
        <5>1. task[q].op \in Ops /\ row[task[q].op].state = "open"
          BY DEF IInv, ProcessOK, Owner
        <5>2. task[q].op \in Pending
          BY <5>1 DEF Pending
        <5> QED
          BY <2>2, <5>1, <5>2 DEF IInv, OnePending
      <4> QED
        BY <1>1, <1>3, <3>2, <4>1, OthersOwned
    <3> QED
      BY <3>1, <3>2
  <2> QED
    BY <1>5, <2>3, <2>4, <2>5 DEF OInv
<1> QED
  BY <1>6, <1>7 DEF Bodies, Authors

\* A PUT that was answered.
LEMMA PutOwned ==
  ASSUME IInv, OInv, IInv', NEW p \in Procs, PutOk(p)
  PROVE  OInv'
<1>0. PICK t, o, w, etag, b : /\ t = task[p] /\ o = t.op /\ w = t.work
                              /\ etag = IfMatch(p) /\ b = Content(p)
  OBVIOUS
<1>1. /\ task \in [Procs -> Tasks] /\ pc \in [Procs -> Labels] /\ TaskOwned(p) /\ ProcessOK(p)
      /\ row \in [Ops -> Rows] /\ pc[p] \in {"put", "reput"} /\ t \in Tasks /\ Sending(p)
  BY <1>0 DEF OInv, IInv, TypeOK, PutOk, Sending
<1>2. b # None /\ Request(p) = [etag |-> etag, body |-> b]
  BY <1>0 DEF Request, PutOk
<1>3. Fenced(etag, b) /\ etag \in Nat /\ b \in Bodies
  BY <1>0, <1>1, <1>2, RequestFenced, SentTypes DEF IInv
<1>4. /\ UNCHANGED <<row, alloc, expired, late>> /\ Store(etag, b)
      /\ pc'[p] = "settle" /\ task'[p] = t
      /\ \A q \in Procs \ {p} : pc'[q] = pc[q] /\ task'[q] = task[q]
  BY <1>0, <1>1, <1>2 DEF PutOk, RowsSame, KeysSame, Goto, Keep
<1>5. row'= row /\ b.op = w /\ w \in Ops /\ b.op # Root
  <2>1. CASE pc[p] = "put"
    BY <1>0, <1>1, <1>4, <2>1, NamesAssumption DEF ProcessOK, Editing, Content, At
  <2>2. CASE pc[p] = "reput"
    <3>1. w \in Ops /\ b = row[w].body
      BY <1>0, <1>1, <2>2 DEF ProcessOK, Content, At
    <3> QED
      BY <1>2, <1>4, <3>1, NamesAssumption DEF IInv, RowsShaped
  <2> QED
    BY <1>1, <2>1, <2>2
<1>6. row[w].body = b /\ Receipt(b) \in landed' /\ Receipt(b)[1] = w
  BY <1>3, <1>4, <1>5, StoreStep DEF Receipt
<1>7. Settling(w)'
  BY <1>2, <1>4, <1>5, <1>6 DEF Settling, IInv, RowsShaped
<1>8. TaskOwned(p)'
  BY <1>0, <1>1, <1>4, <1>7 DEF TaskOwned, Allocated, At
<1> QED
  BY <1>0, <1>3, <1>4, <1>5, <1>8, StoreOwned

\* An empty root lands only where nothing is, and names nothing.
LEMMA RootOwned ==
  ASSUME IInv, OInv, IInv', NEW p \in Procs, PutRoot(p)
  PROVE  OInv'
<1>0. PICK t, o : t = task[p] /\ o = t.op
  OBVIOUS
<1>1. /\ task \in [Procs -> Tasks] /\ pc \in [Procs -> Labels] /\ TaskOwned(p)
      /\ pc[p] = "root" /\ t \in Tasks
  BY <1>0 DEF OInv, IInv, TypeOK, PutRoot, At
<1>2. RootBody \in Bodies /\ RootBody.op = Root /\ Fenced(0, RootBody)
  BY DEF RootBody, Bodies, Authors, Fenced
<1>3. /\ UNCHANGED <<row, alloc, expired, late>> /\ Store(0, RootBody)
      /\ pc'[p] \in {"claim", "check"} /\ task'[p] = [t EXCEPT !.cur = manifest']
      /\ \A q \in Procs \ {p} : pc'[q] = pc[q] /\ task'[q] = task[q]
  BY <1>0, <1>1 DEF PutRoot, RowsSame, KeysSame, Goto, Know
<1>4. task'[p].op = o /\ task'[p].cur = manifest'
  BY <1>0, <1>1, <1>3 DEF Tasks
<1>5. TaskOwned(p)'
  BY <1>0, <1>1, <1>3, <1>4 DEF TaskOwned, Allocated, At, Fresh
<1> QED
  BY <1>2, <1>3, <1>4, <1>5, StoreOwned

\* A late PUT lands or is lost, time passes, a lock is lost.
LEMMA WorldOwned ==
  ASSUME IInv, OInv, IInv',
         \/ \E m \in late : Land(m) \/ Drop(m)
         \/ \E k \in Keys : Expire(k)
         \/ \E p \in Procs : LoseLock(p)
         \/ UNCHANGED vars
  PROVE  OInv'
<1> DEFINE nobody == CHOOSE p : p \notin Procs
<1>1. nobody \notin Procs
  BY NoSetContainsEverything
<1>2. UNCHANGED <<row, alloc, pc, task>> /\ late' \subseteq late /\ expired' \subseteq Temp
  BY DEF Land, Drop, Expire, LoseLock, vars, RowsSame, StoreSame, KeysSame, OInv
<1>3. CASE UNCHANGED <<manifest, landed>>
  <2> HIDE DEF nobody
  <2> QED
    BY <1>1, <1>2, <1>3, LocalOwned
<1>4. ASSUME NEW m \in late, Land(m)
      PROVE  OInv'
  <2>1. m.etag \in Nat /\ m.body \in Bodies /\ Fenced(m.etag, m.body) /\ Store(m.etag, m.body)
    BY <1>4 DEF IInv, TypeOK, Requests, RequestsFenced, Land
  <2>2. m.body.op = Root => m.body = RootBody
    BY DEF OInv, Versions
  <2>3. expired' = expired
    BY <1>4 DEF Land, KeysSame
  <2> HIDE DEF nobody
  <2> QED
    BY <1>1, <1>2, <2>1, <2>2, <2>3, StoreOwned
<1> QED
  BY <1>3, <1>4 DEF Drop, Expire, LoseLock, vars, StoreSame

\* A folder starts without keys, with or without an empty root.
LEMMA InitOInv == Init => OInv
<1> SUFFICES ASSUME Init PROVE OInv
  OBVIOUS
<1>1. /\ Unborn.private = {} /\ Unborn.body = None /\ Unborn.state = "none"
      /\ Idle.cur = NoManifest /\ NoManifest.etag = 0 /\ NoManifest.body = None /\ Refs(None) = {}
  BY DEF Unborn, Idle, NoManifest, Refs
<1>2. RootBody # None /\ RootBody.refs = {}
  <2>1. RootBody \in Bodies
    BY DEF RootBody, Bodies, Authors
  <2> QED
    BY <2>1, NamesAssumption DEF RootBody
<1>3. Versions
  BY <1>1, <1>2 DEF Init, Versions, Allocated
<1>4. RefsOwned
  BY <1>1, <1>2 DEF Init, RefsOwned
<1>5. \A o \in Ops : RowOwned(o)
  BY <1>1 DEF Init, RowOwned, Allocated
<1>6. \A p \in Procs : TaskOwned(p)
  BY DEF Init, TaskOwned, At
<1> QED
  BY <1>3, <1>4, <1>5, <1>6 DEF OInv, Init

\* The ownership of keys is kept by every step, given the invariant of the rows.
LEMMA OInductive == IInv /\ IInv' /\ OInv /\ [Next]_vars => OInv'
<1> SUFFICES ASSUME IInv, IInv', OInv, [Next]_vars PROVE OInv'
  OBVIOUS
<1>1. ASSUME NEW p \in Procs, Step(p)
      PROVE  OInv'
  BY <1>1, LocalActionsOwned, FreezeOwned, BeginOwned, FinishOwned, PrepareOwned, PrepareCleanupOwned,
     SettleOwned, PutOwned, RootOwned DEF Step
<1>2. ASSUME NEW p \in Procs, PutUnknown(p) \/ Crash(p) \/ LoseLock(p)
      PROVE  OInv'
  BY <1>2, LocalActionsOwned, WorldOwned
<1>3. ASSUME NEW p \in Procs, NEW o \in Ops, Start(p, o) \/ RunJob(p, o) \/ StartRetire(p, o)
      PROVE  OInv'
  BY <1>3, LocalActionsOwned
<1>4. CASE UNCHANGED vars \/ (\E m \in late : Land(m) \/ Drop(m)) \/ \E k \in Keys : Expire(k)
  BY <1>4, WorldOwned
<1> QED
  BY <1>1, <1>2, <1>3, <1>4 DEF Next

\* Both invariants hold in every state.
LEMMA Ownership == Spec => [](IInv /\ OInv)
<1>1. Init => IInv /\ OInv
  BY InitIInv, InitOInv
<1>2. (IInv /\ OInv) /\ [Next]_vars => (IInv /\ OInv)'
  BY Inductive, OInductive
<1> QED
  BY <1>1, <1>2, PTL DEF Spec

\* The manifest never names a key that is retired, unallocated or of another
\* incarnation, whatever cleanup, recovery or late PUT runs beside it
\* (finishCommit, prepareCleanup and recovery's check of owned keys).
THEOREM OwnedRefs == Spec => []RefsOwned
<1>1. IInv /\ OInv => RefsOwned
  BY DEF OInv
<1> QED
  BY <1>1, Ownership, PTL

(***************************************************************************)
(* The refinement of ManifestStore                                         *)
(***************************************************************************)
View(by, refs, inc, deleted) == [by |-> by, refs |-> refs, inc |-> inc, deleted |-> deleted]

\* A manifest is seen exactly when it exists.
LEMMA SeenIs ==
  ASSUME NEW b \in Bodies \cup {None}
  PROVE  /\ b = None => Seen(b) = None
         /\ b # None => /\ Seen(b) = View(b.op, b.refs, b.inc, b.deleted)
                        /\ Seen(b) # None
<1>1. CASE b = None
  BY <1>1 DEF Seen
<1>2. CASE b # None
  <2>1. Seen(b) = View(b.op, b.refs, b.inc, b.deleted)
    BY <1>2 DEF Seen, View
  <2>2. View(b.op, b.refs, b.inc, b.deleted) \in Views
    BY <1>2 DEF View, Views, Bodies
  <2> QED
    BY <1>2, <2>1, <2>2, NamesAssumption
<1> QED
  BY <1>1, <1>2

\* A view is its parts.
LEMMA ViewParts ==
  ASSUME NEW by, NEW refs, NEW inc, NEW deleted
  PROVE  /\ LET v == View(by, refs, inc, deleted) IN
              v.by = by /\ v.refs = refs /\ v.inc = inc /\ v.deleted = deleted
         /\ \A v \in [by : {by}, refs : {refs}, inc : {inc}, deleted : {deleted}] :
              v = View(by, refs, inc, deleted)
BY DEF View

\* What an admitted edit makes of the manifest it replaces is the abstract
\* edit of what a client sees.
LEMMA EditRefines ==
  ASSUME NEW o \in Ops, NEW b \in Bodies \cup {None}, NEW c \in Bodies, Edits(o, b, c),
         manifest.body = b, manifest'.body = c
  PROVE  Abstract!Commit(o) \/ Abstract!Record(o) \/ Abstract!Expire(o) \/ Abstract!Purge(o) \/ Abstract!Reset(o)
<1>1. /\ Seen(c) = View(o, c.refs, c.inc, c.deleted)
      /\ Abstract!Kind(o) = Kind(o) /\ Kind(o) \in Kinds
      /\ c # None
  BY NamesAssumption, WorkAssumption, SeenIs DEF Edits, Abstract!Kind, Kind
<1>2. /\ b = None => Seen(b) = None
      /\ b # None => Seen(b) = View(b.op, b.refs, b.inc, b.deleted) /\ Seen(b) # None
  BY SeenIs
<1>3. PICK base : base = Abstract!Base(o)
  OBVIOUS
<1>4. PICK swapped : swapped = (Refs(b) \ Work[o].drops) \cup Work[o].adds
  OBVIOUS
<1>5. CASE b = None
  <2>1. base = View(o, {}, o, FALSE)
    <3>1. base = [[by |-> Root, refs |-> {}, inc |-> Root, deleted |-> FALSE] EXCEPT !.by = o, !.inc = o]
      BY <1>2, <1>3, <1>5 DEF Abstract!Base, Abstract!Empty
    <3>2. base \in [by : {o}, refs : {{}}, inc : {o}, deleted : {FALSE}]
      BY <3>1
    <3> QED
      BY <3>2, ViewParts
  <2>2. Refs(b) = {} /\ Current(o, b).inc = o /\ Current(o, b).deleted = FALSE
    BY <1>5 DEF Refs, Current, RootBody
  <2>3. Kind(o) \in {"commit", "purge"} /\ c.inc = o
    <3>1. EditAllowed(o, b) /\ Kind(o) \notin Cleanups /\ Kind(o) # "retire"
      BY DEF Edits
    <3>2. Kind(o) \in {"commit", "purge"}
      BY <1>1, <1>5, <3>1 DEF EditAllowed, Existing, Cleanups, Kinds
    <3> QED
      BY <2>2, <3>2 DEF Edits
  <2>4. CASE Kind(o) = "commit"
    <3>1. c.refs = swapped /\ c.deleted = FALSE
      BY <1>4, <2>2, <2>4 DEF Edits, Swapped, Bodies
    <3>2. PICK next : next = [base EXCEPT !.by = o, !.refs = (@ \ Work[o].drops) \cup Work[o].adds]
      OBVIOUS
    <3>3. next \in [by : {o}, refs : {c.refs}, inc : {c.inc}, deleted : {c.deleted}]
      BY <1>4, <2>1, <2>2, <2>3, <3>1, <3>2 DEF View
    <3>4. Seen(c) = next
      BY <1>1, <3>3, ViewParts
    <3>5. Abstract!Commit(o)
      BY <1>1, <1>2, <1>3, <1>5, <2>4, <3>2, <3>4 DEF Abstract!Commit
    <3> QED
      BY <3>5
  <2>5. CASE Kind(o) = "purge"
    <3>1. c.refs = {} /\ c.deleted = TRUE
      BY <2>5 DEF Edits, Bodies
    <3>2. PICK next : next = [base EXCEPT !.by = o, !.refs = {}, !.deleted = TRUE]
      OBVIOUS
    <3>3. next \in [by : {o}, refs : {c.refs}, inc : {c.inc}, deleted : {c.deleted}]
      BY <2>1, <2>3, <3>1, <3>2 DEF View
    <3>4. Seen(c) = next
      BY <1>1, <3>3, ViewParts
    <3>5. Abstract!Purge(o)
      BY <1>1, <1>3, <2>5, <3>2, <3>4 DEF Abstract!Purge
    <3> QED
      BY <3>5
  <2> QED
    BY <2>3, <2>4, <2>5
<1>6. CASE b # None
  <2>0. PICK seen : seen = Seen(b)
    OBVIOUS
  <2>1. /\ base = seen /\ seen = View(b.op, b.refs, b.inc, b.deleted) /\ seen # None
        /\ Refs(b) = b.refs /\ Current(o, b) = b
    BY <1>2, <1>3, <1>6, <2>0 DEF Abstract!Base, Refs, Current
  <2>2. /\ seen.refs = b.refs /\ seen.by = b.op /\ seen.deleted = b.deleted /\ seen.inc = b.inc
        /\ swapped = (seen.refs \ Work[o].drops) \cup Work[o].adds
        /\ ~ b.deleted => Abstract!Living(seen)
    BY <1>4, <2>1, ViewParts DEF Abstract!Living
  <2>3. Kind(o) \in {"commit", "record", "expire", "purge", "reset"}
    BY <1>1 DEF Edits, Kinds, Cleanups
  <2>4. /\ Kind(o) # "reset" => c.inc = b.inc
        /\ Kind(o) \notin {"purge", "reset"} => c.deleted = b.deleted /\ ~ b.deleted
    BY <1>6, <2>1, <2>3 DEF Edits, EditAllowed, Bodies, Existing
  <2>5. ASSUME NEW refs, c.refs = refs, Kind(o) \notin {"purge", "reset"}
        PROVE  Seen(c) = [seen EXCEPT !.by = o, !.refs = refs]
    <3>1. PICK next : next = [seen EXCEPT !.by = o, !.refs = refs]
      OBVIOUS
    <3>2. next \in [by : {o}, refs : {refs}, inc : {b.inc}, deleted : {b.deleted}]
      BY <2>1, <3>1 DEF View
    <3>3. Seen(c) = next
      BY <1>1, <2>4, <2>5, <3>2, ViewParts
    <3> QED
      BY <3>1, <3>3
  <2>6. CASE Kind(o) = "commit"
    <3>1. c.refs = swapped
      BY <1>4, <2>6 DEF Edits, Swapped
    <3>2. Seen(c) = [seen EXCEPT !.by = o, !.refs = (@ \ Work[o].drops) \cup Work[o].adds]
      BY <2>2, <2>5, <2>6, <3>1
    <3>3. Abstract!Commit(o)
      BY <1>1, <1>3, <2>0, <2>1, <2>2, <2>4, <2>6, <3>2 DEF Abstract!Commit
    <3> QED
      BY <3>3
  <2>7. CASE Kind(o) = "record"
    <3>1. c.refs = IF Work[o].drops \subseteq seen.refs THEN (seen.refs \ Work[o].drops) \cup Work[o].adds
                   ELSE seen.refs
      BY <2>1, <2>2, <2>7 DEF Edits, Swapped, Placed
    <3>2. Seen(c) = [seen EXCEPT !.by = o,
                       !.refs = IF Work[o].drops \subseteq @ THEN (@ \ Work[o].drops) \cup Work[o].adds ELSE @]
      BY <2>5, <2>7, <3>1
    <3>3. Abstract!Record(o)
      BY <1>1, <2>0, <2>2, <2>4, <2>7, <3>2 DEF Abstract!Record
    <3> QED
      BY <3>3
  <2>8. CASE Kind(o) = "expire"
    <3>1. c.refs \in SUBSET seen.refs
      BY <2>1, <2>2, <2>8 DEF Edits
    <3>2. Seen(c) = [seen EXCEPT !.by = o, !.refs = c.refs]
      BY <2>5, <2>8
    <3>3. Abstract!Expire(o)
      BY <1>1, <2>0, <2>2, <2>4, <2>8, <3>1, <3>2 DEF Abstract!Expire
    <3> QED
      BY <3>3
  <2>9. CASE Kind(o) = "purge"
    <3>1. c.refs = {} /\ c.deleted = TRUE
      BY <2>9 DEF Edits, Bodies
    <3>2. PICK next : next = [base EXCEPT !.by = o, !.refs = {}, !.deleted = TRUE]
      OBVIOUS
    <3>3. next \in [by : {o}, refs : {c.refs}, inc : {c.inc}, deleted : {c.deleted}]
      BY <2>1, <2>4, <2>9, <3>1, <3>2 DEF View
    <3>4. Seen(c) = next
      BY <1>1, <3>3, ViewParts
    <3>5. Abstract!Purge(o)
      BY <1>1, <1>3, <2>9, <3>2, <3>4 DEF Abstract!Purge
    <3> QED
      BY <3>5
  <2>10. CASE Kind(o) = "reset"
    <3>1. c.refs = {} /\ c.deleted = FALSE /\ c.inc = o /\ b.deleted /\ b.op = Work[o].of
      BY <1>6, <2>10 DEF Edits, Bodies, EditAllowed
    <3>2. Abstract!Reset(o)
      BY <1>1, <2>0, <2>1, <2>2, <2>10, <3>1 DEF Abstract!Reset, View
    <3> QED
      BY <3>2
  <2> QED
    BY <2>3, <2>6, <2>7, <2>8, <2>9, <2>10
<1> QED
  BY <1>5, <1>6

\* A body that lands is its operation's one edit, or the folder's first root.
LEMMA StoreRefines ==
  ASSUME IInv, OInv, NEW etag \in Nat, NEW b \in Bodies, Fenced(etag, b), Store(etag, b),
         b.op = Root => b = RootBody, UNCHANGED <<row, acked>>
  PROVE  Abstract!Next
<1>1. /\ manifest.etag = etag /\ manifest'.body = b /\ landed' = landed \cup {Receipt(b)}
      /\ Receipt(b)[1] = b.op /\ manifest.body \in Bodies \cup {None}
  BY DEF Store, Receipt, IInv, TypeOK, Manifests
<1>2. CASE b.op = Root
  <2>1. etag = 0 /\ b = RootBody /\ manifest.body = None
    BY <1>1, <1>2 DEF Fenced, OInv, Versions
  <2>2. Seen(manifest.body) = None /\ Seen(manifest'.body) = Abstract!Empty
    <3>1. Seen(b) = View(b.op, b.refs, b.inc, b.deleted)
      BY <1>1, SeenIs, NamesAssumption
    <3>2. Seen(b) = Abstract!Empty
      BY <2>1, <3>1 DEF RootBody, View, Abstract!Empty
    <3> QED
      BY <1>1, <2>1, <3>2 DEF Seen
  <2>3. {r[1] : r \in landed'} \ {Root} = {r[1] : r \in landed} \ {Root}
    BY <1>1, <1>2
  <2> QED
    BY <2>2, <2>3 DEF Abstract!Next, Abstract!Open
<1>3. CASE b.op \in Ops
  <2>0. PICK o : o = b.op
    OBVIOUS
  <2>1. o \in Ops /\ o # Root /\ row[o].body = b /\ row[o].etag = etag /\ RowOwned(o) /\ b # None
    BY <1>1, <1>3, <2>0, NamesAssumption DEF Fenced, OInv
  <2>2. Edits(o, manifest.body, b)
    BY <1>1, <2>1 DEF RowOwned
  <2>3. Abstract!Commit(o) \/ Abstract!Record(o) \/ Abstract!Expire(o) \/ Abstract!Purge(o) \/ Abstract!Reset(o)
    BY <1>1, <2>1, <2>2, EditRefines
  <2>4. \A r \in landed : r[1] # o
    BY <2>0, StoreStep
  <2>5. {r[1] : r \in landed'} \ {Root} = ({r[1] : r \in landed} \ {Root}) \cup {o}
    BY <1>1, <2>0, <2>1
  <2>6. o \notin {r[1] : r \in landed} \ {Root}
    BY <2>4
  <2> QED
    BY <2>1, <2>3, <2>5, <2>6 DEF Abstract!Next, Abstract!Apply
<1> QED
  BY <1>2, <1>3 DEF Bodies, Authors

\* Whoever is told of a repeated operation is told of one that landed.
LEMMA AnswerRefines ==
  ASSUME IInv', OInv', NEW o \in Ops, acked' = acked \cup {o}, UNCHANGED <<manifest, landed>>
  PROVE  [Abstract!Next]_Abstract!vars
<1>1. CASE Kind(o) \notin Stable
  <2>1. {x \in acked' : Kind(x) \in Stable} = {x \in acked : Kind(x) \in Stable}
    BY <1>1
  <2> QED
    BY <2>1 DEF Abstract!vars
<1>2. CASE Kind(o) \in Stable
  <2>1. row'[o].state = "applied"
    BY <1>2 DEF IInv, AckDurable
  <2>2. PICK receipt \in landed : receipt[1] = o
    BY <1>2, <2>1 DEF OInv, RowOwned
  <2>3. o \in {r[1] : r \in landed} \ {Root}
    BY <2>2, NamesAssumption
  <2>4. {x \in acked' : Kind(x) \in Stable} = {x \in acked : Kind(x) \in Stable} \cup {o}
    BY <1>2
  <2> QED
    BY <2>3, <2>4 DEF Abstract!Next, Abstract!Answer
<1> QED
  BY <1>1, <1>2

\* Every step is an edit, an answer or a stutter of the abstract store.
LEMMA StepRefines ==
  IInv /\ OInv /\ IInv' /\ OInv' /\ [Next]_vars => [Abstract!Next]_Abstract!vars
<1> SUFFICES ASSUME IInv, OInv, IInv', OInv', [Next]_vars PROVE [Abstract!Next]_Abstract!vars
  OBVIOUS
<1>1. CASE UNCHANGED <<manifest, landed, acked>>
  BY <1>1 DEF Abstract!vars
<1>2. ASSUME NEW p \in Procs, PutOk(p) \/ PutRoot(p)
      PROVE  Abstract!Next
  <2>1. ProcessOK(p) /\ row \in [Ops -> Rows]
    BY DEF IInv, TypeOK
  <2>2. CASE PutOk(p)
    <3>1. PICK etag, b : etag = IfMatch(p) /\ b = Content(p)
      OBVIOUS
    <3>2. b # None /\ Store(etag, b) /\ Sending(p) /\ UNCHANGED <<row, acked>>
      BY <2>2, <3>1 DEF PutOk, Request, RowsSame
    <3>3. Fenced(etag, b) /\ etag \in Nat /\ b \in Bodies
      BY <2>1, <3>1, <3>2, RequestFenced, SentTypes DEF IInv
    <3>4. b.op # Root
      <4>1. CASE At(p, "put")
        BY <2>1, <3>1, <4>1, NamesAssumption DEF ProcessOK, Content, At
      <4>2. CASE At(p, "reput")
        <5>1. task[p].work \in Ops /\ b = row[task[p].work].body
          BY <2>1, <3>1, <4>2 DEF ProcessOK, Content, At
        <5> QED
          BY <3>2, <5>1, NamesAssumption DEF IInv, RowsShaped
      <4> QED
        BY <3>2, <4>1, <4>2 DEF Sending, At
    <3> QED
      BY <3>2, <3>3, <3>4, StoreRefines
  <2>3. CASE PutRoot(p)
    <3>1. RootBody \in Bodies /\ Fenced(0, RootBody)
      BY DEF RootBody, Bodies, Authors, Fenced
    <3>2. Store(0, RootBody) /\ UNCHANGED <<row, acked>>
      BY <2>3 DEF PutRoot, RowsSame
    <3> QED
      BY <3>1, <3>2, StoreRefines
  <2> QED
    BY <1>2, <2>2, <2>3
<1>3. ASSUME NEW m \in late, Land(m)
      PROVE  Abstract!Next
  <2>1. m.etag \in Nat /\ m.body \in Bodies /\ Fenced(m.etag, m.body) /\ Store(m.etag, m.body)
    BY <1>3 DEF IInv, TypeOK, Requests, RequestsFenced, Land
  <2>2. m.body.op = Root => m.body = RootBody
    BY DEF OInv, Versions
  <2>3. UNCHANGED <<row, acked>>
    BY <1>3 DEF Land, RowsSame
  <2> QED
    BY <2>1, <2>2, <2>3, StoreRefines
<1>4. ASSUME NEW p \in Procs, Finish(p) \/ Outcome(p) \/ Begin(p) \/ ClaimRetirement(p)
      PROVE  [Abstract!Next]_Abstract!vars
  <2>1. task[p].op \in Ops
    BY <1>4 DEF IInv, ProcessOK, Finish, Outcome, Begin, ClaimRetirement, At
  <2>2. UNCHANGED <<manifest, landed>> /\ (acked' = acked \/ acked' = acked \cup {task[p].op})
    BY <1>4 DEF Finish, Outcome, Begin, ClaimRetirement, Answer, StoreSame
  <2>3. CASE acked' = acked \cup {task[p].op}
    BY <2>1, <2>2, <2>3, AnswerRefines
  <2> QED
    BY <1>1, <2>2, <2>3
<1>5. ASSUME NEW p \in Procs,
             Step(p) /\ ~ (PutOk(p) \/ PutRoot(p) \/ Finish(p) \/ Outcome(p) \/ Begin(p) \/ ClaimRetirement(p))
      PROVE  UNCHANGED <<manifest, landed, acked>>
  BY <1>5 DEF Step, Freeze, CheckOwned, Compare, Settle, FinishAbsent, Read, CheckEdit, CheckCleanup,
              Prepare, PrepareCleanup, PutRefused, CaptureRoot, StoreSame
<1>6. ASSUME NEW p \in Procs, NEW o \in Ops, Start(p, o) \/ RunJob(p, o) \/ StartRetire(p, o)
      PROVE  UNCHANGED <<manifest, landed, acked>>
  BY <1>6 DEF Start, RunJob, StartRetire, StoreSame
<1>7. ASSUME NEW p \in Procs, PutUnknown(p) \/ Crash(p) \/ LoseLock(p)
      PROVE  UNCHANGED <<manifest, landed, acked>>
  BY <1>7 DEF PutUnknown, Crash, LoseLock, StoreSame
<1>8. ASSUME (\E m \in late : Drop(m)) \/ (\E k \in Keys : Expire(k)) \/ UNCHANGED vars
      PROVE  UNCHANGED <<manifest, landed, acked>>
  BY <1>8 DEF Drop, Expire, StoreSame, vars
<1> QED
  BY <1>1, <1>2, <1>3, <1>4, <1>5, <1>6, <1>7, <1>8 DEF Next

\* The journal, with its leases, recoveries and late PUTs, is one object that
\* every operation edits atomically and at most once, at its current content,
\* and no client is told of an operation that did not happen.
THEOREM Refinement == Spec => Linearizable
<1>1. Init => Abstract!Init
  <2> SUFFICES ASSUME Init PROVE Abstract!Init
    OBVIOUS
  <2>1. Seen(manifest.body) \in {None, Abstract!Empty}
    <3>1. RootBody \in Bodies /\ NoManifest.body = None
      BY DEF RootBody, Bodies, Authors, NoManifest
    <3>2. Seen(None) = None /\ Seen(RootBody) = Abstract!Empty
      BY <3>1, SeenIs, NamesAssumption DEF Seen, View, RootBody, Abstract!Empty
    <3> QED
      BY <3>1, <3>2 DEF Init
  <2> QED
    BY <2>1 DEF Init, Abstract!Init
<1> QED
  BY <1>1, StepRefines, Ownership, PTL DEF Spec, Linearizable, Abstract!Spec

(***************************************************************************)
(* An admitted mutation can be completed                                   *)
(***************************************************************************)
\* Of a folder that has a manifest, recovery completes every admitted edit
\* whose staged keys have not expired.
UnexpiredCanFinish ==
  \A o \in Admitted :
    row[o].body.refs \cap expired = {} =>
      /\ LiveIn(row[o].body.refs, row[o].body.inc)
      /\ \/ Matches(o, manifest.body)
         \/ manifest.etag = row[o].etag /\ KnownReceipt(manifest.body)

\* A row whose bytes own their keys passes every check of its recovery.
LEMMA FinishOfOwned ==
  ASSUME IInv, OInv, Seeded
  PROVE  UnexpiredCanFinish
<1> SUFFICES ASSUME NEW o \in Admitted, row[o].body.refs \cap expired = {}
             PROVE  /\ LiveIn(row[o].body.refs, row[o].body.inc)
                    /\ \/ Matches(o, manifest.body)
                       \/ manifest.etag = row[o].etag /\ KnownReceipt(manifest.body)
  BY DEF UnexpiredCanFinish
<1>1. /\ o \in Ops /\ o \in Pending /\ row[o].body # None /\ RowOwned(o) /\ row \in [Ops -> Rows]
      /\ manifest \in Manifests /\ row[o].etag \in Nat /\ manifest.etag \in Nat
  BY DEF Admitted, Pending, OInv, IInv, TypeOK, Manifests, Rows
<1>2. row[o].body.op = o /\ row[o].body.attempt = row[o].attempt
  BY <1>1 DEF IInv, RowsShaped
<1>3. ~ RootWon
  BY DEF RootWon
<1>4. CASE row[o].etag = manifest.etag
  <2>1. LiveIn(row[o].body.refs, row[o].body.inc)
    BY <1>1, <1>4 DEF RowOwned, Owns, LiveIn
  <2>2. KnownReceipt(manifest.body)
    <3> SUFFICES ASSUME manifest.body # None, manifest.body.op # Root
                 PROVE  row[manifest.body.op].state = "applied" /\ row[manifest.body.op].attempt = manifest.body.attempt
      BY DEF KnownReceipt
    <3>1. PICK x : x = manifest.body.op
      OBVIOUS
    <3>2. x \in Ops
      BY <1>1, <3>1 DEF Manifests, Bodies, Authors
    <3>3. /\ row[x].attempt = manifest.body.attempt
          /\ row[x].state = "applied" \/ (row[x].body # None /\ row[x].etag < manifest.etag)
      BY <3>1 DEF IInv, LandedOwned, Receipt
    <3>4. ~ (row[x].body # None /\ row[x].etag < manifest.etag)
      <4> SUFFICES ASSUME row[x].body # None, row[x].etag < manifest.etag PROVE FALSE
        OBVIOUS
      <4>1. x \in Pending
        BY <3>2 DEF IInv, RowsShaped, Pending
      <4>2. x = o
        BY <1>1, <4>1 DEF IInv, OnePending
      <4> QED
        BY <1>1, <1>4, <4>2
    <3> QED
      BY <3>1, <3>3, <3>4
  <2> QED
    BY <1>4, <2>1, <2>2
<1>5. CASE row[o].etag # manifest.etag
  <2>1. manifest.body = row[o].body
    BY <1>1, <1>3, <1>5 DEF RowOwned
  <2>2. Matches(o, manifest.body)
    BY <1>1, <1>2, <2>1 DEF Matches
  <2>3. LiveIn(row[o].body.refs, row[o].body.inc)
    BY <1>1, <2>1 DEF OInv, RefsOwned, LiveIn
  <2> QED
    BY <2>2, <2>3
<1> QED
  BY <1>4, <1>5

\* Recovery of a folder that has a manifest can settle every admitted mutation
\* whose staged keys have not expired (recoverAttemptLocked).
THEOREM UnexpiredFinish ==
  ASSUME Seeded
  PROVE  Spec => []UnexpiredCanFinish
<1>1. IInv /\ OInv => UnexpiredCanFinish
  BY FinishOfOwned
<1> QED
  BY <1>1, Ownership, PTL

\* Recovery of a folder that has a manifest and whose keys never expire can
\* settle every admitted mutation (recoverAttemptLocked); without either, it
\* may be stuck.
THEOREM AdmittedFinish ==
  ASSUME Seeded, Temp = {}
  PROVE  Spec => []AdmittedCanFinish
<1>1. IInv /\ OInv => AdmittedCanFinish
  <2> SUFFICES ASSUME IInv, OInv PROVE AdmittedCanFinish
    OBVIOUS
  <2>1. expired = {} /\ UnexpiredCanFinish
    BY FinishOfOwned DEF OInv
  <2> QED
    BY <2>1 DEF UnexpiredCanFinish, AdmittedCanFinish
<1> QED
  BY <1>1, Ownership, PTL

(***************************************************************************)
(* The quota                                                               *)
(***************************************************************************)
\* Only commits and purges change how many uploads a folder holds: no sweep
\* runs, and the placing worker (place.go) replaces staged uploads by as many
\* blobs of its own, which no other operation adds.
Balanced ==
  \A o \in Ops :
    /\ Kind(o) # "expire"
    /\ Kind(o) = "record" =>
         /\ Cardinality(Work[o].adds) = Cardinality(Work[o].drops)
         /\ \A x \in Ops \ {o} : Kind(x) \in {"commit", "record"} => Work[o].adds \cap Work[x].adds = {}

\* What a row charges is what its bytes would change, and nothing without bytes.
RowCharged(o) ==
  LET r == row[o] IN
  /\ r.body = None /\ ~ Terminal(o) => r.delta = 0 /\ r.charged = 0
  /\ r.body # None /\ r.etag = manifest.etag =>
       r.delta = Cardinality(r.body.refs) - Bytes(manifest.body)

PlanCharged(p) ==
  At(p, "prepare") /\ Owner(p) /\ task[p].cur.etag = manifest.etag =>
    task[p].plan.delta = Cardinality(task[p].plan.body.refs) - Bytes(manifest.body)

\* Whatever the manifest names was added by an operation that landed.
Added ==
  \A k \in Refs(manifest.body) : \E x \in landed :
    x[1] \in Ops /\ Kind(x[1]) \in {"commit", "record"} /\ k \in Work[x[1]].adds

CInv ==
  /\ UsageExact /\ Added
  /\ manifest.body # None /\ manifest.body.deleted => manifest.body.refs = {}
  /\ manifest.body = RootBody => \A x \in landed : x[1] = Root
  /\ \A o \in Ops : RowCharged(o)
  /\ \A p \in Procs : PlanCharged(p)

\* Replacing uploads by as many others keeps their number.
LEMMA SwapCount ==
  ASSUME NEW old \in SUBSET Keys, NEW drops \in SUBSET old, NEW adds \in SUBSET Keys,
         adds \cap old = {}, Cardinality(adds) = Cardinality(drops)
  PROVE  Cardinality((old \ drops) \cup adds) = Cardinality(old)
<1>1. IsFiniteSet(old) /\ IsFiniteSet(drops) /\ IsFiniteSet(adds) /\ IsFiniteSet(old \ drops)
  BY FiniteAssumption, FS_Subset
<1>2. Cardinality(old) \in Nat /\ Cardinality(adds) \in Nat
  BY <1>1, FS_CardinalityType
<1>3. Cardinality(old \ drops) = Cardinality(old) - Cardinality(drops)
  <2>1. old \cap drops = drops
    OBVIOUS
  <2> QED
    BY <1>1, <2>1, FS_Difference
<1>4. Cardinality((old \ drops) \cup adds) = Cardinality(old \ drops) + Cardinality(adds)
  <2>1. PICK rest : rest = old \ drops
    OBVIOUS
  <2>2. rest \cap adds = {} /\ IsFiniteSet(rest)
    BY <1>1, <2>1
  <2>3. Cardinality(rest \cap adds) = 0 /\ Cardinality(rest) \in Nat
    BY <2>2, FS_EmptySet, FS_CardinalityType
  <2>4. Cardinality(rest \cup adds) = Cardinality(rest) + Cardinality(adds) - Cardinality(rest \cap adds)
    BY <1>1, <2>2, FS_Union
  <2>5. Cardinality(rest \cup adds) = Cardinality(rest) + Cardinality(adds)
    BY <1>2, <2>3, <2>4
  <2> QED
    BY <2>1, <2>5
<1> QED
  BY <1>2, <1>3, <1>4

\* The settlement of an edit is what it changes.
LEMMA PlanCount ==
  ASSUME Balanced, NEW o \in Ops, NEW b \in Bodies \cup {None}, row \in [Ops -> Rows], expired \subseteq Keys,
         EditAllowed(o, b), Kind(o) \notin Cleanups \cup {"retire"},
         Kind(o) = "record" => Work[o].adds \cap Refs(b) = {},
         b # None /\ b.deleted => b.refs = {}
  PROVE  EditPlan(o, b).delta = Cardinality(EditPlan(o, b).body.refs) - Bytes(b)
<1>1. /\ EditPlan(o, b).body.refs = EditRefs(o, b) /\ EditPlan(o, b).delta = EditDelta(o, b)
      /\ Bytes(b) = Cardinality(Refs(b)) /\ Refs(b) \in SUBSET Keys
      /\ Work[o].adds \in SUBSET Keys /\ Work[o].drops \in SUBSET Keys /\ Kind(o) \in Kinds
  <2>1. Current(o, b) \in Bodies
    BY DEF Current, RootBody, Bodies, Authors
  <2>2. EditBody(o, b).refs = EditRefs(o, b)
    BY <2>1 DEF EditBody, Bodies
  <2> QED
    BY <2>2, WorkAssumption DEF EditPlan, Bytes, Refs, Bodies, Kind
<1>2. CASE Kind(o) \in {"commit", "purge"}
  BY <1>1, <1>2 DEF EditDelta
<1>3. CASE Kind(o) \notin {"commit", "purge"}
  <2>1. EditDelta(o, b) = 0
    BY <1>3 DEF EditDelta
  <2>2. Kind(o) \in {"record", "reset"}
    BY <1>1, <1>3 DEF Balanced, Kinds, Cleanups
  <2>3. Cardinality(EditRefs(o, b)) = Cardinality(Refs(b))
    <3>1. CASE Kind(o) = "record" /\ Placed(o, b)
      <4>1. EditRefs(o, b) = (Refs(b) \ Work[o].drops) \cup Work[o].adds
        BY <3>1 DEF EditRefs
      <4>2. /\ Work[o].drops \in SUBSET Refs(b) /\ Work[o].adds \cap Refs(b) = {}
            /\ Cardinality(Work[o].adds) = Cardinality(Work[o].drops)
        BY <3>1 DEF Placed, Balanced
      <4> QED
        BY <1>1, <4>1, <4>2, SwapCount
    <3>2. CASE Kind(o) = "record" /\ ~ Placed(o, b)
      BY <3>2 DEF EditRefs
    <3>3. CASE Kind(o) = "reset"
      <4>1. b # None /\ b.deleted
        BY <3>3 DEF EditAllowed, Existing
      <4> QED
        BY <3>3, <4>1 DEF EditRefs, Refs
    <3> QED
      BY <2>2, <3>1, <3>2, <3>3
  <2>4. Cardinality(Refs(b)) \in Nat
    BY <1>1, FiniteAssumption, FS_Subset, FS_CardinalityType
  <2> QED
    BY <1>1, <2>1, <2>3, <2>4
<1> QED
  BY <1>2, <1>3

\* A manifest's uploads can be counted.
LEMMA BytesType ==
  ASSUME NEW b \in Bodies \cup {None}
  PROVE  Bytes(b) \in Nat
<1>1. Refs(b) \in SUBSET Keys
  BY DEF Refs, Bodies
<1> QED
  BY <1>1, FiniteAssumption, FS_Subset, FS_CardinalityType DEF Bytes

\* Steps that change neither storage, rows nor usage.
LEMMA LocalCharged ==
  ASSUME CInv, NEW p, UNCHANGED <<manifest, row, landed, used>>,
         \A q \in Procs \ {p} : pc'[q] = pc[q] /\ task'[q] = task[q],
         p \in Procs => PlanCharged(p)'
  PROVE  CInv'
<1>1. \A q \in Procs : PlanCharged(q)'
  BY DEF CInv, PlanCharged, At, Owner
<1>2. UsageExact'
  BY DEF CInv, UsageExact, Admitted, Pending, Matches
<1> QED
  BY <1>1, <1>2 DEF CInv, Added, RowCharged, Terminal

\* Steps that change one row, and not storage.
LEMMA RowStepCharged ==
  ASSUME IInv, CInv, NEW p \in Procs, NEW o \in Ops, NEW r,
         row' = [row EXCEPT ![o] = r], UNCHANGED <<manifest, landed>>,
         \A q \in Procs \ {p} : pc'[q] = pc[q] /\ task'[q] = task[q],
         pc'[p] # "prepare", r.lease = p \/ r.state # "open",
         RowCharged(o)', UsageExact'
  PROVE  CInv'
<1>1. row'[o] = r /\ \A x \in Ops \ {o} : row'[x] = row[x]
  BY DEF IInv, TypeOK
<1>2. \A x \in Ops : RowCharged(x)'
  BY <1>1 DEF CInv, RowCharged, Terminal
<1>3. ASSUME NEW q \in Procs PROVE PlanCharged(q)'
  <2>1. CASE q = p
    BY <2>1 DEF PlanCharged, At
  <2>2. CASE q # p
    <3>1. PlanCharged(q) /\ pc'[q] = pc[q] /\ task'[q] = task[q]
      BY <2>2 DEF CInv
    <3>2. ASSUME pc[q] = "prepare", Owner(q)' PROVE Owner(q)
      <4>1. task[q].op \in Ops
        BY <3>2 DEF IInv, ProcessOK
      <4> QED
        BY <1>1, <2>2, <3>1, <3>2, <4>1 DEF Owner
    <3> QED
      BY <3>1, <3>2 DEF PlanCharged, At
  <2> QED
    BY <2>1, <2>2
<1> QED
  BY <1>2, <1>3 DEF CInv, Added

\* A row without bytes, and a row that only changes hands, charge nothing new.
LEMMA UsageKept ==
  ASSUME UsageExact, NEW o \in Ops, \A x \in Ops \ {o} : row'[x] = row[x], UNCHANGED <<manifest, used>>,
         \/ row[o].body = None /\ row'[o].body = None
         \/ /\ o \in Pending /\ (o \in Pending)' /\ row'[o].body = row[o].body
            /\ row'[o].attempt = row[o].attempt /\ row'[o].delta = row[o].delta
            /\ row'[o].charged = row[o].charged
  PROVE  UsageExact'
<1>1. Admitted' = Admitted
  BY DEF Admitted, Pending
<1>2. ASSUME NEW x \in Admitted
      PROVE  /\ row'[x].delta = row[x].delta /\ row'[x].charged = row[x].charged
             /\ row'[x].attempt = row[x].attempt
  BY DEF Admitted, Pending
<1> QED
  BY <1>1, <1>2 DEF UsageExact, Matches

\* A body that lands changes the manifest by what its row charges.
LEMMA StoreCharged ==
  ASSUME IInv, OInv, CInv, NEW p, NEW etag \in Nat, NEW b \in Bodies, Fenced(etag, b), Store(etag, b),
         b.op = Root => b = RootBody, UNCHANGED <<row, used>>,
         \A q \in Procs \ {p} : pc'[q] = pc[q] /\ task'[q] = task[q],
         p \in Procs => pc'[p] # "prepare"
  PROVE  CInv'
<1>1. /\ manifest.etag = etag /\ manifest'.etag = etag + 1 /\ manifest'.body = b
      /\ landed' = landed \cup {Receipt(b)} /\ Receipt(b)[1] = b.op /\ b # None
  BY NamesAssumption DEF Store, Receipt
<1>2. /\ row \in [Ops -> Rows] /\ task \in [Procs -> Tasks] /\ manifest \in Manifests /\ used \in Nat
  BY DEF IInv, TypeOK
<1>3. ASSUME NEW q \in Procs PROVE PlanCharged(q)'
  <2>1. CASE q = p
    BY <2>1 DEF PlanCharged, At
  <2>2. CASE q # p
    <3>1. task[q].cur.etag <= manifest.etag /\ task[q].cur.etag \in Nat /\ task'[q] = task[q]
      BY <1>2, <2>2 DEF OInv, Versions, Tasks, Manifests
    <3> QED
      BY <1>1, <3>1 DEF PlanCharged
  <2> QED
    BY <2>1, <2>2
<1>4. ASSUME NEW x \in Ops PROVE RowCharged(x)'
  <2>1. RowOwned(x) /\ RowCharged(x) /\ row[x].etag \in Nat /\ row'[x] = row[x]
    BY <1>2 DEF OInv, CInv, Rows
  <2>2. row[x].body # None => row[x].etag <= manifest.etag
    BY <1>1, <2>1 DEF RowOwned
  <2> QED
    BY <1>1, <2>1, <2>2 DEF RowCharged, Terminal
<1>5. Admitted' = Admitted
  BY DEF Admitted, Pending
<1>6. CASE b.op = Root
  <2>1. etag = 0 /\ b = RootBody /\ manifest.body = None /\ landed = {} /\ b.refs = {}
    BY <1>1, <1>6 DEF Fenced, OInv, IInv, Versions, LandedOwned, RootBody
  <2>2. Bytes(manifest'.body) = Bytes(manifest.body) /\ Refs(manifest'.body) = {}
    BY <1>1, <2>1 DEF Bytes, Refs
  <2>3. \A x \in Admitted : ~ Matches(x, manifest.body) /\ ~ Matches(x, manifest.body)'
    BY <1>1, <1>6, <2>1, NamesAssumption DEF Matches, Admitted, Pending
  <2>4. UsageExact'
    BY <1>5, <2>2, <2>3 DEF CInv, UsageExact
  <2>5. Added'
    BY <2>2 DEF Added
  <2> QED
    BY <1>1, <1>3, <1>4, <1>6, <2>1, <2>4, <2>5 DEF CInv
<1>7. CASE b.op \in Ops
  <2>0. PICK o : o = b.op
    OBVIOUS
  <2>1. /\ o \in Ops /\ row[o].body = b /\ row[o].etag = etag /\ RowOwned(o) /\ RowCharged(o) /\ o # Root
    BY <1>1, <1>7, <2>0, NamesAssumption DEF Fenced, OInv, CInv
  <2>2. o \in Pending /\ o \in Admitted /\ b.attempt = row[o].attempt
    BY <1>1, <2>1 DEF IInv, RowsShaped, Pending, Admitted
  <2>3. \A x \in Admitted : x = o
    BY <2>2 DEF IInv, OnePending, Admitted
  <2>4. \A x \in landed : x[1] # o
    BY <2>0, StoreStep
  <2>5. Edits(o, manifest.body, b)
    BY <1>1, <2>1 DEF RowOwned
  <2>6. ~ Matches(o, manifest.body) /\ Matches(o, manifest.body)'
    <3>1. manifest.body # None => manifest.body.op # o
      BY <2>1, <2>4 DEF IInv, LandedOwned, Receipt
    <3> QED
      BY <1>1, <2>0, <2>2, <3>1 DEF Matches
  <2>7. UsageExact'
    <3>1. row[o].delta = Cardinality(b.refs) - Bytes(manifest.body) /\ Bytes(manifest'.body) = Cardinality(b.refs)
      BY <1>1, <2>1 DEF RowCharged, Bytes, Refs
    <3>2. used = Bytes(manifest.body) + row[o].charged
      <4>1. used = Bytes(manifest.body) + row[o].charged - 0
        BY <2>2, <2>6 DEF CInv, UsageExact
      <4>2. Bytes(manifest.body) \in Nat /\ row[o].charged \in Nat
        BY <1>2, <2>1, BytesType DEF Manifests, Rows
      <4> QED
        BY <4>1, <4>2
    <3>3. Bytes(manifest.body) \in Nat /\ Bytes(manifest'.body) \in Nat /\ row[o].charged \in Nat
      BY <1>1, <1>2, <2>1, BytesType DEF Manifests, Rows
    <3>4. used = Bytes(manifest'.body) + row[o].charged - row[o].delta
      BY <3>1, <3>2, <3>3
    <3>5. ASSUME NEW x \in Admitted'
          PROVE  used' = Bytes(manifest'.body) + row'[x].charged
                           - (IF Matches(x, manifest.body)' THEN row'[x].delta ELSE 0)
      BY <1>5, <2>3, <2>6, <3>4
    <3>6. Admitted' # {}
      BY <1>5, <2>2
    <3> QED
      BY <3>5, <3>6 DEF UsageExact
  <2>8. Kind(o) \notin Cleanups \cup {"retire"} /\ Kind(o) \in Kinds
    BY <2>1, <2>5, WorkAssumption DEF Edits, Kind
  <2>9. b.refs \subseteq Refs(manifest.body) \cup (IF Kind(o) \in {"commit", "record"} THEN Work[o].adds ELSE {})
    BY <2>5, <2>8 DEF Edits, Swapped, Kinds, Cleanups
  <2>10. Added'
    <3> SUFFICES ASSUME NEW k \in Refs(manifest'.body)
                 PROVE  \E x \in landed' : x[1] \in Ops /\ Kind(x[1]) \in {"commit", "record"} /\ k \in Work[x[1]].adds
      BY DEF Added
    <3>1. k \in b.refs
      BY <1>1 DEF Refs
    <3>2. CASE k \in Refs(manifest.body)
      BY <1>1, <3>2 DEF CInv, Added
    <3>3. CASE Kind(o) \in {"commit", "record"} /\ k \in Work[o].adds
      BY <1>1, <2>0, <2>1, <3>3
    <3> QED
      BY <2>9, <3>1, <3>2, <3>3
  <2>11. b.deleted => b.refs = {}
    <3> SUFFICES ASSUME b.deleted, b.refs # {} PROVE FALSE
      OBVIOUS
    <3>1. Kind(o) \in {"commit", "record", "expire"}
      BY <2>5, <2>8 DEF Edits, Kinds, Cleanups
    <3>2. Current(o, manifest.body).deleted
      BY <2>5, <3>1 DEF Edits
    <3>3. EditAllowed(o, manifest.body)
      BY <2>5 DEF Edits
    <3>4. ~ Current(o, manifest.body).deleted
      BY <3>1, <3>3 DEF EditAllowed, Current, RootBody
    <3> QED
      BY <3>2, <3>4
  <2>12. b # RootBody
    BY <2>0, <2>1 DEF RootBody
  <2> QED
    BY <1>1, <1>3, <1>4, <2>7, <2>10, <2>11, <2>12 DEF CInv
<1> QED
  BY <1>6, <1>7 DEF Bodies, Authors

\* The steps that change neither storage, rows nor usage.
LEMMA LocalActionsCharged ==
  ASSUME Balanced, IInv, OInv, CInv, NEW p \in Procs,
         \/ \E o \in Ops : Start(p, o) \/ RunJob(p, o) \/ StartRetire(p, o)
         \/ CheckOwned(p) \/ Compare(p) \/ Settle(p) \/ Outcome(p) \/ Read(p) \/ CheckEdit(p) \/ CheckCleanup(p)
         \/ PutRefused(p) \/ PutUnknown(p) \/ CaptureRoot(p) \/ ClaimRetirement(p) \/ Crash(p)
  PROVE  CInv'
<1>0. PICK t, o : t = task[p] /\ o = task[p].op
  OBVIOUS
<1>1. /\ task \in [Procs -> Tasks] /\ pc \in [Procs -> Labels] /\ ProcessOK(p)
      /\ row \in [Ops -> Rows] /\ t \in Tasks /\ expired \subseteq Keys /\ landed \subseteq Authors \X Nat
  BY <1>0 DEF IInv, TypeOK
<1> USE DEF StoreSame, RowsSame, Goto, Know, Keep, Leave
<1>2. CASE CheckEdit(p)
  <2>0. PICK b, plan : b = t.cur.body /\ plan = EditPlan(o, b)
    OBVIOUS
  <2>1. /\ UNCHANGED <<manifest, row, landed, used>>
        /\ \A q \in Procs \ {p} : pc'[q] = pc[q] /\ task'[q] = task[q]
        /\ pc[p] = "check" /\ Kind(o) \notin Cleanups /\ o \in Ops /\ Kind(o) # "retire"
        /\ pc'[p] = "prepare" => task'[p] = [t EXCEPT !.plan = plan] /\ EditAllowed(o, b)
    BY <1>0, <1>1, <1>2, <2>0 DEF CheckEdit, ProcessOK, At
  <2>2. PlanCharged(p)'
    <3> SUFFICES ASSUME pc'[p] = "prepare", Owner(p)', task'[p].cur.etag = manifest.etag
                 PROVE  task'[p].plan.delta = Cardinality(task'[p].plan.body.refs) - Bytes(manifest.body)
      BY <2>1 DEF PlanCharged, At
    <3>1. task'[p].op = o /\ task'[p].cur = t.cur /\ task'[p].plan = plan
      BY <1>0, <1>1, <2>1 DEF Tasks
    <3>2. row[o].state = "open" /\ b = manifest.body /\ b \in Bodies \cup {None}
      BY <1>0, <1>1, <2>0, <2>1, <3>1 DEF Owner, OInv, Versions, Tasks, Manifests
    <3>3. \A x \in landed : x[1] # o
      BY <2>1, <3>2, NamesAssumption DEF IInv, LandedOwned, RowsShaped
    <3>4. Kind(o) = "record" => Work[o].adds \cap Refs(b) = {}
      <4> SUFFICES ASSUME Kind(o) = "record", NEW k \in Work[o].adds, k \in Refs(manifest.body)
                   PROVE  FALSE
        BY <3>2
      <4>1. PICK x \in landed : x[1] \in Ops /\ Kind(x[1]) \in {"commit", "record"} /\ k \in Work[x[1]].adds
        BY DEF CInv, Added
      <4>2. x[1] # o
        BY <3>3
      <4> QED
        BY <2>1, <4>1, <4>2 DEF Balanced
    <3>5. b # None /\ b.deleted => b.refs = {}
      BY <3>2 DEF CInv
    <3>6. EditAllowed(o, b) /\ Kind(o) \notin Cleanups \cup {"retire"}
      BY <2>1
    <3> QED
      BY <1>1, <2>0, <2>1, <3>1, <3>2, <3>4, <3>5, <3>6, PlanCount
  <2> QED
    BY <2>1, <2>2, LocalCharged
<1>3. CASE ~ CheckEdit(p)
  <2>1. /\ UNCHANGED <<manifest, row, landed, used>>
        /\ \A q \in Procs \ {p} : pc'[q] = pc[q] /\ task'[q] = task[q]
    BY <1>1, <1>3 DEF Start, RunJob, StartRetire, CheckOwned, Compare, Settle, Outcome, Read, CheckCleanup,
                      PutRefused, PutUnknown, CaptureRoot, ClaimRetirement, Crash
  <2>2. pc'[p] # "prepare"
    BY <1>1, <1>3 DEF Start, RunJob, StartRetire, CheckOwned, Compare, Settle, Outcome, Read, CheckCleanup,
                      PutRefused, PutUnknown, CaptureRoot, ClaimRetirement, Crash
  <2> QED
    BY <2>1, <2>2, LocalCharged DEF PlanCharged, At
<1> QED
  BY <1>2, <1>3

\* Opening a row and taking one over charge nothing.
LEMMA OpenCharged ==
  ASSUME IInv, IInv', OInv, CInv, NEW p \in Procs, Freeze(p) \/ Begin(p) \/ PrepareCleanup(p)
  PROVE  CInv'
<1>0. PICK t : t = task[p]
  OBVIOUS
<1>1. /\ task \in [Procs -> Tasks] /\ pc \in [Procs -> Labels] /\ ProcessOK(p) /\ row \in [Ops -> Rows]
      /\ UNCHANGED <<manifest, landed, used>>
  BY <1>0 DEF IInv, TypeOK, Freeze, Begin, PrepareCleanup, StoreSame
<1>2. /\ \A q \in Procs \ {p} : pc'[q] = pc[q] /\ task'[q] = task[q]
      /\ pc'[p] # "prepare"
  BY <1>1 DEF Freeze, Begin, PrepareCleanup, Recovered, Recovery, Leave, Goto, Know, Keep, Acknowledged
<1>3. CASE row' = row
  BY <1>1, <1>2, <1>3, LocalCharged DEF PlanCharged, At
<1>4. ASSUME NEW o \in Ops, NEW r, row' = [row EXCEPT ![o] = r], r.lease = p,
             \/ /\ o \in Pending /\ r.state = "frozen" /\ r.body = row[o].body /\ r.etag = row[o].etag
                /\ r.attempt = row[o].attempt /\ r.delta = row[o].delta /\ r.charged = row[o].charged
             \/ row[o].body = None /\ r.body = None /\ r.delta = 0 /\ r.charged = 0
      PROVE  CInv'
  <2>1. row'[o] = r /\ (\A x \in Ops \ {o} : row'[x] = row[x]) /\ RowCharged(o)
    BY <1>1, <1>4 DEF CInv
  <2>2. RowCharged(o)'
    BY <1>1, <1>4, <2>1 DEF RowCharged, Terminal, Pending
  <2>3. UsageExact'
    <3>1. CASE o \in Pending /\ r.state = "frozen"
      <4>1. (o \in Pending)'
        BY <2>1, <3>1 DEF Pending
      <4> QED
        BY <1>1, <1>4, <2>1, <3>1, <4>1, UsageKept DEF CInv
    <3>2. CASE row[o].body = None /\ r.body = None
      BY <1>1, <2>1, <3>2, UsageKept DEF CInv
    <3> QED
      BY <1>4, <3>1, <3>2
  <2> QED
    BY <1>1, <1>2, <1>4, <2>2, <2>3, RowStepCharged
<1>5. CASE Freeze(p) /\ row' # row
  <2>1. PICK o \in Pending : row' = [row EXCEPT ![o] = [row[o] EXCEPT !.state = "frozen", !.lease = p]]
    BY <1>5 DEF Freeze
  <2>2. PICK r : r = [row[o] EXCEPT !.state = "frozen", !.lease = p]
    OBVIOUS
  <2>3. /\ o \in Ops /\ r.state = "frozen" /\ r.lease = p /\ r.body = row[o].body /\ r.etag = row[o].etag
        /\ r.attempt = row[o].attempt /\ r.delta = row[o].delta /\ r.charged = row[o].charged
    BY <1>1, <2>2 DEF Pending, Rows
  <2> QED
    BY <1>4, <2>1, <2>2, <2>3
<1>6. CASE Begin(p) /\ row' # row
  <2>1. PICK o : o = t.op
    OBVIOUS
  <2>2. PICK r : r = [Unborn EXCEPT !.state = "open", !.lease = p, !.tries = row[o].tries]
    OBVIOUS
  <2>3. row' = [row EXCEPT ![o] = r] /\ o \in Ops /\ Pending = {}
    BY <1>0, <1>1, <1>6, <2>1, <2>2 DEF Begin, ProcessOK, At, Blocked
  <2>4. r.lease = p /\ r.body = None /\ r.delta = 0 /\ r.charged = 0
    BY <2>2 DEF Unborn
  <2>5. row[o].body = None
    BY <2>3 DEF IInv, RowsShaped, Pending
  <2> QED
    BY <1>4, <2>3, <2>4, <2>5
<1>7. CASE PrepareCleanup(p) /\ row' # row
  <2>1. PICK o : o = t.op
    OBVIOUS
  <2>2. PICK r : r = [row[o] EXCEPT !.state = "prepared", !.private = t.plan.private]
    OBVIOUS
  <2>3. row' = [row EXCEPT ![o] = r] /\ o \in Ops /\ row[o].lease = p /\ row[o].state = "open"
    BY <1>0, <1>1, <1>7, <2>1, <2>2 DEF PrepareCleanup, ProcessOK, At, Owner
  <2>4. row[o] \in Rows /\ row[o].body = None /\ RowCharged(o)
    BY <1>1, <2>3 DEF IInv, RowsShaped, CInv
  <2>5. r.lease = p /\ r.body = None /\ r.delta = row[o].delta /\ r.charged = row[o].charged
    BY <2>2, <2>3, <2>4 DEF Rows
  <2>6. row[o].delta = 0 /\ row[o].charged = 0
    BY <2>3, <2>4 DEF RowCharged, Terminal
  <2> QED
    BY <1>4, <2>3, <2>4, <2>5, <2>6
<1> QED
  BY <1>3, <1>5, <1>6, <1>7

\* prepare claims the charge of the bytes it admits.
LEMMA PrepareCharged ==
  ASSUME IInv, IInv', OInv, CInv, NEW p \in Procs, Prepare(p)
  PROVE  CInv'
<1>0. PICK t, o, plan : t = task[p] /\ o = t.op /\ plan = t.plan
  OBVIOUS
<1>1. /\ task \in [Procs -> Tasks] /\ pc \in [Procs -> Labels] /\ ProcessOK(p)
      /\ row \in [Ops -> Rows] /\ pc[p] = "prepare" /\ t \in Tasks /\ o \in Ops
      /\ PlanCharged(p) /\ plan.body # None /\ used \in Nat /\ manifest \in Manifests
  BY <1>0 DEF IInv, TypeOK, Prepare, ProcessOK, At, CInv
<1>2. UNCHANGED <<manifest, landed, task>>
  BY DEF Prepare, StoreSame, Keep
<1>3. (\A q \in Procs \ {p} : pc'[q] = pc[q] /\ task'[q] = task[q]) /\ pc'[p] # "prepare"
  BY <1>1, <1>2 DEF Prepare, Acknowledged, Goto
<1>4. CASE row' = row /\ used' = used
  BY <1>2, <1>3, <1>4, LocalCharged DEF PlanCharged, At
<1>5. ASSUME NEW r, NEW charge, charge = AtLeastZero(plan.delta), Owner(p), row' = [row EXCEPT ![o] = r],
             used' = used + charge,
             r = [row[o] EXCEPT !.state = "prepared", !.attempt = plan.body.attempt,
                                !.tries = plan.body.attempt, !.etag = t.cur.etag,
                                !.body = plan.body, !.delta = plan.delta,
                                !.charged = charge, !.private = plan.private]
      PROVE  CInv'
  <2>1. row[o] \in Rows /\ row[o].lease = p /\ row[o].state = "open" /\ row[o].body = None /\ o \in Pending
    BY <1>0, <1>1, <1>5 DEF Owner, IInv, RowsShaped, Pending
  <2>2. /\ r.state = "prepared" /\ r.lease = p /\ r.body = plan.body /\ r.etag = t.cur.etag
        /\ r.delta = plan.delta /\ r.charged = charge
        /\ row'[o] = r /\ \A x \in Ops \ {o} : row'[x] = row[x]
    BY <1>1, <1>5, <2>1 DEF Rows
  <2>3. RowCharged(o)'
    BY <1>0, <1>1, <1>2, <1>5, <2>2 DEF PlanCharged, RowCharged, At
  <2>4. Admitted = {} /\ Admitted' = {o}
    BY <1>1, <2>1, <2>2 DEF IInv, OnePending, Admitted, Pending
  <2>5. ~ Matches(o, manifest.body)'
    <3>1. \A x \in landed : x[1] # o
      BY <1>1, <2>1, NamesAssumption DEF IInv, LandedOwned
    <3>2. manifest.body # None => manifest.body.op # o
      BY <1>1, <3>1, NamesAssumption DEF IInv, LandedOwned, Receipt
    <3> QED
      BY <1>2, <3>2 DEF Matches
  <2>6. UsageExact'
    <3>1. used = Bytes(manifest.body) /\ Bytes(manifest.body) \in Nat
      BY <1>1, <2>4, BytesType DEF CInv, UsageExact, Manifests
    <3>2. charge \in Nat
      BY <1>0, <1>1, <1>5 DEF AtLeastZero, Tasks, Plans
    <3>3. used' = Bytes(manifest'.body) + row'[o].charged - 0
      <4>1. row'[o].charged = charge /\ Bytes(manifest'.body) = Bytes(manifest.body)
        BY <1>2, <2>2
      <4> QED
        BY <1>5, <3>1, <3>2, <4>1
    <3> QED
      BY <2>4, <2>5, <3>3 DEF UsageExact
  <2> QED
    BY <1>1, <1>2, <1>3, <1>5, <2>2, <2>3, <2>6, RowStepCharged
<1> QED
  BY <1>0, <1>4, <1>5 DEF Prepare

\* finish settles the charge of what landed.
LEMMA FinishCharged ==
  ASSUME IInv, IInv', OInv, CInv, NEW p \in Procs, Finish(p) \/ FinishAbsent(p)
  PROVE  CInv'
<1>0. PICK t, o : t = task[p] /\ o = t.work
  OBVIOUS
<1>1. /\ task \in [Procs -> Tasks] /\ pc \in [Procs -> Labels] /\ ProcessOK(p)
      /\ row \in [Ops -> Rows] /\ pc[p] \in {"finish", "absent"} /\ o \in Ops
      /\ used \in Nat /\ manifest \in Manifests
  BY <1>0 DEF IInv, TypeOK, Finish, FinishAbsent, ProcessOK, At
<1>2. UNCHANGED <<manifest, landed>>
  BY DEF Finish, FinishAbsent, StoreSame
<1>3. (\A q \in Procs \ {p} : pc'[q] = pc[q] /\ task'[q] = task[q]) /\ pc'[p] # "prepare"
  BY <1>1 DEF Finish, FinishAbsent, Answer, Recovered, Leave, Goto, Know, Keep
<1>4. CASE row' = row /\ used' = used
  BY <1>2, <1>3, <1>4, LocalCharged DEF PlanCharged, At
<1>5. ASSUME NEW applied \in BOOLEAN, Holds(p, o), FinishRow(o, applied),
             applied => At(p, "finish"), ~ applied => At(p, "absent") /\ row[o].state # "prepared"
      PROVE  CInv'
  <2>0. PICK r : r = [row[o] EXCEPT !.state = IF applied THEN "applied" ELSE "absent", !.body = None]
    OBVIOUS
  <2>1. row[o] \in Rows /\ row[o].state \notin {"applied", "absent"} /\ RowCharged(o) /\ RowOwned(o)
    BY <1>1, <1>5 DEF Holds, Terminal, CInv, OInv
  <2>2. /\ row' = [row EXCEPT ![o] = r] /\ row'[o] = r /\ r.body = None /\ r.state \in {"applied", "absent"}
        /\ \A x \in Ops \ {o} : row'[x] = row[x]
    BY <1>1, <1>5, <2>0, <2>1 DEF FinishRow, Rows
  <2>3. RowCharged(o)'
    BY <2>2 DEF RowCharged, Terminal
  <2>4. UsageExact'
    <3>1. CASE row[o].body = None
      <4>1. row[o].delta = 0 /\ row[o].charged = 0
        BY <2>1, <3>1 DEF RowCharged, Terminal
      <4>2. used' = used
        BY <1>1, <1>5, <4>1 DEF FinishRow, Settled, AtLeastZero
      <4> QED
        BY <1>1, <1>2, <2>2, <3>1, <4>2, UsageKept DEF CInv
    <3>2. CASE row[o].body # None
      <4>1. applied /\ <<o, row[o].attempt>> \in landed
        <5>1. At(p, "absent") => row[o].state = "prepared"
          BY <1>0, <1>1, <1>5, <3>2 DEF ProcessOK
        <5>2. applied /\ pc[p] = "finish"
          BY <1>5, <5>1 DEF At
        <5> QED
          BY <1>0, <1>1, <1>5, <3>2, <5>2 DEF ProcessOK
      <4>2. row[o].etag < manifest.etag /\ o # Root /\ row[o].etag \in Nat /\ manifest.etag \in Nat
        BY <1>1, <2>1, <4>1, NamesAssumption DEF IInv, LandedOwned, Rows, Manifests
      <4>3. ~ RootWon
        BY <4>1, <4>2 DEF CInv, RootWon
      <4>4. manifest.body = row[o].body
        BY <2>1, <3>2, <4>2, <4>3 DEF RowOwned
      <4>5. o \in Admitted /\ Matches(o, manifest.body)
        BY <1>1, <3>2, <4>4 DEF IInv, RowsShaped, Admitted, Pending, Matches
      <4>6. used = Bytes(manifest.body) + row[o].charged - row[o].delta
        BY <4>5 DEF CInv, UsageExact
      <4>7. used' = Bytes(manifest.body)
        <5>1. /\ Bytes(manifest.body) \in Nat /\ row[o].charged \in Nat /\ row[o].delta \in Int
              /\ used' = AtLeastZero(used + row[o].delta - row[o].charged)
          BY <1>1, <1>5, <2>1, <4>1, BytesType DEF Manifests, Rows, FinishRow, Settled
        <5>2. used + row[o].delta - row[o].charged = Bytes(manifest.body)
          BY <4>6, <5>1
        <5> QED
          BY <5>1, <5>2 DEF AtLeastZero
      <4>8. Admitted' = {}
        BY <1>1, <2>2, <4>5 DEF IInv, OnePending, Admitted, Pending
      <4> QED
        BY <1>2, <4>7, <4>8 DEF UsageExact
    <3> QED
      BY <3>1, <3>2
  <2> QED
    BY <1>1, <1>2, <1>3, <2>2, <2>3, <2>4, RowStepCharged
<1>6. \/ row' = row /\ used' = used
      \/ \E applied \in BOOLEAN :
           /\ Holds(p, o) /\ FinishRow(o, applied)
           /\ applied => At(p, "finish")
           /\ ~ applied => At(p, "absent") /\ row[o].state # "prepared"
  <2>1. CASE Finish(p)
    <3>1. \/ row' = row /\ used' = used
          \/ Holds(p, o) /\ FinishRow(o, TRUE) /\ At(p, "finish")
      BY <1>0, <2>1 DEF Finish, Holds
    <3> QED
      BY <3>1
  <2>2. CASE FinishAbsent(p)
    <3>1. \/ row' = row /\ used' = used
          \/ Holds(p, o) /\ FinishRow(o, FALSE) /\ At(p, "absent") /\ row[o].state # "prepared"
      BY <1>0, <2>2 DEF FinishAbsent, MayAbandon, Holds
    <3> QED
      BY <3>1
  <2> QED
    BY <2>1, <2>2
<1> QED
  BY <1>4, <1>5, <1>6

\* A folder starts without uploads and without charges.
LEMMA InitCInv == Init => CInv
<1> SUFFICES ASSUME Init PROVE CInv
  OBVIOUS
<1>1. manifest.body \in {None, RootBody} /\ RootBody.refs = {} /\ row = [o \in Ops |-> Unborn]
  BY DEF Init, NoManifest, RootBody
<1>2. /\ Unborn.body = None /\ Unborn.delta = 0 /\ Unborn.charged = 0 /\ Unborn.state = "none"
  BY DEF Unborn
<1>3. Refs(manifest.body) = {} /\ Bytes(manifest.body) = 0
  <2>1. Refs(manifest.body) = {}
    BY <1>1 DEF Refs
  <2> QED
    BY <2>1, FS_EmptySet DEF Bytes
<1>4. Admitted = {}
  BY <1>1, <1>2 DEF Admitted, Pending
<1>5. UsageExact /\ Added
  BY <1>3, <1>4 DEF Init, UsageExact, Added
<1>6. \A o \in Ops : RowCharged(o)
  BY <1>1, <1>2 DEF RowCharged
<1>7. \A p \in Procs : PlanCharged(p)
  BY DEF Init, PlanCharged, At
<1>8. manifest.body # None => manifest.body.refs = {}
  BY <1>1
<1> QED
  BY <1>5, <1>6, <1>7, <1>8 DEF Init, CInv

\* The charges are kept by every step of a balanced workload.
LEMMA CInductive ==
  Balanced /\ IInv /\ IInv' /\ OInv /\ CInv /\ [Next]_vars => CInv'
<1> SUFFICES ASSUME Balanced, IInv, IInv', OInv, CInv, [Next]_vars PROVE CInv'
  OBVIOUS
<1>1. ASSUME NEW p \in Procs, PutOk(p) \/ PutRoot(p)
      PROVE  CInv'
  <2>1. ProcessOK(p) /\ row \in [Ops -> Rows] /\ task \in [Procs -> Tasks] /\ pc \in [Procs -> Labels]
    BY DEF IInv, TypeOK
  <2>2. /\ UNCHANGED <<row, used>> /\ \A q \in Procs \ {p} : pc'[q] = pc[q] /\ task'[q] = task[q]
        /\ pc'[p] # "prepare"
    BY <1>1, <2>1 DEF PutOk, PutRoot, RowsSame, Goto, Keep, Know
  <2>3. CASE PutOk(p)
    <3>1. PICK etag, b : etag = IfMatch(p) /\ b = Content(p)
      OBVIOUS
    <3>2. b # None /\ Store(etag, b) /\ Sending(p)
      BY <2>3, <3>1 DEF PutOk, Request
    <3>3. Fenced(etag, b) /\ etag \in Nat /\ b \in Bodies
      BY <2>1, <3>1, <3>2, RequestFenced, SentTypes DEF IInv
    <3>4. b.op # Root
      <4>1. CASE At(p, "put")
        BY <2>1, <3>1, <4>1, NamesAssumption DEF ProcessOK, Content, At
      <4>2. CASE At(p, "reput")
        <5>1. task[p].work \in Ops /\ b = row[task[p].work].body
          BY <2>1, <3>1, <4>2 DEF ProcessOK, Content, At
        <5> QED
          BY <3>2, <5>1, NamesAssumption DEF IInv, RowsShaped
      <4> QED
        BY <3>2, <4>1, <4>2 DEF Sending, At
    <3> QED
      BY <2>2, <3>2, <3>3, <3>4, StoreCharged
  <2>4. CASE PutRoot(p)
    <3>1. RootBody \in Bodies /\ Fenced(0, RootBody) /\ Store(0, RootBody)
      BY <2>4 DEF RootBody, Bodies, Authors, Fenced, PutRoot
    <3> QED
      BY <2>2, <3>1, StoreCharged
  <2> QED
    BY <1>1, <2>3, <2>4
<1>2. ASSUME NEW p \in Procs, Step(p)
      PROVE  CInv'
  BY <1>1, <1>2, LocalActionsCharged, OpenCharged, PrepareCharged, FinishCharged DEF Step
<1>3. ASSUME NEW p \in Procs,
             PutUnknown(p) \/ Crash(p) \/ \E o \in Ops : Start(p, o) \/ RunJob(p, o) \/ StartRetire(p, o)
      PROVE  CInv'
  BY <1>3, LocalActionsCharged
<1> DEFINE nobody == CHOOSE p : p \notin Procs
<1>4. nobody \notin Procs
  BY NoSetContainsEverything
<1> HIDE DEF nobody
<1>5. ASSUME NEW m \in late, Land(m)
      PROVE  CInv'
  <2>1. m.etag \in Nat /\ m.body \in Bodies /\ Fenced(m.etag, m.body) /\ Store(m.etag, m.body)
    BY <1>5 DEF IInv, TypeOK, Requests, RequestsFenced, Land
  <2>2. m.body.op = Root => m.body = RootBody
    BY DEF OInv, Versions
  <2>3. UNCHANGED <<row, used, pc, task>>
    BY <1>5 DEF Land, RowsSame
  <2> QED
    BY <1>4, <2>1, <2>2, <2>3, StoreCharged
<1>6. CASE UNCHANGED vars \/ (\E m \in late : Drop(m)) \/ (\E k \in Keys : Expire(k)) \/ \E p \in Procs : LoseLock(p)
  <2>1. UNCHANGED <<manifest, row, landed, used, pc, task>>
    BY <1>6 DEF Drop, Expire, LoseLock, vars, StoreSame, RowsSame
  <2> QED
    BY <1>4, <2>1, LocalCharged
<1> QED
  BY <1>2, <1>3, <1>5, <1>6 DEF Next

\* The three invariants hold in every state.
LEMMA Charges ==
  ASSUME Balanced
  PROVE  Spec => [](IInv /\ OInv /\ CInv)
<1>1. Init => IInv /\ OInv /\ CInv
  BY InitIInv, InitOInv, InitCInv
<1>2. (IInv /\ OInv /\ CInv) /\ [Next]_vars => (IInv /\ OInv /\ CInv)'
  BY Inductive, OInductive, CInductive
<1> QED
  BY <1>1, <1>2, PTL DEF Spec

\* Where no sweep runs and the worker places uploads one for one, the owner
\* is charged exactly what the manifest holds, but for what the one admitted
\* mutation claimed in advance (prepare, finish): through retries, crashes,
\* recoveries and PUTs that land late.
THEOREM ExactUsage ==
  ASSUME Balanced
  PROVE  Spec => []UsageExact
<1>1. IInv /\ OInv /\ CInv => UsageExact
  BY DEF CInv
<1> QED
  BY <1>1, Charges, PTL

\* In such a folder a settled tombstone charges nothing (purge, finish).
THEOREM ReleasedByDeletion ==
  ASSUME Balanced
  PROVE  Spec => []DeletionReleases
<1>1. IInv /\ OInv /\ CInv => DeletionReleases
  <2> SUFFICES ASSUME CInv, Pending = {}, manifest.body # None, manifest.body.deleted PROVE used = 0
    BY DEF DeletionReleases
  <2>1. Admitted = {} /\ Refs(manifest.body) = {}
    BY DEF CInv, Admitted, Refs
  <2>2. Bytes(manifest.body) = 0
    BY <2>1, FS_EmptySet DEF Bytes
  <2> QED
    BY <2>1, <2>2 DEF CInv, UsageExact
<1> QED
  BY <1>1, Charges, PTL

=============================================================================
