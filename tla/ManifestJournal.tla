--------------------------- MODULE ManifestJournal ---------------------------
(***************************************************************************)
(* The commit journal of one media folder (src/internal/mediastore).       *)
(*                                                                         *)
(* A folder's manifest is one S3 object, replaced by conditional PUTs.     *)
(* Every mutation owns a row of content_media_commits that goes            *)
(*                                                                         *)
(*      open -> prepared -> (frozen) -> applied | absent                   *)
(*                                                                         *)
(* The row of a manifest edit is prepared, with the exact bytes it will    *)
(* write, its quota charge and its ingest job, in one database transaction *)
(* before the PUT is sent.  Whoever next takes the folder's lock freezes   *)
(* an unfinished row and completes it.  The lock is an advisory lock of a  *)
(* database session that can end while its holder still runs, a request    *)
(* can stop between any two steps, and a PUT whose response was lost can   *)
(* land later; the journal has to be right in all of these cases.          *)
(*                                                                         *)
(* One process is one goroutine: an HTTP request, an ingest job, a sweep.  *)
(* Each step below is one transaction or one storage request, so the steps *)
(* of processes interleave where the code's calls do.                      *)
(***************************************************************************)
EXTENDS Integers, FiniteSets

CONSTANTS
  Procs,       \* goroutines that work on the folder
  Ops,         \* operation identities: client operation IDs or fresh UUIDs
  Keys,        \* physical allocations (object keys) of the folder
  Temp,        \* the keys under temp/, which expire seven days after creation
  Work,        \* what each operation does: [kind, adds, drops, of]
  Quota,       \* the owner's quota, in units of one upload
  Seeded,      \* whether the folder starts with its empty root manifest
  Owned,       \* the keys allocated at the start (only in a seeded folder)
  MaxFaults,   \* bound on crashes, lost locks and lost responses together
  None,        \* no operation, no process, no body
  Root         \* the author and incarnation of an empty root manifest

Kinds == {"commit", "record", "expire", "alloc", "drop", "purge", "reset", "retire"}

Authors == Ops \cup {Root}

\* A receipt names an operation and one attempt of it; a root carries none.
\* The random identities of an operation's attempts are numbered.
Bodies == [op : Authors, attempt : Nat, refs : SUBSET Keys,
           inc : Authors, deleted : BOOLEAN]
\* What a client can observe of a body.
Views == [by : Authors, refs : SUBSET Keys, inc : Authors, deleted : BOOLEAN]

ASSUME WorkAssumption ==
  Work \in [Ops -> [kind : Kinds, adds : SUBSET Keys, drops : SUBSET Keys,
                    of : Ops \cup {None}]]
ASSUME NamesAssumption ==
  None \notin Ops \cup Procs \cup {Root} \cup Bodies \cup Views /\ Root \notin Ops
ASSUME BoundsAssumption ==
  Quota \in Nat /\ MaxFaults \in Nat
ASSUME FolderAssumption ==
  Temp \subseteq Keys /\ Owned \subseteq Keys /\ Seeded \in BOOLEAN
ASSUME FiniteAssumption == IsFiniteSet(Keys) /\ IsFiniteSet(Ops)

VARIABLES
  manifest,  \* the S3 object: its ETag (0: no object) and its body
  late,      \* PUTs whose sender gave up; they may still land
  row,       \* content_media_commits, by operation
  alloc,     \* content_media_allocations, by key
  expired,   \* temporary keys past their seven days
  used,      \* content_media_usage.used_bytes
  jobs,      \* queued ingest jobs, by the commit they own
  retired,   \* incarnations with a committed folder_delete intent
  lock,      \* the holder of the folder's advisory lock
  pc,        \* where each process is
  task,      \* what each process knows
  acked,     \* operations some caller was told are done (history)
  landed,    \* receipts of the bodies that reached S3 (history)
  faults     \* faults so far

vars == <<manifest, late, row, alloc, expired, used, jobs, retired, lock, pc,
          task, acked, landed, faults>>

(***************************************************************************)
(* Data                                                                    *)
(***************************************************************************)
Kind(o) == Work[o].kind
Cleanups == {"alloc", "drop"}          \* cleanup(): retire or allocate keys, no PUT
Existing == {"record", "expire", "reset"} \* EditExisting: the manifest must exist
Stable == {"commit", "purge", "reset"} \* the caller repeats the same identity

Pending == {o \in Ops : row[o].state \in {"open", "prepared", "frozen"}}
Terminal(o) == row[o].state \in {"applied", "absent"}

RootBody == [op |-> Root, attempt |-> 0, refs |-> {}, inc |-> Root, deleted |-> FALSE]
NoManifest == [etag |-> 0, body |-> None]
Refs(b) == IF b = None THEN {} ELSE b.refs

\* Every upload counts one unit (uploadBytes sums the sizes of the uploads).
Bytes(b) == Cardinality(Refs(b))

Unborn == [state |-> "none", lease |-> None, attempt |-> 0, tries |-> 0, etag |-> 0,
           body |-> None, delta |-> 0, charged |-> 0, private |-> {}]
NoPlan == [body |-> None, delta |-> 0, private |-> {}]
Idle == [mode |-> "none", op |-> None, work |-> None, cur |-> NoManifest, plan |-> NoPlan]

Receipt(b) == <<b.op, b.attempt>>
Matches(o, b) == b # None /\ b.op = o /\ b.attempt = row[o].attempt

\* The receipt in the manifest is one this journal knows and has settled.
KnownReceipt(b) ==
  (b # None /\ b.op # Root) =>
    (row[b.op].state = "applied" /\ row[b.op].attempt = b.attempt)

\* Every key is a live allocation of this incarnation.
LiveOrRetiredIn(keys, inc) == \A k \in keys : alloc[k].inc = inc
LiveIn(keys, inc) ==
  \A k \in keys : alloc[k] = [state |-> "live", inc |-> inc] /\ k \notin expired

Unallocated == [state |-> "none", inc |-> None]
RetireKeys(keys) ==
  [k \in Keys |-> IF k \in keys /\ alloc[k].state = "live"
                    THEN [alloc[k] EXCEPT !.state = "retired"] ELSE alloc[k]]

(***************************************************************************)
(* What an edit makes of the manifest it read.  A fresh manifest is given  *)
(* the operation's own new incarnation.                                    *)
(***************************************************************************)
Current(o, b) ==
  IF b = None THEN [RootBody EXCEPT !.op = o, !.inc = o] ELSE b

Placed(o, b) == Work[o].drops \subseteq Refs(b)

EditRefs(o, b) ==
  CASE Kind(o) = "commit" -> (Refs(b) \ Work[o].drops) \cup Work[o].adds
    [] Kind(o) = "record" -> IF Placed(o, b) THEN (Refs(b) \ Work[o].drops) \cup Work[o].adds
                                             ELSE Refs(b)
    [] Kind(o) = "expire" -> Refs(b) \ expired
    [] OTHER -> {}

EditBody(o, b) ==
  [Current(o, b) EXCEPT !.op = o, !.attempt = row[o].tries + 1, !.refs = EditRefs(o, b),
                        !.inc = IF Kind(o) = "reset" THEN o ELSE @,
                        !.deleted = IF Kind(o) = "purge" THEN TRUE
                                    ELSE IF Kind(o) = "reset" THEN FALSE ELSE @]

\* The keys the edit stops owning; a purge takes every allocation of the folder.
EditPrivate(o, b) ==
  CASE Kind(o) = "purge" -> {k \in Keys : alloc[k].state # "none"}
    [] Kind(o) = "record" /\ ~ Placed(o, b) -> Work[o].adds \ Refs(b)
    [] OTHER -> Refs(b) \ EditRefs(o, b)

\* Only commits and purges carry a settlement.
CommitDelta(o, b) == IF Kind(o) = "commit" THEN Cardinality(EditRefs(o, b)) - Bytes(b) ELSE 0
EditDelta(o, b) ==
  IF Kind(o) \in {"commit", "purge"} THEN Cardinality(EditRefs(o, b)) - Bytes(b) ELSE 0

EditPlan(o, b) ==
  [body |-> EditBody(o, b), delta |-> EditDelta(o, b), private |-> EditPrivate(o, b)]

\* A commit always carries processing and a purge its cleanup; others may change nothing.
Unchanged(o, b) ==
  /\ b # None /\ Kind(o) \in {"record", "expire"}
  /\ EditRefs(o, b) = b.refs /\ EditPrivate(o, b) = {}

ResetsAnything(o, b) ==
  IF b = None THEN Kind(o) \notin Existing
  ELSE Kind(o) \in {"purge", "reset"} \/ ~ b.deleted
EditAllowed(o, b) ==
  IF b = None THEN Kind(o) \notin Existing
  ELSE CASE Kind(o) = "reset" -> b.deleted /\ b.op = Work[o].of
         [] Kind(o) = "purge" -> TRUE
         [] OTHER -> ~ b.deleted

(***************************************************************************)
(* Process control                                                         *)
(***************************************************************************)
At(p, label) == pc[p] = label
Goto(p, label) == pc' = [pc EXCEPT ![p] = label]
Know(p, what) == task' = [task EXCEPT ![p] = what]
Keep(p) == task' = task

\* The call returns: it forgets everything and unlocks what it still holds.
Leave(p) ==
  /\ Goto(p, "idle")
  /\ Know(p, Idle)
  /\ lock' = IF lock = p THEN None ELSE lock

Stay == UNCHANGED lock
StoreSame == UNCHANGED <<manifest, late, landed>>
RowsSame == UNCHANGED <<row, used, jobs>>
KeysSame == UNCHANGED <<alloc, expired, retired>>
EnvSame == UNCHANGED faults

Fault == faults < MaxFaults /\ faults' = faults + 1

\* A caller takes the folder's lock and starts an operation, possibly one it
\* or another process already tried.  The placing worker and the producer that
\* drops keys have allocated them.
Start(p, o) ==
  /\ At(p, "idle") /\ lock = None
  /\ Kind(o) # "retire"
  /\ Kind(o) \in Stable \/ row[o].state = "none"
  /\ Kind(o) = "expire" => \E k \in expired : alloc[k].state = "live"
  /\ Kind(o) = "record" => \A k \in Work[o].adds : alloc[k].state # "none"
  /\ Kind(o) = "drop" => \A k \in Work[o].drops : alloc[k].state # "none"
  /\ lock' = p
  /\ Goto(p, "freeze")
  /\ Know(p, [Idle EXCEPT !.mode = "edit", !.op = o])
  /\ StoreSame /\ RowsSame /\ KeysSame /\ EnvSame /\ UNCHANGED acked

\* An ingest job runs CompleteCommit for the commit it owns.
RunJob(p, o) ==
  /\ At(p, "idle") /\ lock = None /\ o \in jobs
  /\ lock' = p
  /\ Goto(p, "freeze")
  /\ Know(p, [Idle EXCEPT !.mode = "job", !.op = o])
  /\ StoreSame /\ RowsSame /\ KeysSame /\ EnvSame /\ UNCHANGED acked

(***************************************************************************)
(* Recovery: recoverAttemptLocked and finishCommit                         *)
(***************************************************************************)
\* Where a recovery that has nothing left to settle continues.
Recovered(p) ==
  Goto(p, IF task[p].mode = "edit" THEN "begin" ELSE "outcome")

\* Bytes were admitted: only S3 knows.  None were: nothing was ever sent.
RecoveryForgets(o) == IF Kind(o) \in Cleanups THEN "settle" ELSE "absent"
Recovery(o) == IF Kind(o) \in Cleanups THEN "settle"
               ELSE IF row[o].body = None THEN "absent" ELSE "own"

\* freeze: take over the folder's unfinished row, or only the named one.
Freeze(p) ==
  /\ At(p, "freeze")
  /\ LET found == {o \in Pending : task[p].mode = "edit" \/ o = task[p].op} IN
     \/ found = {} /\ Recovered(p) /\ Keep(p) /\ UNCHANGED row
     \/ \E o \in found :
          /\ row' = [row EXCEPT ![o] = [@ EXCEPT !.state = "frozen", !.lease = p]]
          /\ Know(p, [task[p] EXCEPT !.work = o])
          /\ Goto(p, Recovery(o))
  /\ Stay /\ StoreSame /\ KeysSame /\ EnvSame /\ UNCHANGED <<used, jobs, acked>>

\* Admission preserves the intended bytes, not ownership of their keys.
CheckOwned(p) ==
  /\ At(p, "own")
  /\ LET b == row[task[p].work].body IN
     \/ b # None /\ LiveIn(b.refs, b.inc) /\ Goto(p, "compare") /\ Keep(p) /\ Stay
     \/ ~ (b # None /\ LiveIn(b.refs, b.inc)) /\ Leave(p)
  /\ StoreSame /\ RowsSame /\ KeysSame /\ EnvSame /\ UNCHANGED acked

\* Read the manifest: the PUT landed, or it still may, or it never can.
Compare(p) ==
  /\ At(p, "compare")
  /\ LET o == task[p].work
         writable == manifest.etag = row[o].etag /\ KnownReceipt(manifest.body) IN
     \/ Matches(o, manifest.body) /\ Goto(p, "settle") /\ Keep(p) /\ Stay
     \/ ~ Matches(o, manifest.body) /\ writable /\ Goto(p, "reput") /\ Keep(p) /\ Stay
     \/ ~ Matches(o, manifest.body) /\ ~ writable /\ Leave(p)
  /\ StoreSame /\ RowsSame /\ KeysSame /\ EnvSame /\ UNCHANGED acked

\* finishCommit retires the exact keys the edit dropped, under no lease.
Settle(p) ==
  /\ At(p, "settle")
  /\ alloc' = RetireKeys(row[task[p].work].private)
  /\ Goto(p, "finish") /\ Keep(p) /\ Stay
  /\ StoreSame /\ RowsSame /\ EnvSame /\ UNCHANGED <<expired, retired, acked>>

Unclamped(n) == n
AtLeastZero(n) == IF n < 0 THEN 0 ELSE n

\* Usage after settlement: the charge was claimed in advance by prepare.
SettledTwice(o, applied) == AtLeastZero(used + (IF applied THEN row[o].delta ELSE 0))
Settled(o, applied) ==
  AtLeastZero(used + (IF applied THEN row[o].delta ELSE 0) - row[o].charged)

\* The transaction of finish(applied) once the row is owned and unfinished.
FinishRow(o, applied) ==
  /\ row' = [row EXCEPT ![o] = [@ EXCEPT !.state = IF applied THEN "applied" ELSE "absent",
                                         !.body = None]]
  /\ used' = Settled(o, applied)

\* What a caller does after its operation is settled.
Answer(p) ==
  IF task[p].mode = "own"
    THEN Leave(p) /\ acked' = acked \cup {task[p].op}
    ELSE Recovered(p) /\ Keep(p) /\ Stay /\ UNCHANGED acked

Finish(p) ==
  /\ At(p, "finish")
  /\ LET o == task[p].work IN
     \/ Terminal(o) /\ Answer(p) /\ UNCHANGED <<row, used>>
     \/ ~ Terminal(o) /\ row[o].lease # p /\ Leave(p) /\ UNCHANGED <<row, used, acked>>
     \/ ~ Terminal(o) /\ row[o].lease = p /\ FinishRow(o, TRUE) /\ Answer(p)
  /\ StoreSame /\ KeysSame /\ EnvSame /\ UNCHANGED jobs

\* Only the lease holder, and never once bytes were admitted without a freeze.
AbandonsPrepared(p, o) == row[o].lease = p
MayAbandon(p, o) == row[o].lease = p /\ row[o].state # "prepared"

\* finish(absent): no bytes were admitted, or the caller gives its open row up.
FinishAbsent(p) ==
  /\ At(p, "absent")
  /\ LET o == task[p].work
         on == IF task[p].mode = "own" THEN Leave(p) ELSE Recovered(p) /\ Keep(p) /\ Stay IN
     \/ Terminal(o) /\ on /\ UNCHANGED <<row, used>>
     \/ ~ Terminal(o) /\ ~ MayAbandon(p, o) /\ Leave(p) /\ UNCHANGED <<row, used>>
     \/ ~ Terminal(o) /\ MayAbandon(p, o) /\ FinishRow(o, FALSE) /\ on
  /\ StoreSame /\ KeysSame /\ EnvSame /\ UNCHANGED <<jobs, acked>>

\* After a refused PUT, or in the ingest job: was the operation applied?
Outcome(p) ==
  /\ At(p, "outcome")
  /\ Leave(p)
  /\ IF row[task[p].op].state = "applied"
       THEN /\ acked' = acked \cup {task[p].op}
            /\ jobs' = IF task[p].mode = "job" THEN jobs \ {task[p].op} ELSE jobs
       ELSE UNCHANGED <<acked, jobs>>
  /\ StoreSame /\ KeysSame /\ EnvSame /\ UNCHANGED <<row, used>>

(***************************************************************************)
(* One mutation: editOperation and try, or cleanup                         *)
(***************************************************************************)
\* A repeated operation that was applied is answered, one recorded absent retried.
DoneNever(o) == FALSE
DoneTerminal(o) == Terminal(o)
Done(o) == row[o].state = "applied"

\* The unique index of pending rows refuses a second one.
NeverBlocked == FALSE
Blocked == Pending # {}

\* begin: the journal holds at most one unfinished row of a folder.
Begin(p) ==
  /\ At(p, "begin")
  /\ LET o == task[p].op IN
     \/ Done(o) /\ Leave(p) /\ acked' = acked \cup {o} /\ UNCHANGED row
     \/ ~ Done(o) /\ Blocked /\ Leave(p) /\ UNCHANGED <<row, acked>>
     \/ /\ ~ Done(o) /\ ~ Blocked
        /\ row' = [row EXCEPT ![o] = [Unborn EXCEPT !.state = "open", !.lease = p,
                                                    !.tries = row[o].tries]]
        /\ Know(p, [task[p] EXCEPT !.mode = "own", !.work = o])
        /\ Goto(p, "read") /\ Stay /\ UNCHANGED acked
  /\ StoreSame /\ KeysSame /\ EnvSame /\ UNCHANGED <<used, jobs>>

\* get: the manifest this mutation will be computed from.
Read(p) ==
  /\ At(p, "read")
  /\ Know(p, [task[p] EXCEPT !.cur = manifest])
  /\ Goto(p, IF ~ KnownReceipt(manifest.body) THEN "absent"
             ELSE IF Kind(task[p].op) = "alloc" /\ manifest.body = None THEN "root"
             ELSE "check")
  /\ Stay /\ StoreSame /\ RowsSame /\ KeysSame /\ EnvSame /\ UNCHANGED acked

\* Compute an edit's next manifest and refuse keys the folder does not own.
CheckEdit(p) ==
  /\ At(p, "check") /\ Kind(task[p].op) \notin Cleanups
  /\ LET o == task[p].op
         b == task[p].cur.body
         plan == EditPlan(o, b)
         allowed == EditAllowed(o, b) /\ LiveIn(plan.body.refs, plan.body.inc) IN
     \/ ~ allowed /\ Goto(p, "absent") /\ Keep(p)
     \/ allowed /\ Unchanged(o, b) /\ Goto(p, "finish") /\ Keep(p)
     \/ /\ allowed /\ ~ Unchanged(o, b)
        /\ Know(p, [task[p] EXCEPT !.plan = plan])
        /\ Goto(p, "prepare")
  /\ Stay /\ StoreSame /\ RowsSame /\ KeysSame /\ EnvSame /\ UNCHANGED acked

\* Select what a cleanup retires; an allocation needs a living folder.
CheckCleanup(p) ==
  /\ At(p, "check") /\ Kind(task[p].op) \in Cleanups
  /\ LET o == task[p].op
         b == task[p].cur.body
         private == IF Kind(o) = "drop" THEN Work[o].drops \ Refs(b) ELSE {} IN
     \/ Kind(o) = "alloc" /\ b.deleted /\ Goto(p, "absent") /\ Keep(p)
     \/ /\ Kind(o) = "alloc" => ~ b.deleted
        /\ Know(p, [task[p] EXCEPT !.plan = [NoPlan EXCEPT !.private = private]])
        /\ Goto(p, "retire")
  /\ Stay /\ StoreSame /\ RowsSame /\ KeysSame /\ EnvSame /\ UNCHANGED acked

Owner(p) == row[task[p].op].lease = p /\ row[task[p].op].state = "open"

\* The transaction is acknowledged, or its acknowledgement is lost: then the
\* caller takes it for failed and gives its row up.
Acknowledged(p, label) ==
  \/ Goto(p, label) /\ EnvSame
  \/ Goto(p, "absent") /\ Fault

\* An ingest job is enqueued with the commit it will finish.
EnqueuedLater(o) == jobs
Enqueued(o) == IF Kind(o) = "commit" THEN jobs \cup {o} ELSE jobs

\* prepare: admit the exact bytes, their charge and their job in one transaction.
Prepare(p) ==
  /\ At(p, "prepare")
  /\ LET o == task[p].op
         plan == task[p].plan
         charge == AtLeastZero(plan.delta)
         admitted == /\ Kind(o) = "purge" \/ plan.body.inc \notin retired
                     /\ Owner(p)
                     /\ charge > 0 => used + charge <= Quota IN
     \/ ~ admitted /\ Goto(p, "absent") /\ EnvSame /\ UNCHANGED <<row, used, jobs>>
     \/ /\ admitted
        /\ row' = [row EXCEPT ![o] =
                     [@ EXCEPT !.state = "prepared", !.attempt = plan.body.attempt,
                               !.tries = plan.body.attempt, !.etag = task[p].cur.etag,
                               !.body = plan.body, !.delta = plan.delta,
                               !.charged = charge, !.private = plan.private]]
        /\ used' = used + charge
        /\ jobs' = Enqueued(o)
        /\ Acknowledged(p, "put")
  /\ Keep(p) /\ Stay /\ StoreSame /\ KeysSame /\ UNCHANGED acked

\* prepareCleanup: allocate and retire keys while the row is still owned.
PrepareCleanup(p) ==
  /\ At(p, "retire")
  /\ LET o == task[p].op
         inc == task[p].cur.body.inc
         fresh == IF Kind(o) = "alloc" THEN Work[o].adds ELSE {}
         admitted == Owner(p) /\ (fresh # {} => inc \notin retired)
                              /\ \A k \in fresh : alloc[k] = Unallocated IN
     \/ ~ admitted /\ Goto(p, "absent") /\ EnvSame /\ UNCHANGED <<row, alloc>>
     \/ /\ admitted
        /\ alloc' = [k \in Keys |-> IF k \in fresh THEN [state |-> "live", inc |-> inc]
                                    ELSE RetireKeys(task[p].plan.private)[k]]
        /\ row' = [row EXCEPT ![o] = [@ EXCEPT !.state = "prepared",
                                               !.private = task[p].plan.private]]
        /\ Acknowledged(p, "settle")
  /\ Keep(p) /\ Stay /\ StoreSame
  /\ UNCHANGED <<used, jobs, expired, retired, acked>>

(***************************************************************************)
(* Storage: conditional PUTs of the manifest                               *)
(***************************************************************************)
\* The PUT carries If-Match etag, or If-None-Match: * when etag is 0.
Store(etag, b) ==
  /\ manifest.etag = etag
  /\ manifest' = [etag |-> etag + 1, body |-> b]
  /\ landed' = landed \cup {Receipt(b)}

\* The ETag of the request p is about to send: an edit's, a recovery's, a root's.
NoPrecondition(p) == manifest.etag
IfMatch(p) == CASE At(p, "put") -> task[p].cur.etag
                [] At(p, "reput") -> row[task[p].work].etag
                [] OTHER -> 0
Content(p) == CASE At(p, "put") -> task[p].plan.body
                [] At(p, "reput") -> row[task[p].work].body
                [] OTHER -> RootBody

Request(p) == [etag |-> IfMatch(p), body |-> Content(p)]

Sending(p) == pc[p] \in {"put", "reput"}

PutOk(p) ==
  /\ Sending(p) /\ Request(p).body # None
  /\ Store(Request(p).etag, Request(p).body)
  /\ Goto(p, "settle") /\ Keep(p) /\ Stay
  /\ RowsSame /\ KeysSame /\ EnvSame /\ UNCHANGED <<late, acked>>

\* 412: a request hands its attempt to recovery, a recovery reads again.
PutRefused(p) ==
  /\ Sending(p) /\ manifest.etag # Request(p).etag
  /\ IF At(p, "put")
       THEN Goto(p, "freeze") /\ Know(p, [task[p] EXCEPT !.mode = "clash"])
       ELSE Goto(p, "compare") /\ Keep(p)
  /\ Stay /\ StoreSame /\ RowsSame /\ KeysSame /\ EnvSame /\ UNCHANGED acked

\* No definite response: the caller returns, its PUT may land at any time.
\* An allocation whose root was not acknowledged gives its open row up.
PutUnknown(p) ==
  /\ Sending(p) \/ At(p, "root")
  /\ Request(p).body # None
  /\ Fault
  /\ late' = late \cup {Request(p)}
  /\ IF At(p, "root") /\ Kind(task[p].op) = "alloc"
       THEN Goto(p, "absent") /\ Keep(p) /\ Stay
       ELSE Leave(p)
  /\ RowsSame /\ KeysSame /\ UNCHANGED <<manifest, landed, acked>>

Land(m) ==
  /\ m \in late
  /\ Store(m.etag, m.body)
  /\ late' = late \ {m}
  /\ Stay /\ RowsSame /\ KeysSame /\ EnvSame /\ UNCHANGED <<pc, task, acked>>

Drop(m) ==
  /\ m \in late
  /\ late' = late \ {m}
  /\ Stay /\ RowsSame /\ KeysSame /\ EnvSame /\ UNCHANGED <<pc, task, acked, manifest, landed>>

(***************************************************************************)
(* ensureIncarnation and RetireItemsTx                                     *)
(***************************************************************************)
\* The owner of the item deletes it; this call takes no folder lock.
StartRetire(p, o) ==
  /\ At(p, "idle") /\ Kind(o) = "retire" /\ o \notin acked
  /\ Goto(p, "root")
  /\ Know(p, [Idle EXCEPT !.mode = "own", !.op = o])
  /\ Stay /\ StoreSame /\ RowsSame /\ KeysSame /\ EnvSame /\ UNCHANGED acked

\* The folder has a root already: capture it.
CaptureRoot(p) ==
  /\ At(p, "root") /\ manifest.body # None
  /\ Know(p, [task[p] EXCEPT !.cur = manifest])
  /\ Goto(p, IF Kind(task[p].op) = "retire" THEN "claim" ELSE "check")
  /\ Stay /\ StoreSame /\ RowsSame /\ KeysSame /\ EnvSame /\ UNCHANGED acked

\* The folder has none: PUT an empty root that cannot replace anything.
PutRoot(p) ==
  /\ At(p, "root")
  /\ Store(0, RootBody)
  /\ Know(p, [task[p] EXCEPT !.cur = manifest'])
  /\ Goto(p, IF Kind(task[p].op) = "retire" THEN "claim" ELSE "check")
  /\ Stay /\ RowsSame /\ KeysSame /\ EnvSame /\ UNCHANGED <<late, acked>>

\* retireItemTx: the intent commits with the owner's own transaction.
ClaimRetirement(p) ==
  /\ At(p, "claim")
  /\ retired' = retired \cup {task[p].cur.body.inc}
  /\ acked' = acked \cup {task[p].op}
  /\ Leave(p)
  /\ StoreSame /\ RowsSame /\ EnvSame /\ UNCHANGED <<alloc, expired>>

(***************************************************************************)
(* Faults and time                                                         *)
(***************************************************************************)
\* The request is cancelled or its process dies; its session goes with it.
Crash(p) ==
  /\ ~ At(p, "idle")
  /\ Fault
  /\ Leave(p)
  /\ StoreSame /\ RowsSame /\ KeysSame /\ UNCHANGED acked

\* The lock's session ends; its holder does not notice.
LoseLock(p) ==
  /\ lock = p
  /\ Fault
  /\ lock' = None
  /\ StoreSame /\ RowsSame /\ KeysSame /\ UNCHANGED <<pc, task, acked>>

\* Seven days pass since a temporary key was allocated.
Expire(k) ==
  /\ k \in Temp \ expired /\ alloc[k].state # "none"
  /\ expired' = expired \cup {k}
  /\ Stay /\ StoreSame /\ RowsSame /\ EnvSame
  /\ UNCHANGED <<alloc, retired, pc, task, acked>>

Init ==
  /\ manifest = IF Seeded THEN [etag |-> 1, body |-> RootBody] ELSE NoManifest
  /\ late = {} /\ landed = {} /\ jobs = {} /\ retired = {} /\ acked = {} /\ expired = {}
  /\ row = [o \in Ops |-> Unborn]
  /\ alloc = [k \in Keys |-> IF Seeded /\ k \in Owned THEN [state |-> "live", inc |-> Root]
                                                      ELSE Unallocated]
  /\ used = 0 /\ lock = None /\ faults = 0
  /\ pc = [p \in Procs |-> "idle"]
  /\ task = [p \in Procs |-> Idle]

Step(p) ==
  \/ Freeze(p) \/ CheckOwned(p) \/ Compare(p) \/ Settle(p) \/ Finish(p) \/ FinishAbsent(p)
  \/ Outcome(p) \/ Begin(p) \/ Read(p) \/ CheckEdit(p) \/ CheckCleanup(p) \/ Prepare(p)
  \/ PrepareCleanup(p) \/ PutOk(p) \/ PutRefused(p) \/ CaptureRoot(p) \/ PutRoot(p)
  \/ ClaimRetirement(p)

Next ==
  \/ \E p \in Procs :
       \/ Step(p) \/ PutUnknown(p) \/ Crash(p) \/ LoseLock(p)
       \/ \E o \in Ops : Start(p, o) \/ RunJob(p, o) \/ StartRetire(p, o)
  \/ \E m \in late : Land(m) \/ Drop(m)
  \/ \E k \in Keys : Expire(k)

Spec == Init /\ [][Next]_vars

(***************************************************************************)
(* Fairness: a running goroutine goes on, and the queue runs its jobs.     *)
(* Faults are bounded, so every run has a last one: an outage ends.        *)
(***************************************************************************)
FairSpec ==
  Spec /\ \A p \in Procs : WF_vars(Step(p)) /\ WF_vars(\E o \in jobs : RunJob(p, o))

(***************************************************************************)
(* Properties                                                              *)
(***************************************************************************)
\* A row holds exact bytes from prepare until it is settled.
Admitted == {o \in Pending : row[o].body # None}

Requests == [etag : Nat, body : Bodies]
Plans == [body : Bodies \cup {None}, delta : Int, private : SUBSET Keys]
Manifests == [etag : Nat, body : Bodies \cup {None}]
Rows == [state : {"none", "open", "prepared", "frozen", "applied", "absent"},
         lease : Procs \cup {None}, attempt : Nat, tries : Nat, etag : Nat,
         body : Bodies \cup {None}, delta : Int, charged : Nat, private : SUBSET Keys]
Allocations == [state : {"none", "live", "retired"}, inc : Authors \cup {None}]
Labels == {"idle", "freeze", "own", "compare", "reput", "settle", "finish", "absent", "outcome",
           "begin", "read", "check", "prepare", "retire", "put", "root", "claim"}
Tasks == [mode : {"none", "edit", "job", "own", "clash"}, op : Ops \cup {None},
          work : Ops \cup {None}, cur : Manifests, plan : Plans]

\* Every table, object and goroutine holds values of its own kind.
TypeOK ==
  /\ manifest \in Manifests /\ late \subseteq Requests /\ landed \subseteq Authors \X Nat
  /\ row \in [Ops -> Rows] /\ alloc \in [Keys -> Allocations] /\ expired \subseteq Keys
  /\ used \in Nat /\ jobs \subseteq Ops /\ retired \subseteq Authors
  /\ lock \in Procs \cup {None} /\ pc \in [Procs -> Labels] /\ task \in [Procs -> Tasks]
  /\ acked \subseteq Ops /\ faults \in Nat

\* What the journal says of an operation is what storage holds: an operation
\* recorded absent never reached S3 and none of its PUTs still can, and one
\* recorded applied that admitted bytes has them in S3's history.  Recovery
\* (recoverAttemptLocked) and finish decide it without seeing each PUT's end.
OutcomeHonest ==
  \A o \in Ops :
    /\ row[o].state = "absent" =>
         /\ \A r \in landed : r[1] # o
         /\ \A m \in late : m.body.op = o => m.etag # manifest.etag
    /\ row[o].state = "applied" /\ row[o].attempt # 0 => <<o, row[o].attempt>> \in landed

\* A manifest body lands at most once, and an operation lands at most one body,
\* however often it is retried, recovered or delivered late.
LandsOnce ==
  [][manifest' # manifest => \A r \in landed : r[1] # manifest'.body.op]_vars

\* The owner is charged exactly what the manifest holds, except for what the
\* one admitted but unsettled mutation claimed in advance (prepare, finish).
UsageExact ==
  /\ Admitted = {} => used = Bytes(manifest.body)
  /\ \A o \in Admitted :
       used = Bytes(manifest.body) + row[o].charged
                - (IF Matches(o, manifest.body) THEN row[o].delta ELSE 0)

\* The manifest only names live allocations of its own incarnation: no cleanup,
\* takedown or late recovery retires a key that the manifest still names.
RefsOwned ==
  manifest.body # None =>
    \A k \in manifest.body.refs : alloc[k] = [state |-> "live", inc |-> manifest.body.inc]

\* A client told that its operation is done never finds it absent or open
\* again.  (finish also answers a request whose edit changed nothing when
\* recovery has recorded it absent meanwhile; such an edit owes no one.)
AckDurable == \A o \in acked : Kind(o) \in Stable => row[o].state = "applied"

\* Every admitted commit still has the ingest job that will finish it.
JobOwnsCommit == \A o \in Admitted : Kind(o) = "commit" => o \in jobs

\* An admitted mutation can be completed: it landed, or its exact PUT is still
\* possible, and recovery still accepts its keys.
AdmittedCanFinish ==
  \A o \in Admitted :
    /\ LiveIn(row[o].body.refs, row[o].body.inc)
    /\ \/ Matches(o, manifest.body)
       \/ manifest.etag = row[o].etag /\ KnownReceipt(manifest.body)

\* Deleting an item releases its quota: a settled tombstone charges nothing.
DeletionReleases ==
  (Pending = {} /\ manifest.body # None /\ manifest.body.deleted) => used = 0

\* An admitted mutation with an ingest job, as every commit has one
\* (JobOwnsCommit), is applied in the end: by its caller, its job or whoever
\* takes the folder next, also a purge.
AdmittedSettles == \A o \in Ops : o \in Admitted \cap jobs ~> row[o].state = "applied"

(***************************************************************************)
(* The journal implements atomic, at-most-once edits: an operation takes   *)
(* effect when its PUT lands, whoever sent it and whoever settles it.      *)
(***************************************************************************)
Seen(b) ==
  IF b = None THEN None ELSE [by |-> b.op, refs |-> b.refs, inc |-> b.inc, deleted |-> b.deleted]

Abstract == INSTANCE ManifestStore WITH
  content <- Seen(manifest.body),
  done <- {r[1] : r \in landed} \ {Root},
  answered <- {o \in acked : Kind(o) \in Stable}

\* No edit is lost, doubled, or computed from anything but the content it
\* replaces; no edit but its reset lands on a tombstone; no client is told of
\* an operation that did not happen.
Linearizable == Abstract!Spec
=============================================================================
