----------------------------- MODULE MediaCleanup -----------------------------
(***************************************************************************)
(* Deleting bytes for good (src/internal/mediastore: cleanup.go,           *)
(* lifecycle.go, erasure.go, sweep.go).                                    *)
(*                                                                         *)
(* An edit never deletes an object.  It names the exact keys it stops      *)
(* using in its journal row, and the folder's cleanup row keeps that       *)
(* operation as an obligation: the keys are deleted at once and deleted    *)
(* again after the last write that could still land.  A sweep reads the    *)
(* row, works for a while outside any transaction, and then moves or       *)
(* removes the row, only at the revision it read.  Meanwhile clients       *)
(* upload, publish, purge, reset and retire the same folder, other sweeps  *)
(* run, storage fails and processes stop.                                  *)
(*                                                                         *)
(* A manifest edit is one step here, and so is a repeated deletion: both   *)
(* hold the folder lock, and ManifestJournal shows that the journal makes  *)
(* an edit one step.                                                       *)
(***************************************************************************)
EXTENDS Integers, FiniteSets

CONSTANTS
  Sweepers,   \* goroutines that run PurgeRetired
  Callers,    \* goroutines that run Purge and Erase
  Keys,       \* private allocations, never used again once retired
  Names,      \* stable public names, which a later lifetime may publish again
  Edits,      \* numbers of the edits that retire something (a bound)
  MaxWork,    \* bound on edits, intents, purges and erasures together
  MaxUsed,    \* bound on the keys and names the folder ever uses
  Lives,      \* incarnations 0 .. Lives of the folder (the one purge resets once)
  Grace,      \* how long an unreferenced allocation is left alone
  Landing,    \* how long after it was sent a write may still land
  Late,       \* LateUploadWindow
  MaxFaults,  \* bound on failed and crashed passes
  None

\* minimumLateUploadWindow: an hour, here one tick, beyond the last landing.
ASSUME WindowAssumption ==
  /\ {Grace, Landing, Late, MaxFaults, MaxWork, MaxUsed, Lives, Edits} \subseteq Nat
  /\ Late > Landing /\ Lives >= 1
ASSUME PlaceAssumption == Sweepers \cap Callers = {} /\ Keys \cap Names = {}

Stored == Keys \cup Names
Procs == Sweepers \cup Callers
Incs == 0 .. Lives
Operation(kind, n) == <<kind, n>>
Ops == {Operation("edit", n) : n \in 1 .. Edits} \cup {Operation("sweep", n) : n \in 1 .. Cardinality(Keys)} \cup {Operation("delete", i) : i \in Incs}
         \cup {Operation("purge", 0), Operation("erase", 0)}
Intents == {Operation("intent", i) : i \in Incs}
Obligations == Ops \cup Intents

ASSUME NoneAssumption ==
  /\ None \notin Obligations
  /\ None \notin [due : Nat, ops : SUBSET Obligations, readers : SUBSET Procs]

VARIABLES
  objects,   \* the folder's objects in the bucket, but its manifest
  age,       \* ticks since each key's last write was sent; Old: it cannot land
  manifest,  \* [inc, deleted, by, keys, names, ready]
  alloc,     \* content_media_allocations: none, live, retired
  op,        \* settled rows of content_media_commits: [done, targets, left]
  erasing,   \* the erasure fence is in the bucket
  intent,    \* folder_delete intents by incarnation: none, open, completed
  cleanup,   \* the folder's row of content_media_cleanup, or None: [due, ops, readers]
  ahead,     \* another folder, whose storage always fails, is due before this one
  pass,      \* what each process is doing
  faults

vars == <<objects, age, manifest, alloc, op, intent, erasing, cleanup, ahead, pass, faults>>

Idle == [pc |-> "idle", ops |-> {}, now |-> None, lag |-> 0, wait |-> 0]
Larger(a, b) == IF a > b THEN a ELSE b
Smaller(a, b) == IF a < b THEN a ELSE b
Writable == ~ manifest.deleted /\ intent[manifest.inc] = "none"

Old == Larger(Grace, Landing)

Started == {o \in Intents : intent[o[2]] # "none"} \cup {o \in Ops : op[o].done /\ o[1] \in {"edit", "purge", "erase"}}
More == Cardinality(Started) < MaxWork
Used == {k \in Keys : alloc[k] # "none"} \cup manifest.names \cup UNION {op[o].targets : o \in Ops}
Room(x) == Cardinality(Used \cup {x}) <= MaxUsed

Init ==
  /\ objects = {} /\ age = [x \in Stored |-> Old]
  /\ manifest = [inc |-> 0, deleted |-> FALSE, by |-> None, keys |-> {}, names |-> {}, ready |-> {}]
  /\ alloc = [k \in Keys |-> "none"]
  /\ op = [o \in Ops |-> [done |-> FALSE, targets |-> {}, left |-> 0]]
  /\ intent = [i \in Incs |-> "none"] /\ erasing = FALSE
  /\ cleanup = None /\ ahead = TRUE
  /\ pass = [p \in Procs |-> Idle]
  /\ faults = 0

(***************************************************************************)
(* The cleanup row.  Its revision is a random UUID that only ever decides  *)
(* whether the row is still the one a pass read: it is the set of passes   *)
(* that hold it, which every write empties.                                *)
(***************************************************************************)
Merged(due, ops) ==
  IF cleanup = None THEN [due |-> due, ops |-> ops, readers |-> {}]
  ELSE [due |-> Smaller(cleanup.due, due), ops |-> cleanup.ops \cup ops, readers |-> {}]

\* A row that is due only from now on queues behind the other folder.
Schedule(due, ops) ==
  /\ cleanup' = Merged(due, ops)
  /\ ahead' = (ahead \/ cleanup = None \/ cleanup.due > due)
Unscheduled == UNCHANGED <<cleanup, ahead>>

\* finish: the deletion's targets are due now and stay an obligation until
\* the operation's own deadline.
Settle(o, targets) ==
  /\ op' = [op EXCEPT ![o] = [done |-> TRUE, targets |-> targets, left |-> Late]]
  /\ Schedule(IF targets = {} THEN Late ELSE 0, {o})

RetiredKeys(keys) == [k \in Keys |-> IF k \in keys THEN "retired"
                                                   ELSE alloc[k]]
Fresh(kind, bound) == {Operation(kind, n) : n \in {n \in 1 .. bound :
                         /\ ~ op[Operation(kind, n)].done
                         /\ \A m \in 1 .. n - 1 : op[Operation(kind, m)].done}}

(***************************************************************************)
(* Clients and workers: every edit holds the folder lock                   *)
(***************************************************************************)
\* Allocate reserves a key and schedules the check of what became of it.
Allocate(k) ==
  /\ Writable /\ alloc[k] = "none" /\ Room(k)
  /\ alloc' = [alloc EXCEPT ![k] = "live"]
  /\ age' = [age EXCEPT ![k] = 0]
  /\ Schedule(Grace, {})
  /\ UNCHANGED <<objects, manifest, op, intent, erasing, pass, faults>>

\* A write lands, possibly long after its sender gave up, possibly again.
Lands(x) ==
  /\ age[x] < Landing
  /\ objects' = objects \cup {x}
  /\ UNCHANGED <<age, manifest, alloc, op, intent, erasing, cleanup, ahead, pass, faults>>

\* A commit adopts a live allocation whose object it saw.
Adopt(k) ==
  /\ Writable /\ alloc[k] = "live" /\ k \in objects
  /\ k \notin manifest.keys
  /\ manifest' = [manifest EXCEPT !.keys = @ \cup {k}]
  /\ UNCHANGED <<objects, age, alloc, op, intent, erasing, cleanup, ahead, pass, faults>>

\* A publication reserves its stable name before its output is written, and
\* records it as ready afterwards.
Reserve(x) ==
  /\ Writable /\ x \notin manifest.names /\ Room(x)
  /\ manifest' = [manifest EXCEPT !.names = @ \cup {x}]
  /\ age' = [age EXCEPT ![x] = 0]
  /\ UNCHANGED <<objects, alloc, op, intent, erasing, cleanup, ahead, pass, faults>>

Ready(x) ==
  /\ Writable /\ x \in manifest.names \ manifest.ready /\ x \in objects
  /\ manifest' = [manifest EXCEPT !.ready = @ \cup {x}]
  /\ UNCHANGED <<objects, age, alloc, op, intent, erasing, cleanup, ahead, pass, faults>>

\* An edit drops keys and names: they are retired by exactly this operation.
Drop(gone) ==
  /\ Writable /\ More
  /\ gone # {} /\ gone \subseteq manifest.keys \cup manifest.names
  /\ \E o \in Fresh("edit", Edits) : Settle(o, gone)
  /\ manifest' = [manifest EXCEPT !.keys = @ \ gone, !.names = @ \ gone, !.ready = @ \ gone]
  /\ alloc' = RetiredKeys(gone \cap Keys)
  /\ UNCHANGED <<objects, age, intent, erasing, pass, faults>>

\* RetireItemsTx commits the intent to delete the current lifetime with the
\* host's own row.  Only a new claim schedules it.
RetireItem ==
  /\ More
  /\ intent' = [intent EXCEPT ![manifest.inc] = IF @ = "none" THEN "open" ELSE @]
  /\ IF intent[manifest.inc] = "none" THEN Schedule(0, {Operation("intent", manifest.inc)})
                                      ELSE Unscheduled
  /\ UNCHANGED <<objects, age, manifest, alloc, op, erasing, pass, faults>>

(***************************************************************************)
(* deleteItem: the tombstone, and the exact targets it retires.  A queued  *)
(* deletion of a lifetime that is gone does nothing.  A repeated call      *)
(* finds its operation settled.                                            *)
(***************************************************************************)
DeletionTargets == {k \in Keys : alloc[k] # "none"} \cup objects \cup manifest.names

DeleteItem(o, current) ==
  \/ op[o].done /\ Unscheduled /\ UNCHANGED <<manifest, alloc, op>>
  \/ /\ ~ op[o].done /\ current
     /\ Settle(o, DeletionTargets)
     /\ manifest' = [manifest EXCEPT !.deleted = TRUE, !.by = o,
                                     !.keys = {}, !.names = {}, !.ready = {}]
     /\ alloc' = RetiredKeys({k \in Keys : alloc[k] # "none"})
  \/ /\ ~ op[o].done /\ ~ current
     /\ op' = [op EXCEPT ![o].done = TRUE]
     /\ Unscheduled /\ UNCHANGED <<manifest, alloc>>

\* The deletion that an obligation repeats: an intent derives its own.
Deletion(o) == IF o \in Intents THEN Operation("delete", o[2]) ELSE o

(***************************************************************************)
(* PurgeRetired: one sweep of the folder, with a limit of one folder       *)
(***************************************************************************)
\* The earliest due folder goes first.
Turn == cleanup # None /\ cleanup.due = 0 /\ ~ ahead

Read(p) ==
  /\ p \in Sweepers /\ pass[p].pc = "idle" /\ Turn
  /\ cleanup' = [cleanup EXCEPT !.readers = @ \cup {p}]
  /\ pass' = [pass EXCEPT ![p] = [Idle EXCEPT !.pc = "sweep", !.ops = cleanup.ops]]
  /\ UNCHANGED <<objects, age, manifest, alloc, op, intent, erasing, ahead, faults>>

\* A bug: a folder that failed keeps its place.
ReadOtherInPlace ==
  /\ ahead
  /\ UNCHANGED vars

\* The other folder fails and rotates behind everything due in this pass.
ReadOther ==
  /\ ahead
  /\ ahead' = FALSE
  /\ UNCHANGED <<objects, age, manifest, alloc, op, intent, erasing, cleanup, pass, faults>>

\* sweep retires the allocations nothing refers to once their grace is over.
\* What was recorded since the row was read, by the sweep too, is done in
\* this pass.
Unreferenced == {k \in Keys : alloc[k] = "live" /\ k \notin manifest.keys}
Expired == {k \in Unreferenced : age[k] >= Grace}
NextExpiry == LET left == {Grace - age[k] : k \in Unreferenced \ Expired} IN
              IF left = {} THEN 0 ELSE CHOOSE n \in left : \A m \in left : n <= m

Sweep(p) ==
  /\ pass[p].pc = "sweep"
  /\ \/ Expired = {} /\ Unscheduled /\ UNCHANGED <<alloc, op>>
     \/ /\ Expired # {}
        /\ \E o \in Fresh("sweep", Cardinality(Keys)) : Settle(o, Expired)
        /\ alloc' = RetiredKeys(Expired)
  /\ pass' = [pass EXCEPT ![p].pc = "work", ![p].wait = NextExpiry,
                          ![p].ops = IF cleanup' = None THEN @ ELSE @ \cup cleanup'.ops]
  /\ UNCHANGED <<objects, age, manifest, intent, erasing, faults>>

\* The obligations left, one after the other; a completed intent is skipped.
Left(p) == {o \in pass[p].ops : o \in Intents => intent[o[2]] # "completed"}
Now(p) == IF pass[p].pc = "work" THEN CHOOSE o \in Left(p) : TRUE ELSE pass[p].now
Working(p) == pass[p].pc = "work" /\ Left(p) # {}

\* An intent first deletes its lifetime; so does a caller.
Tombstone(p) ==
  /\ Working(p) /\ (Now(p) \in Intents \/ p \in Callers)
  /\ DeleteItem(Deletion(Now(p)), Now(p) \in Intents => manifest.inc = Now(p)[2])
  /\ pass' = [pass EXCEPT ![p].pc = "repeat", ![p].now = Now(p)]
  /\ UNCHANGED <<objects, age, intent, erasing, faults>>

(***************************************************************************)
(* repeatDeletion, one step because it holds the folder lock: public names *)
(* that a later edit owns again are left alone; a private target still     *)
(* referenced is an error.                                                 *)
(***************************************************************************)
Kept == manifest.names
\* A bug: the record is replayed as it was written.
TargetsAsRecorded(o) == op[o].targets
Targets(o) == op[o].targets \ Kept

Repeat(p) ==
  /\ pass[p].pc = "repeat" \/ (Working(p) /\ Now(p) \in Ops /\ p \in Sweepers)
  /\ op[Deletion(Now(p))].targets \cap manifest.keys = {}
  /\ objects' = objects \ Targets(Deletion(Now(p)))
  /\ pass' = [pass EXCEPT ![p].pc = IF p \in Callers THEN "reset" ELSE "measure",
                          ![p].now = Now(p), ![p].lag = 0]
  /\ UNCHANGED <<age, manifest, alloc, op, intent, erasing, cleanup, ahead, faults>>

\* A bug: one pass is taken to be enough.
MeasureNothing(p) ==
  /\ pass[p].pc = "measure"
  /\ pass' = [pass EXCEPT ![p].pc = "work", ![p].now = None, ![p].lag = 0, ![p].ops = @ \ {Now(p)}]
  /\ intent' = IF Now(p) \in Intents THEN [intent EXCEPT ![Now(p)[2]] = "completed"] ELSE intent
  /\ UNCHANGED <<objects, age, manifest, alloc, op, erasing, cleanup, ahead, faults>>

\* What still has to wait for late writes is measured after the deletion.
\* retireFolder marks its intent completed; the deletion it derived is an
\* obligation of its own since its edit settled.
Measure(p) ==
  /\ pass[p].pc = "measure"
  /\ pass' = [pass EXCEPT ![p].pc = "work", ![p].now = None, ![p].lag = 0, ![p].ops = @ \ {Now(p)},
                          ![p].wait = IF Now(p) \in Intents THEN @ ELSE Larger(@, op[Now(p)].left)]
  /\ intent' = IF Now(p) \in Intents THEN [intent EXCEPT ![Now(p)[2]] = "completed"] ELSE intent
  /\ UNCHANGED <<objects, age, manifest, alloc, op, erasing, cleanup, ahead, faults>>

\* A bug: the row is closed whatever its revision is by now.
CloseAnyRevision(p) ==
  /\ pass[p].pc = "work" /\ Left(p) = {}
  /\ IF cleanup = None \/ p \notin Sweepers THEN Unscheduled
     ELSE ahead' = TRUE /\ cleanup' = IF pass[p].wait > 0
            THEN [cleanup EXCEPT !.due = pass[p].wait, !.readers = {}] ELSE None
  /\ pass' = [pass EXCEPT ![p] = Idle]
  /\ UNCHANGED <<objects, age, manifest, alloc, op, intent, erasing, faults>>

\* The row moves or goes, only at the revision the pass read.
Close(p) ==
  /\ pass[p].pc = "work" /\ Left(p) = {}
  /\ IF cleanup = None \/ p \notin cleanup.readers THEN Unscheduled
     ELSE ahead' = TRUE /\ cleanup' = IF pass[p].wait > 0
            THEN [cleanup EXCEPT !.due = pass[p].wait, !.readers = {}] ELSE None
  /\ pass' = [pass EXCEPT ![p] = Idle]
  /\ UNCHANGED <<objects, age, manifest, alloc, op, intent, erasing, faults>>

(***************************************************************************)
(* Jobs.Purge and Jobs.Erase, retried by their caller with the same        *)
(* operation until they succeed                                            *)
(***************************************************************************)
Call(p, job) ==
  /\ p \in Callers /\ pass[p].pc = "idle" /\ More
  /\ erasing' = (erasing \/ job = "erase")    \* fenceErasure comes first
  /\ pass' = [pass EXCEPT ![p] = [Idle EXCEPT !.pc = "work", !.ops = {Operation(job, 0)}]]
  /\ UNCHANGED <<objects, age, manifest, alloc, op, intent, cleanup, ahead, faults>>

\* resetItem opens a new lifetime after exactly this deletion, never over an
\* erasure.
Reset(p) ==
  /\ pass[p].pc = "reset"
  /\ manifest' = IF Now(p)[1] = "purge" /\ ~ erasing /\ manifest.deleted /\ manifest.by = Now(p)
                   THEN [manifest EXCEPT !.inc = @ + 1, !.deleted = FALSE, !.by = None] ELSE manifest
  /\ pass' = [pass EXCEPT ![p] = Idle]
  /\ UNCHANGED <<objects, age, alloc, op, intent, erasing, cleanup, ahead, faults>>

(***************************************************************************)
(* Faults and time                                                         *)
(***************************************************************************)
\* A step of a pass fails: the sweep rotates its row behind the others, at
\* the revision it read.  A caller only returns, as if it had crashed.
Fail(p) ==
  /\ p \in Sweepers /\ pass[p].pc # "idle" /\ faults < MaxFaults
  /\ IF cleanup = None \/ p \notin cleanup.readers THEN Unscheduled
     ELSE ahead' = TRUE /\ cleanup' = [cleanup EXCEPT !.due = 0, !.readers = {}]
  /\ pass' = [pass EXCEPT ![p] = Idle]
  /\ faults' = faults + 1
  /\ UNCHANGED <<objects, age, manifest, alloc, op, intent, erasing>>

Crash(p) ==
  /\ pass[p].pc # "idle" /\ faults < MaxFaults
  /\ pass' = [pass EXCEPT ![p] = Idle]
  /\ faults' = faults + 1
  /\ UNCHANGED <<objects, age, manifest, alloc, op, intent, erasing, cleanup, ahead>>

\* Time only matters as what is left of a window, so there is no clock.  One
\* operation's deletion takes less than the hour (one tick) the window leaves.
Less(n) == IF n = 0 THEN 0 ELSE n - 1
Tick ==
  /\ \A p \in Procs : pass[p].pc = "measure" => pass[p].lag = 0
  /\ age' = [x \in Stored |-> IF age[x] < Old THEN age[x] + 1 ELSE Old]
  /\ op' = [o \in Ops |-> [op[o] EXCEPT !.left = Less(@)]]
  /\ cleanup' = IF cleanup = None THEN None ELSE [cleanup EXCEPT !.due = Less(@)]
  /\ pass' = [p \in Procs |-> IF pass[p].pc = "measure" THEN [pass[p] EXCEPT !.lag = 1] ELSE pass[p]]
  /\ UNCHANGED <<objects, manifest, alloc, intent, erasing, ahead, faults>>

Work(p) ==
  \/ Read(p) \/ Sweep(p) \/ Tombstone(p) \/ Repeat(p) \/ Measure(p) \/ Close(p)
  \/ Reset(p)

Next ==
  \/ \E k \in Keys : Allocate(k) \/ Adopt(k)
  \/ \E x \in Names : Reserve(x) \/ Ready(x)
  \/ \E x \in Stored : Lands(x)
  \/ \E gone \in SUBSET Stored : Drop(gone)
  \/ RetireItem \/ ReadOther \/ Tick
  \/ \E p \in Procs : Work(p) \/ Fail(p) \/ Crash(p) \/ \E job \in {"purge", "erase"} : Call(p, job)

\* The content-deletion sweep runs again and again, one that works finishes,
\* and time passes.  Clients, writes and faults owe nothing.
Spec == Init /\ [][Next]_vars /\ WF_vars(Tick) /\ WF_vars(ReadOther)
             /\ \A p \in Procs : WF_vars(Work(p))

(***************************************************************************)
(* Properties                                                              *)
(***************************************************************************)
\* The row names operations this folder records; windows count down to zero.
TypeOK ==
  /\ objects \subseteq Stored /\ alloc \in [Keys -> {"none", "live", "retired"}]
  /\ age \in [Stored -> 0 .. Old]
  /\ manifest \in [inc : Incs, deleted : BOOLEAN, by : Ops \cup {None}, keys : SUBSET Keys,
                   names : SUBSET Names, ready : SUBSET Names]
  /\ op \in [Ops -> [done : BOOLEAN, targets : SUBSET Stored, left : 0 .. Late]]
  /\ intent \in [Incs -> {"none", "open", "completed"}]
  /\ cleanup # None => cleanup \in [due : 0 .. Larger(Late, Grace), ops : SUBSET Obligations,
                                   readers : SUBSET Procs]
  /\ pass \in [Procs -> [pc : {"idle", "sweep", "work", "repeat", "measure", "reset"},
                         ops : SUBSET Obligations, now : Obligations \cup {None},
                         lag : {0, 1}, wait : 0 .. Larger(Late, Grace)]]
  /\ {erasing, ahead} \subseteq BOOLEAN /\ faults \in 0 .. MaxFaults

\* Nothing retired is forgotten: while a retired object is in the bucket, or
\* a write of it can still land, the folder's row holds an operation that
\* names it, and an unfinished allocation has a row that will look at it.
\* Rows are moved and removed by passes that read them long ago, while edits
\* add obligations (PurgeRetired, scheduleCleanupTx).
MayAppear(x) == x \in objects \/ (age[x] < Landing)
Retired(x) == IF x \in Keys THEN alloc[x] = "retired" ELSE x \notin manifest.names
Obligated ==
  /\ \A x \in Stored : Retired(x) /\ MayAppear(x) =>
       cleanup # None /\ \E o \in cleanup.ops \cap Ops : x \in op[o].targets
  /\ Unreferenced # {} => cleanup # None

\* Both hold.
CleanupOK == TypeOK /\ Obligated

\* No deletion touches what the folder now owns: every adopted key and every
\* public name recorded as ready is in the bucket, although old deletions of
\* the same public name are repeated after a reset (repeatDeletion).
OwnedStay == manifest.keys \cup manifest.ready \subseteq objects

\* A retired object is deleted in the end, even one whose write landed after
\* its deletion, through failures, crashes and another folder that always
\* fails (the last pass of LateUploadWindow; rotation in PurgeRetired).
GarbageDeleted == []<>(\A x \in Stored : x \in objects => ~ Retired(x))

\* A committed retirement is carried out, whatever happens meanwhile to the
\* lifetime it was committed for (retireFolder).
RetirementCompletes == []<>(\A i \in Incs : intent[i] # "open")
===============================================================================
