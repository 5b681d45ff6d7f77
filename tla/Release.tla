-------------------------------- MODULE Release --------------------------------
(***************************************************************************)
(* Publishing one edition (src/internal/versionstore: release_queue.go,    *)
(* release_work.go, fences.go; src/internal/mediastore/delivery.go;        *)
(* src/internal/catalogstore: publication.go, write.go).                   *)
(*                                                                         *)
(* A catalog write or a manifest edit commits an intent: a request row,    *)
(* of which one is current, and a job.  The job freezes a plan of what     *)
(* readers should get, copies the file to the area the plan wants, makes   *)
(* the plan the edition's release and then withdraws the deliveries before *)
(* it.  Meanwhile authors edit, processing finishes and newer intents      *)
(* supersede the request; a job fails and is retried at any step.          *)
(*                                                                         *)
(* The edition has one file.  Bytes stay while the file names them or a    *)
(* delivery pins them; MediaCleanup is about how the others are deleted.   *)
(***************************************************************************)
EXTENDS Integers, FiniteSets

CONSTANTS
  Workers,   \* goroutines that run publication jobs
  Requests,  \* request ids, reused once nothing knows them (a bound)
  Writes,    \* bound on catalog writes
  Uploads,   \* bound on replacements of the file
  MaxFaults, \* bound on failed and crashed jobs
  Events,    \* bound on the three together
  None

States == {"draft", "published", "deleted"}
Areas == {"internal", "private", "public"}
Dues == {"now", "later"}
\* Copies are named by their delivery's random id, originals by zero.
Blobs == [rev : Nat, area : Areas, alloc : Requests \cup {0}]
Plans ==
  [fp : [rev : Nat, ready : BOOLEAN, area : Areas, state : States, free : BOOLEAN, retained : BOOLEAN],
   view : SUBSET Blobs, copies : SUBSET [src : Blobs, area : Areas], previous : SUBSET Requests,
   released : BOOLEAN, retained : BOOLEAN, waiting : BOOLEAN, next : {"later", None}]
Copies == [files : SUBSET [src : Blobs, dst : Blobs], adopted : BOOLEAN, ready : BOOLEAN]

ASSUME NamesAssumption ==
  /\ None \notin Requests \cup Workers \cup Blobs \cup Plans \cup Copies \cup Dues
  /\ 0 \notin Requests
ASSUME BoundsAssumption == {Writes, Uploads, MaxFaults, Events} \subseteq Nat

VARIABLES
  cat,       \* the catalog row: [state, at, published, free, was]
  opened,    \* the scheduled publish_at has passed
  media,     \* the manifest: [rev, file, dels, withdrawn]; file is None until
             \* processed; entries of withdrawn deliveries pin nothing
  notice,    \* a committed edit has not yet told the catalog
  fence,     \* the gateway's deletion fence
  req,       \* content_publication_requests
  release,   \* content_versions.release_id
  released,  \* content_versions.released
  jobs,      \* queued jobs <<request, due>>
  lock,      \* the worker that holds the edition's source lock
  run,       \* what each worker is doing
  writes, faults

vars == <<cat, opened, media, notice, fence, req, release, released, jobs, lock, run, writes, faults>>

Blob(rev, area, alloc) == [rev |-> rev, area |-> area, alloc |-> alloc]
NoRow == [state |-> "none", current |-> FALSE, due |-> "now", plan |-> None, result |-> None, spent |-> FALSE]
Idle == [pc |-> "idle", id |-> None, plan |-> None, old |-> {}, ret |-> None]

Init ==
  /\ cat = [state |-> "draft", at |-> None, published |-> FALSE, free |-> TRUE, was |-> "draft"]
  /\ opened = FALSE
  /\ media = [rev |-> 1, file |-> None, dels |-> [i \in Requests |-> None], withdrawn |-> {}]
  /\ notice = FALSE /\ fence = FALSE
  /\ req = [i \in Requests |-> NoRow] /\ release = None /\ released = FALSE
  /\ jobs = {} /\ lock = None /\ run = [w \in Workers |-> Idle]
  /\ writes = 0 /\ faults = 0

Passed(at) == at # "later" \/ opened
Deliveries == {i \in Requests : media.dels[i] # None}
PinsAdopted(d) == IF d.adopted THEN {} ELSE {c.src : c \in d.files}
Pins(d) == {c.dst : c \in d.files} \cup (IF d.adopted THEN {} ELSE {c.src : c \in d.files})
Eventful == writes + (media.rev - 1) + faults < Events
Known == ({media.file} \ {None}) \cup UNION {Pins(media.dels[i]) : i \in Deliveries}

(***************************************************************************)
(* Accepting an intent                                                     *)
(***************************************************************************)
CurrentOf(rows) == {i \in Requests : rows[i].current}
Previous(plan) == IF plan = None THEN {} ELSE plan.previous
Named(rows) ==
  {j[1] : j \in jobs} \cup {b.alloc : b \in Known}
    \cup (UNION {{run[w].id, run[w].ret} \cup run[w].old \cup Previous(run[w].plan) : w \in Workers})
    \cup (UNION {Previous(rows[i].plan) \cup Previous(rows[i].result) : i \in Requests})
Spare(rows) == {i \in Requests \ (Named(rows) \cup media.withdrawn) : rows[i].state = "none" /\ media.dels[i] = None}
Fresh(rows) == CHOOSE i \in Spare(rows) : TRUE
HasRoom == Spare(req) # {}

\* Requests nothing reads go.  Until a release completes, a superseded one's
\* plan records that storage work started.
Spent(row, all) == ~ row.current /\ (row.state = "completed" \/ (all /\ row.state # "retiring"))
Pruned(rows, all) == [i \in Requests |-> IF Spent(rows[i], all) /\ i # release
                                           THEN [NoRow EXCEPT !.spent = rows[i].spent] ELSE rows[i]]

\* scheduleReleaseAtTx: an unfrozen current request follows the new intent;
\* a frozen plan is immutable and another request owns later changes.
UnfrozenCurrent(row) == row.current
Unfrozen(row) == row.current /\ row.plan = None /\ row.state \in {"pending", "waiting"}
Accept(rows, at) ==
  IF \E i \in Requests : Unfrozen(rows[i])
  THEN [i \in Requests |-> IF Unfrozen(rows[i]) THEN [rows[i] EXCEPT !.due = at, !.state = "pending"] ELSE rows[i]]
  ELSE LET kept == IF CurrentOf(rows) = {} THEN rows
                   ELSE Pruned([i \in Requests |-> [rows[i] EXCEPT !.current = FALSE]], FALSE)
       IN [kept EXCEPT ![Fresh(kept)] = [NoRow EXCEPT !.state = "pending", !.current = TRUE, !.due = at]]
ScheduleAt(rows, at) ==
  /\ req' = Accept(rows, at)
  /\ jobs' = jobs \cup {<<i, at>> : i \in CurrentOf(Accept(rows, at))}

\* releaseDueTx: a draft without released bytes or started work needs none,
\* and only the first publication waits for its date.
Begun == released \/ release # None \/ \E i \in Requests : req[i].plan # None
Wanted(c) == c.state = "published" \/ Begun
DueOf(c) == IF Begun \/ Passed(c.at) THEN "now" ELSE "later"
SchedulePublication(c) ==
  IF Wanted(c) THEN ScheduleAt(req, DueOf(c)) ELSE UNCHANGED <<req, jobs>>

(***************************************************************************)
(* The catalog and the manifest                                            *)
(***************************************************************************)
\* mutate commits the row and the intent together.
Write(c) ==
  /\ writes < Writes /\ Eventful /\ HasRoom
  /\ writes' = writes + 1
  /\ cat' = c /\ SchedulePublication(c)
  /\ UNCHANGED <<opened, media, notice, fence, release, released, lock, run, faults>>

Publish(at) == cat.state # "deleted" /\ Write([cat EXCEPT !.state = "published", !.at = at])
Unpublish == cat.state = "published" /\ Write([cat EXCEPT !.state = "draft", !.at = None])
Update == cat.state # "deleted" /\ Write([cat EXCEPT !.free = ~ @])
Delete == cat.state # "deleted" /\ Write([cat EXCEPT !.state = "deleted", !.was = cat.state])
RestoredState == IF cat.published \/ cat.at # None THEN "published" ELSE "draft"
Restore == cat.state = "deleted" /\ Write([cat EXCEPT !.state = RestoredState])

\* The writer syncs the fence after its commit, if it lives; the rows stay
\* share-locked meanwhile.
Fenced == cat.state = "deleted"
SyncFences ==
  /\ fence # Fenced
  /\ fence' = Fenced
  /\ UNCHANGED <<cat, opened, media, notice, req, release, released, jobs, lock, run, writes, faults>>

Open ==
  /\ ~ opened
  /\ opened' = TRUE
  /\ UNCHANGED <<cat, media, notice, fence, req, release, released, jobs, lock, run, writes, faults>>

\* The author replaces the file: its rendition is gone from the manifest.
Upload ==
  /\ media.rev <= Uploads /\ Eventful /\ cat.state # "deleted"
  /\ media' = [media EXCEPT !.rev = @ + 1, !.file = None]
  /\ notice' = TRUE
  /\ UNCHANGED <<cat, opened, fence, req, release, released, jobs, lock, run, writes, faults>>

\* itemCommitted reads the newest state, whenever it runs.
ItemCommitted ==
  /\ notice /\ HasRoom
  /\ notice' = FALSE /\ SchedulePublication(cat)
  /\ UNCHANGED <<cat, opened, media, fence, release, released, lock, run, writes, faults>>

\* wakePublicationTx: readiness resumes what was accepted, at its own date,
\* or at once behind a completed release.
WakeDue(row) == IF released /\ release # None /\ req[release].state = "completed" THEN "now" ELSE row.due
Processed ==
  /\ media.file = None /\ HasRoom
  /\ media' = [media EXCEPT !.file = Blob(media.rev, "internal", 0)]
  /\ IF CurrentOf(req) = {} THEN SchedulePublication(cat)
     ELSE \E i \in CurrentOf(req) : ScheduleAt(req, WakeDue(req[i]))
  /\ UNCHANGED <<cat, opened, notice, fence, release, released, lock, run, writes, faults>>

(***************************************************************************)
(* planRelease                                                             *)
(***************************************************************************)
Prior == IF release = None THEN None ELSE req[release].result
Live(c) == c.state = "published" /\ Passed(c.at)
Area(c) == IF ~ Live(c) THEN "internal" ELSE IF c.free THEN "public" ELSE "private"

\* A deleted edition keeps its completed snapshot for a restore.
Retaining == Prior # None /\ Prior.released /\ cat.state = "deleted"
Retained == [Prior EXCEPT !.fp.retained = TRUE, !.copies = {[src |-> b, area |-> b.area] : b \in Prior.view},
                          !.previous = Deliveries, !.next = None, !.retained = TRUE]

\* The file is there for good once it is processed, so the branch for a release
\* whose kind has since come to require an upload it lacks is left out.
Planned ==
  LET files == IF media.file = None THEN {} ELSE {media.file} IN
  [fp |-> [rev |-> media.rev, ready |-> files # {}, area |-> Area(cat), state |-> cat.state, free |-> cat.free, retained |-> FALSE],
   view |-> IF Live(cat) THEN files ELSE {},
   copies |-> {[src |-> b, area |-> Area(cat)] : b \in {b \in files : Live(cat) \/ b.area # "internal"}},
   previous |-> Deliveries, released |-> Live(cat), retained |-> FALSE, waiting |-> Live(cat) /\ files = {},
   next |-> IF cat.state = "published" /\ ~ Live(cat) THEN "later" ELSE None]
PlanRelease == IF Retaining THEN Retained ELSE Planned

\* The live release already serves the plan, and nothing else is delivered.
Serves(plan) == Prior # None /\ Prior.fp = plan.fp
StorageIgnored(plan) == TRUE
StorageSettled(plan) == plan.previous = {release} /\ \A c \in plan.copies : c.src.area = c.area

(***************************************************************************)
(* publicationWorker                                                       *)
(***************************************************************************)
Goto(w, pc) == run' = [run EXCEPT ![w].pc = pc]
Done(w) == run' = [run EXCEPT ![w] = Idle] /\ lock' = IF lock = w THEN None ELSE lock
Idles(w) == run' = run /\ lock' = lock

\* Work repeats the fence sync even for a superseded request.
Superseded(row) == (~ row.current /\ row.state # "retiring") \/ row.state = "completed"
Early(row) == row.state # "retiring" /\ ~ Passed(row.due)
SyncedCurrent(row) == row.state # "none" /\ ~ Superseded(row)
Synced(row) == row.state # "none"

Take(w, j) ==
  LET row == req[j[1]] IN
  /\ run[w].pc = "idle" /\ j \in jobs /\ Passed(j[2])
  /\ fence' = IF Synced(row) THEN Fenced ELSE fence
  /\ jobs' = (jobs \ {j}) \cup (IF ~ Superseded(row) /\ Early(row) THEN {<<j[1], "later">>} ELSE {})
  /\ run' = IF Superseded(row) \/ Early(row) \/ row.state = "none" THEN run ELSE [run EXCEPT ![w] = [Idle EXCEPT !.pc = "lock", !.id = j[1]]]
  /\ UNCHANGED <<cat, opened, media, notice, req, release, released, lock, writes, faults>>

\* An older swap may still have deliveries to withdraw: that comes first.
Others(id) == {i \in Requests : req[i].state = "retiring" /\ i # id}
Retire(r, i) == [r EXCEPT !.pc = "withdraw", !.ret = i, !.plan = req[i].result, !.old = req[i].result.previous \ {i}]

LockSource(w) ==
  /\ run[w].pc = "lock" /\ lock = None
  /\ lock' = w /\ Goto(w, "drain")
  /\ UNCHANGED <<cat, opened, media, notice, fence, req, release, released, jobs, writes, faults>>

Drain(w) ==
  /\ run[w].pc = "drain"
  /\ IF Others(run[w].id) = {} THEN Goto(w, "prepare")
     ELSE \E i \in Others(run[w].id) : run' = [run EXCEPT ![w] = Retire(@, i)]
  /\ UNCHANGED <<cat, opened, media, notice, fence, req, release, released, jobs, lock, writes, faults>>

\* The plan is frozen with the row, once it is ready.
Prepare(w) ==
  LET id == run[w].id  row == req[id]  plan == PlanRelease IN
  /\ run[w].pc = "prepare"
  /\ \/ /\ row.state = "retiring"
        /\ run' = [run EXCEPT ![w] = Retire(@, id)] /\ UNCHANGED <<req, jobs, lock>>
     \/ /\ row.state # "retiring" /\ (~ row.current \/ row.state = "completed")
        /\ Done(w) /\ UNCHANGED <<req, jobs>>
     \/ /\ row.state # "retiring" /\ ~ Superseded(row)
        /\ \/ /\ Early(row)
              /\ jobs' = jobs \cup {<<id, "later">>} /\ Done(w) /\ UNCHANGED req
           \/ /\ ~ Early(row) /\ row.plan # None
              /\ run' = [run EXCEPT ![w].pc = "copy", ![w].plan = row.plan] /\ UNCHANGED <<req, jobs, lock>>
           \/ /\ ~ Early(row) /\ row.plan = None /\ plan.waiting
              /\ req' = [req EXCEPT ![id].state = "waiting"] /\ Done(w) /\ UNCHANGED jobs
           \/ /\ ~ Early(row) /\ row.plan = None /\ ~ plan.waiting /\ Serves(plan) /\ StorageSettled(plan)
              /\ LET rows == [req EXCEPT ![id].state = "completed"] IN
                 IF plan.next = None THEN req' = rows /\ UNCHANGED jobs ELSE Spare(rows) # {} /\ ScheduleAt(rows, plan.next)
              /\ Done(w)
           \/ /\ ~ Early(row) /\ row.plan = None /\ ~ plan.waiting /\ ~ (Serves(plan) /\ StorageSettled(plan))
              /\ req' = [req EXCEPT ![id].state = "running", ![id].plan = plan]
              /\ run' = [run EXCEPT ![w].pc = "copy", ![w].plan = plan] /\ UNCHANGED <<jobs, lock>>
  /\ UNCHANGED <<cat, opened, media, notice, fence, release, released, writes, faults>>

\* A failed job records it in its row and is retried.
FailedRow(row) == IF row.current /\ row.state \notin {"retiring", "completed"} THEN [row EXCEPT !.state = "failed"] ELSE row
Failed(w) ==
  /\ req' = [req EXCEPT ![run[w].id] = FailedRow(@)]
  /\ jobs' = jobs \cup {<<run[w].id, "now">>}
  /\ Done(w)

\* PreparePromotion pins sources and destinations before anything is written.
Copied(c, id) == IF c.src.area = c.area THEN c.src ELSE Blob(c.src.rev, c.area, id)
PreparePromotion(w) ==
  LET id == run[w].id  copies == run[w].plan.copies  known == {c.src : c \in copies} \subseteq Known IN
  /\ run[w].pc = "copy"
  /\ \/ /\ req[id].spent \/ (media.dels[id] = None /\ ~ known)
        /\ Failed(w) /\ UNCHANGED media
     \/ /\ ~ req[id].spent /\ (media.dels[id] # None \/ known)
        /\ media' = IF media.dels[id] # None THEN media
                    ELSE [media EXCEPT !.dels[id] = [files |-> {[src |-> c.src, dst |-> Copied(c, id)] : c \in copies},
                                                     adopted |-> FALSE, ready |-> FALSE]]
        /\ Goto(w, "promote") /\ UNCHANGED <<req, jobs, lock>>
  /\ UNCHANGED <<cat, opened, notice, fence, release, released, writes, faults>>

\* Promote copies, and adopts the destinations in the manifest, once.  What
\* it replaced is deleted before a second edit says that the delivery is
\* ready, which is MarkReady.  The run's view moves to the destinations.
Destination(b, files) == IF \E c \in files : c.src = b THEN (CHOOSE c \in files : c.src = b).dst ELSE b
Promote(w) ==
  LET d == media.dels[run[w].id]  files == d.files IN
  /\ run[w].pc = "promote"
  /\ \/ /\ d = None
        /\ Failed(w) /\ UNCHANGED media
     \/ /\ d # None
        /\ media' = IF d.adopted THEN media
                    ELSE [media EXCEPT !.file = IF @ = None THEN None ELSE Destination(@, files), !.dels[run[w].id].adopted = TRUE]
        /\ run' = [run EXCEPT ![w].pc = IF d.ready THEN "activate" ELSE "ready", ![w].plan.view = {Destination(b, files) : b \in @}]
        /\ UNCHANGED <<req, jobs, lock>>
  /\ UNCHANGED <<cat, opened, notice, fence, release, released, writes, faults>>

MarkReady(w) ==
  LET id == run[w].id IN
  /\ run[w].pc = "ready"
  /\ \/ /\ media.dels[id] = None
        /\ Failed(w) /\ UNCHANGED media
     \/ /\ media.dels[id] # None
        /\ media' = [media EXCEPT !.dels[id].ready = TRUE]
        /\ Goto(w, "activate") /\ UNCHANGED <<req, jobs, lock>>
  /\ UNCHANGED <<cat, opened, notice, fence, release, released, writes, faults>>

\* Under the catalog's locks the plan must still be what is wanted.
Stale(plan) == PlanRelease.fp # plan.fp \/ PlanRelease.waiting
Activate(w) ==
  LET id == run[w].id  plan == run[w].plan IN
  /\ run[w].pc = "activate"
  /\ \/ /\ req[id].state = "none"
        /\ Failed(w) /\ UNCHANGED <<release, released, cat>>
     \/ /\ req[id].state # "none" /\ ~ req[id].current
        /\ Done(w) /\ UNCHANGED <<req, jobs, release, released, cat>>
     \/ /\ req[id].current /\ Stale(plan) /\ HasRoom
        /\ ScheduleAt(req, "now") /\ Done(w) /\ UNCHANGED <<release, released, cat>>
     \/ /\ req[id].current /\ ~ Stale(plan)
        /\ req' = [req EXCEPT ![id].state = "retiring", ![id].result = plan]
        /\ release' = id /\ released' = plan.released
        /\ cat' = [cat EXCEPT !.published = @ \/ (plan.released /\ ~ plan.retained)]
        /\ run' = [run EXCEPT ![w].pc = "withdraw", ![w].ret = id, ![w].old = plan.previous \ {id}]
        /\ UNCHANGED <<jobs, lock>>
  /\ UNCHANGED <<opened, media, notice, fence, writes, faults>>

\* A run that retired another request's deliveries goes on with its own.
Retired(w) ==
  IF run[w].ret = run[w].id THEN Done(w)
  ELSE run' = [run EXCEPT ![w] = [Idle EXCEPT !.pc = "drain", !.id = run[w].id]] /\ UNCHANGED lock

\* finishRetirement withdraws every delivery before the release, then
\* completes the request.  A first edit marks a delivery withdrawn, which the
\* journal remembers; after its files are deleted RemoveWithdrawn, a second
\* edit, takes the entry out.
WithdrawPromotion(w, old) ==
  /\ run[w].pc = "withdraw" /\ old \in run[w].old /\ media.dels[old] # None
  /\ media' = [media EXCEPT !.dels[old] = None, !.withdrawn = @ \cup {old}]
  /\ req' = [req EXCEPT ![old].spent = TRUE]
  /\ UNCHANGED <<cat, opened, notice, fence, release, released, jobs, lock, run, writes, faults>>

RemoveWithdrawn(w, old) ==
  /\ run[w].pc = "withdraw" /\ old \in run[w].old /\ media.dels[old] = None
  /\ media' = [media EXCEPT !.withdrawn = @ \ {old}]
  /\ run' = [run EXCEPT ![w].old = @ \ {old}]
  /\ UNCHANGED <<cat, opened, notice, fence, req, release, released, jobs, lock, writes, faults>>

FinishRetirement(w) ==
  LET i == run[w].ret  next == run[w].plan.next
      rows == Pruned([req EXCEPT ![i].state = "completed", ![i].plan = None], TRUE) IN
  /\ run[w].pc = "withdraw" /\ run[w].old = {}
  /\ \/ /\ req[i].state = "retiring"
        /\ IF req[i].current /\ next # None THEN Spare(rows) # {} /\ ScheduleAt(rows, next) ELSE req' = rows /\ UNCHANGED jobs
        /\ Retired(w)
     \/ /\ req[i].state = "completed"
        /\ Retired(w) /\ UNCHANGED <<req, jobs>>
     \/ /\ req[i].state = "none"
        /\ jobs' = jobs \cup {<<run[w].id, "now">>}
        /\ Done(w) /\ UNCHANGED req
  /\ UNCHANGED <<cat, opened, media, notice, fence, release, released, writes, faults>>

(***************************************************************************)
(* Faults: a step fails, or the process stops and the job is rescued       *)
(***************************************************************************)
Fail(w) ==
  /\ run[w].pc \notin {"idle", "lock", "drain"} /\ run[w].ret \in {None, run[w].id} /\ faults < MaxFaults /\ Eventful
  /\ faults' = faults + 1 /\ Failed(w)
  /\ UNCHANGED <<cat, opened, media, notice, fence, release, released, writes>>

Crash(w) ==
  /\ run[w].pc # "idle" /\ faults < MaxFaults /\ Eventful
  /\ faults' = faults + 1
  /\ jobs' = jobs \cup {<<run[w].id, "now">>} /\ Done(w)
  /\ UNCHANGED <<cat, opened, media, notice, fence, req, release, released, writes>>

\* The lock ends with its session; its holder does not notice.
LoseLock(w) ==
  /\ lock = w /\ faults < MaxFaults /\ Eventful
  /\ faults' = faults + 1 /\ lock' = None
  /\ UNCHANGED <<cat, opened, media, notice, fence, req, release, released, jobs, run, writes>>

Work(w) ==
  \/ \E j \in jobs : Take(w, j)
  \/ LockSource(w) \/ Drain(w) \/ Prepare(w)
  \/ PreparePromotion(w) \/ Promote(w) \/ MarkReady(w) \/ Activate(w)
  \/ \E old \in Requests : WithdrawPromotion(w, old) \/ RemoveWithdrawn(w, old)
  \/ FinishRetirement(w)

Next ==
  \/ Publish("now") \/ (~ opened /\ Publish("later")) \/ Unpublish \/ Update \/ Delete \/ Restore
  \/ SyncFences \/ Open \/ Upload \/ ItemCommitted \/ Processed
  \/ \E w \in Workers : Work(w) \/ Fail(w) \/ Crash(w) \/ LoseLock(w)

\* Workers go on, processing finishes, callbacks arrive and time passes.
\* The writer's own fence sync may be lost.
Spec == Init /\ [][Next]_vars /\ WF_vars(Open) /\ WF_vars(ItemCommitted) /\ WF_vars(Processed)
             /\ \A w \in Workers : WF_vars(Work(w))

(***************************************************************************)
(* Properties                                                              *)
(***************************************************************************)
Catalog == [state : States, at : Dues \cup {None}, published : BOOLEAN, free : BOOLEAN, was : States]
Rows == [state : {"none", "pending", "waiting", "running", "failed", "retiring", "completed"}, current : BOOLEAN,
         due : Dues, plan : Plans \cup {None}, result : Plans \cup {None}, spent : BOOLEAN]
Runs == [pc : {"idle", "lock", "drain", "prepare", "copy", "promote", "ready", "activate", "withdraw"},
         id : Requests \cup {None}, plan : Plans \cup {None}, old : SUBSET Requests, ret : Requests \cup {None}]

Types ==
  /\ cat \in Catalog /\ {opened, notice, fence, released} \subseteq BOOLEAN
  /\ media \in [rev : Nat, file : Blobs \cup {None}, dels : [Requests -> Copies \cup {None}], withdrawn : SUBSET Requests]
  /\ req \in [Requests -> Rows] /\ release \in Requests \cup {None}
  /\ jobs \subseteq Requests \X Dues /\ lock \in Workers \cup {None} /\ run \in [Workers -> Runs]
  /\ writes \in Nat /\ faults \in Nat

\* Readers' release names a request that is kept, and one request is current.
TypeOK ==
  /\ Types
  /\ Cardinality(CurrentOf(req)) <= 1
  /\ release # None => req[release].state \in {"retiring", "completed"} /\ Prior # None
  /\ \A w \in Workers : lock = w => run[w].pc \notin {"idle", "lock"}

\* What readers are given stays in storage: no withdrawal, edit or newer
\* plan takes the bytes of the release that is active.
ServedStays == release # None => Prior.view \subseteq Known

\* Both hold.
ReleaseOK == TypeOK /\ ServedStays

\* Readers get what the catalog and the manifest say in the end, whatever
\* was superseded, lost or retried on the way.
InSync == IF release = None THEN ~ Wanted(cat) ELSE Prior.fp = PlanRelease.fp
ReadersCatchUp == []<>InSync

\* A copy outside the internal area is part of the release, or behind the
\* fence of a deleted edition: also the copies of a superseded plan that
\* never became a release are withdrawn, and no withdrawal stops halfway.
NothingLeft ==
  []<>(/\ media.withdrawn = {}
       /\ fence \/ \A b \in Known : b.area # "internal" => release # None /\ b \in Prior.view)

\* The fence of an edition that readers have had follows the catalog, even
\* if the writer stops between its commit and its own sync.
FenceFollows == []<>(fence = Fenced \/ ~ cat.published)

\* "The publication job the same write scheduled syncs again, so a crash
\* cannot leave the fence stale" (fences.go:18-19).
NeverStale == []<>(fence = Fenced)

\* Restoring brings an item back as it was.
RestoresAsWas == [][cat.state = "deleted" /\ cat'.state # "deleted" => cat'.state = cat.was]_vars
================================================================================
