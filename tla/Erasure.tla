-------------------------------- MODULE Erasure --------------------------------
(***************************************************************************)
(* Deleting, restoring and erasing the editions of one content item        *)
(* (src/internal/catalogstore: write.go, version_lifecycle.go, jobs.go,    *)
(* import.go; src/internal/versionstore: lifecycle.go, fences.go;          *)
(* src/internal/mediastore: fence.go, erasure.go, journal.go).             *)
(*                                                                         *)
(* The catalog rows decide; the gateway's fences follow.  A sync reads and *)
(* writes one fence while it holds the rows FOR SHARE.  A purge commits an *)
(* irreversible claim, erases storage without any lock, and then removes   *)
(* the rows that are still eligible.  A fence is an empty object, so its   *)
(* ETag tells that it exists, not of which kind it is.                     *)
(***************************************************************************)
EXTENDS Naturals

CONSTANTS
  Versions,  \* editions the item may have
  Syncers,   \* fence syncs at a time
  Purgers,   \* purge passes at a time
  First,     \* the edition it starts with
  Writes,    \* bound on catalog writes
  MaxFaults, \* bound on failed storage calls and crashes
  None

ASSUME ErasureAssumption == First \in Versions /\ None \notin Versions /\ Writes \in Nat /\ MaxFaults \in Nat

VARIABLES
  item,   \* catalog_items: [state, auto, old], auto is deleted_without_versions
  ver,    \* catalog_versions: [state, old], old once its retention passed
  claims, \* journal rows with effects.erasure
  fence,  \* the gateway fence of each edition
  bytes,  \* editions with stored media
  own,    \* syncs the writers are about to make
  due,    \* syncs owed by publication jobs
  sync,   \* what each sync is doing
  purge,  \* what each purge pass is doing
  writes, faults

vars == <<item, ver, claims, fence, bytes, own, due, sync, purge, writes, faults>>
rows == <<item, ver>>

Live == [state |-> "live", old |-> FALSE]
LiveItem == [state |-> "live", auto |-> FALSE, old |-> FALSE]
Quiet == [v |-> None, job |-> FALSE, saw |-> "none"]
Idle == [pc |-> "idle", whole |-> FALSE, targets |-> {}, left |-> {}, v |-> None, saw |-> "none", failed |-> FALSE]

Init ==
  /\ item = LiveItem
  /\ ver = [v \in Versions |-> IF v = First THEN Live ELSE [state |-> "none", old |-> FALSE]]
  /\ claims = {} /\ fence = [v \in Versions |-> "none"] /\ bytes = {First}
  /\ own = {} /\ due = {}
  /\ sync = [s \in Syncers |-> Quiet] /\ purge = [p \in Purgers |-> Idle]
  /\ writes = 0 /\ faults = 0

Exists(v) == ver[v].state \in {"live", "deleted"}
LiveVersions == {v \in Versions : ver[v].state = "live"}
Deleted(v) == item.state = "deleted" \/ ver[v].state = "deleted"

\* Syncs hold the rows FOR SHARE, so a write waits for them.
Unlocked == \A s \in Syncers : sync[s].v = None

(***************************************************************************)
(* Catalog writes                                                          *)
(***************************************************************************)
FenceOnly(v) == fence[v] = "erased"
ErasureStarted(v) == v \in claims \/ fence[v] = "erased"
RestorableAlways(targets) == TRUE
Restorable(targets) == \A v \in targets : ~ ErasureStarted(v)

\* One transaction: the rows, the publication jobs and the writer's sync.
Write(row, versions, targets) ==
  /\ Unlocked /\ writes < Writes /\ item.state # "gone"
  /\ writes' = writes + 1
  /\ item' = row /\ ver' = versions
  /\ due' = due \cup targets /\ own' = own \cup targets
  /\ UNCHANGED <<claims, fence, sync, purge, faults>>

All == {v \in Versions : Exists(v)}
JustDeleted(row) == [row EXCEPT !.state = "deleted", !.old = FALSE]

Open == item.state = "live" \/ item.auto

\* An owner's or an import's deletion, also of a parent deleted for being empty.
DeleteItem ==
  /\ Open
  /\ Write([JustDeleted(item) EXCEPT !.auto = FALSE], ver, All) /\ UNCHANGED bytes

RestoreItem ==
  /\ item.state = "deleted" /\ ~ item.auto /\ Restorable(LiveVersions)
  /\ Write(LiveItem, ver, All) /\ UNCHANGED bytes

\* Removing the last undeleted edition deletes its parent.
DeleteVersion(v) ==
  /\ ver[v].state = "live"
  /\ Write(IF item.state = "live" /\ LiveVersions = {v} THEN [JustDeleted(item) EXCEPT !.auto = TRUE] ELSE item,
           [ver EXCEPT ![v] = JustDeleted(@)], IF item.state = "live" /\ LiveVersions = {v} THEN All ELSE {v})
  /\ UNCHANGED bytes

\* An edition comes back, or a new one is added, and with it a parent that
\* was deleted only for having none.
NotRevived == item
Revived == IF item.auto THEN LiveItem ELSE item
RestoreVersion(v) ==
  /\ Open /\ ver[v].state = "deleted" /\ Restorable({v})
  /\ Write(Revived, [ver EXCEPT ![v] = Live], IF item.auto THEN All ELSE {v})
  /\ UNCHANGED bytes
AddVersion(v) ==
  /\ Open /\ ver[v].state = "none"
  /\ Write(Revived, [ver EXCEPT ![v] = Live], All \cup {v})
  /\ bytes' = bytes \cup {v}

\* An import writes the item and an edition as its record says; nothing asks
\* whether their erasure was claimed.
Import(v) ==
  /\ Exists(v)
  /\ Write(LiveItem, [ver EXCEPT ![v] = Live], All) /\ UNCHANGED bytes

\* The retention of what is deleted passes.  A pass takes its cutoff when it
\* starts, so what expires later, above all a row deleted again, is the
\* next pass's.
Expire ==
  /\ \A p \in Purgers : purge[p].pc = "idle"
  /\ \/ /\ item.state = "deleted" /\ ~ item.old
        /\ item' = [item EXCEPT !.old = TRUE] /\ UNCHANGED ver
     \/ \E v \in Versions : /\ ver[v].state = "deleted" /\ ~ ver[v].old
                            /\ ver' = [ver EXCEPT ![v].old = TRUE] /\ UNCHANGED item
  /\ UNCHANGED <<claims, fence, bytes, own, due, sync, purge, writes, faults>>

(***************************************************************************)
(* SyncFences                                                              *)
(***************************************************************************)
\* The rows are locked and the fence is read.
BeginSync(s, v, job) ==
  /\ sync[s].v = None /\ v \in (IF job THEN due ELSE own)
  /\ IF Exists(v) THEN /\ sync' = [sync EXCEPT ![s] = [v |-> v, job |-> job, saw |-> fence[v]]]
                       /\ UNCHANGED due
     ELSE /\ due' = (IF job THEN due \ {v} ELSE due) /\ UNCHANGED sync
  /\ own' = IF job THEN own ELSE own \ {v}
  /\ UNCHANGED <<item, ver, claims, fence, bytes, purge, writes, faults>>

\* FenceDeleted: a deletion fence is put where none is, and only a deletion
\* fence is removed.
FollowedDown(deleted, saw, now) == IF deleted /\ saw = "none" /\ now = "none" THEN "deleted" ELSE now
Followed(deleted, saw, now) ==
  IF deleted /\ saw = "none" THEN (IF now = "none" THEN "deleted" ELSE now)
  ELSE IF ~ deleted /\ saw = "deleted" THEN "none" ELSE now
Follow(s) == [fence EXCEPT ![sync[s].v] = Followed(Deleted(sync[s].v), sync[s].saw, @)]
EndSync(s) ==
  /\ sync[s].v # None
  /\ fence' = Follow(s)
  /\ due' = IF sync[s].job THEN due \ {sync[s].v} ELSE due
  /\ sync' = [sync EXCEPT ![s] = Quiet]
  /\ UNCHANGED <<item, ver, claims, bytes, own, purge, writes, faults>>

\* A storage call fails, done or not; a job is retried.
FailSync(s) ==
  /\ sync[s].v # None /\ faults < MaxFaults
  /\ faults' = faults + 1
  /\ fence' \in {fence, Follow(s)}
  /\ sync' = [sync EXCEPT ![s] = Quiet]
  /\ UNCHANGED <<item, ver, claims, bytes, own, due, purge, writes>>

(***************************************************************************)
(* PurgeDeleted                                                            *)
(***************************************************************************)
ExpiredItem == item.state = "deleted" /\ item.old
ExpiredVersion(v) == ver[v].state = "deleted" /\ ver[v].old

\* erase and eraseVersionBatch: the claim is committed before any storage
\* call.  Locked rows are skipped.
Claim(p, whole, targets) ==
  /\ purge[p].pc = "idle" /\ Unlocked
  /\ claims' = claims \cup targets
  /\ purge' = [purge EXCEPT ![p] = [Idle EXCEPT !.pc = "next", !.whole = whole, !.targets = targets, !.left = targets]]
  /\ UNCHANGED <<item, ver, fence, bytes, own, due, sync, writes, faults>>
ClaimItem(p) == ExpiredItem /\ Claim(p, TRUE, All)
ClaimVersion(p, v) == ~ ExpiredItem /\ item.state # "gone" /\ ExpiredVersion(v) /\ Claim(p, FALSE, {v})

\* fenceErasure: the fence is read, then replaced if it is still as read.
LookErasure(p, v) ==
  /\ purge[p].pc = "next" /\ v \in purge[p].left
  /\ purge' = [purge EXCEPT ![p].pc = IF fence[v] = "erased" THEN "erase" ELSE "put", ![p].v = v, ![p].saw = fence[v]]
  /\ UNCHANGED <<item, ver, claims, fence, bytes, own, due, sync, writes, faults>>

Onward(pass, left) == [pass EXCEPT !.pc = "next", !.left = left, !.v = None, !.saw = "none"]
Matches(saw, now) == (saw = "none") = (now = "none")
PutErasure(p) ==
  LET v == purge[p].v IN
  /\ purge[p].pc = "put"
  /\ IF Matches(purge[p].saw, fence[v])
     THEN fence' = [fence EXCEPT ![v] = "erased"] /\ purge' = [purge EXCEPT ![p].pc = "erase"]
     ELSE fence' = fence /\ purge' = [purge EXCEPT ![p] = Onward(@, @.left)]
  /\ UNCHANGED <<item, ver, claims, bytes, own, due, sync, writes, faults>>

\* Erase then deletes the bytes and verifies that none are left.
EraseBytes(p) ==
  /\ purge[p].pc = "erase"
  /\ bytes' = bytes \ {purge[p].v}
  /\ purge' = [purge EXCEPT ![p] = Onward(@, @.left \ {@.v})]
  /\ UNCHANGED <<item, ver, claims, fence, own, due, sync, writes, faults>>

\* One edition's erasure fails: the others go on, the row stays.
FailErase(p) ==
  /\ purge[p].pc \in {"put", "erase"} /\ faults < MaxFaults
  /\ faults' = faults + 1
  /\ purge' = [purge EXCEPT ![p] = [Onward(@, @.left \ {@.v}) EXCEPT !.failed = TRUE]]
  /\ UNCHANGED <<item, ver, claims, fence, bytes, own, due, sync, writes>>

\* Rows are removed if they are still what was claimed.
AnyExpired(p) == item.state # "gone"
StillExpired(p) == IF purge[p].whole THEN ExpiredItem ELSE \A v \in purge[p].targets : ExpiredVersion(v)
Removed(p) == IF purge[p].whole THEN All ELSE purge[p].targets
Remove(p) ==
  /\ purge[p].pc = "next" /\ purge[p].left = {} /\ Unlocked
  /\ IF ~ purge[p].failed /\ StillExpired(p)
     THEN /\ item' = IF purge[p].whole THEN [item EXCEPT !.state = "gone"] ELSE item
          /\ ver' = [v \in Versions |-> IF v \in Removed(p) THEN [ver[v] EXCEPT !.state = "gone"] ELSE ver[v]]
     ELSE UNCHANGED rows
  /\ purge' = [purge EXCEPT ![p] = Idle]
  /\ UNCHANGED <<claims, fence, bytes, own, due, sync, writes, faults>>

Crash(p) ==
  /\ purge[p].pc # "idle" /\ faults < MaxFaults
  /\ faults' = faults + 1
  /\ purge' = [purge EXCEPT ![p] = Idle]
  /\ UNCHANGED <<item, ver, claims, fence, bytes, own, due, sync, writes>>

Edit ==
  \/ DeleteItem \/ RestoreItem
  \/ \E v \in Versions : DeleteVersion(v) \/ RestoreVersion(v) \/ AddVersion(v)
Sync(s) == EndSync(s) \/ \E v \in Versions, job \in BOOLEAN : BeginSync(s, v, job)
Purge(p) ==
  \/ ClaimItem(p) \/ \E v \in Versions : ClaimVersion(p, v) \/ LookErasure(p, v)
  \/ PutErasure(p) \/ EraseBytes(p) \/ Remove(p)

Next ==
  \/ Edit \/ Expire
  \/ \E s \in Syncers : Sync(s) \/ FailSync(s)
  \/ \E p \in Purgers : Purge(p) \/ FailErase(p) \/ Crash(p)

Spec == Init /\ [][Next]_vars
\* Jobs are retried, the purge is scheduled again and time passes; authors
\* may stop.
FairSpec == Spec /\ WF_vars(Expire) /\ \A s \in Syncers : WF_vars(Sync(s)) /\ \A p \in Purgers : WF_vars(Purge(p))
ImportSpec == Init /\ [][Next \/ \E v \in Versions : Import(v)]_vars

(***************************************************************************)
(* Properties                                                              *)
(***************************************************************************)
Fences == {"none", "deleted", "erased"}
Types ==
  /\ item \in [state : {"live", "deleted", "gone"}, auto : BOOLEAN, old : BOOLEAN]
  /\ ver \in [Versions -> [state : {"none", "live", "deleted", "gone"}, old : BOOLEAN]]
  /\ claims \subseteq Versions /\ fence \in [Versions -> Fences] /\ bytes \subseteq Versions
  /\ own \subseteq Versions /\ due \subseteq Versions
  /\ sync \in [Syncers -> [v : Versions \cup {None}, job : BOOLEAN, saw : Fences]]
  /\ purge \in [Purgers -> [pc : {"idle", "next", "put", "erase"}, whole : BOOLEAN, targets : SUBSET Versions, left : SUBSET Versions,
                            v : Versions \cup {None}, saw : Fences, failed : BOOLEAN]]
  /\ writes \in Nat /\ faults \in Nat

\* Types; a parent deleted for having no editions has none, also after
\* editions were restored, added and erased beside each other.
TypeOK == Types /\ (item.state = "deleted" /\ item.auto => LiveVersions = {})

\* What is being erased is never readable again: a claim outlives failed
\* purges, crashes and every way to restore an edition or its parent.
ClaimedStaysDeleted == \A v \in claims : ~ (ver[v].state = "live" /\ item.state = "live")

\* A row goes only when its media has gone and its permanent fence stands.
GoneIsErased == \A v \in Versions : ver[v].state = "gone" => v \notin bytes /\ fence[v] = "erased"

\* A permanent fence is never removed or turned back into a deletion's,
\* whatever syncs run beside the erasure.
ErasureStays == [][\A v \in Versions : fence[v] = "erased" => fence'[v] = "erased"]_vars

\* The gateway serves an edition in the end exactly if it is readable.
FencesSettle ==
  []<>(\A v \in Versions : Exists(v) => (fence[v] = "none") = ~ Deleted(v))

\* What is claimed goes in the end, whichever purge claimed it and whatever
\* authors did to its parent meanwhile.
ClaimedGoes == \A v \in Versions : v \in claims ~> ver[v].state = "gone"
================================================================================
