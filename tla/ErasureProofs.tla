----------------------------- MODULE ErasureProofs -----------------------------
(***************************************************************************)
(* Erasure's safety for any editions, syncs, purges, writes and faults.    *)
(*                                                                         *)
(* The argument: a claim is committed while its edition is deleted, and    *)
(* every way back asks for it under the same locks, so what is claimed     *)
(* stays deleted.  A permanent fence stands only over a claim, and a sync  *)
(* removes a fence only for an edition that is readable, whose rows it     *)
(* holds: so it never removes a permanent one.  A purge removes what it    *)
(* claimed, because a parent that got another edition was revived, and     *)
(* then its deletion is younger than the pass.                             *)
(***************************************************************************)
EXTENDS Erasure, TLAPS

Claimed == \A v \in claims : ver[v].state # "none" /\ ~ (ver[v].state = "live" /\ item.state = "live")
ErasedClaimed == \A v \in Versions : fence[v] = "erased" => v \in claims
GoneEmpty == item.state = "gone" => \A v \in Versions : ~ Exists(v)
SyncsHold == \A s \in Syncers : sync[s].v # None => Exists(sync[s].v)
Pass(p) ==
  /\ purge[p].targets \subseteq claims /\ purge[p].left \subseteq purge[p].targets
  /\ purge[p].pc \in {"put", "erase"} => purge[p].v \in purge[p].left
  /\ purge[p].pc = "erase" => fence[purge[p].v] = "erased"
  /\ ~ purge[p].failed => \A t \in purge[p].targets \ purge[p].left : t \notin bytes /\ fence[t] = "erased"
  /\ purge[p].pc # "idle" /\ purge[p].whole /\ ExpiredItem => All \subseteq purge[p].targets
Passes == \A p \in Purgers : Pass(p)
IInv == TypeOK /\ Claimed /\ ErasedClaimed /\ GoneEmpty /\ SyncsHold /\ Passes /\ GoneIsErased

(***************************************************************************)
(* Types                                                                   *)
(***************************************************************************)
LEMMA InitIInv == Init => IInv
<1> SUFFICES ASSUME Init PROVE IInv
  OBVIOUS
<1>1. Types
  <2>1. item \in [state : {"live", "deleted", "gone"}, auto : BOOLEAN, old : BOOLEAN]
    BY DEF Init, LiveItem
  <2>2. ver \in [Versions -> [state : {"none", "live", "deleted", "gone"}, old : BOOLEAN]]
    BY DEF Init, Live
  <2>3. claims \subseteq Versions /\ bytes \subseteq Versions /\ own \subseteq Versions /\ due \subseteq Versions
    BY ErasureAssumption DEF Init
  <2>4. fence \in [Versions -> Fences]
    BY DEF Init, Fences
  <2>5. sync \in [Syncers -> [v : Versions \cup {None}, job : BOOLEAN, saw : Fences]]
    BY DEF Init, Quiet, Fences
  <2>6. purge \in [Purgers -> [pc : {"idle", "next", "put", "erase"}, whole : BOOLEAN, targets : SUBSET Versions, left : SUBSET Versions,
                               v : Versions \cup {None}, saw : Fences, failed : BOOLEAN]]
    BY DEF Init, Idle, Fences
  <2> QED
    BY <2>1, <2>2, <2>3, <2>4, <2>5, <2>6 DEF Init, Types
<1>2. TypeOK /\ GoneEmpty
  BY <1>1 DEF Init, LiveItem, TypeOK, GoneEmpty
<1>3. Claimed /\ ErasedClaimed
  BY DEF Init, Claimed, ErasedClaimed
<1>4. SyncsHold
  BY DEF Init, Quiet, SyncsHold
<1>5. Passes
  BY DEF Init, Idle, Passes, Pass
<1>6. GoneIsErased
  BY DEF Init, Live, GoneIsErased
<1> QED
  BY <1>2, <1>3, <1>4, <1>5, <1>6 DEF IInv

(***************************************************************************)
(* Catalog writes                                                          *)
(***************************************************************************)
\* What a catalog write may change: editions come and go between live and
\* deleted, a new one appears, and nothing that is claimed becomes readable.
Rewritten ==
  /\ Types' /\ UNCHANGED <<claims, fence, sync, purge>> /\ Unlocked
  /\ item.state # "gone" /\ item'.state # "gone"
  /\ \A v \in Versions : (ver'[v].state = "gone") = (ver[v].state = "gone")
  /\ \A v \in claims : ver'[v].state # "none" /\ ~ (ver'[v].state = "live" /\ item'.state = "live")
  /\ \A v \in bytes' \ bytes : ver[v].state = "none"
  /\ item'.state = "deleted" /\ item'.auto => LiveVersions' = {}
  /\ ExpiredItem' => ExpiredItem /\ All' = All

LEMMA RewrittenKeeps == IInv /\ Rewritten => IInv'
<1> SUFFICES ASSUME IInv, Rewritten PROVE IInv'
  OBVIOUS
<1>1. TypeOK' /\ GoneEmpty'
  BY DEF Rewritten, TypeOK, GoneEmpty
<1>2. Claimed' /\ ErasedClaimed'
  BY DEF IInv, Rewritten, Claimed, ErasedClaimed
<1>3. SyncsHold'
  BY DEF Rewritten, Unlocked, SyncsHold
<1>4. GoneIsErased'
  BY DEF IInv, Rewritten, GoneIsErased
<1>5. ASSUME NEW p \in Purgers PROVE Pass(p)'
  <2>1. Pass(p) /\ claims \subseteq Versions
    BY DEF IInv, Passes, TypeOK, Types
  <2>2. \A t \in purge[p].targets : t \in bytes' => t \in bytes
    BY <2>1 DEF IInv, Claimed, Pass, Rewritten
  <2> QED
    BY <2>1, <2>2 DEF Pass, Rewritten
<1> QED
  BY <1>1, <1>2, <1>3, <1>4, <1>5 DEF IInv, Passes

LEMMA WriteTypes ==
  ASSUME Types, NEW row \in [state : {"live", "deleted"}, auto : BOOLEAN, old : BOOLEAN],
         NEW versions \in [Versions -> [state : {"none", "live", "deleted", "gone"}, old : BOOLEAN]],
         NEW targets \in SUBSET Versions, Write(row, versions, targets), bytes' \subseteq Versions
  PROVE  Types'
BY ErasureAssumption DEF Types, Write

LEMMA EditRewrites == IInv /\ Edit => Rewritten
<1> SUFFICES ASSUME IInv, Edit PROVE Rewritten
  OBVIOUS
<1> USE DEF Exists, All, LiveVersions
<1>0. Types /\ Claimed /\ All \in SUBSET Versions /\ (item.state = "deleted" /\ item.auto => LiveVersions = {})
  BY DEF IInv, TypeOK
<1>1. CASE DeleteItem
  <2> DEFINE row == [JustDeleted(item) EXCEPT !.auto = FALSE]
  <2>1. Write(row, ver, All) /\ bytes' = bytes
    BY <1>1 DEF DeleteItem
  <2>2. row \in [state : {"live", "deleted"}, auto : BOOLEAN, old : BOOLEAN] /\ row.state = "deleted" /\ ~ row.auto /\ ~ row.old
    BY <1>0 DEF Types, JustDeleted
  <2>3. Types'
    BY <1>0, <2>1, <2>2, WriteTypes DEF Types
  <2> HIDE DEF row
  <2> QED
    BY <1>0, <2>1, <2>2, <2>3 DEF Rewritten, Write, Claimed, ExpiredItem
<1>2. CASE RestoreItem
  <2>1. Write(LiveItem, ver, All) /\ bytes' = bytes /\ Restorable(LiveVersions)
    BY <1>2 DEF RestoreItem
  <2>2. Types'
    BY <1>0, <2>1, WriteTypes DEF Types, LiveItem
  <2>3. \A v \in claims : ver[v].state # "live"
    BY <1>0, <2>1 DEF Restorable, ErasureStarted, Types
  <2> QED
    BY <1>0, <2>1, <2>2, <2>3 DEF Rewritten, Write, Claimed, ExpiredItem, LiveItem
<1>3. ASSUME NEW v \in Versions, DeleteVersion(v) PROVE Rewritten
  <2> DEFINE last == item.state = "live" /\ LiveVersions = {v}
             row == IF last THEN [JustDeleted(item) EXCEPT !.auto = TRUE] ELSE item
             versions == [ver EXCEPT ![v] = JustDeleted(@)]
  <2>1. Write(row, versions, IF last THEN All ELSE {v}) /\ bytes' = bytes /\ ver[v].state = "live" /\ item.state # "gone"
    BY <1>3 DEF DeleteVersion, Write
  <2>2. /\ row \in [state : {"live", "deleted"}, auto : BOOLEAN, old : BOOLEAN]
        /\ row.state = "live" => item.state = "live"
        /\ row.state = "deleted" /\ row.old => row = item
        /\ row.state = "deleted" /\ row.auto => last \/ row = item
    BY <1>0, <2>1 DEF Types, JustDeleted
  <2>3. /\ versions \in [Versions -> [state : {"none", "live", "deleted", "gone"}, old : BOOLEAN]]
        /\ versions[v].state = "deleted"
        /\ \A w \in Versions \ {v} : versions[w] = ver[w]
    BY <1>0 DEF Types, JustDeleted
  <2> HIDE DEF row, versions
  <2>4. Types'
    BY <1>0, <2>1, <2>2, <2>3, WriteTypes DEF Types
  <2>5. item' = row /\ ver' = versions /\ Unlocked /\ UNCHANGED <<claims, fence, sync, purge>>
    BY <2>1 DEF Write
  <2>6. \A w \in claims : ver'[w].state # "none" /\ ~ (ver'[w].state = "live" /\ item'.state = "live")
    BY <1>0, <2>1, <2>2, <2>3, <2>5 DEF Claimed, Types
  <2>7. item'.state = "deleted" /\ item'.auto => LiveVersions' = {}
    BY <1>0, <2>1, <2>2, <2>3, <2>5
  <2>8. ExpiredItem' => ExpiredItem /\ All' = All
    BY <2>1, <2>2, <2>3, <2>5 DEF ExpiredItem
  <2> QED
    BY <2>1, <2>2, <2>3, <2>4, <2>5, <2>6, <2>7, <2>8 DEF Rewritten
<1>4. ASSUME NEW v \in Versions, RestoreVersion(v) \/ AddVersion(v) PROVE Rewritten
  <2> DEFINE versions == [ver EXCEPT ![v] = Live]
  <2>1. \E targets \in SUBSET Versions : Write(Revived, versions, targets)
    BY <1>0, <1>4 DEF RestoreVersion, AddVersion
  <2>2. Open /\ ver[v].state \in {"deleted", "none"} /\ v \notin claims /\ item.state # "gone" /\ bytes' \ bytes \subseteq {w \in {v} : ver[w].state = "none"}
    <3>1. CASE RestoreVersion(v)
      BY <1>0, <3>1 DEF RestoreVersion, Restorable, ErasureStarted, Write
    <3>2. CASE AddVersion(v)
      BY <1>0, <3>2 DEF AddVersion, Claimed, Write
    <3> QED
      BY <1>4, <3>1, <3>2
  <2>3. /\ versions \in [Versions -> [state : {"none", "live", "deleted", "gone"}, old : BOOLEAN]]
        /\ versions[v].state = "live"
        /\ \A w \in Versions \ {v} : versions[w] = ver[w]
    BY <1>0 DEF Types, Live
  <2>4. /\ Revived \in [state : {"live", "deleted"}, auto : BOOLEAN, old : BOOLEAN]
        /\ Revived.state = "live"
        /\ item.state = "live" \/ LiveVersions = {}
    BY <1>0, <2>2 DEF Types, Revived, LiveItem, Open
  <2> HIDE DEF versions
  <2>5. Types'
    BY <1>0, <2>1, <2>2, <2>3, <2>4, WriteTypes DEF Types
  <2>6. item' = Revived /\ ver' = versions /\ Unlocked /\ UNCHANGED <<claims, fence, sync, purge>>
    BY <2>1 DEF Write
  <2>7. \A w \in claims : ver'[w].state # "none" /\ ~ (ver'[w].state = "live" /\ item'.state = "live")
    BY <1>0, <2>2, <2>3, <2>4, <2>6 DEF Claimed, Types
  <2> QED
    BY <2>2, <2>3, <2>4, <2>5, <2>6, <2>7 DEF Rewritten, ExpiredItem
<1> QED
  BY <1>1, <1>2, <1>3, <1>4 DEF Edit

(***************************************************************************)
(* Time and syncs                                                          *)
(***************************************************************************)
LEMMA ExpireKeeps == IInv /\ Expire => IInv'
<1> SUFFICES ASSUME IInv, Expire PROVE IInv'
  OBVIOUS
<1>1. /\ Types /\ UNCHANGED <<claims, fence, bytes, own, due, sync, purge, writes, faults>>
      /\ \A p \in Purgers : purge[p].pc = "idle"
  BY DEF IInv, TypeOK, Expire
<1>2. Types' /\ item'.state = item.state /\ item'.auto = item.auto /\ \A v \in Versions : ver'[v].state = ver[v].state
  <2>1. CASE item.state = "deleted" /\ item' = [item EXCEPT !.old = TRUE] /\ ver' = ver
    BY <1>1, <2>1 DEF Types
  <2>2. ASSUME NEW v \in Versions, ver[v].state = "deleted", ver' = [ver EXCEPT ![v].old = TRUE], item' = item
        PROVE  Types' /\ item'.state = item.state /\ item'.auto = item.auto /\ \A w \in Versions : ver'[w].state = ver[w].state
    BY <1>1, <2>2 DEF Types
  <2> QED
    BY <2>1, <2>2 DEF Expire
<1>3. TypeOK' /\ GoneEmpty' /\ Claimed' /\ ErasedClaimed' /\ GoneIsErased'
  BY <1>1, <1>2 DEF IInv, TypeOK, LiveVersions, GoneEmpty, Exists, Claimed, ErasedClaimed, GoneIsErased, Types
<1>4. SyncsHold'
  BY <1>1, <1>2 DEF IInv, SyncsHold, Exists, Types
<1>5. Passes'
  BY <1>1, <1>2 DEF IInv, Passes, Pass
<1> QED
  BY <1>3, <1>4, <1>5 DEF IInv

\* A sync neither makes nor removes a permanent fence.
LEMMA FollowKeeps ==
  ASSUME IInv, NEW s \in Syncers, sync[s].v # None
  PROVE  /\ Follow(s) \in [Versions -> Fences]
         /\ \A v \in Versions : (Follow(s)[v] = "erased") = (fence[v] = "erased")
<1> DEFINE v == sync[s].v
<1>1. v \in Versions /\ sync[s].saw \in Fences /\ fence \in [Versions -> Fences]
  BY DEF IInv, TypeOK, Types
<1>2. Exists(v)
  BY DEF IInv, SyncsHold
<1>3. fence[v] = "erased" => Deleted(v)
  BY <1>1, <1>2 DEF IInv, TypeOK, Types, ErasedClaimed, Claimed, GoneEmpty, Exists, Deleted
<1> HIDE DEF v
<1>4. /\ Followed(Deleted(v), sync[s].saw, fence[v]) \in Fences
      /\ (Followed(Deleted(v), sync[s].saw, fence[v]) = "erased") = (fence[v] = "erased")
  BY <1>1, <1>3 DEF Followed, Fences
<1>5. Follow(s) = [fence EXCEPT ![v] = Followed(Deleted(v), sync[s].saw, fence[v])]
  BY <1>1 DEF Follow, v
<1> HIDE DEF Followed
<1> QED
  BY <1>1, <1>4, <1>5

\* What a sync may change: fences that are not permanent, and what it holds.
Synced ==
  /\ Types' /\ UNCHANGED <<item, ver, claims, bytes, purge>>
  /\ \A v \in Versions : (fence'[v] = "erased") = (fence[v] = "erased")
  /\ \A s \in Syncers : sync'[s].v # None => Exists(sync'[s].v)

LEMMA SyncedKeeps == IInv /\ Synced => IInv'
<1> SUFFICES ASSUME IInv, Synced PROVE IInv'
  OBVIOUS
<1>1. TypeOK' /\ GoneEmpty' /\ Claimed' /\ ErasedClaimed' /\ GoneIsErased' /\ SyncsHold'
  BY DEF IInv, Synced, TypeOK, LiveVersions, GoneEmpty, Exists, Claimed, ErasedClaimed, GoneIsErased, SyncsHold
<1>2. ASSUME NEW p \in Purgers PROVE Pass(p)'
  BY DEF IInv, Synced, Passes, Pass, TypeOK, Types, ExpiredItem, All, Exists
<1> QED
  BY <1>1, <1>2 DEF IInv, Passes

LEMMA SyncSyncs == ASSUME IInv, NEW s \in Syncers, Sync(s) \/ FailSync(s) PROVE Synced
<1>0. Types /\ SyncsHold
  BY DEF IInv, TypeOK
<1>1. ASSUME NEW v \in Versions, NEW job \in BOOLEAN, BeginSync(s, v, job) PROVE Synced
  <2>1. own' \subseteq Versions /\ due' \subseteq Versions
    BY <1>0, <1>1 DEF BeginSync, Types
  <2>2. /\ sync' \in [Syncers -> [v : Versions \cup {None}, job : BOOLEAN, saw : Fences]]
        /\ \A r \in Syncers : sync'[r].v # None => Exists(sync'[r].v)
    BY <1>0, <1>1 DEF BeginSync, Types, SyncsHold
  <2>3. UNCHANGED <<item, ver, claims, fence, bytes, purge, writes, faults>>
    BY <1>1 DEF BeginSync
  <2> QED
    BY <1>0, <2>1, <2>2, <2>3 DEF Synced, Types
<1>2. /\ [sync EXCEPT ![s] = Quiet] \in [Syncers -> [v : Versions \cup {None}, job : BOOLEAN, saw : Fences]]
      /\ \A r \in Syncers : [sync EXCEPT ![s] = Quiet][r].v # None => Exists([sync EXCEPT ![s] = Quiet][r].v)
  BY <1>0 DEF Types, SyncsHold, Quiet, Fences
<1>3. CASE EndSync(s)
  <2>1. /\ fence' = Follow(s) /\ sync' = [sync EXCEPT ![s] = Quiet] /\ sync[s].v # None
        /\ due' \subseteq Versions /\ UNCHANGED <<item, ver, claims, bytes, own, purge, writes, faults>>
    BY <1>0, <1>3 DEF EndSync, Types
  <2> QED
    BY <1>0, <1>2, <2>1, FollowKeeps DEF Synced, Types
<1>4. CASE FailSync(s)
  <2>1. /\ fence' \in {fence, Follow(s)} /\ sync' = [sync EXCEPT ![s] = Quiet] /\ sync[s].v # None
        /\ faults' \in Nat /\ UNCHANGED <<item, ver, claims, bytes, own, due, purge, writes>>
    BY <1>0, <1>4 DEF FailSync, Types
  <2> QED
    BY <1>0, <1>2, <2>1, FollowKeeps DEF Synced, Types
<1> QED
  BY <1>1, <1>3, <1>4 DEF Sync

(***************************************************************************)
(* Purges                                                                  *)
(***************************************************************************)
\* What one pass may change: it claims what is deleted, makes fences
\* permanent, deletes bytes, and removes rows whose media has gone.
Purged(p) ==
  /\ Types' /\ UNCHANGED sync
  /\ \A q \in Purgers \ {p} : purge'[q] = purge[q]
  /\ claims \subseteq claims' /\ bytes' \subseteq bytes
  /\ \A v \in Versions : fence[v] = "erased" => fence'[v] = "erased"
  /\ \A v \in Versions : fence'[v] = "erased" => fence[v] = "erased" \/ v \in claims'
  /\ \A v \in claims' \ claims : ver[v].state # "none" /\ ~ (ver[v].state = "live" /\ item.state = "live")
  /\ \/ UNCHANGED <<item, ver>>
     \/ /\ Unlocked /\ item'.auto = item.auto /\ item'.state \in {item.state, "gone"} /\ item'.old = item.old
        /\ \A v \in Versions : ver'[v] = ver[v] \/ (ver'[v].state = "gone" /\ v \notin bytes /\ fence[v] = "erased")
        /\ item'.state = "gone" => \A v \in Versions : ~ Exists(v)'
  /\ Pass(p)'

LEMMA PurgedKeeps == ASSUME IInv, NEW p \in Purgers, Purged(p) PROVE IInv'
<1>0. Types /\ Types'
  BY DEF IInv, TypeOK, Purged
<1>1. TypeOK' /\ GoneEmpty'
  BY <1>0 DEF IInv, Purged, TypeOK, LiveVersions, GoneEmpty, Exists
<1>2. Claimed'
  BY <1>0 DEF IInv, Purged, Claimed, Types
<1>3. ErasedClaimed' /\ GoneIsErased'
  BY <1>0 DEF IInv, Purged, ErasedClaimed, GoneIsErased
<1>4. SyncsHold'
  <2>1. CASE UNCHANGED <<item, ver>>
    BY <2>1 DEF IInv, Purged, SyncsHold, Exists
  <2>2. CASE Unlocked
    BY <2>2 DEF Purged, Unlocked, SyncsHold
  <2> QED
    BY <2>1, <2>2 DEF Purged
<1>5. ASSUME NEW q \in Purgers PROVE Pass(q)'
  <2>1. CASE q = p
    BY <2>1 DEF Purged
  <2>2. CASE q # p
    <3>1. purge'[q] = purge[q] /\ Pass(q)
      BY <2>2 DEF IInv, Passes, Purged
    <3>2. ExpiredItem' => ExpiredItem /\ All' \subseteq All
      BY <1>0 DEF Purged, ExpiredItem, All, Exists
    <3>3. purge[q].targets \subseteq Versions /\ purge[q].left \subseteq Versions
      BY <1>0 DEF Types
    <3> QED
      BY <3>1, <3>2, <3>3, <1>0 DEF Purged, Pass
  <2> QED
    BY <2>1, <2>2
<1> QED
  BY <1>1, <1>2, <1>3, <1>4, <1>5 DEF IInv, Passes

\* A record a pass may be in.
PassRecord == [pc : {"idle", "next", "put", "erase"}, whole : BOOLEAN, targets : SUBSET Versions, left : SUBSET Versions,
               v : Versions \cup {None}, saw : Fences, failed : BOOLEAN]

LEMMA OnwardRecord ==
  ASSUME NEW r \in PassRecord, NEW left \in SUBSET Versions
  PROVE  /\ Onward(r, left) \in PassRecord /\ Onward(r, left).pc = "next" /\ Onward(r, left).left = left
         /\ Onward(r, left).targets = r.targets /\ Onward(r, left).whole = r.whole /\ Onward(r, left).failed = r.failed
BY DEF Onward, PassRecord, Fences

LEMMA ClaimPurges ==
  ASSUME IInv, NEW p \in Purgers, NEW whole \in BOOLEAN, NEW targets \in SUBSET Versions, Claim(p, whole, targets),
         \A v \in targets : ver[v].state # "none" /\ ~ (ver[v].state = "live" /\ item.state = "live"),
         whole => targets = All
  PROVE  Purged(p)
<1> DEFINE r == [Idle EXCEPT !.pc = "next", !.whole = whole, !.targets = targets, !.left = targets]
<1>0. Types
  BY DEF IInv, TypeOK
<1>1. /\ purge' = [purge EXCEPT ![p] = r] /\ claims' = claims \cup targets
      /\ UNCHANGED <<item, ver, fence, bytes, own, due, sync, writes, faults>>
  BY DEF Claim
<1>2. /\ r \in PassRecord /\ r.pc = "next" /\ r.whole = whole /\ r.targets = targets /\ r.left = targets
  BY DEF Idle, PassRecord, Fences
<1> HIDE DEF r
<1>3. Types' /\ purge'[p] = r
  BY <1>0, <1>1, <1>2 DEF Types, PassRecord
<1>4. Pass(p)'
  BY <1>1, <1>2, <1>3 DEF Pass, ExpiredItem, All, Exists
<1> QED
  BY <1>0, <1>1, <1>3, <1>4 DEF Purged, Types

LEMMA PurgeSteps ==
  ASSUME IInv, NEW p \in Purgers, Purge(p) \/ FailErase(p) \/ Crash(p)
  PROVE  Purged(p)
<1>0. Types /\ Pass(p) /\ purge[p] \in PassRecord /\ purge[p].targets \subseteq claims /\ purge[p].left \subseteq claims
  BY DEF IInv, TypeOK, Types, Passes, Pass, PassRecord
<1>1. CASE ClaimItem(p)
  <2>1. \A v \in All : ver[v].state # "none" /\ ~ (ver[v].state = "live" /\ item.state = "live")
    BY <1>1 DEF ClaimItem, ExpiredItem, All, Exists
  <2> QED
    BY <1>1, <2>1, ClaimPurges DEF ClaimItem, All
<1>2. ASSUME NEW v \in Versions, ClaimVersion(p, v) PROVE Purged(p)
  <2>1. ver[v].state = "deleted"
    BY <1>2 DEF ClaimVersion, ExpiredVersion
  <2>2. {v} \in SUBSET Versions /\ Claim(p, FALSE, {v})
    BY <1>2 DEF ClaimVersion
  <2> QED
    BY <2>1, <2>2, ClaimPurges
<1>3. ASSUME NEW v \in Versions, LookErasure(p, v) PROVE Purged(p)
  <2> DEFINE r == [purge[p] EXCEPT !.pc = IF fence[v] = "erased" THEN "erase" ELSE "put", !.v = v, !.saw = fence[v]]
  <2>1. /\ purge' = [purge EXCEPT ![p] = r] /\ v \in purge[p].left /\ purge[p].pc = "next"
        /\ UNCHANGED <<item, ver, claims, fence, bytes, own, due, sync, writes, faults>>
    BY <1>0, <1>3 DEF LookErasure, Types
  <2>2. /\ r \in PassRecord /\ r.pc = (IF fence[v] = "erased" THEN "erase" ELSE "put") /\ r.v = v
        /\ r.whole = purge[p].whole /\ r.targets = purge[p].targets /\ r.left = purge[p].left /\ r.failed = purge[p].failed
    BY <1>0 DEF PassRecord, Types
  <2> HIDE DEF r
  <2>3. Types' /\ purge'[p] = r
    BY <1>0, <2>1, <2>2 DEF Types, PassRecord
  <2>4. Pass(p)'
    BY <1>0, <2>1, <2>2, <2>3 DEF Pass, ExpiredItem, All, Exists
  <2> QED
    BY <1>0, <2>1, <2>3, <2>4 DEF Purged, Types
<1>4. CASE PutErasure(p)
  <2> DEFINE v == purge[p].v
  <2>1. v \in purge[p].left /\ v \in Versions /\ v \in claims
    BY <1>0, <1>4 DEF PutErasure, Pass, PassRecord
  <2>2. CASE fence' = [fence EXCEPT ![v] = "erased"] /\ purge' = [purge EXCEPT ![p].pc = "erase"]
    <3>1. UNCHANGED <<item, ver, claims, bytes, own, due, sync, writes, faults>>
      BY <1>4 DEF PutErasure
    <3>2. /\ purge'[p] \in PassRecord /\ purge'[p].pc = "erase" /\ purge'[p].v = v
          /\ purge'[p].whole = purge[p].whole /\ purge'[p].targets = purge[p].targets
          /\ purge'[p].left = purge[p].left /\ purge'[p].failed = purge[p].failed
      BY <1>0, <2>2 DEF PassRecord, Types
    <3>3. Types'
      <4>1. purge' \in [Purgers -> PassRecord]
        BY <1>0, <2>2, <3>2 DEF Types, PassRecord
      <4>2. fence' \in [Versions -> Fences]
        BY <1>0, <2>1, <2>2 DEF Types, Fences
      <4> QED
        BY <1>0, <3>1, <4>1, <4>2 DEF Types, PassRecord
    <3>4. fence'[v] = "erased" /\ \A w \in Versions \ {v} : fence'[w] = fence[w]
      BY <1>0, <2>1, <2>2 DEF Types
    <3>5. Pass(p)'
      <4>1. purge[p].pc = "put" /\ purge[p].left \subseteq Versions /\ purge[p].targets \subseteq Versions
        BY <1>0, <1>4 DEF PutErasure, PassRecord
      <4> QED
        BY <1>0, <2>1, <3>1, <3>2, <3>4, <4>1 DEF Pass, ExpiredItem, All, Exists
    <3> QED
      BY <1>0, <2>1, <2>2, <3>1, <3>3, <3>4, <3>5 DEF Purged, Types
  <2>3. CASE fence' = fence /\ purge' = [purge EXCEPT ![p] = Onward(@, @.left)]
    <3>1. UNCHANGED <<item, ver, claims, bytes, own, due, sync, writes, faults>>
      BY <1>4 DEF PutErasure
    <3>2. purge'[p] = Onward(purge[p], purge[p].left)
      BY <1>0, <2>3 DEF Types
    <3>3. /\ purge'[p] \in PassRecord /\ purge'[p].pc = "next" /\ purge'[p].left = purge[p].left
          /\ purge'[p].targets = purge[p].targets /\ purge'[p].whole = purge[p].whole /\ purge'[p].failed = purge[p].failed
      <4>1. purge[p].left \in SUBSET Versions
        BY <1>0 DEF PassRecord
      <4> QED
        BY <1>0, <3>2, <4>1, OnwardRecord
    <3>4. Types'
      <4>1. purge' \in [Purgers -> PassRecord]
        BY <1>0, <2>3, <3>2, <3>3 DEF Types, PassRecord
      <4> QED
        BY <1>0, <2>3, <3>1, <4>1 DEF Types, PassRecord
    <3>5. Pass(p)'
      <4>1. purge[p].pc = "put"
        BY <1>4 DEF PutErasure
      <4> QED
        BY <1>0, <2>3, <3>1, <3>3, <4>1 DEF Pass, ExpiredItem, All, Exists
    <3> QED
      BY <1>0, <2>3, <3>1, <3>4, <3>5 DEF Purged, Types
  <2> QED
    BY <1>4, <2>2, <2>3 DEF PutErasure
<1>5. CASE EraseBytes(p)
  <2> DEFINE v == purge[p].v
             left == purge[p].left \ {v}
  <2>1. /\ v \in purge[p].left /\ v \in Versions /\ fence[v] = "erased" /\ left \in SUBSET Versions
    BY <1>0, <1>5 DEF EraseBytes, Pass, PassRecord
  <2>2. /\ bytes' = bytes \ {v} /\ purge' = [purge EXCEPT ![p] = Onward(purge[p], left)]
        /\ UNCHANGED <<item, ver, claims, fence, own, due, sync, writes, faults>>
    BY <1>0, <1>5 DEF EraseBytes, Types
  <2>3. /\ purge'[p] \in PassRecord /\ purge'[p].pc = "next" /\ purge'[p].left = left
        /\ purge'[p].targets = purge[p].targets /\ purge'[p].whole = purge[p].whole /\ purge'[p].failed = purge[p].failed
    <3>1. purge'[p] = Onward(purge[p], left)
      BY <2>2, <1>0 DEF Types
    <3> QED
      BY <1>0, <2>1, <3>1, OnwardRecord
  <2>4. Types'
    <3>1. purge' \in [Purgers -> PassRecord]
      BY <1>0, <2>2, <2>3 DEF Types, PassRecord
    <3> QED
      BY <1>0, <2>2, <3>1 DEF Types, PassRecord
  <2>5. Pass(p)'
    <3>1. purge[p].pc = "erase"
      BY <1>5 DEF EraseBytes
    <3> QED
      BY <1>0, <2>1, <2>2, <2>3, <3>1 DEF Pass, ExpiredItem, All, Exists
  <2> QED
    BY <1>0, <2>2, <2>4, <2>5 DEF Purged, Types
<1>6. CASE FailErase(p)
  <2> DEFINE left == purge[p].left \ {purge[p].v}
             r == [Onward(purge[p], left) EXCEPT !.failed = TRUE]
  <2>1. /\ purge' = [purge EXCEPT ![p] = r] /\ faults' \in Nat /\ purge[p].pc # "idle" /\ left \in SUBSET Versions
        /\ UNCHANGED <<item, ver, claims, fence, bytes, own, due, sync, writes>>
    BY <1>0, <1>6 DEF FailErase, Types, PassRecord
  <2>2. /\ r \in PassRecord /\ r.pc = "next" /\ r.left = left /\ r.failed
        /\ r.targets = purge[p].targets /\ r.whole = purge[p].whole
    <3>1. PICK o \in PassRecord : /\ o = Onward(purge[p], left) /\ o.pc = "next" /\ o.left = left
                                  /\ o.targets = purge[p].targets /\ o.whole = purge[p].whole
      BY <1>0, <2>1, OnwardRecord
    <3>2. r = [o EXCEPT !.failed = TRUE]
      BY <3>1
    <3> HIDE DEF r
    <3> QED
      BY <3>1, <3>2 DEF PassRecord
  <2> HIDE DEF r
  <2>3. Types' /\ purge'[p] = r
    BY <1>0, <2>1, <2>2 DEF Types, PassRecord
  <2>4. Pass(p)'
    BY <1>0, <2>1, <2>2, <2>3 DEF Pass, ExpiredItem, All, Exists
  <2> QED
    BY <1>0, <2>1, <2>3, <2>4 DEF Purged, Types
<1>7. CASE Crash(p)
  <2>1. /\ purge' = [purge EXCEPT ![p] = Idle] /\ faults' \in Nat
        /\ UNCHANGED <<item, ver, claims, fence, bytes, own, due, sync, writes>>
    BY <1>0, <1>7 DEF Crash, Types
  <2>2. Idle \in PassRecord
    BY DEF Idle, PassRecord, Fences
  <2>3. Types' /\ purge'[p] = Idle
    BY <1>0, <2>1, <2>2 DEF Types, PassRecord
  <2>4. Pass(p)'
    BY <2>3 DEF Pass, Idle
  <2> QED
    BY <1>0, <2>1, <2>3, <2>4 DEF Purged, Types
<1>8. CASE Remove(p)
  <2>0. purge[p].pc = "next" /\ purge[p].left = {} /\ Unlocked
    BY <1>8 DEF Remove
  <2>1. /\ purge' = [purge EXCEPT ![p] = Idle] /\ UNCHANGED <<claims, fence, bytes, own, due, sync, writes, faults>>
    BY <1>8 DEF Remove
  <2>2. purge' \in [Purgers -> PassRecord] /\ purge'[p] = Idle /\ \A q \in Purgers \ {p} : purge'[q] = purge[q]
    BY <1>0, <2>1 DEF Types, Idle, PassRecord, Fences
  <2>3. Pass(p)'
    BY <2>2 DEF Pass, Idle
  <2>4. CASE UNCHANGED <<item, ver>>
    <3>1. Types'
      BY <1>0, <2>1, <2>2, <2>4 DEF Types, PassRecord
    <3> QED
      BY <1>0, <2>1, <2>2, <2>3, <2>4, <3>1 DEF Purged
  <2>5. CASE /\ ~ purge[p].failed /\ StillExpired(p)
             /\ item' = IF purge[p].whole THEN [item EXCEPT !.state = "gone"] ELSE item
             /\ ver' = [v \in Versions |-> IF v \in Removed(p) THEN [ver[v] EXCEPT !.state = "gone"] ELSE ver[v]]
    <3>1. Removed(p) \subseteq purge[p].targets
      BY <1>0, <2>0, <2>5 DEF Pass, Removed, StillExpired
    <3>2. \A v \in Removed(p) : v \notin bytes /\ fence[v] = "erased"
      BY <1>0, <2>0, <2>5, <3>1 DEF Pass
    <3>3. /\ ver' \in [Versions -> [state : {"none", "live", "deleted", "gone"}, old : BOOLEAN]]
          /\ \A v \in Versions : IF v \in Removed(p) THEN ver'[v].state = "gone" ELSE ver'[v] = ver[v]
      BY <1>0, <2>5 DEF Types
    <3>4. /\ item' \in [state : {"live", "deleted", "gone"}, auto : BOOLEAN, old : BOOLEAN]
          /\ item'.auto = item.auto /\ item'.old = item.old
          /\ item'.state = IF purge[p].whole THEN "gone" ELSE item.state
      BY <1>0, <2>5 DEF Types
    <3>5. Types'
      BY <1>0, <2>1, <2>2, <3>3, <3>4 DEF Types, PassRecord
    <3>6. item'.state = "gone" => \A v \in Versions : ~ Exists(v)'
      <4>1. CASE purge[p].whole
        BY <3>3, <4>1 DEF Removed, All, Exists
      <4>2. CASE ~ purge[p].whole
        BY <3>3, <3>4, <4>2 DEF IInv, GoneEmpty, Exists
      <4> QED
        BY <4>1, <4>2
    <3> QED
      BY <1>0, <2>0, <2>1, <2>2, <2>3, <3>2, <3>3, <3>4, <3>5, <3>6 DEF Purged
  <2> QED
    BY <1>8, <2>4, <2>5 DEF Remove, rows
<1> QED
  BY <1>1, <1>2, <1>3, <1>4, <1>5, <1>6, <1>7, <1>8 DEF Purge

(***************************************************************************)
(* The theorems                                                            *)
(***************************************************************************)
LEMMA StepKeeps == IInv /\ [Next]_vars => IInv'
<1> SUFFICES ASSUME IInv, [Next]_vars PROVE IInv'
  OBVIOUS
<1>1. CASE Edit
  BY <1>1, EditRewrites, RewrittenKeeps
<1>2. CASE Expire
  BY <1>2, ExpireKeeps
<1>3. ASSUME NEW s \in Syncers, Sync(s) \/ FailSync(s) PROVE IInv'
  BY <1>3, SyncSyncs, SyncedKeeps
<1>4. ASSUME NEW p \in Purgers, Purge(p) \/ FailErase(p) \/ Crash(p) PROVE IInv'
  BY <1>4, PurgeSteps, PurgedKeeps
<1>5. CASE UNCHANGED vars
  BY <1>5 DEF vars, IInv, TypeOK, Types, LiveVersions, Claimed, ErasedClaimed, GoneEmpty, Exists, SyncsHold, Passes, Pass,
     ExpiredItem, All, GoneIsErased
<1> QED
  BY <1>1, <1>2, <1>3, <1>4, <1>5 DEF Next

\* The strengthened invariant holds in every state: claims, passes and fences
\* agree, whatever writes, syncs and purges run beside each other.
THEOREM Invariance == Spec => []IInv
BY InitIInv, StepKeeps, PTL DEF Spec

\* Types, and a parent deleted for being empty is empty.
THEOREM TypeCorrect == Spec => []TypeOK
<1>1. IInv => TypeOK
  BY DEF IInv
<1> QED
  BY <1>1, Invariance, PTL

\* An edition whose erasure was claimed is never readable again
\* (CheckRestorableTx, DeleteTx).
THEOREM ClaimsHold == Spec => []ClaimedStaysDeleted
<1>1. IInv => ClaimedStaysDeleted
  BY DEF IInv, Claimed, ClaimedStaysDeleted
<1> QED
  BY <1>1, Invariance, PTL

\* A purge removes a row only when its media and its fence are as they must
\* be (erase, eraseVersionBatch).
THEOREM RemovalsErased == Spec => []GoneIsErased
<1>1. IInv => GoneIsErased
  BY DEF IInv
<1> QED
  BY <1>1, Invariance, PTL

\* No sync, however it races, undoes a permanent fence (FenceDeleted,
\* fenceErasure).
THEOREM ErasurePermanent == Spec => ErasureStays
<1>1. IInv /\ [Next]_vars => [\A v \in Versions : fence[v] = "erased" => fence'[v] = "erased"]_vars
  <2> SUFFICES ASSUME IInv, [Next]_vars, NEW v \in Versions, fence[v] = "erased" PROVE fence'[v] = "erased"
    OBVIOUS
  <2>1. CASE Edit
    BY <2>1, EditRewrites DEF Rewritten
  <2>2. CASE Expire \/ UNCHANGED vars
    BY <2>2 DEF Expire, vars
  <2>3. ASSUME NEW s \in Syncers, Sync(s) \/ FailSync(s) PROVE fence'[v] = "erased"
    BY <2>3, SyncSyncs DEF Synced
  <2>4. ASSUME NEW p \in Purgers, Purge(p) \/ FailErase(p) \/ Crash(p) PROVE fence'[v] = "erased"
    BY <2>4, PurgeSteps DEF Purged
  <2> QED
    BY <2>1, <2>2, <2>3, <2>4 DEF Next
<1> QED
  BY <1>1, Invariance, PTL DEF Spec, ErasureStays
================================================================================
