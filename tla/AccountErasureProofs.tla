------------------------ MODULE AccountErasureProofs ------------------------
(***************************************************************************)
(* AccountErasure's safety for any calls, contributions, signals, passes,  *)
(* restores and faults.                                                    *)
(*                                                                         *)
(* The argument: a call reaches a step only after the steps before it were *)
(* done in the catalog that is there, since a restore ends every call.  So *)
(* a receipt says that everything outside the catalog is done, and a       *)
(* catalog that says purged has its fence; the one thing a restore can     *)
(* bring back is a catalog that says less, which New refuses.  A signal    *)
(* that landed before the fence was there when the call copied.            *)
(***************************************************************************)
EXTENDS AccountErasure, TLAPS

\* What a catalog says of the account, now or in a backup: keys are known, what
\* is fenced is not attributed, and what is purged is fenced.
CatalogOK(c) ==
  /\ c \in Catalogs
  /\ c.key # None <=> c.life = "purging"
  /\ c.key # None => c.key \in 1 .. issued
  /\ \A x \in Contribs : c.by[x] # None /\ c.by[x] # Account => c.by[x] \in 1 .. issued
  /\ c.erased # "none" => \A x \in Contribs : c.by[x] # Account
  /\ c.life = "purged" => c.erased # "none"

Moved(e) == \E k \in 1 .. issued : <<e, k>> \in copies

\* What a call may rely on, at each step.
Call(r) ==
  /\ run[r].pc # "idle" => run[r].key \in 1 .. issued
  /\ run[r].pc \notin {"idle", "content"} => catalog.erased # "none"
  /\ run[r].pc \notin {"idle", "content", "private"} => elsewhere \subseteq {"avatar"}
  /\ run[r].pc \notin {"idle", "content", "private", "fence"} => ledger
  /\ run[r].pc \in {"complete", "finish"} => elsewhere = {}
  /\ run[r].pc = "delete" => \A e \in kept : e \in rows => Moved(e)
Calls == \A r \in Runs : Call(r)

\* A receipt means that everything outside the catalog is done.
Receipted == receipt => ledger /\ elsewhere = {} /\ (up = "serving" => catalog.erased # "none")

\* Without a restore the account has one key at most, and no store is behind.
Unrestored == restores = 0 =>
  /\ issued \in {0, 1}
  /\ issued = 1 \/ intent => catalog.life \in {"purging", "purged"}
  /\ receipt => catalog.erased = "complete"

\* Signals that landed before the fence are there or moved.
Landed ==
  /\ \A e \in flight : e \notin kept
  /\ \A x \in copies : x[2] \in 1 .. issued
  /\ \A e \in kept : e \in rows \/ Moved(e)

IInv == TypeOK /\ CatalogOK(catalog) /\ CatalogOK(backup) /\ Calls /\ Receipted /\ Unrestored /\ Landed

\* The invariant is as strong as the three properties.
LEMMA InvImpliesStart == IInv => StartChecked
<1> SUFFICES ASSUME IInv PROVE StartChecked
  OBVIOUS
<1>1. PurgedIsUnlinked
  BY DEF IInv, CatalogOK, Receipted, PurgedIsUnlinked, Erased, Attributed
<1>2. RefusalMeansRestore
  <2> SUFFICES ASSUME restores = 0 PROVE ~ ReplayRequired
    BY DEF RefusalMeansRestore, IInv, TypeOK
  <2> QED
    BY DEF IInv, Unrestored, ReplayRequired, Recorded, Anonymized, Lost
<1> QED
  BY <1>1, <1>2 DEF StartChecked

LEMMA InvImpliesKept == IInv => ContributionsKept
<1> SUFFICES ASSUME IInv PROVE ContributionsKept
  OBVIOUS
<1>1. \A e \in kept : e \in rows \/ \E k \in 1 .. issued : <<e, k>> \in copies
  BY DEF IInv, Landed, Moved
<1>2. ASSUME restores = 0 PROVE \A k \in 1 .. issued : k = 1
  BY <1>2 DEF IInv, Unrestored
<1>3. restores = 0 => \A x, y \in copies : x[2] = y[2]
  BY <1>2 DEF IInv, Landed
<1>4. restores = 0 => \A c \in Contribs, x \in copies : catalog.by[c] \in {None, Account, x[2]}
  BY <1>2 DEF IInv, Landed, CatalogOK
<1> QED
  BY <1>1, <1>3, <1>4 DEF ContributionsKept

(***************************************************************************)
(* Types                                                                   *)
(***************************************************************************)
LEMMA InitIInv == Init => IInv
<1> SUFFICES ASSUME Init PROVE IInv
  OBVIOUS
<1> USE AccountAssumption
<1>1. Fresh \in Catalogs /\ Fresh.key = None /\ Fresh.life = "none" /\ Fresh.erased = "none"
      /\ \A c \in Contribs : Fresh.by[c] = None
  BY DEF Fresh, Catalogs
<1>2. run \in [Runs -> [pc : {"idle", "content", "private", "fence", "copy", "delete", "count", "searches",
                             "avatar", "complete", "finish"}, key : Nat \cup {None}, pass : 0 .. Passes - 1]]
  BY DEF Init, Idle
<1>3. TypeOK
  <2>1. {intent, receipt, ledger, searching, gone, due, replayed} \subseteq BOOLEAN
    BY DEF Init
  <2>2. catalog \in Catalogs /\ backup \in Catalogs /\ (catalog.key # None <=> catalog.life = "purging")
    BY <1>1 DEF Init
  <2>3. rows \cup flight \cup kept \subseteq sent /\ sent \subseteq Events /\ copies \subseteq Events \X Nat
    BY DEF Init
  <2>4. /\ elsewhere \subseteq {"inbox", "provider", "avatar"} /\ up \in {"serving", "closed", "recovery"}
        /\ issued \in Nat /\ restores \in 0 .. Restores /\ faults \in 0 .. MaxFaults
    BY DEF Init
  <2> QED
    BY <1>2, <2>1, <2>2, <2>3, <2>4 DEF TypeOK
<1>4. CatalogOK(catalog) /\ CatalogOK(backup)
  BY <1>1 DEF Init, CatalogOK
<1>5. Calls
  BY DEF Init, Idle, Calls, Call
<1>6. Receipted /\ Unrestored /\ Landed
  BY DEF Init, Receipted, Unrestored, Landed
<1> QED
  BY <1>3, <1>4, <1>5, <1>6 DEF IInv

PCs == {"idle", "content", "private", "fence", "copy", "delete", "count", "searches", "avatar", "complete", "finish"}
RunsOK == run \in [Runs -> [pc : PCs, key : Nat \cup {None}, pass : 0 .. Passes - 1]]

\* A step forward keeps the call's key and pass.
LEMMA GotoRuns ==
  ASSUME RunsOK, NEW r \in Runs, NEW pc \in PCs, Goto(r, pc)
  PROVE  /\ RunsOK'
         /\ run'[r].pc = pc /\ run'[r].key = run[r].key
         /\ \A q \in Runs \ {r} : run'[q] = run[q]
BY DEF RunsOK, Goto

LEMMA IdleRuns ==
  ASSUME RunsOK, NEW r \in Runs, run' = [run EXCEPT ![r] = Idle]
  PROVE  /\ RunsOK'
         /\ run'[r].pc = "idle"
         /\ \A q \in Runs \ {r} : run'[q] = run[q]
BY AccountAssumption DEF RunsOK, Idle, PCs

\* TypeOK follows from the types of calls and catalogs where little else changes.
LEMMA CatalogTypes ==
  ASSUME TypeOK, RunsOK', CatalogOK(catalog)', UNCHANGED <<backup, signals, up, issued, restores>>,
         elsewhere' \subseteq elsewhere, {intent', receipt', searching', gone', due', replayed'} \subseteq BOOLEAN,
         faults' \in 0 .. MaxFaults
  PROVE  TypeOK'
BY DEF TypeOK, signals, CatalogOK, RunsOK, PCs

(***************************************************************************)
(* Steps outside the calls                                                 *)
(***************************************************************************)
\* A step that writes the catalog without taking back a purge or a fence.
Advanced ==
  /\ CatalogOK(catalog)'
  /\ catalog.erased # "none" => catalog'.erased # "none"
  /\ catalog.erased = "complete" => catalog'.erased = "complete"
  /\ catalog.life \in {"purging", "purged"} => catalog'.life \in {"purging", "purged"}

LEMMA AdvancedKeeps ==
  ASSUME IInv, TypeOK', Advanced, UNCHANGED <<accounts, backup, signals, elsewhere, up, issued, restores>>,
         \A r \in Runs : run'[r] = run[r] \/ run'[r].pc = "idle"
  PROVE  IInv'
<1>1. CatalogOK(backup)'
  BY DEF IInv, CatalogOK
<1>2. ASSUME NEW r \in Runs PROVE Call(r)'
  <2>1. Call(r)
    BY DEF IInv, Calls
  <2> QED
    BY <2>1 DEF Call, Moved, signals, Advanced
<1>3. Receipted' /\ Unrestored'
  BY DEF IInv, Receipted, Unrestored, Advanced, accounts, signals
<1>4. Landed'
  BY DEF IInv, Landed, Moved, signals
<1> QED
  BY <1>1, <1>2, <1>3, <1>4 DEF IInv, Calls, Advanced

LEMMA CatalogSteps ==
  ASSUME IInv,
         \/ \E c \in Contribs : Contribute(c)
         \/ Search \/ KeepSearch \/ PruneSearches \/ Purge
         \/ \E life \in {"none", "deleted"} : SetAccountDeleted(life)
  PROVE  IInv'
<1>0. TypeOK /\ CatalogOK(catalog) /\ RunsOK
  BY DEF IInv, TypeOK, RunsOK, PCs
<1>1. ASSUME NEW c \in Contribs, Contribute(c) PROVE IInv'
  <2>1. /\ catalog' \in Catalogs /\ catalog'.life = catalog.life /\ catalog'.key = catalog.key
        /\ catalog'.erased = catalog.erased /\ \A x \in Contribs : catalog'.by[x] \in {catalog.by[x], Account}
        /\ catalog.erased = "none"
    BY <1>0, <1>1 DEF Contribute, CatalogOK, Catalogs, Account, Guarded, Erased
  <2>2. Advanced
    BY <1>0, <1>1, <2>1 DEF Advanced, CatalogOK, Contribute
  <2>3. TypeOK'
    BY <1>0, <1>1, <2>2, CatalogTypes DEF Contribute, TypeOK, Advanced, accounts, world, RunsOK
  <2> QED
    BY <1>1, <2>2, <2>3, AdvancedKeeps DEF Contribute, world
<1>2. ASSUME Search \/ KeepSearch \/ PruneSearches \/ Purge PROVE IInv'
  <2>1. /\ catalog' \in Catalogs /\ catalog'.life = catalog.life /\ catalog'.key = catalog.key
        /\ catalog'.erased = catalog.erased /\ catalog'.by = catalog.by
        /\ UNCHANGED <<accounts, backup, signals, elsewhere, up, issued, restores, run, faults>>
    BY <1>0, <1>2 DEF Search, KeepSearch, PruneSearches, Purge, world, CatalogOK, Catalogs
  <2>2. Advanced
    BY <1>0, <2>1 DEF Advanced, CatalogOK
  <2>3. {intent', receipt', searching', gone', due', replayed'} \subseteq BOOLEAN
    BY <1>0, <1>2 DEF Search, KeepSearch, PruneSearches, Purge, world, accounts, TypeOK
  <2>4. TypeOK'
    BY <1>0, <2>1, <2>2, <2>3, CatalogTypes DEF TypeOK, Advanced, RunsOK
  <2> QED
    BY <2>1, <2>2, <2>4, AdvancedKeeps
<1>3. ASSUME NEW life \in {"none", "deleted"}, SetAccountDeleted(life) PROVE IInv'
  <2>1. /\ catalog' \in Catalogs /\ catalog'.life = life /\ catalog.life \in {"none", "deleted"}
        /\ catalog'.key = catalog.key /\ catalog'.erased = catalog.erased /\ catalog'.by = catalog.by
    BY <1>0, <1>3 DEF SetAccountDeleted, Marks, CatalogOK, Catalogs
  <2>2. Advanced
    BY <1>0, <1>3, <2>1 DEF Advanced, CatalogOK, SetAccountDeleted
  <2>3. TypeOK'
    BY <1>0, <1>3, <2>2, CatalogTypes DEF SetAccountDeleted, TypeOK, Advanced, accounts, world, RunsOK
  <2> QED
    BY <1>3, <2>2, <2>3, AdvancedKeeps DEF SetAccountDeleted, world
<1> QED
  BY <1>1, <1>2, <1>3

\* Signals are sent before the fence; one that lands later is not kept.
LEMMA SignalSteps ==
  ASSUME IInv, NEW e \in Events, Send(e) \/ Land(e)
  PROVE  IInv'
<1>0. UNCHANGED <<intent, receipt, catalog, backup, ledger, copies, elsewhere, searching, gone, due, up, replayed,
                  run, issued, restores, faults>>
  BY DEF Send, Land, accounts, world
<1>1. TypeOK'
  <2>1. rows' \cup flight' \cup kept' \subseteq sent' /\ sent' \subseteq Events
    BY DEF Send, Land, IInv, TypeOK
  <2> QED
    BY <1>0, <2>1 DEF IInv, TypeOK
<1>2. CatalogOK(catalog)' /\ CatalogOK(backup)' /\ Receipted' /\ Unrestored'
  BY <1>0 DEF IInv, CatalogOK, Receipted, Unrestored
<1>3. \A x : Moved(x)' = Moved(x)
  BY <1>0 DEF Moved
<1>4. \A x \in kept' : x \in kept \/ (x = e /\ ~ ledger /\ e \in rows')
  BY DEF Send, Land
<1>5. \A x \in rows' : x \in rows \/ (x = e /\ e \in flight)
  BY DEF Send, Land
<1>6. rows \subseteq rows'
  BY DEF Send, Land
<1>7. Landed'
  <2>1. \A x \in flight' : x \notin kept'
    BY DEF Send, Land, IInv, Landed, TypeOK
  <2> QED
    BY <1>0, <1>3, <1>4, <1>6, <2>1 DEF IInv, Landed
<1>8. ASSUME NEW r \in Runs PROVE Call(r)'
  <2>1. Call(r)
    BY DEF IInv, Calls
  <2>2. run[r].pc = "delete" => \A x \in kept' : x \in rows' => Moved(x)'
    BY <2>1, <1>3, <1>4, <1>5 DEF Call, IInv, Landed
  <2> QED
    BY <2>1, <2>2, <1>0 DEF Call
<1> QED
  BY <1>1, <1>2, <1>7, <1>8 DEF IInv, Calls

\* A backup, a restart, a restore and the starts after it.
LEMMA OperatorSteps ==
  ASSUME IInv, Restart \/ TakeBackup \/ Restore \/ Operate
  PROVE  IInv'
<1>0. TypeOK /\ CatalogOK(catalog) /\ CatalogOK(backup) /\ RunsOK
  BY DEF IInv, TypeOK, RunsOK, PCs
<1>1. ASSUME Close, catalog' \in {catalog, backup}, UNCHANGED backup, restores' \in 0 .. Restores,
             (catalog' = catalog /\ restores' = restores) \/ restores' # 0,
             replayed' \in BOOLEAN, faults' \in 0 .. MaxFaults
      PROVE  IInv'
  <2>1. /\ UNCHANGED <<intent, receipt, ledger, rows, copies, flight, sent, kept, elsewhere, gone, due, issued, backup>>
        /\ up' = "closed" /\ searching' = FALSE
    BY <1>1 DEF Close, accounts, signals
  <2>2. CatalogOK(catalog)' /\ CatalogOK(backup)'
    BY <1>0, <1>1, <2>1 DEF CatalogOK
  <2>3. RunsOK' /\ \A r \in Runs : run'[r].pc = "idle"
    BY <1>1, AccountAssumption DEF Close, Idle, RunsOK, PCs
  <2>4. {intent', receipt', ledger', searching', gone', due', replayed'} \subseteq BOOLEAN
    BY <1>0, <1>1, <2>1 DEF TypeOK
  <2>5. TypeOK'
    BY <1>0, <1>1, <2>1, <2>2, <2>3, <2>4 DEF TypeOK, CatalogOK, RunsOK, PCs
  <2>6. Calls'
    BY <2>3 DEF Calls, Call
  <2>7. Receipted' /\ Unrestored'
    BY <1>1, <2>1 DEF IInv, Receipted, Unrestored
  <2>8. Landed'
    BY <2>1 DEF IInv, Landed, Moved
  <2> QED
    BY <2>2, <2>5, <2>6, <2>7, <2>8 DEF IInv
<1>2. CASE Restart
  <2>1. replayed \in BOOLEAN /\ restores \in 0 .. Restores
    BY <1>0 DEF TypeOK
  <2>2. faults' \in 0 .. MaxFaults
    BY <1>0, <1>2, AccountAssumption DEF Restart, TypeOK
  <2>3. Close /\ UNCHANGED <<catalog, backup, replayed, restores>>
    BY <1>2 DEF Restart
  <2> QED
    BY <1>1, <2>1, <2>2, <2>3
<1>3. CASE Restore
  <2>1. restores' \in 0 .. Restores /\ restores' # 0
    BY <1>0, <1>3, AccountAssumption DEF Restore, TypeOK
  <2> QED
    BY <1>0, <1>1, <1>3, <2>1 DEF Restore, TypeOK
<1>4. CASE TakeBackup
  <2>1. /\ UNCHANGED <<intent, receipt, catalog, ledger, rows, copies, flight, sent, kept, elsewhere, searching, gone, due,
                       up, replayed, run, issued, restores, faults>>
        /\ backup' = catalog
    BY <1>4 DEF TakeBackup, accounts, signals, world
  <2>2. CatalogOK(catalog)' /\ CatalogOK(backup)' /\ TypeOK'
    BY <1>0, <2>1 DEF CatalogOK, TypeOK
  <2> QED
    BY <2>1, <2>2 DEF IInv, Calls, Call, Moved, Receipted, Unrestored, Landed
<1>5. CASE Operate
  <2>1. /\ UNCHANGED <<intent, receipt, catalog, backup, ledger, rows, copies, flight, sent, kept, elsewhere, searching, gone,
                       due, run, issued, restores, faults>>
        /\ up' \in {"serving", "recovery", "closed"} /\ replayed' \in BOOLEAN
        /\ up' = "serving" => ~ ReplayRequired
    BY <1>0, <1>5 DEF Operate, New, NewForErasureReplay, CloseRecovery, accounts, signals, TypeOK
  <2>2. TypeOK'
    BY <1>0, <2>1 DEF TypeOK
  <2>3. Receipted'
    <3>1. receipt /\ up' = "serving" => catalog.erased # "none"
      BY <1>0, <2>1 DEF ReplayRequired, Recorded, Anonymized, Lost, CatalogOK
    <3> QED
      BY <2>1, <3>1 DEF IInv, Receipted
  <2> QED
    BY <2>1, <2>2, <2>3 DEF IInv, CatalogOK, Calls, Call, Moved, Unrestored, Landed
<1> QED
  BY <1>2, <1>3, <1>4, <1>5

(***************************************************************************)
(* Calls                                                                   *)
(***************************************************************************)
\* A call takes nothing back that another one relies on.
Onward ==
  /\ issued' \in Nat /\ issued' >= issued
  /\ catalog.erased # "none" => catalog'.erased # "none"
  /\ elsewhere' \subseteq elsewhere /\ (ledger => ledger')
  /\ copies \subseteq copies' /\ rows' \subseteq rows /\ kept' = kept

LEMMA OnwardKeeps ==
  ASSUME IInv, Onward
  PROVE  /\ \A e : Moved(e) => Moved(e)'
         /\ CatalogOK(catalog) => \A x \in Contribs : catalog.by[x] # None /\ catalog.by[x] # Account => catalog.by[x] \in 1 .. issued'
         /\ backup' = backup => CatalogOK(backup)'
         /\ \A q \in Runs : run'[q] = run[q] => Call(q)'
<1>0. issued \in Nat /\ 1 .. issued \subseteq 1 .. issued'
  BY DEF IInv, TypeOK, Onward
<1>1. \A e : Moved(e) => Moved(e)'
  BY <1>0 DEF Moved, Onward
<1>2. backup' = backup => CatalogOK(backup)'
  BY <1>0 DEF IInv, CatalogOK
<1>3. ASSUME NEW q \in Runs, run'[q] = run[q] PROVE Call(q)'
  <2>1. Call(q)
    BY DEF IInv, Calls
  <2>2. run[q].pc = "delete" => \A e \in kept' : e \in rows' => Moved(e)'
    BY <2>1, <1>1 DEF Call, Onward
  <2> QED
    BY <2>1, <2>2, <1>0, <1>3 DEF Call, Onward
<1> QED
  BY <1>0, <1>1, <1>2, <1>3 DEF CatalogOK

\* A call begins: it keeps the key of an anonymisation that runs.
LEMMA AnonymizeKeeps ==
  ASSUME IInv, NEW r \in Runs, Deliver(r) \/ Replay(r)
  PROVE  IInv'
<1> USE AccountAssumption
<1>0. TypeOK /\ CatalogOK(catalog) /\ RunsOK /\ Anonymize(r) /\ run[r].pc = "idle"
  BY DEF IInv, TypeOK, RunsOK, PCs, Deliver, Replay, Anonymize, Free
<1>1. /\ UNCHANGED <<receipt, backup, ledger, rows, copies, flight, sent, kept, elsewhere, searching, gone, up, restores, faults>>
      /\ intent' = TRUE /\ due' \in BOOLEAN /\ replayed' \in BOOLEAN
  BY <1>0 DEF Anonymize, Return, signals, TypeOK
<1>2. CASE catalog.life = "purged"
  <2>1. UNCHANGED <<catalog, run, issued>>
    BY <1>0, <1>2 DEF Anonymize
  <2>2. TypeOK'
    BY <1>0, <1>1, <2>1 DEF TypeOK
  <2> QED
    BY <1>1, <1>2, <2>1, <2>2 DEF IInv, CatalogOK, Calls, Call, Moved, Receipted, Unrestored, Landed
<1>3. CASE catalog.life # "purged"
  <2> DEFINE key == IF KeptKey THEN issued + 1 ELSE catalog.key
  <2>1. /\ issued' = IF KeptKey THEN issued + 1 ELSE issued
        /\ catalog' = [catalog EXCEPT !.life = "purging", !.key = key]
        /\ run' = [run EXCEPT ![r] = [pc |-> "content", key |-> key, pass |-> 0]]
    BY <1>0, <1>3 DEF Anonymize
  <2>2. key \in 1 .. issued' /\ issued' \in Nat /\ issued' >= issued
    BY <1>0, <2>1 DEF KeptKey, CatalogOK, TypeOK
  <2>3. /\ catalog' \in Catalogs /\ catalog'.life = "purging" /\ catalog'.key = key
        /\ catalog'.erased = catalog.erased /\ catalog'.by = catalog.by
    BY <1>0, <2>1, <2>2 DEF CatalogOK, Catalogs
  <2>4. /\ RunsOK' /\ run'[r].pc = "content" /\ run'[r].key = key
        /\ \A q \in Runs \ {r} : run'[q] = run[q]
    <3> DEFINE new == [pc |-> "content", key |-> key, pass |-> 0]
    <3>1. run' = [run EXCEPT ![r] = new]
      BY <2>1
    <3>2. new \in [pc : PCs, key : Nat \cup {None}, pass : 0 .. Passes - 1]
      BY <2>2 DEF PCs
    <3> HIDE DEF key
    <3> QED
      BY <1>0, <3>1, <3>2 DEF RunsOK
  <2>5. Onward
    BY <1>1, <2>2, <2>3 DEF Onward
  <2>6. CatalogOK(catalog)'
    <3>1. \A x \in Contribs : catalog'.by[x] # None /\ catalog'.by[x] # Account => catalog'.by[x] \in 1 .. issued'
      BY <1>0, <2>3, <2>5, OnwardKeeps
    <3>2. catalog'.key # None
      BY <2>2, <2>3
    <3> QED
      BY <1>0, <2>2, <2>3, <3>1, <3>2 DEF CatalogOK
  <2>7. TypeOK'
    BY <1>0, <1>1, <2>2, <2>4, <2>6 DEF TypeOK, CatalogOK, RunsOK, PCs
  <2>8. Call(r)'
    BY <2>2, <2>4 DEF Call
  <2>9. Calls'
    BY <2>4, <2>5, <2>8, OnwardKeeps DEF Calls
  <2>10. Receipted'
    BY <1>1, <2>3 DEF IInv, Receipted
  <2>11. Unrestored'
    <3>1. ASSUME restores = 0 PROVE issued' \in {0, 1}
      <4>1. issued = 1 => catalog.key # None
        BY <1>0, <1>3, <3>1 DEF IInv, Unrestored, CatalogOK
      <4> QED
        BY <2>1, <3>1, <4>1 DEF IInv, Unrestored, KeptKey
    <3> QED
      BY <1>1, <2>3, <3>1 DEF IInv, Unrestored
  <2>12. Landed'
    BY <1>0, <1>1, <2>2, <2>5, OnwardKeeps DEF IInv, Landed, TypeOK
  <2> QED
    BY <1>1, <2>5, <2>6, <2>7, <2>9, <2>10, <2>11, <2>12, OnwardKeeps DEF IInv
<1> QED
  BY <1>2, <1>3

\* The steps that write the catalog.
LEMMA CatalogWork ==
  ASSUME IInv, NEW r \in Runs, Content(r) \/ EraseSearches(r) \/ CompleteErasure(r) \/ Finish(r)
  PROVE  IInv'
<1> USE AccountAssumption
<1>0. TypeOK /\ CatalogOK(catalog) /\ RunsOK /\ Call(r)
  BY DEF IInv, TypeOK, RunsOK, PCs, Calls
<1>1. /\ UNCHANGED <<intent, backup, ledger, rows, copies, flight, sent, kept, elsewhere, searching, gone, up, issued,
                     restores, faults>>
      /\ due' \in BOOLEAN /\ replayed' \in BOOLEAN
  BY <1>0 DEF Content, EraseSearches, CompleteErasure, Finish, Return, accounts, signals, world, TypeOK
<1>2. /\ RunsOK' /\ \A q \in Runs \ {r} : run'[q] = run[q]
      /\ run'[r].pc # "delete"
  <2>1. CASE Content(r)
    BY <1>0, <2>1, GotoRuns DEF Content, PCs
  <2>2. CASE EraseSearches(r)
    BY <1>0, <2>2, GotoRuns DEF EraseSearches, PCs
  <2>3. CASE CompleteErasure(r)
    BY <1>0, <2>3, GotoRuns DEF CompleteErasure, PCs
  <2>4. CASE Finish(r)
    BY <1>0, <2>4, IdleRuns DEF Finish
  <2> QED
    BY <2>1, <2>2, <2>3, <2>4
<1>3. /\ CatalogOK(catalog)'
      /\ catalog.erased # "none" => catalog'.erased # "none"
      /\ catalog.erased = "complete" => catalog'.erased = "complete"
      /\ catalog.life \in {"purging", "purged"} => catalog'.life \in {"purging", "purged"}
  <2>1. CASE Content(r)
    <3>1. run[r].key \in 1 .. issued /\ run[r].key # Account
      BY <1>0, <2>1 DEF Call, Content, Account, TypeOK
    <3>2. /\ catalog' \in Catalogs /\ catalog'.life = catalog.life /\ catalog'.key = catalog.key
          /\ catalog'.erased = IF Erased THEN catalog.erased ELSE "fenced"
          /\ \A x \in Contribs : catalog'.by[x] = IF catalog.by[x] = Account THEN run[r].key ELSE catalog.by[x]
      <4> DEFINE moved == [c \in Contribs |-> IF catalog.by[c] = Account THEN run[r].key ELSE catalog.by[c]]
                 state == IF Erased THEN catalog.erased ELSE "fenced"
      <4>1. moved \in [Contribs -> Nat \cup {None}] /\ state \in {"none", "fenced", "complete"}
        BY <1>0, <3>1 DEF CatalogOK, Catalogs, TypeOK
      <4>2. catalog' = [catalog EXCEPT !.erased = state, !.by = moved]
        BY <2>1 DEF Content
      <4>3. \A x \in Contribs : moved[x] = IF catalog.by[x] = Account THEN run[r].key ELSE catalog.by[x]
        OBVIOUS
      <4> HIDE DEF moved
      <4>4. /\ catalog' \in Catalogs /\ catalog'.life = catalog.life /\ catalog'.key = catalog.key
            /\ catalog'.erased = state /\ catalog'.by = moved
        <5> HIDE DEF state
        <5> QED
          BY <1>0, <4>1, <4>2 DEF CatalogOK, Catalogs
      <4> QED
        BY <4>3, <4>4
    <3> QED
      BY <1>0, <1>1, <3>1, <3>2 DEF CatalogOK, Erased
  <2>2. CASE EraseSearches(r)
    <3>1. /\ catalog' \in Catalogs /\ catalog'.life = catalog.life /\ catalog'.key = catalog.key
          /\ catalog'.erased = catalog.erased /\ catalog'.by = catalog.by
      BY <1>0, <2>2 DEF EraseSearches, CatalogOK, Catalogs
    <3> QED
      BY <1>0, <1>1, <3>1 DEF CatalogOK
  <2>3. CASE CompleteErasure(r)
    <3>1. /\ catalog' \in Catalogs /\ catalog'.life = catalog.life /\ catalog'.key = catalog.key
          /\ catalog'.erased = (IF Erased THEN "complete" ELSE catalog.erased) /\ catalog'.by = catalog.by
      BY <1>0, <2>3 DEF CompleteErasure, Completed, CatalogOK, Catalogs
    <3> QED
      BY <1>0, <1>1, <3>1 DEF CatalogOK, Erased
  <2>4. CASE Finish(r)
    <3>1. CASE catalog.life = "purging"
      <4>1. /\ catalog' \in Catalogs /\ catalog'.life = "purged" /\ catalog'.key = None
            /\ catalog'.erased = catalog.erased /\ catalog'.by = catalog.by
        BY <1>0, <2>4, <3>1 DEF Finish, CatalogOK, Catalogs
      <4>2. catalog.erased # "none"
        BY <1>0, <2>4 DEF Finish, Call
      <4> QED
        BY <1>0, <1>1, <4>1, <4>2 DEF CatalogOK
    <3>2. CASE catalog.life # "purging"
      BY <1>0, <1>1, <2>4, <3>2 DEF Finish, CatalogOK
    <3> QED
      BY <3>1, <3>2
  <2> QED
    BY <2>1, <2>2, <2>3, <2>4
<1>4. receipt' \in BOOLEAN
  BY <1>0 DEF Content, EraseSearches, CompleteErasure, Finish, accounts, TypeOK
<1>5. TypeOK'
  BY <1>0, <1>1, <1>2, <1>3, <1>4 DEF TypeOK, CatalogOK, RunsOK, PCs
<1>6. Onward
  BY <1>0, <1>1, <1>3 DEF Onward, TypeOK
<1>7. Call(r)'
  <2>1. CASE Content(r)
    <3>1. run'[r].pc = "private" /\ run'[r].key = run[r].key
      BY <1>0, <2>1, GotoRuns DEF Content, PCs
    <3>2. catalog'.erased # "none"
      BY <1>0, <2>1 DEF Content, Erased, CatalogOK, Catalogs
    <3> QED
      BY <1>0, <1>1, <2>1, <3>1, <3>2 DEF Call, Content
  <2>2. CASE EraseSearches(r)
    <3>1. run'[r].pc = "avatar" /\ run'[r].key = run[r].key
      BY <1>0, <2>2, GotoRuns DEF EraseSearches, PCs
    <3> QED
      BY <1>0, <1>1, <1>3, <2>2, <3>1 DEF Call, EraseSearches
  <2>3. CASE CompleteErasure(r)
    <3>1. run'[r].pc = "finish" /\ run'[r].key = run[r].key
      BY <1>0, <2>3, GotoRuns DEF CompleteErasure, PCs
    <3> QED
      BY <1>0, <1>1, <1>3, <2>3, <3>1 DEF Call, CompleteErasure
  <2>4. CASE Finish(r)
    BY <1>0, <2>4, IdleRuns DEF Finish, Call
  <2> QED
    BY <2>1, <2>2, <2>3, <2>4
<1>8. Calls'
  BY <1>2, <1>6, <1>7, OnwardKeeps DEF Calls
<1>9. receipt' # receipt => ledger /\ elsewhere = {} /\ catalog'.erased = "complete"
  <2>1. receipt' # receipt => CompleteErasure(r)
    BY DEF Content, EraseSearches, CompleteErasure, Finish, accounts
  <2>2. CompleteErasure(r) => ledger /\ elsewhere = {} /\ catalog.erased # "none"
    BY <1>0 DEF Call, CompleteErasure
  <2>3. CompleteErasure(r) => catalog'.erased = "complete"
    BY <1>0, <2>2 DEF CompleteErasure, Completed, Erased, CatalogOK, Catalogs
  <2> QED
    BY <2>1, <2>2, <2>3
<1>10. Receipted' /\ Unrestored'
  BY <1>0, <1>1, <1>3, <1>4, <1>9 DEF IInv, Receipted, Unrestored, TypeOK
<1>11. Landed'
  BY <1>1 DEF IInv, Landed, Moved
<1> QED
  BY <1>1, <1>3, <1>5, <1>6, <1>8, <1>10, <1>11, OnwardKeeps DEF IInv

\* The steps that write elsewhere, and the failures.
LEMMA OtherWork ==
  ASSUME IInv, NEW r \in Runs,
         \/ Private(r) \/ Fence(r) \/ Copy(r) \/ Delete(r) \/ Count(r) \/ EraseAvatars(r)
         \/ Fail(r)
  PROVE  IInv'
<1> USE AccountAssumption
<1>0. TypeOK /\ CatalogOK(catalog) /\ RunsOK /\ Call(r)
  BY DEF IInv, TypeOK, RunsOK, PCs, Calls
<1>1. /\ UNCHANGED <<intent, receipt, catalog, backup, flight, sent, kept, searching, gone, due, up, replayed, issued, restores>>
      /\ faults' \in 0 .. MaxFaults
  BY <1>0 DEF Private, Fence, Copy, Delete, Count, EraseAvatars, Fail, accounts, signals, world, TypeOK
<1>2. RunsOK' /\ \A q \in Runs \ {r} : run'[q] = run[q]
  <2>1. CASE Private(r)
    BY <1>0, <2>1, GotoRuns DEF Private, PCs
  <2>2. CASE Fence(r)
    BY <1>0, <2>2, GotoRuns DEF Fence, PCs
  <2>3. CASE Copy(r)
    BY <1>0, <2>3, GotoRuns DEF Copy, PCs
  <2>4. CASE Delete(r)
    BY <1>0, <2>4, GotoRuns DEF Delete, PCs
  <2>5. CASE Count(r)
    BY <1>0, <2>5 DEF Count, RunsOK, PCs, Idle
  <2>6. CASE EraseAvatars(r)
    BY <1>0, <2>6, GotoRuns DEF EraseAvatars, PCs
  <2>7. CASE Fail(r)
    BY <1>0, <2>7, IdleRuns DEF Fail
  <2> QED
    BY <2>1, <2>2, <2>3, <2>4, <2>5, <2>6, <2>7
<1>3. /\ elsewhere' \subseteq elsewhere /\ ledger' \in BOOLEAN /\ (ledger => ledger')
      /\ copies \subseteq copies' /\ rows' \subseteq rows
  <2>1. ledger \in BOOLEAN /\ (ledger' = ledger \/ ledger' = TRUE)
    BY <1>0 DEF Private, Fence, Copy, Delete, Count, EraseAvatars, Fail, signals, TypeOK
  <2>2. elsewhere' \subseteq elsewhere /\ copies \subseteq copies' /\ rows' \subseteq rows
    BY <1>0 DEF Private, Fence, Copy, Delete, Count, EraseAvatars, Fail, signals
  <2> QED
    BY <2>1, <2>2
<1>4. \A x \in copies' : x \in copies \/ (x[1] \in rows /\ x[2] = run[r].key /\ x = <<x[1], x[2]>> /\ run[r].pc = "copy")
  BY DEF Private, Fence, Copy, Copied, Delete, Count, EraseAvatars, Fail, signals
<1>5. run[r].pc # "idle" => run[r].key \in 1 .. issued
  BY <1>0 DEF Call
<1>6. TypeOK'
  <2>1. copies' \subseteq Events \X Nat
    BY <1>0, <1>4, <1>5 DEF TypeOK
  <2>2. rows' \cup flight' \cup kept' \subseteq sent' /\ sent' \subseteq Events
        /\ elsewhere' \subseteq {"inbox", "provider", "avatar"}
    BY <1>0, <1>1, <1>3 DEF TypeOK
  <2> QED
    BY <1>0, <1>1, <1>2, <1>3, <2>1, <2>2 DEF TypeOK, RunsOK, PCs
<1>7. Onward
  BY <1>0, <1>1, <1>3 DEF Onward, TypeOK
<1>8. Call(r)'
  <2>1. CASE Private(r)
    <3>1. run'[r].pc = "fence" /\ run'[r].key = run[r].key
      BY <1>0, <2>1, GotoRuns DEF Private, PCs
    <3>2. elsewhere' \subseteq {"avatar"}
      BY <1>0, <2>1 DEF Private, TypeOK
    <3> QED
      BY <1>0, <1>1, <2>1, <3>1, <3>2 DEF Call, Private
  <2>2. CASE Fence(r)
    <3>1. run'[r].pc = "copy" /\ run'[r].key = run[r].key
      BY <1>0, <2>2, GotoRuns DEF Fence, PCs
    <3> QED
      BY <1>0, <1>1, <2>2, <3>1 DEF Call, Fence
  <2>3. CASE Copy(r)
    <3>1. run'[r].pc = "delete" /\ run'[r].key = run[r].key
      BY <1>0, <2>3, GotoRuns DEF Copy, PCs
    <3>2. \A e \in rows' : Moved(e)'
      BY <1>1, <1>5, <2>3 DEF Copy, Copied, Moved
    <3> QED
      BY <1>0, <1>1, <2>3, <3>1, <3>2 DEF Call, Copy
  <2>4. CASE Delete(r)
    <3>1. run'[r].pc = "count" /\ run'[r].key = run[r].key
      BY <1>0, <2>4, GotoRuns DEF Delete, PCs
    <3> QED
      BY <1>0, <1>1, <2>4, <3>1 DEF Call, Delete
  <2>5. CASE Count(r)
    <3>1. run'[r].pc = "idle" \/ (run'[r].pc \in {"searches", "copy"} /\ run'[r].key = run[r].key)
      BY <1>0, <2>5 DEF Count, RunsOK, Idle
    <3> QED
      BY <1>0, <1>1, <2>5, <3>1 DEF Call, Count, signals
  <2>6. CASE EraseAvatars(r)
    <3>1. run'[r].pc = "complete" /\ run'[r].key = run[r].key
      BY <1>0, <2>6, GotoRuns DEF EraseAvatars, PCs
    <3>2. elsewhere' = {} /\ ledger'
      BY <1>0, <2>6 DEF EraseAvatars, Call, signals
    <3> QED
      BY <1>0, <1>1, <2>6, <3>1, <3>2 DEF Call, EraseAvatars
  <2>7. CASE Fail(r)
    BY <1>0, <2>7, IdleRuns DEF Fail, Call
  <2> QED
    BY <2>1, <2>2, <2>3, <2>4, <2>5, <2>6, <2>7
<1>9. Calls'
  BY <1>2, <1>7, <1>8, OnwardKeeps DEF Calls
<1>10. CatalogOK(catalog)' /\ Receipted' /\ Unrestored'
  BY <1>1, <1>3 DEF IInv, CatalogOK, Receipted, Unrestored
<1>11. Landed'
  <2>1. \A x \in copies' : x[2] \in 1 .. issued'
    BY <1>1, <1>4, <1>5 DEF IInv, Landed
  <2>2. \A e : Moved(e) => Moved(e)'
    BY <1>7, OnwardKeeps
  <2>3. rows' = rows \/ (rows' = {} /\ \A e \in kept : Moved(e))
    BY <1>0 DEF Private, Fence, Copy, Delete, Count, EraseAvatars, Fail, signals, Call, IInv, Landed
  <2> QED
    BY <1>1, <2>1, <2>2, <2>3 DEF IInv, Landed
<1> QED
  BY <1>1, <1>6, <1>7, <1>9, <1>10, <1>11, OnwardKeeps DEF IInv

LEMMA NextKeeps == IInv /\ [Next]_vars => IInv'
<1> SUFFICES ASSUME IInv, [Next]_vars PROVE IInv'
  OBVIOUS
<1>1. CASE UNCHANGED vars
  <2>1. TypeOK'
    BY <1>1 DEF IInv, TypeOK, vars
  <2> QED
    BY <1>1, <2>1 DEF IInv, CatalogOK, Calls, Call, Moved, Receipted, Unrestored, Landed, vars
<1>2. CASE \E e \in Events : Send(e) \/ Land(e)
  BY <1>2, SignalSteps
<1>3. ASSUME NEW r \in Runs, Deliver(r) \/ Replay(r) \/ Work(r) \/ Fail(r) PROVE IInv'
  BY <1>3, AnonymizeKeeps, CatalogWork, OtherWork DEF Work
<1> QED
  BY <1>1, <1>2, <1>3, CatalogSteps, OperatorSteps DEF Next

(***************************************************************************)
(* Theorems                                                                *)
(***************************************************************************)
\* Of one account's anonymisation: the invariant holds whatever calls,
\* contributions, signals, restores, restarts and failures there are.
THEOREM Invariance == Spec => []IInv
BY InitIInv, NextKeeps, PTL DEF Spec

\* Types, and that the account's anonymous key exists exactly while its
\* anonymisation runs (FinishAccountPurge).
THEOREM TypeCorrect == Spec => []TypeOK
<1>1. IInv => TypeOK
  BY DEF IInv
<1> QED
  BY <1>1, Invariance, PTL

\* The check of New (checkErasureReplay) is exact: an engine that serves shows
\* nothing of an account with a receipt, and only a restore makes it refuse.
THEOREM StartIsChecked == Spec => []StartChecked
BY Invariance, InvImpliesStart, PTL

\* AnonymizeSubject loses no signal that landed before the fence and, without
\* a restore, moves the account's contributions to one key.
THEOREM ContributionsStay == Spec => []ContributionsKept
BY Invariance, InvImpliesKept, PTL
=============================================================================
