----------------------------- MODULE AccountErasure -----------------------------
(***************************************************************************)
(* The permanent anonymisation of one account in one application           *)
(* (src/account_lifecycle.go, src/erasure.go,                              *)
(* src/account_erasure_receipts.go, src/engine.go;                         *)
(* src/internal/contentstore: account_lifecycle.go, erasure.go;            *)
(* src/internal/signalstore: anonymize.go, erasure.go, store.go;           *)
(* src/internal/discoverystore/searches.go).                               *)
(*                                                                         *)
(* Three stores take part: the account store, which keeps intents and      *)
(* receipts and is never restored; the application's catalog, which may be *)
(* restored from a backup; and the signal plane with its ledger of erased  *)
(* subjects.  Nothing spans them: every run of AnonymizeAccount may stop   *)
(* between two steps, is repeated, and may run beside another.             *)
(***************************************************************************)
EXTENDS Naturals, FiniteSets

CONSTANTS
  Runs,      \* calls of AnonymizeAccount at a time
  Contribs,  \* favorites, votes, reactions and comments the account may make
  Events,    \* signals it may send
  Passes,    \* maxErasurePasses
  Restores,  \* bound on restores of a backup
  MaxFaults, \* bound on failed calls and restarts
  None

ASSUME AccountAssumption ==
  Passes \in Nat \ {0} /\ Restores \in Nat /\ MaxFaults \in Nat /\ None \notin Nat

VARIABLES
  intent,    \* content_account_erasure_intents has the account
  receipt,   \* content_account_erasure_receipts has it
  catalog,   \* the application's rows: [life, key, erased, by, searched]
  backup,    \* what a restore brings back
  ledger,    \* the signal plane's erasures has the account
  rows,      \* its signals under the account
  copies,    \* its signals under anonymous keys
  flight,    \* inserts whose statement read the ledger before its fence
  sent,      \* signals it has sent
  kept,      \* signals that landed before the fence
  elsewhere, \* what is left in the inbox, with providers and as an avatar
  searching, \* an insert of a search that saw no fence
  gone,      \* AuthKit has purged the account
  due,       \* the host's event reader has not passed user.purged
  up,        \* the engine: serving, closed, or open for replay only
  replayed,  \* the replay after the last restore is complete
  run,       \* what each call is doing
  issued,    \* anonymous keys generated
  restores, faults

vars == <<intent, receipt, catalog, backup, ledger, rows, copies, flight, sent, kept, elsewhere,
          searching, gone, due, up, replayed, run, issued, restores, faults>>
accounts == <<intent, receipt>>
signals == <<ledger, rows, copies, flight, sent, kept>>
world == <<gone, due, up, replayed, restores, faults>>

\* Anonymous keys are numbered from one; zero stands for the account itself.
Account == 0
Idle == [pc |-> "idle", key |-> None, pass |-> 0]
Fresh == [life |-> "none", key |-> None, erased |-> "none", by |-> [c \in Contribs |-> None], searched |-> FALSE]

Init ==
  /\ intent = FALSE /\ receipt = FALSE /\ catalog = Fresh /\ backup = Fresh
  /\ ledger = FALSE /\ rows = {} /\ copies = {} /\ flight = {} /\ sent = {} /\ kept = {}
  /\ elsewhere = {"inbox", "provider", "avatar"} /\ searching = FALSE
  /\ gone = FALSE /\ due = FALSE /\ up = "serving" /\ replayed = TRUE
  /\ run = [r \in Runs |-> Idle] /\ issued = 0 /\ restores = 0 /\ faults = 0

(***************************************************************************)
(* The account                                                             *)
(***************************************************************************)
\* Source writes hold the subject's lock and check its fence.
Erased == catalog.erased # "none"
Guarded == ~ Erased
Contribute(c) ==
  /\ up = "serving" /\ catalog.by[c] = None /\ Guarded
  /\ catalog' = [catalog EXCEPT !.by[c] = Account]
  /\ UNCHANGED <<accounts, backup, signals, elsewhere, searching, world, run, issued>>

\* An INSERT reads the ledger and lands later.
Send(e) ==
  /\ up = "serving" /\ e \notin sent /\ ~ ledger
  /\ sent' = sent \cup {e} /\ flight' = flight \cup {e}
  /\ UNCHANGED <<accounts, catalog, backup, ledger, rows, copies, kept, elsewhere, searching, world, run, issued>>
Land(e) ==
  /\ e \in flight
  /\ flight' = flight \ {e} /\ rows' = rows \cup {e}
  /\ kept' = IF ledger THEN kept ELSE kept \cup {e}
  /\ UNCHANGED <<accounts, catalog, backup, ledger, copies, sent, elsewhere, searching, world, run, issued>>

\* RecordSearch's one statement reads the fence and commits later.
Search ==
  /\ up = "serving" /\ ~ searching /\ ~ catalog.searched /\ ~ Erased
  /\ searching' = TRUE
  /\ UNCHANGED <<accounts, catalog, backup, signals, elsewhere, world, run, issued>>
KeepSearch ==
  /\ searching /\ searching' = FALSE
  /\ catalog' = [catalog EXCEPT !.searched = TRUE]
  /\ UNCHANGED <<accounts, backup, signals, elsewhere, world, run, issued>>
PruneSearches ==
  /\ up = "serving" /\ Erased /\ catalog.searched
  /\ catalog' = [catalog EXCEPT !.searched = FALSE]
  /\ UNCHANGED <<accounts, backup, signals, elsewhere, searching, world, run, issued>>

\* SetAccountDeleted: a recovery period, never over a purge.
MarksAny == {"none", "deleted", "purging", "purged"} \X {"none", "deleted"}
Marks == {<<"none", "deleted">>, <<"deleted", "none">>}
SetAccountDeleted(life) ==
  /\ up = "serving" /\ <<catalog.life, life>> \in Marks
  /\ catalog' = [catalog EXCEPT !.life = life]
  /\ UNCHANGED <<accounts, backup, signals, elsewhere, searching, world, run, issued>>

\* AuthKit purges the account and publishes user.purged.
Purge ==
  /\ ~ gone /\ gone' = TRUE /\ due' = TRUE
  /\ UNCHANGED <<accounts, catalog, backup, signals, elsewhere, searching, up, replayed, run, issued, restores, faults>>

(***************************************************************************)
(* AnonymizeAccount                                                        *)
(***************************************************************************)
Free(r) == run[r].pc = "idle"
Goto(r, pc) == run' = [run EXCEPT ![r].pc = pc]

\* A call that returns nil lets the reader, or the replay, go on.
Return ==
  /\ due' = (IF up = "serving" THEN FALSE ELSE due)
  /\ replayed' = (replayed \/ up = "recovery")

\* The intent, the state and the key are one transaction under the
\* subject's lock.
NewKey == TRUE
KeptKey == catalog.key = None
Anonymize(r) ==
  /\ Free(r) /\ intent' = TRUE
  /\ IF catalog.life = "purged" THEN Return /\ UNCHANGED <<catalog, run, issued>>
     ELSE LET key == IF KeptKey THEN issued + 1 ELSE catalog.key IN
          /\ issued' = IF KeptKey THEN issued + 1 ELSE issued
          /\ catalog' = [catalog EXCEPT !.life = "purging", !.key = key]
          /\ run' = [run EXCEPT ![r] = [pc |-> "content", key |-> key, pass |-> 0]]
          /\ UNCHANGED <<due, replayed>>
  /\ UNCHANGED <<receipt, backup, signals, elsewhere, searching, gone, up, restores, faults>>

\* The content store's transaction: the fence and the rows.
Content(r) ==
  /\ run[r].pc = "content" /\ Goto(r, "private")
  /\ catalog' = [catalog EXCEPT !.erased = IF Erased THEN @ ELSE "fenced",
                                !.by = [c \in Contribs |-> IF @[c] = Account THEN run[r].key ELSE @[c]]]
  /\ UNCHANGED <<accounts, backup, signals, elsewhere, searching, world, issued>>

\* eraseAccountReceipts, then the providers' eraser.
Private(r) ==
  /\ run[r].pc = "private" /\ Goto(r, "fence")
  /\ elsewhere' = elsewhere \ {"inbox", "provider"}
  /\ UNCHANGED <<accounts, catalog, backup, signals, searching, world, issued>>

\* AnonymizeSubject: the ledger, then passes of copy, delete and count.
Fence(r) ==
  /\ run[r].pc = "fence" /\ Goto(r, "copy")
  /\ ledger' = TRUE
  /\ UNCHANGED <<accounts, catalog, backup, rows, copies, flight, sent, kept, elsewhere, searching, world, issued>>
Copied(key) == {<<e, key>> : e \in rows}
Copy(r) ==
  /\ run[r].pc = "copy" /\ Goto(r, "delete")
  /\ copies' = copies \cup Copied(run[r].key)
  /\ UNCHANGED <<accounts, catalog, backup, ledger, rows, flight, sent, kept, elsewhere, searching, world, issued>>
Delete(r) ==
  /\ run[r].pc = "delete" /\ Goto(r, "count")
  /\ rows' = {}
  /\ UNCHANGED <<accounts, catalog, backup, ledger, copies, flight, sent, kept, elsewhere, searching, world, issued>>
Count(r) ==
  /\ run[r].pc = "count"
  /\ run' = IF rows = {} THEN [run EXCEPT ![r].pc = "searches"]
            ELSE IF run[r].pass + 1 = Passes THEN [run EXCEPT ![r] = Idle]
            ELSE [run EXCEPT ![r].pc = "copy", ![r].pass = @ + 1]
  /\ UNCHANGED <<accounts, catalog, backup, signals, elsewhere, searching, world, issued>>

EraseSearches(r) ==
  /\ run[r].pc = "searches" /\ Goto(r, "avatar")
  /\ catalog' = [catalog EXCEPT !.searched = FALSE]
  /\ UNCHANGED <<accounts, backup, signals, elsewhere, searching, world, issued>>
EraseAvatars(r) ==
  /\ run[r].pc = "avatar" /\ Goto(r, "complete")
  /\ elsewhere' = elsewhere \ {"avatar"}
  /\ UNCHANGED <<accounts, catalog, backup, signals, searching, world, issued>>

\* completeErasure: the local completion and the receipt are one transaction.
ReceiptFirst == catalog
Completed == [catalog EXCEPT !.erased = IF Erased THEN "complete" ELSE @]
CompleteErasure(r) ==
  /\ run[r].pc = "complete" /\ Goto(r, "finish")
  /\ catalog' = Completed /\ receipt' = TRUE
  /\ UNCHANGED <<intent, backup, signals, elsewhere, searching, world, issued>>
Finish(r) ==
  /\ run[r].pc = "finish" /\ run' = [run EXCEPT ![r] = Idle]
  /\ catalog' = IF catalog.life = "purging" THEN [catalog EXCEPT !.life = "purged", !.key = None] ELSE catalog
  /\ Return
  /\ UNCHANGED <<accounts, backup, signals, elsewhere, searching, gone, up, restores, faults, issued>>

\* A call fails, before or after the step it was at had its effect.
Fail(r) ==
  /\ ~ Free(r) /\ faults < MaxFaults /\ faults' = faults + 1
  /\ run' = [run EXCEPT ![r] = Idle]
  /\ UNCHANGED <<accounts, catalog, backup, signals, elsewhere, searching, gone, due, up, replayed, restores, issued>>

Work(r) ==
  \/ Content(r) \/ Private(r) \/ Fence(r) \/ Copy(r) \/ Delete(r) \/ Count(r)
  \/ EraseSearches(r) \/ EraseAvatars(r) \/ CompleteErasure(r) \/ Finish(r)

(***************************************************************************)
(* Restores and starts                                                     *)
(***************************************************************************)
\* accountAnonymizationQuery and accountErasureSubjectsQuery; AuthKit's fence
\* of a purged account counts for both.
Anonymized == receipt \/ catalog.life = "purging" \/ gone
Recorded == intent \/ Anonymized

\* checkErasureReplay: what New refuses to serve.
NotLost == FALSE
Lost == receipt /\ catalog.life # "purged"
ReplayRequired ==
  /\ Recorded /\ catalog.erased # "complete"
  /\ \/ intent /\ catalog.life \notin {"purging", "purged"}
     \/ Anonymized /\ Lost
     \/ ~ Anonymized /\ catalog.life \notin {"purging", "purged"}

\* Closing the engine ends its calls.
Close ==
  /\ up' = "closed" /\ run' = [r \in Runs |-> Idle] /\ searching' = FALSE
  /\ UNCHANGED <<accounts, signals, elsewhere, gone, due, issued>>
Restart ==
  /\ up # "closed" /\ faults < MaxFaults /\ faults' = faults + 1
  /\ Close /\ UNCHANGED <<catalog, backup, replayed, restores>>
TakeBackup ==
  /\ up = "serving" /\ restores < Restores /\ backup = Fresh /\ catalog # Fresh
  /\ backup' = catalog
  /\ UNCHANGED <<accounts, catalog, signals, elsewhere, searching, world, run, issued>>
Restore ==
  /\ restores < Restores /\ restores' = restores + 1
  /\ Close /\ catalog' = backup /\ replayed' = FALSE
  /\ UNCHANGED <<backup, faults>>

\* New, and NewForErasureReplay with its ReplayErasureFences.
New ==
  /\ up = "closed" /\ ~ ReplayRequired /\ up' = "serving"
  /\ UNCHANGED <<accounts, catalog, backup, signals, elsewhere, searching, gone, due, replayed, run, issued, restores, faults>>
NewForErasureReplay ==
  /\ up = "closed" /\ ~ replayed /\ up' = "recovery"
  /\ UNCHANGED <<accounts, catalog, backup, signals, elsewhere, searching, gone, due, replayed, run, issued, restores, faults>>
CloseRecovery ==
  /\ up = "recovery" /\ (replayed \/ ~ Recorded) /\ \A r \in Runs : Free(r)
  /\ up' = "closed" /\ replayed' = TRUE
  /\ UNCHANGED <<accounts, catalog, backup, signals, elsewhere, searching, gone, due, run, issued, restores, faults>>

\* The reader delivers the event at least once; the replay takes every
\* recorded account.
Deliver(r) == up = "serving" /\ gone /\ Anonymize(r)
Replay(r) == up = "recovery" /\ ~ replayed /\ Recorded /\ Anonymize(r)

Operate == New \/ NewForErasureReplay \/ CloseRecovery
Next ==
  \/ \E c \in Contribs : Contribute(c)
  \/ \E e \in Events : Send(e) \/ Land(e)
  \/ Search \/ KeepSearch \/ PruneSearches
  \/ \E life \in {"none", "deleted"} : SetAccountDeleted(life)
  \/ Purge
  \/ \E r \in Runs : Deliver(r) \/ Replay(r) \/ Work(r) \/ Fail(r)
  \/ Restart \/ TakeBackup \/ Restore \/ Operate

Spec == Init /\ [][Next]_vars

\* The reader does not pass the event before a call succeeds, an interrupted
\* replay is repeated, operators open the engine again, and statements end.
FairSpec ==
  /\ Spec /\ WF_vars(\E r \in Runs : due /\ Deliver(r)) /\ WF_vars(\E r \in Runs : Replay(r))
  /\ \A r \in Runs : WF_vars(Work(r))
  /\ WF_vars(Operate) /\ WF_vars(KeepSearch) /\ WF_vars(PruneSearches) /\ \A e \in Events : WF_vars(Land(e))

\* The signal plane is restored from a backup taken before the fence, and the
\* engine serves again only after a complete replay.
RestoreSignals ==
  /\ restores < Restores /\ restores' = restores + 1
  /\ up' = "closed" /\ run' = [r \in Runs |-> Idle] /\ searching' = FALSE
  /\ ledger' = FALSE /\ rows' = kept /\ copies' = {} /\ flight' = {} /\ replayed' = FALSE
  /\ UNCHANGED <<accounts, catalog, backup, sent, kept, elsewhere, gone, due, issued, faults>>
SignalsSpec ==
  Init /\ [][(Next /\ (up = "closed" /\ up' = "serving" => replayed)) \/ RestoreSignals]_vars

(***************************************************************************)
(* Properties                                                              *)
(***************************************************************************)
Attributed == {c \in Contribs : catalog.by[c] = Account}

Catalogs ==
  [life : {"none", "deleted", "purging", "purged"}, key : Nat \cup {None}, erased : {"none", "fenced", "complete"},
   by : [Contribs -> Nat \cup {None}], searched : BOOLEAN]

\* Types; the account's key exists exactly while its anonymisation runs, so
\* nothing can map the account to it afterwards.
TypeOK ==
  /\ {intent, receipt, ledger, searching, gone, due, replayed} \subseteq BOOLEAN
  /\ catalog \in Catalogs /\ backup \in Catalogs
  /\ rows \cup flight \cup kept \subseteq sent /\ sent \subseteq Events /\ copies \subseteq Events \X Nat
  /\ elsewhere \subseteq {"inbox", "provider", "avatar"} /\ up \in {"serving", "closed", "recovery"}
  /\ run \in [Runs -> [pc : {"idle", "content", "private", "fence", "copy", "delete", "count", "searches",
                             "avatar", "complete", "finish"}, key : Nat \cup {None}, pass : 0 .. Passes - 1]]
  /\ issued \in Nat /\ restores \in 0 .. Restores /\ faults \in 0 .. MaxFaults
  /\ catalog.key # None <=> catalog.life = "purging"

\* An engine that serves shows nothing of an account whose anonymisation was
\* completed once, though the catalog may come from a backup of any moment
\* (checkErasureReplay); and once the fence is committed nothing is attributed.
PurgedIsUnlinked ==
  /\ Erased => Attributed = {}
  /\ up = "serving" /\ receipt => Attributed = {} /\ ledger /\ elsewhere = {}

\* New refuses to serve only if the catalog was restored: "a receipt without
\* local completion proves a catalog restore" (erasure.go:13-15).
RefusalMeansRestore == ReplayRequired => restores > 0

\* The check at start is exact: it refuses every catalog that would show an
\* erased account and no other.
StartChecked == PurgedIsUnlinked /\ RefusalMeansRestore

\* No signal that landed before the fence is lost, and without a restore all
\* that the account did stays one person's, whichever call moved it.
ContributionsKept ==
  /\ \A e \in kept : e \in rows \/ \E k \in 1 .. issued : <<e, k>> \in copies
  /\ restores = 0 => \A x, y \in copies : x[2] = y[2]
  /\ restores = 0 => \A c \in Contribs, x \in copies : catalog.by[c] \in {None, Account, x[2]}

\* A purged account is anonymised in the end, through failed calls, restarts
\* and restores, and stays so.
PurgeCompletes ==
  <>[]gone => <>[](/\ receipt /\ ledger /\ elsewhere = {} /\ catalog.erased = "complete"
                   /\ Attributed = {} /\ ~ catalog.searched)

\* "Erasures never roll back" (docs/restore.md:26), also when the signal
\* plane is restored and the documented replay was run.
ErasuresNeverRollBack == up = "serving" /\ receipt => ledger
================================================================================
