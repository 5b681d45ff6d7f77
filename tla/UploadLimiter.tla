----------------------------- MODULE UploadLimiter -----------------------------
(***************************************************************************)
(* The upload limits of one quota owner (src/internal/mediastore:          *)
(* limiter.go, and its callers in upload.go and journal.go).               *)
(*                                                                         *)
(* A presign reserves its upload in one transaction of several statements, *)
(* READ COMMITTED: it counts the upload in its uploader's hour, whose row  *)
(* it keeps locked, sums the counters of the last day, locks the owner's   *)
(* usage, and adds up what is reserved.  A refusal rolls all of it back.   *)
(* A commit charges the upload when it is prepared, whether or not the     *)
(* reservation is still there, and settling it drops the reservation.      *)
(*                                                                         *)
(* An upload is presigned once; a client that lost the answer presigns     *)
(* another one.  Hours are the only time: rows and transactions have ages. *)
(***************************************************************************)
EXTENDS Integers, FiniteSets, FiniteSetsExt

CONSTANTS
  Uploads,      \* presigned uploads, each with a staged key of its own
  Exempt,       \* those whose grant skips the limits
  By,           \* their uploaders
  Size,         \* their declared sizes
  Least,        \* what an upload is charged at least
  FilesPerHour, BytesPerDay, Quota,
  Day,          \* how many hourly counters a day has
  TTL           \* ReservationTTL in hours

Uploaders == {By[u] : u \in Uploads}

ASSUME LimiterAssumption ==
  /\ IsFiniteSet(Uploads) /\ Exempt \subseteq Uploads /\ Size \in [Uploads -> Nat \ {0}]
  /\ {FilesPerHour, Day, TTL} \subseteq Nat \ {0} /\ {BytesPerDay, Quota, Least} \subseteq Nat

VARIABLES
  rates,     \* content_media_upload_rates by uploader and age
  used,      \* content_media_usage of the owner
  res,       \* content_media_reservations: hours left, or None
  tx,        \* the Reserve transaction of each upload: [pc, age, saw]
  upload,    \* wanted, open, prepared, stored, gone
  overtaken  \* an upload was charged beyond what it had reserved

limiterVars == <<rates, used, res, tx, upload, overtaken>>

None == TTL + 1
Ages == 0 .. Day
Idle == [pc |-> "idle", age |-> 0, saw |-> 0]
Zero == [files |-> 0, bytes |-> 0]

LimiterInit ==
  /\ rates = [a \in Uploaders |-> [h \in Ages |-> Zero]]
  /\ used = 0 /\ res = [u \in Uploads |-> None]
  /\ tx = [u \in Uploads |-> Idle]
  /\ upload = [u \in Uploads |-> IF u \in Exempt THEN "open" ELSE "wanted"]
  /\ overtaken = FALSE

Reserved(u) == res[u] # None
Charge(u) == IF Size[u] < Least THEN Least ELSE Size[u]
Refunded(n) == IF n < used THEN used - n ELSE 0
Bytes(uploads) == UNION {{u} \X (1 .. Size[u]) : u \in uploads}
Total(uploads) == Cardinality(Bytes(uploads))

(***************************************************************************)
(* Reserve                                                                 *)
(***************************************************************************)
Goto(u, pc) == tx' = [tx EXCEPT ![u].pc = pc]
Refuse(u) == tx' = [tx EXCEPT ![u] = Idle] /\ UNCHANGED rates

\* now() is the beginning of the transaction.
Begin(u) ==
  /\ upload[u] = "wanted" /\ tx[u].pc = "idle"
  /\ Goto(u, "file")
  /\ UNCHANGED <<rates, used, res, upload, overtaken>>

\* The insert waits for the row's lock and counts on what is committed.
HourLocked(u) == \E o \in Uploads \ {u} :
  By[o] = By[u] /\ tx[o].age = tx[u].age /\ tx[o].pc \in {"day", "usage", "pending"}
FilesFit(u) == rates[By[u]][tx[u].age].files < FilesPerHour
CountFile(u) ==
  /\ tx[u].pc = "file" /\ ~ HourLocked(u)
  /\ IF FilesFit(u) THEN Goto(u, "day") /\ UNCHANGED rates ELSE Refuse(u)
  /\ UNCHANGED <<used, res, upload, overtaken>>

\* Counters a day old are deleted; the sum sees every other committed one.
InDay(age) == 0 .. age + Day - 1
DayBytes(u) == Size[u] + MapThenSumSet(LAMBDA h : rates[By[u]][h].bytes, InDay(tx[u].age) \cap Ages)
CountDay(u) ==
  /\ tx[u].pc = "day"
  /\ IF DayBytes(u) <= BytesPerDay THEN Goto(u, "usage") /\ UNCHANGED rates ELSE Refuse(u)
  /\ UNCHANGED <<used, res, upload, overtaken>>

\* The usage row serialises the owner's reservations and settlements.
\* A bug: usage is read without a lock.
UsageUnlocked == FALSE
UsageLocked == \E u \in Uploads : tx[u].pc = "pending"
LockUsage(u) ==
  /\ tx[u].pc = "usage" /\ ~ UsageLocked
  /\ tx' = [tx EXCEPT ![u].pc = "pending", ![u].saw = used]
  /\ UNCHANGED <<rates, used, res, upload, overtaken>>

\* Expired reservations go, the others are added up, and all commits at once.
\* A bug: reservations never expire.
KeptAll(u) == {o \in Uploads : Reserved(o)}
Kept(u) == {o \in Uploads : Reserved(o) /\ res[o] > - tx[u].age}
Admit(u) ==
  /\ tx[u].pc = "pending"
  /\ IF tx[u].saw + Total(Kept(u)) + Size[u] > Quota
     THEN Refuse(u) /\ UNCHANGED <<res, upload>>
     ELSE /\ res' = [o \in Uploads |-> IF o = u THEN TTL - tx[u].age ELSE IF o \in Kept(u) THEN res[o] ELSE None]
          /\ rates' = [rates EXCEPT ![By[u]] = [h \in Ages |->
               IF h = tx[u].age THEN [files |-> @[h].files + 1, bytes |-> @[h].bytes + Size[u]]
               ELSE IF h \in InDay(tx[u].age) THEN @[h] ELSE Zero]]
          /\ upload' = [upload EXCEPT ![u] = "open"]
          /\ tx' = [tx EXCEPT ![u] = Idle]
  /\ UNCHANGED <<used, overtaken>>

(***************************************************************************)
(* The upload                                                              *)
(***************************************************************************)
\* A presign that fails after it reserved, or an aborted upload, drops the
\* reservation alone; an assembled upload may be committed all the same.
Release(u) ==
  /\ upload[u] = "open" /\ u \notin Exempt
  /\ res' = [res EXCEPT ![u] = None]
  /\ upload' \in {upload, [upload EXCEPT ![u] = "gone"]}
  /\ UNCHANGED <<rates, used, tx, overtaken>>

\* prepare charges growth; only a grant that is not exempt is refused.
Prepare(u) ==
  /\ upload[u] = "open" /\ ~ UsageLocked
  /\ u \in Exempt \/ used + Charge(u) <= Quota
  /\ used' = used + Charge(u)
  /\ upload' = [upload EXCEPT ![u] = "prepared"]
  /\ overtaken' = (overtaken \/ ~ Reserved(u) \/ Size[u] < Charge(u))
  /\ UNCHANGED <<rates, res, tx>>

\* finish: applied, the reservation is settled; absent, the charge is
\* returned and the reservation stays for a repetition.
Finish(u) ==
  /\ upload[u] = "prepared" /\ ~ UsageLocked
  /\ \/ /\ upload' = [upload EXCEPT ![u] = "stored"] /\ res' = [res EXCEPT ![u] = None]
        /\ UNCHANGED used
     \/ /\ upload' = [upload EXCEPT ![u] = "open"] /\ used' = Refunded(Charge(u))
        /\ UNCHANGED res
  /\ UNCHANGED <<rates, tx, overtaken>>

Delete(u) ==
  /\ upload[u] = "stored" /\ ~ UsageLocked
  /\ upload' = [upload EXCEPT ![u] = "gone"]
  /\ used' = Refunded(Charge(u))
  /\ UNCHANGED <<rates, res, tx, overtaken>>

\* An hour begins.  No transaction lasts longer than one.
Tick ==
  /\ \A u \in Uploads : tx[u].age = 0
  /\ rates' = [a \in Uploaders |-> [h \in Ages |-> IF h = 0 THEN Zero ELSE rates[a][h - 1]]]
  /\ res' = [u \in Uploads |-> IF Reserved(u) /\ res[u] >= 0 THEN res[u] - 1 ELSE res[u]]
  /\ tx' = [u \in Uploads |-> IF tx[u].pc = "idle" THEN tx[u] ELSE [tx[u] EXCEPT !.age = 1]]
  /\ UNCHANGED <<used, upload, overtaken>>

Reserve(u) == Begin(u) \/ CountFile(u) \/ CountDay(u) \/ LockUsage(u) \/ Admit(u)

LimiterNext == Tick \/ \E u \in Uploads : Reserve(u) \/ Release(u) \/ Prepare(u) \/ Finish(u) \/ Delete(u)

\* Clients that were refused ask again, statements end, and row locks are
\* granted in order.  Nobody needs to commit, abort or delete.
LimiterSpec ==
  /\ LimiterInit /\ [][LimiterNext]_limiterVars /\ WF_limiterVars(Tick)
  /\ \A u \in Uploads : WF_limiterVars(Reserve(u)) /\ SF_limiterVars(CountFile(u)) /\ SF_limiterVars(LockUsage(u))

(***************************************************************************)
(* Properties                                                              *)
(***************************************************************************)
\* Types; and no hour counts more files of an uploader than it may, however
\* many presigns run beside each other.
LimiterTypeOK ==
  /\ rates \in [Uploaders -> [Ages -> [files : 0 .. FilesPerHour, bytes : Nat]]]
  /\ used \in Nat /\ overtaken \in BOOLEAN /\ res \in [Uploads -> -1 .. None]
  /\ tx \in [Uploads -> [pc : {"idle", "file", "day", "usage", "pending"}, age : {0, 1}, saw : Nat]]
  /\ upload \in [Uploads -> {"wanted", "open", "prepared", "stored", "gone"}]

\* A reservation is as good as the bytes: what is stored and what is reserved
\* fit together, so a commit that reserved is not refused, unless another was
\* charged that was exempt, had lost its reservation, or had reserved less
\* than the least charge (Reserve, SettleTx, finish).
Charged(u) == upload[u] \in {"prepared", "stored"}
ReservedFit ==
  overtaken \/ used + Total({u \in Uploads : Reserved(u) /\ ~ Charged(u)}) <= Quota

\* Both hold.
LimitsOK == LimiterTypeOK /\ ReservedFit

\* Refusals end: a client that keeps asking for what the owner's usage leaves
\* room for is presigned in the end, once old reservations expired and the
\* uploader's hours passed.
RoomReturns ==
  \A u \in Uploads \ Exempt : <>[](used + Size[u] <= Quota) => <>(upload[u] # "wanted")

\* "The hour row lock serializes one uploader's presigns" (limiter.go:122-124):
\* no day's counters exceed the limit.
DayHolds == \A a \in Uploaders : MapThenSumSet(LAMBDA h : rates[a][h].bytes, 0 .. Day - 1) <= BytesPerDay
================================================================================
