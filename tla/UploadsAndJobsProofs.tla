------------------------- MODULE UploadsAndJobsProofs -------------------------
(***************************************************************************)
(* The safety of two parts of the media store that share no state:         *)
(* UploadLimiter, for any uploads, sizes, limits and hours; and            *)
(* RerunQueue, for any clients, changes, passes and faults.                *)
(*                                                                         *)
(* The limiter: one presign at a time holds an uploader's hour, so its     *)
(* counter is still below the limit when it commits; one at a time holds   *)
(* the owner's usage, so what it read is what is used when it commits; and *)
(* the usage is exactly the charges of what is prepared or stored, so a    *)
(* refund is never cut off at zero.                                        *)
(*                                                                         *)
(* The queue: an insert finds a job that has yet to start or adds one, and *)
(* every step of a job keeps it one that will read, or has read, every     *)
(* change that was told, until a finished run has applied them.  That the  *)
(* insert really adds the job it needs rests on the model's bound: every   *)
(* job was paid for by a change or a pass, and an insert in progress has   *)
(* not spent its own.                                                      *)
(***************************************************************************)
EXTENDS UploadLimiter, RerunQueue, FiniteSetTheorems, WellFoundedInduction, TLAPS

(***************************************************************************)
(* UploadLimiter                                                           *)
(***************************************************************************)
TxValues == [pc : {"idle", "file", "day", "usage", "pending"}, age : {0, 1}, saw : Nat]
RateValues == [files : 0 .. FilesPerHour, bytes : Nat]

\* What any sizes amount to, byte by byte.
Units(of, uploads) == UNION {{u} \X (1 .. of[u]) : u \in uploads}
Sum(of, uploads) == Cardinality(Units(of, uploads))
Charges == [u \in Uploads |-> Charge(u)]

\* What is used is what is charged.
UsedIsCharged == used = Sum(Charges, {u \in Uploads : Charged(u)})

\* Only an upload that was not presigned yet reserves.
Waiting == \A u \in Uploads : /\ upload[u] = "wanted" => ~ Reserved(u)
                              /\ tx[u].pc # "idle" => upload[u] = "wanted"

\* A presign holds its uploader's hour from its count to its end.
InHour(u) == tx[u].pc \in {"day", "usage", "pending"}
HoursHeld ==
  /\ \A u \in Uploads : InHour(u) => FilesFit(u)
  /\ \A u, o \in Uploads : InHour(u) /\ InHour(o) /\ By[u] = By[o] /\ tx[u].age = tx[o].age => u = o

\* One presign holds the usage, and what it read stays true.
UsageHeld ==
  /\ \A u \in Uploads : tx[u].pc = "pending" => tx[u].saw = used
  /\ \A u, o \in Uploads : tx[u].pc = "pending" /\ tx[o].pc = "pending" => u = o

Outstanding == {u \in Uploads : Reserved(u) /\ ~ Charged(u)}

LimiterInv == LimiterTypeOK /\ UsedIsCharged /\ Waiting /\ HoursHeld /\ UsageHeld /\ ReservedFit

(***************************************************************************)
(* Numbers and sums                                                        *)
(***************************************************************************)
LEMMA Numbers ==
  /\ FilesPerHour \in Nat /\ FilesPerHour >= 1 /\ Day \in Nat /\ Day >= 1 /\ TTL \in Nat /\ TTL >= 1
  /\ Quota \in Nat /\ Least \in Nat /\ None = TTL + 1 /\ 0 \in Ages /\ 1 \in Ages
  /\ \A u \in Uploads : By[u] \in Uploaders /\ Size[u] \in Nat /\ Charge(u) \in Nat /\ Charge(u) >= Size[u]
  /\ Size \in [Uploads -> Nat] /\ Charges \in [Uploads -> Nat] /\ \A u \in Uploads : Charges[u] = Charge(u)
<1>1. Size \in [Uploads -> Nat] /\ Least \in Nat
  BY LimiterAssumption
<1>2. \A u \in Uploads : Charge(u) \in Nat /\ Charge(u) >= Size[u]
  BY <1>1 DEF Charge
<1>3. FilesPerHour \in Nat \ {0} /\ Day \in Nat \ {0} /\ TTL \in Nat \ {0} /\ Quota \in Nat
  BY LimiterAssumption
<1>4. \A u \in Uploads : By[u] \in Uploaders
  BY DEF Uploaders
<1>5. Charges \in [Uploads -> Nat] /\ \A u \in Uploads : Charges[u] = Charge(u)
  BY <1>2 DEF Charges
<1>6. None = TTL + 1 /\ 0 \in Ages /\ 1 \in Ages
  BY <1>3 DEF None, Ages
<1> QED
  BY <1>1, <1>2, <1>3, <1>4, <1>5, <1>6

LEMMA UnitsFinite ==
  ASSUME NEW of \in [Uploads -> Nat], NEW uploads \in SUBSET Uploads
  PROVE  IsFiniteSet(Units(of, uploads)) /\ Sum(of, uploads) \in Nat
<1> DEFINE each == [u \in uploads |-> {u} \X (1 .. of[u])]
           all == {{u} \X (1 .. of[u]) : u \in uploads}
<1>1. IsFiniteSet(uploads)
  BY LimiterAssumption, FS_Subset
<1>2. each \in Surjection(uploads, all)
  BY DEF Surjection
<1>3. IsFiniteSet(all)
  <2> HIDE DEF each, all
  <2> QED
    BY <1>1, <1>2, FS_Surjection
<1>4. ASSUME NEW u \in uploads PROVE IsFiniteSet({u} \X (1 .. of[u]))
  <2>1. of[u] \in Int /\ 1 \in Int
    OBVIOUS
  <2>2. IsFiniteSet(1 .. of[u]) /\ IsFiniteSet({u})
    BY <2>1, FS_Interval, FS_Singleton
  <2> QED
    BY <2>2, FS_Product
<1>5. \A s \in all : IsFiniteSet(s)
  BY <1>4
<1>6. IsFiniteSet(UNION all)
  <2> HIDE DEF all
  <2> QED
    BY <1>3, <1>5, FS_UNION
<1>7. Units(of, uploads) = UNION all
  BY DEF Units
<1> QED
  BY <1>6, <1>7, FS_CardinalityType DEF Sum

LEMMA SumSubset ==
  ASSUME NEW of \in [Uploads -> Nat], NEW more \in SUBSET Uploads, NEW uploads \in SUBSET more
  PROVE  Sum(of, uploads) <= Sum(of, more)
<1>1. Units(of, uploads) \in SUBSET Units(of, more)
  BY DEF Units
<1> QED
  BY <1>1, UnitsFinite, FS_Subset DEF Sum

LEMMA SumAdd ==
  ASSUME NEW of \in [Uploads -> Nat], NEW uploads \in SUBSET Uploads, NEW u \in Uploads \ uploads
  PROVE  Sum(of, uploads \cup {u}) = Sum(of, uploads) + of[u]
<1> DEFINE own == {u} \X (1 .. of[u])
<1>1. IsFiniteSet(own) /\ Cardinality(own) = of[u]
  <2>1. of[u] \in Int /\ 1 \in Int /\ of[u] \in Nat
    OBVIOUS
  <2>2. IsFiniteSet(1 .. of[u]) /\ Cardinality(1 .. of[u]) = of[u]
    BY <2>1, FS_Interval
  <2>3. IsFiniteSet({u}) /\ Cardinality({u}) = 1
    BY FS_Singleton
  <2>4. IsFiniteSet(own) /\ Cardinality(own) = Cardinality({u}) * Cardinality(1 .. of[u])
    BY <2>2, <2>3, FS_Product
  <2> QED
    BY <2>1, <2>2, <2>3, <2>4
<1>2. Units(of, uploads \cup {u}) = Units(of, uploads) \cup own
  BY DEF Units
<1>3. Units(of, uploads) \cap own = {}
  BY DEF Units
<1>4. IsFiniteSet(Units(of, uploads)) /\ Sum(of, uploads) \in Nat
  BY UnitsFinite
<1>5. Cardinality({}) = 0
  BY FS_EmptySet
<1> HIDE DEF own
<1>6. Cardinality(Units(of, uploads) \cup own)
        = Cardinality(Units(of, uploads)) + Cardinality(own) - Cardinality(Units(of, uploads) \cap own)
  BY <1>1, <1>4, FS_Union
<1>7. Cardinality(Units(of, uploads) \cup own) = Cardinality(Units(of, uploads)) + of[u] - 0
  BY <1>1, <1>3, <1>5, <1>6
<1>8. Sum(of, uploads \cup {u}) = Sum(of, uploads) + of[u] - 0
  BY <1>2, <1>7 DEF Sum
<1> QED
  BY <1>4, <1>8

\* Leaving out one of them, or taking one in, moves a sum by at most its size.
LEMMA SumMoves ==
  ASSUME NEW of \in [Uploads -> Nat], NEW before \in SUBSET Uploads, NEW after \in SUBSET Uploads, NEW u \in Uploads
  PROVE  /\ u \notin before /\ after = before \cup {u} => Sum(of, after) = Sum(of, before) + of[u]
         /\ u \in before /\ after = before \ {u} => Sum(of, after) = Sum(of, before) - of[u]
         /\ after \subseteq before \cup {u} => Sum(of, after) <= Sum(of, before) + of[u]
<1>1. Sum(of, before) \in Nat /\ Sum(of, after) \in Nat /\ of[u] \in Nat
  BY UnitsFinite
<1>2. ASSUME u \notin before, after = before \cup {u} PROVE Sum(of, after) = Sum(of, before) + of[u]
  BY <1>2, SumAdd
<1>3. ASSUME u \in before, after = before \ {u} PROVE Sum(of, after) = Sum(of, before) - of[u]
  <2>1. before = after \cup {u} /\ u \in Uploads \ after
    BY <1>3
  <2>2. Sum(of, before) = Sum(of, after) + of[u]
    BY <2>1, SumAdd
  <2> QED
    BY <1>1, <2>2
<1>4. ASSUME after \subseteq before \cup {u} PROVE Sum(of, after) <= Sum(of, before) + of[u]
  <2>1. before \cup {u} \in SUBSET Uploads
    OBVIOUS
  <2>2. Sum(of, after) <= Sum(of, before \cup {u})
    BY <1>4, <2>1, SumSubset
  <2>3. CASE u \in before
    <3>1. before \cup {u} = before
      BY <2>3
    <3>2. Sum(of, after) <= Sum(of, before)
      BY <2>2, <3>1
    <3> QED
      BY <1>1, <3>2
  <2>4. CASE u \notin before
    <3>1. Sum(of, before \cup {u}) = Sum(of, before) + of[u]
      BY <2>4, SumAdd
    <3> QED
      BY <2>2, <3>1
  <2> QED
    BY <2>3, <2>4
<1> QED
  BY <1>2, <1>3, <1>4

LEMMA TotalIs == \A uploads \in SUBSET Uploads : Total(uploads) = Sum(Size, uploads)
BY DEF Total, Bytes, Sum, Units

(***************************************************************************)
(* Steps                                                                   *)
(***************************************************************************)
\* What each part of the invariant needs of a step that leaves the counters
\* and what is charged and reserved alone: only a presign moves on.
LEMMA PresignKeeps ==
  ASSUME LimiterInv, NEW u \in Uploads, upload[u] = "wanted", tx' \in [Uploads -> TxValues],
         \A o \in Uploads \ {u} : tx'[o] = tx[o],
         UNCHANGED <<rates, used, res, upload, overtaken>>,
         InHour(u)' => FilesFit(u)',
         InHour(u)' => \A o \in Uploads \ {u} : InHour(o) /\ By[u] = By[o] => tx'[u].age # tx[o].age,
         tx'[u].pc = "pending" => /\ tx'[u].saw = used
                                  /\ \A o \in Uploads \ {u} : tx[o].pc # "pending"
  PROVE  LimiterInv'
<1>1. LimiterTypeOK'
  BY DEF LimiterInv, LimiterTypeOK, TxValues
<1>2. UsedIsCharged' /\ ReservedFit'
  BY DEF LimiterInv, UsedIsCharged, ReservedFit, Charged, Reserved
<1>3. Waiting'
  BY DEF LimiterInv, Waiting, Reserved
<1>4. HoursHeld'
  <2>1. ASSUME NEW o \in Uploads, InHour(o)' PROVE FilesFit(o)'
    BY <2>1 DEF LimiterInv, HoursHeld, InHour, FilesFit
  <2>2. ASSUME NEW v \in Uploads, NEW o \in Uploads, InHour(v)', InHour(o)', By[v] = By[o], tx'[v].age = tx'[o].age
        PROVE  v = o
    BY <2>2 DEF LimiterInv, HoursHeld, InHour
  <2> QED
    BY <2>1, <2>2 DEF HoursHeld
<1>5. UsageHeld'
  BY DEF LimiterInv, UsageHeld
<1> QED
  BY <1>1, <1>2, <1>3, <1>4, <1>5 DEF LimiterInv

LEMMA ReserveKeeps ==
  ASSUME LimiterInv, NEW u \in Uploads, Begin(u) \/ CountFile(u) \/ CountDay(u) \/ LockUsage(u)
  PROVE  LimiterInv'
<1>1. upload[u] = "wanted"
  BY DEF LimiterInv, Waiting, Begin, CountFile, CountDay, LockUsage
<1>2. tx \in [Uploads -> TxValues] /\ tx[u] \in TxValues /\ used \in Nat /\ Idle \in TxValues
  BY DEF LimiterInv, LimiterTypeOK, TxValues, Idle
<1>3. /\ tx' \in [Uploads -> TxValues] /\ (\A o \in Uploads \ {u} : tx'[o] = tx[o])
      /\ UNCHANGED <<rates, used, res, upload, overtaken>>
      /\ \/ tx'[u] = Idle
         \/ /\ tx'[u].age = tx[u].age
            /\ \/ tx[u].pc = "idle" /\ tx'[u].pc = "file"
               \/ tx[u].pc = "file" /\ tx'[u].pc = "day" /\ FilesFit(u) /\ ~ HourLocked(u)
               \/ tx[u].pc = "day" /\ tx'[u].pc = "usage"
               \/ tx[u].pc = "usage" /\ tx'[u].pc = "pending" /\ tx'[u].saw = used /\ ~ UsageLocked
  <2>1. ASSUME NEW pc \in {"file", "day", "usage"}, Goto(u, pc)
        PROVE  /\ tx' \in [Uploads -> TxValues] /\ (\A o \in Uploads \ {u} : tx'[o] = tx[o])
               /\ tx'[u].age = tx[u].age /\ tx'[u].pc = pc
    BY <1>2, <2>1 DEF Goto, TxValues
  <2>2. ASSUME Refuse(u)
        PROVE  /\ tx' \in [Uploads -> TxValues] /\ (\A o \in Uploads \ {u} : tx'[o] = tx[o])
               /\ tx'[u] = Idle
    BY <1>2, <2>2 DEF Refuse
  <2>3. CASE Begin(u)
    BY <2>1, <2>3 DEF Begin
  <2>4. CASE CountFile(u)
    BY <2>1, <2>2, <2>4 DEF CountFile, Refuse
  <2>5. CASE CountDay(u)
    BY <2>1, <2>2, <2>5 DEF CountDay, Refuse
  <2>6. CASE LockUsage(u)
    <3>1. tx'[u] = [tx[u] EXCEPT !.pc = "pending", !.saw = used]
      BY <1>2, <2>6 DEF LockUsage
    <3>2. /\ tx'[u] \in TxValues /\ tx'[u].age = tx[u].age
          /\ tx'[u].pc = "pending" /\ tx'[u].saw = used
      BY <1>2, <3>1 DEF TxValues
    <3> QED
      BY <1>2, <2>6, <3>2 DEF LockUsage
  <2> QED
    BY <2>3, <2>4, <2>5, <2>6
<1>4. InHour(u)' => FilesFit(u)'
  BY <1>3 DEF LimiterInv, HoursHeld, InHour, FilesFit, Idle
<1>5. ASSUME InHour(u)', NEW o \in Uploads \ {u}, InHour(o), By[u] = By[o]
      PROVE  tx'[u].age # tx[o].age
  BY <1>3, <1>5 DEF LimiterInv, HoursHeld, InHour, HourLocked, Idle
<1>6. tx'[u].pc = "pending" => tx'[u].saw = used /\ \A o \in Uploads \ {u} : tx[o].pc # "pending"
  BY <1>3 DEF UsageLocked, Idle
<1> QED
  BY <1>1, <1>3, <1>4, <1>5, <1>6, PresignKeeps

\* An upload's own steps leave every presign alone, and the usage while one
\* has read it.
LEMMA UploadKeeps ==
  ASSUME LimiterInv, NEW u \in Uploads, UNCHANGED <<rates, tx>>, upload[u] # "wanted",
         upload' \in [Uploads -> {"wanted", "open", "prepared", "stored", "gone"}], upload'[u] # "wanted",
         \A o \in Uploads \ {u} : upload'[o] = upload[o] /\ res'[o] = res[o],
         res' \in [Uploads -> -1 .. None], used' \in Nat, overtaken' \in BOOLEAN,
         used' = used \/ ~ UsageLocked, UsedIsCharged', ReservedFit'
  PROVE  LimiterInv'
<1>1. LimiterTypeOK'
  BY DEF LimiterInv, LimiterTypeOK
<1>2. Waiting'
  BY DEF LimiterInv, Waiting, Reserved
<1>3. HoursHeld'
  BY DEF LimiterInv, HoursHeld, InHour, FilesFit
<1>4. UsageHeld'
  BY DEF LimiterInv, UsageHeld, UsageLocked
<1> QED
  BY <1>1, <1>2, <1>3, <1>4 DEF LimiterInv

AllCharged == {u \in Uploads : Charged(u)}

\* The charged and the outstanding uploads, before and after a step.
LEMMA SetsAre ==
  /\ AllCharged \in SUBSET Uploads /\ Outstanding \in SUBSET Uploads
  /\ AllCharged' \in SUBSET Uploads /\ Outstanding' \in SUBSET Uploads
  /\ Total(Outstanding) = Sum(Size, Outstanding) /\ Total(Outstanding)' = Sum(Size, Outstanding')
  /\ Sum(Charges, AllCharged) \in Nat /\ Sum(Charges, AllCharged') \in Nat
  /\ Sum(Size, Outstanding) \in Nat /\ Sum(Size, Outstanding') \in Nat
  /\ UsedIsCharged <=> used = Sum(Charges, AllCharged)
  /\ UsedIsCharged' <=> used' = Sum(Charges, AllCharged')
  /\ ReservedFit <=> overtaken \/ used + Sum(Size, Outstanding) <= Quota
  /\ ReservedFit' <=> overtaken' \/ used' + Sum(Size, Outstanding') <= Quota
<1>1. /\ AllCharged \in SUBSET Uploads /\ Outstanding \in SUBSET Uploads
      /\ AllCharged' \in SUBSET Uploads /\ Outstanding' \in SUBSET Uploads
  BY DEF AllCharged, Outstanding
<1>2. Total(Outstanding) = Sum(Size, Outstanding)
  BY <1>1, TotalIs
<1>3. Total(Outstanding)' = Sum(Size, Outstanding')
  BY <1>1 DEF Total, Bytes, Sum, Units
<1>4. /\ UsedIsCharged <=> used = Sum(Charges, AllCharged)
      /\ ReservedFit <=> overtaken \/ used + Sum(Size, Outstanding) <= Quota
  BY <1>2 DEF UsedIsCharged, AllCharged, ReservedFit, Outstanding
<1>5. Charges' = Charges
  BY DEF Charges, Charge
<1>6. UsedIsCharged' <=> used' = Sum(Charges, AllCharged')
  BY <1>5 DEF UsedIsCharged, AllCharged, Sum, Units
<1>7. ReservedFit' <=> overtaken' \/ used' + Sum(Size, Outstanding') <= Quota
  BY <1>3 DEF ReservedFit, Outstanding
<1> QED
  BY <1>1, <1>2, <1>3, <1>4, <1>6, <1>7, Numbers, UnitsFinite

LEMMA ReleaseKeeps ==
  ASSUME LimiterInv, NEW u \in Uploads, Release(u)
  PROVE  LimiterInv'
<1>1. res' \in [Uploads -> -1 .. None] /\ ~ Reserved(u)' /\ \A o \in Uploads \ {u} : res'[o] = res[o]
  BY Numbers DEF LimiterInv, LimiterTypeOK, Release, Reserved
<1>2. /\ upload' \in [Uploads -> {"wanted", "open", "prepared", "stored", "gone"}]
      /\ upload'[u] \in {"open", "gone"} /\ \A o \in Uploads \ {u} : upload'[o] = upload[o]
  BY DEF LimiterInv, LimiterTypeOK, Release
<1>3. UsedIsCharged' /\ ReservedFit'
  <2>1. AllCharged' = AllCharged
    BY <1>2 DEF AllCharged, Charged, Release
  <2>2. Outstanding' \in SUBSET Outstanding
    BY <1>1, <1>2 DEF Outstanding, Charged, Reserved
  <2>3. Sum(Size, Outstanding') <= Sum(Size, Outstanding)
    BY <2>2, SetsAre, SumSubset, Numbers
  <2>4. used' = used /\ overtaken' = overtaken /\ used \in Nat
    BY DEF Release, LimiterInv, LimiterTypeOK
  <2>5. UsedIsCharged'
    BY <2>1, <2>4, SetsAre DEF LimiterInv
  <2>6. overtaken \/ used + Sum(Size, Outstanding) <= Quota
    BY SetsAre DEF LimiterInv
  <2>7. overtaken \/ used + Sum(Size, Outstanding') <= Quota
    BY <2>3, <2>4, <2>6, SetsAre, Numbers
  <2> QED
    BY <2>4, <2>5, <2>7, SetsAre
<1> QED
  BY <1>1, <1>2, <1>3, UploadKeeps DEF Release, LimiterInv, LimiterTypeOK

LEMMA PrepareKeeps ==
  ASSUME LimiterInv, NEW u \in Uploads, Prepare(u)
  PROVE  LimiterInv'
<1>1. /\ upload' \in [Uploads -> {"wanted", "open", "prepared", "stored", "gone"}]
      /\ upload'[u] = "prepared" /\ \A o \in Uploads \ {u} : upload'[o] = upload[o]
  BY DEF LimiterInv, LimiterTypeOK, Prepare
<1>2. used' = used + Charge(u) /\ used \in Nat /\ used' \in Nat
  BY Numbers DEF LimiterInv, LimiterTypeOK, Prepare
<1>3. UsedIsCharged'
  <2>1. u \notin AllCharged /\ AllCharged' = AllCharged \cup {u}
    BY <1>1 DEF AllCharged, Charged, Prepare
  <2>2. Sum(Charges, AllCharged') = Sum(Charges, AllCharged) + Charges[u]
    BY <2>1, SetsAre, SumMoves, Numbers
  <2> QED
    BY <1>2, <2>2, SetsAre, Numbers DEF LimiterInv
<1>4. ReservedFit'
  <2> SUFFICES ASSUME ~ overtaken' PROVE used' + Sum(Size, Outstanding') <= Quota
    BY SetsAre
  <2>1. ~ overtaken /\ Reserved(u) /\ ~ (Size[u] < Charge(u))
    BY DEF Prepare
  <2>2. u \in Outstanding /\ Outstanding' = Outstanding \ {u}
    BY <1>1, <2>1 DEF Outstanding, Charged, Reserved, Prepare
  <2>3. Sum(Size, Outstanding') = Sum(Size, Outstanding) - Size[u]
    BY <2>2, SetsAre, SumMoves, Numbers
  <2>4. used + Sum(Size, Outstanding) <= Quota
    BY <2>1, SetsAre DEF LimiterInv
  <2>5. Charge(u) = Size[u]
    BY <2>1, Numbers
  <2> QED
    BY <1>2, <2>3, <2>4, <2>5, SetsAre, Numbers
<1> QED
  BY <1>1, <1>2, <1>3, <1>4, UploadKeeps DEF Prepare, LimiterInv, LimiterTypeOK

\* A refund takes back what was charged, never less.
LEMMA Refunds ==
  ASSUME LimiterInv, NEW u \in Uploads, Charged(u), upload'[u] \notin {"prepared", "stored"},
         \A o \in Uploads \ {u} : upload'[o] = upload[o],
         used' = Refunded(Charge(u)), UNCHANGED <<res, overtaken>>
  PROVE  used' \in Nat /\ UsedIsCharged' /\ ReservedFit'
<1>1. u \in AllCharged /\ AllCharged' = AllCharged \ {u}
  BY DEF AllCharged, Charged
<1>2. Sum(Charges, AllCharged') = Sum(Charges, AllCharged) - Charge(u)
  BY <1>1, SetsAre, SumMoves, Numbers
<1>3. used = Sum(Charges, AllCharged)
  BY SetsAre DEF LimiterInv
<1>4. Charge(u) \in Nat /\ used \in Nat /\ Sum(Charges, AllCharged') \in Nat
  BY <1>3, SetsAre, Numbers
<1>5. used' = used - Charge(u)
  <2>1. Charge(u) <= used
    BY <1>2, <1>3, <1>4
  <2>2. CASE Charge(u) < used
    BY <2>2 DEF Refunded
  <2>3. CASE Charge(u) = used
    BY <1>4, <2>3 DEF Refunded
  <2> QED
    BY <1>4, <2>1, <2>2, <2>3
<1>6. used' = Sum(Charges, AllCharged')
  BY <1>2, <1>3, <1>5
<1>7. Outstanding' \subseteq Outstanding \cup {u}
  BY DEF Outstanding, Charged, Reserved
<1>8. Sum(Size, Outstanding') <= Sum(Size, Outstanding) + Size[u]
  BY <1>7, SetsAre, SumMoves, Numbers
<1>9. overtaken \/ used + Sum(Size, Outstanding) <= Quota
  BY SetsAre DEF LimiterInv
<1>10. overtaken \/ used' + Sum(Size, Outstanding') <= Quota
  <2>1. /\ Size[u] \in Nat /\ Size[u] <= Charge(u) /\ Quota \in Nat
        /\ Sum(Size, Outstanding) \in Nat /\ Sum(Size, Outstanding') \in Nat
    BY SetsAre, Numbers
  <2> QED
    BY <1>4, <1>5, <1>8, <1>9, <2>1
<1> QED
  BY <1>4, <1>6, <1>10, SetsAre

LEMMA FinishKeeps ==
  ASSUME LimiterInv, NEW u \in Uploads, Finish(u)
  PROVE  LimiterInv'
<1>1. upload[u] = "prepared" /\ Charged(u) /\ ~ UsageLocked /\ UNCHANGED <<rates, tx, overtaken>>
  BY DEF Finish, Charged
<1>2. CASE /\ upload' = [upload EXCEPT ![u] = "stored"] /\ res' = [res EXCEPT ![u] = None]
           /\ UNCHANGED used
  <2>1. /\ upload' \in [Uploads -> {"wanted", "open", "prepared", "stored", "gone"}]
        /\ upload'[u] = "stored" /\ \A o \in Uploads \ {u} : upload'[o] = upload[o]
    BY <1>2 DEF LimiterInv, LimiterTypeOK
  <2>2. res' \in [Uploads -> -1 .. None] /\ \A o \in Uploads \ {u} : res'[o] = res[o]
    BY <1>2, Numbers DEF LimiterInv, LimiterTypeOK
  <2>3. AllCharged' = AllCharged /\ Outstanding' = Outstanding
    BY <1>1, <2>1, <2>2 DEF AllCharged, Outstanding, Charged, Reserved
  <2>4. UsedIsCharged' /\ ReservedFit'
    BY <1>1, <1>2, <2>3, SetsAre DEF LimiterInv
  <2> QED
    BY <1>1, <1>2, <2>1, <2>2, <2>4, UploadKeeps DEF LimiterInv, LimiterTypeOK
<1>3. CASE /\ upload' = [upload EXCEPT ![u] = "open"] /\ used' = Refunded(Charge(u))
           /\ UNCHANGED res
  <2>1. /\ upload' \in [Uploads -> {"wanted", "open", "prepared", "stored", "gone"}]
        /\ upload'[u] = "open" /\ \A o \in Uploads \ {u} : upload'[o] = upload[o]
    BY <1>3 DEF LimiterInv, LimiterTypeOK
  <2>2. used' \in Nat /\ UsedIsCharged' /\ ReservedFit'
    BY <1>1, <1>3, <2>1, Refunds
  <2> QED
    BY <1>1, <1>3, <2>1, <2>2, UploadKeeps DEF LimiterInv, LimiterTypeOK
<1> QED
  BY <1>2, <1>3 DEF Finish

LEMMA DeleteKeeps ==
  ASSUME LimiterInv, NEW u \in Uploads, Delete(u)
  PROVE  LimiterInv'
<1>1. /\ upload' \in [Uploads -> {"wanted", "open", "prepared", "stored", "gone"}]
      /\ upload'[u] = "gone" /\ \A o \in Uploads \ {u} : upload'[o] = upload[o]
  BY DEF LimiterInv, LimiterTypeOK, Delete
<1>2. used' \in Nat /\ UsedIsCharged' /\ ReservedFit'
  BY <1>1, Refunds DEF Delete, Charged
<1> QED
  BY <1>1, <1>2, UploadKeeps DEF Delete, LimiterInv, LimiterTypeOK

LEMMA AdmitKeeps ==
  ASSUME LimiterInv, NEW u \in Uploads, Admit(u)
  PROVE  LimiterInv'
<1>1. /\ tx \in [Uploads -> TxValues] /\ Idle \in TxValues /\ tx[u].pc = "pending" /\ tx[u].saw = used
      /\ upload[u] = "wanted" /\ ~ Reserved(u) /\ FilesFit(u) /\ tx[u].age \in {0, 1} /\ InHour(u)
  BY DEF LimiterInv, LimiterTypeOK, TxValues, Idle, UsageHeld, Waiting, HoursHeld, InHour, Admit
<1>2. CASE tx[u].saw + Total(Kept(u)) + Size[u] > Quota
  <2>1. Refuse(u) /\ UNCHANGED <<used, res, upload, overtaken>>
    BY <1>2 DEF Admit
  <2>2. tx' \in [Uploads -> TxValues] /\ tx'[u] = Idle /\ \A o \in Uploads \ {u} : tx'[o] = tx[o]
    BY <1>1, <2>1 DEF Refuse
  <2>3. ~ InHour(u)' /\ tx'[u].pc # "pending"
    BY <2>2 DEF InHour, Idle
  <2> QED
    BY <1>1, <2>1, <2>2, <2>3, PresignKeeps DEF Refuse
<1>3. CASE ~ (tx[u].saw + Total(Kept(u)) + Size[u] > Quota)
  <2>1. /\ res' = [o \in Uploads |-> IF o = u THEN TTL - tx[u].age ELSE IF o \in Kept(u) THEN res[o] ELSE None]
        /\ rates' = [rates EXCEPT ![By[u]] = [h \in Ages |->
               IF h = tx[u].age THEN [files |-> rates[By[u]][h].files + 1, bytes |-> rates[By[u]][h].bytes + Size[u]]
               ELSE IF h \in InDay(tx[u].age) THEN rates[By[u]][h] ELSE Zero]]
        /\ upload' = [upload EXCEPT ![u] = "open"]
        /\ tx' = [tx EXCEPT ![u] = Idle]
        /\ UNCHANGED <<used, overtaken>>
    BY <1>3 DEF Admit
  <2>2. tx' \in [Uploads -> TxValues] /\ tx'[u] = Idle /\ \A o \in Uploads \ {u} : tx'[o] = tx[o]
    BY <1>1, <2>1
  <2>3. /\ upload' \in [Uploads -> {"wanted", "open", "prepared", "stored", "gone"}]
        /\ upload'[u] = "open" /\ \A o \in Uploads \ {u} : upload'[o] = upload[o]
    BY <2>1 DEF LimiterInv, LimiterTypeOK
  <2>4. res' \in [Uploads -> -1 .. None] /\ \A o \in Uploads \ {u} : Reserved(o)' => o \in Kept(u)
    <3>1. TTL - tx[u].age \in -1 .. None /\ None \in -1 .. None
      BY <1>1, Numbers
    <3>2. \A o \in Uploads : res[o] \in -1 .. None
      BY DEF LimiterInv, LimiterTypeOK
    <3>3. res' \in [Uploads -> -1 .. None]
      BY <2>1, <3>1, <3>2
    <3>4. \A o \in Uploads \ {u} : Reserved(o)' => o \in Kept(u)
      BY <2>1 DEF Reserved
    <3> QED
      BY <3>3, <3>4
  <2>5. /\ rates' \in [Uploaders -> [Ages -> RateValues]]
        /\ \A a \in Uploaders : \A h \in Ages :
             rates'[a][h] = rates[a][h] \/ rates'[a][h] = Zero \/ (a = By[u] /\ h = tx[u].age)
    <3> DEFINE own == [h \in Ages |->
               IF h = tx[u].age THEN [files |-> rates[By[u]][h].files + 1, bytes |-> rates[By[u]][h].bytes + Size[u]]
               ELSE IF h \in InDay(tx[u].age) THEN rates[By[u]][h] ELSE Zero]
    <3>1. rates \in [Uploaders -> [Ages -> RateValues]] /\ By[u] \in Uploaders /\ tx[u].age \in Ages
      BY <1>1, Numbers DEF LimiterInv, LimiterTypeOK, RateValues
    <3>2. Zero \in RateValues
      BY Numbers DEF Zero, RateValues
    <3>3. [files |-> rates[By[u]][tx[u].age].files + 1, bytes |-> rates[By[u]][tx[u].age].bytes + Size[u]] \in RateValues
      <4>1. rates[By[u]][tx[u].age] \in RateValues
        BY <3>1
      <4>2. /\ rates[By[u]][tx[u].age].files \in 0 .. FilesPerHour /\ rates[By[u]][tx[u].age].bytes \in Nat
            /\ rates[By[u]][tx[u].age].files < FilesPerHour
        BY <1>1, <4>1 DEF RateValues, FilesFit
      <4>3. /\ rates[By[u]][tx[u].age].files + 1 \in 0 .. FilesPerHour
            /\ rates[By[u]][tx[u].age].bytes + Size[u] \in Nat
        BY <4>2, Numbers
      <4> QED
        BY <4>3 DEF RateValues
    <3>4. own \in [Ages -> RateValues]
      BY <3>1, <3>2, <3>3
    <3>5. \A h \in Ages : h = tx[u].age \/ own[h] = rates[By[u]][h] \/ own[h] = Zero
      OBVIOUS
    <3>6. rates' = [rates EXCEPT ![By[u]] = own]
      BY <2>1
    <3> HIDE DEF own
    <3> QED
      BY <3>1, <3>4, <3>5, <3>6
  <2>6. LimiterTypeOK'
    BY <2>1, <2>2, <2>3, <2>4, <2>5 DEF LimiterInv, LimiterTypeOK, TxValues, RateValues
  <2>7. UsedIsCharged' /\ ReservedFit'
    <3>1. AllCharged' = AllCharged
      BY <1>1, <2>3 DEF AllCharged, Charged
    <3>2. Outstanding' \subseteq Kept(u) \cup {u} /\ Kept(u) \in SUBSET Uploads
      BY <2>4 DEF Outstanding, Kept
    <3>3. Sum(Size, Outstanding') <= Sum(Size, Kept(u)) + Size[u]
      BY <3>2, SetsAre, SumMoves, Numbers
    <3>4. Total(Kept(u)) = Sum(Size, Kept(u)) /\ Sum(Size, Kept(u)) \in Nat
      BY <3>2, TotalIs, UnitsFinite, Numbers
    <3>5. used + Sum(Size, Kept(u)) + Size[u] <= Quota
      <4>1. used \in Nat /\ Size[u] \in Nat /\ Quota \in Nat
        BY Numbers DEF LimiterInv, LimiterTypeOK
      <4> QED
        BY <1>1, <1>3, <3>4, <4>1
    <3>6. used' + Sum(Size, Outstanding') <= Quota
      <4>1. used \in Nat /\ Size[u] \in Nat /\ Quota \in Nat /\ Sum(Size, Outstanding') \in Nat /\ used' = used
        BY <2>1, SetsAre, Numbers DEF LimiterInv, LimiterTypeOK
      <4> QED
        BY <3>3, <3>4, <3>5, <4>1
    <3> QED
      BY <2>1, <3>1, <3>6, SetsAre DEF LimiterInv
  <2>8. Waiting'
    BY <2>2, <2>3, <2>4 DEF LimiterInv, Waiting, Kept, Idle
  <2>9. HoursHeld'
    <3>1. \A o \in Uploads : InHour(o)' => o # u /\ InHour(o) /\ tx'[o] = tx[o]
      BY <2>2 DEF InHour, Idle
    <3>2. ASSUME NEW o \in Uploads, InHour(o)' PROVE FilesFit(o)'
      <4>1. FilesFit(o) /\ ~ (By[o] = By[u] /\ tx[o].age = tx[u].age)
        BY <1>1, <3>1, <3>2 DEF LimiterInv, HoursHeld
      <4>2. By[o] \in Uploaders /\ tx[o].age \in Ages
        BY Numbers DEF LimiterInv, LimiterTypeOK
      <4>3. rates'[By[o]][tx[o].age] = rates[By[o]][tx[o].age] \/ rates'[By[o]][tx[o].age] = Zero
        BY <2>5, <4>1, <4>2
      <4> QED
        BY <3>1, <3>2, <4>1, <4>3, Numbers DEF FilesFit, Zero
    <3> QED
      BY <3>1, <3>2 DEF LimiterInv, HoursHeld
  <2>10. UsageHeld'
    BY <2>1, <2>2 DEF LimiterInv, UsageHeld, Idle
  <2> QED
    BY <2>6, <2>7, <2>8, <2>9, <2>10 DEF LimiterInv
<1> QED
  BY <1>2, <1>3

LEMMA TickKeeps ==
  ASSUME LimiterInv, Tick
  PROVE  LimiterInv'
<1>1. /\ tx' \in [Uploads -> TxValues]
      /\ \A u \in Uploads : /\ tx[u].age = 0 /\ tx'[u].pc = tx[u].pc /\ tx'[u].saw = tx[u].saw
                            /\ tx[u].pc # "idle" => tx'[u].age = 1
  <2>1. tx \in [Uploads -> TxValues] /\ \A u \in Uploads : tx[u].age = 0
    BY DEF LimiterInv, LimiterTypeOK, TxValues, Tick
  <2>2. \A u \in Uploads : tx'[u] = IF tx[u].pc = "idle" THEN tx[u] ELSE [tx[u] EXCEPT !.age = 1]
    BY DEF Tick
  <2>3. \A u \in Uploads : tx'[u] \in TxValues /\ tx'[u].pc = tx[u].pc /\ tx'[u].saw = tx[u].saw
                           /\ (tx[u].pc # "idle" => tx'[u].age = 1)
    <3> SUFFICES ASSUME NEW u \in Uploads
                 PROVE  tx'[u] \in TxValues /\ tx'[u].pc = tx[u].pc /\ tx'[u].saw = tx[u].saw
                        /\ (tx[u].pc # "idle" => tx'[u].age = 1)
      OBVIOUS
    <3>1. tx[u] \in TxValues
      BY <2>1
    <3>2. CASE tx[u].pc = "idle"
      BY <2>2, <3>1, <3>2
    <3>3. CASE tx[u].pc # "idle"
      <4>1. tx'[u] = [tx[u] EXCEPT !.age = 1]
        BY <2>2, <3>3
      <4> QED
        BY <3>1, <4>1 DEF TxValues
    <3> QED
      BY <3>2, <3>3
  <2> QED
    BY <2>1, <2>3 DEF Tick
<1>2. res' \in [Uploads -> -1 .. None] /\ \A u \in Uploads : Reserved(u)' <=> Reserved(u)
  <2>1. \A u \in Uploads : res[u] \in -1 .. None
    BY DEF LimiterInv, LimiterTypeOK
  <2>2. \A u \in Uploads : res'[u] = IF Reserved(u) /\ res[u] >= 0 THEN res[u] - 1 ELSE res[u]
    BY DEF Tick
  <2>3. \A u \in Uploads : res'[u] \in -1 .. None /\ (res'[u] # None <=> res[u] # None)
    BY <2>1, <2>2, Numbers DEF Reserved
  <2> QED
    BY <2>3 DEF Tick, Reserved
<1>3. rates' \in [Uploaders -> [Ages -> RateValues]] /\ \A a \in Uploaders : rates'[a][1] = rates[a][0]
  <2>1. rates \in [Uploaders -> [Ages -> RateValues]] /\ Zero \in RateValues
    BY Numbers DEF LimiterInv, LimiterTypeOK, RateValues, Zero
  <2>2. \A h \in Ages : h # 0 => h - 1 \in Ages
    BY Numbers DEF Ages
  <2>3. rates' = [a \in Uploaders |-> [h \in Ages |-> IF h = 0 THEN Zero ELSE rates[a][h - 1]]]
    BY DEF Tick
  <2>4. rates' \in [Uploaders -> [Ages -> RateValues]]
    BY <2>1, <2>2, <2>3
  <2>5. \A a \in Uploaders : rates'[a][1] = rates[a][0]
    BY <2>3, Numbers
  <2> QED
    BY <2>4, <2>5
<1>4. LimiterTypeOK'
  BY <1>1, <1>2, <1>3 DEF LimiterInv, LimiterTypeOK, TxValues, RateValues, Tick
<1>5. UsedIsCharged' /\ ReservedFit'
  <2>1. AllCharged' = AllCharged /\ Outstanding' = Outstanding
    BY <1>2 DEF AllCharged, Outstanding, Charged, Tick
  <2> QED
    BY <2>1, SetsAre DEF LimiterInv, Tick
<1>6. Waiting' /\ UsageHeld'
  BY <1>1, <1>2 DEF LimiterInv, Waiting, UsageHeld, Tick
<1>7. HoursHeld'
  <2>1. \A u \in Uploads : InHour(u)' => InHour(u) /\ tx[u].age = 0 /\ tx'[u].age = 1
    BY <1>1 DEF InHour
  <2>2. \A u \in Uploads : InHour(u)' => FilesFit(u)'
    BY <1>3, <2>1, Numbers DEF LimiterInv, HoursHeld, FilesFit
  <2> QED
    BY <2>1, <2>2 DEF LimiterInv, HoursHeld
<1> QED
  BY <1>4, <1>5, <1>6, <1>7 DEF LimiterInv

(***************************************************************************)
(* The specification                                                       *)
(***************************************************************************)
LEMMA LimiterStart ==
  ASSUME LimiterInit
  PROVE  LimiterInv
<1>1. LimiterTypeOK
  <2>1. rates \in [Uploaders -> [Ages -> RateValues]]
    BY Numbers DEF LimiterInit, Zero, RateValues
  <2>2. tx \in [Uploads -> TxValues] /\ res \in [Uploads -> -1 .. None]
    BY Numbers DEF LimiterInit, Idle, TxValues
  <2>3. upload \in [Uploads -> {"wanted", "open", "prepared", "stored", "gone"}]
    BY DEF LimiterInit
  <2> QED
    BY <2>1, <2>2, <2>3 DEF LimiterInit, LimiterTypeOK, TxValues, RateValues
<1>2. AllCharged = {} /\ Outstanding = {}
  BY DEF LimiterInit, AllCharged, Outstanding, Charged, Reserved
<1>3. Sum(Charges, {}) = 0 /\ Sum(Size, {}) = 0
  BY FS_EmptySet DEF Sum, Units
<1>4. UsedIsCharged /\ ReservedFit
  BY <1>2, <1>3, SetsAre, Numbers DEF LimiterInit
<1>5. Waiting /\ HoursHeld /\ UsageHeld
  BY DEF LimiterInit, Waiting, Reserved, HoursHeld, InHour, UsageHeld, Idle
<1> QED
  BY <1>1, <1>4, <1>5 DEF LimiterInv

LEMMA LimiterStep ==
  ASSUME LimiterInv, [LimiterNext]_limiterVars
  PROVE  LimiterInv'
<1>1. ASSUME NEW u \in Uploads, Reserve(u) PROVE LimiterInv'
  BY <1>1, ReserveKeeps, AdmitKeeps DEF Reserve
<1>2. ASSUME NEW u \in Uploads, Release(u) \/ Prepare(u) \/ Finish(u) \/ Delete(u) PROVE LimiterInv'
  BY <1>2, ReleaseKeeps, PrepareKeeps, FinishKeeps, DeleteKeeps
<1>3. CASE Tick
  BY <1>3, TickKeeps
<1>4. CASE UNCHANGED limiterVars
  <2>1. LimiterTypeOK' /\ Waiting' /\ HoursHeld' /\ UsageHeld'
    BY <1>4 DEF limiterVars, LimiterInv, LimiterTypeOK, Waiting, Reserved, HoursHeld, InHour, FilesFit, UsageHeld
  <2>2. AllCharged' = AllCharged /\ Outstanding' = Outstanding
    BY <1>4 DEF limiterVars, AllCharged, Outstanding, Charged, Reserved
  <2> QED
    BY <1>4, <2>1, <2>2, SetsAre DEF limiterVars, LimiterInv
<1> QED
  BY <1>1, <1>2, <1>3, <1>4 DEF LimiterNext

\* The inductive invariant: however presigns, commits, aborts, deletions and
\* the hours follow each other.
THEOREM LimiterInvariance == LimiterSpec => []LimiterInv
<1>1. LimiterInit => LimiterInv
  BY LimiterStart
<1>2. LimiterInv /\ [LimiterNext]_limiterVars => LimiterInv'
  BY LimiterStep
<1> QED
  BY <1>1, <1>2, PTL DEF LimiterSpec

\* No hour counts more files of an uploader than it may, and a reservation is
\* as good as the bytes: usage and what is reserved fit the quota together,
\* unless an upload was charged beyond what it had reserved (PGLimiter.Reserve,
\* SettleTx).
THEOREM LimitsHold == LimiterSpec => []LimitsOK
<1>1. LimiterInv => LimitsOK
  BY DEF LimiterInv, LimitsOK
<1> QED
  BY <1>1, LimiterInvariance, PTL

\* The usage is what is charged for the prepared and the stored uploads: no
\* settlement is lost, doubled or cut off at zero (GREATEST in SettleTx).
THEOREM UsageIsCharged == LimiterSpec => []UsedIsCharged
<1>1. LimiterInv => UsedIsCharged
  BY DEF LimiterInv
<1> QED
  BY <1>1, LimiterInvariance, PTL

(***************************************************************************)
(* RerunQueue                                                              *)
(***************************************************************************)
JobValues == [pc : PCs, after : 0 .. MaxJobs, saw : 0 .. MaxChanges]
CallValues == [active : BOOLEAN, next : 0 .. MaxJobs, change : 0 .. MaxChanges]

\* A job that deals with every change that was told, or has yet to read.
Covers(j) ==
  /\ Pending(j) /\ jobs[j].pc # "passed"
  /\ jobs[j].pc \in {"working", "passing"} => jobs[j].saw >= told

\* A job queues its next run exactly while its call is in progress.
CallsOK == \A j \in Jobs : calls[j].active <=> jobs[j].pc = "passing"

\* Nothing has read or announced what is not there yet.
ReadOK ==
  /\ \A j \in Jobs : jobs[j].saw <= version
  /\ \A x \in Callers : calls[x].change <= version

\* Changes and passes pay for the jobs there are and for those to come.
Used == {j \in Jobs : jobs[j].pc # "none"}
Active == {x \in Callers : calls[x].active}
Paid == IsFiniteSet(Active) /\ Cardinality(Used) + Cardinality(Active) <= version + passes

\* Jobs are numbered in the order of their inserts, and a follow-up is inserted
\* after the job it follows.
Ordered ==
  /\ \A i, j \in Jobs : jobs[i].pc = "none" /\ i < j => jobs[j].pc = "none"
  /\ \A j \in Jobs : jobs[j].pc # "none" => jobs[j].after < j
  /\ \A x \in Callers : calls[x].next # 0 => jobs[calls[x].next].pc # "none"

IInv == JobsOK /\ CallsOK /\ ReadOK /\ Paid

USE BoundAssumption

(***************************************************************************)
(* The table                                                               *)
(***************************************************************************)
LEMMA JobsFinite ==
  /\ MaxJobs \in Nat /\ IsFiniteSet(Jobs) /\ Cardinality(Jobs) = MaxJobs
  /\ Jobs \subseteq Callers /\ Clients \subseteq Callers /\ Jobs \cap Clients = {}
<1>1. MaxJobs \in Nat /\ 1 \in Int /\ MaxJobs \in Int
  BY DEF MaxJobs
<1>2. IsFiniteSet(1 .. MaxJobs) /\ Cardinality(1 .. MaxJobs) = IF 1 > MaxJobs THEN 0 ELSE MaxJobs - 1 + 1
  BY <1>1, FS_Interval
<1>3. Jobs \subseteq Nat
  BY DEF Jobs
<1> QED
  BY <1>1, <1>2, <1>3, ClientAssumption DEF Jobs, Callers

\* No lost wakeup, by the job that covers it.
LEMMA CoveredIs == NoLostWakeup <=> applied >= told \/ \E j \in Jobs : Covers(j)
BY DEF NoLostWakeup, Covers

LEMMA JobTyped ==
  ASSUME TypeOK, NEW j \in Jobs
  PROVE  jobs[j] \in JobValues /\ (Pending(j) <=> jobs[j].pc \notin {"none", "done"})
BY DEF TypeOK, JobValues, PCs, Pending, Running

LEMMA UsedFinite == IsFiniteSet(Used) /\ Cardinality(Used) \in Nat
BY JobsFinite, FS_Subset, FS_CardinalityType DEF Used

\* Of the jobs not used yet, one is the least.
LEMMA LeastFree ==
  ASSUME NEW S \in SUBSET Jobs, S # {}
  PROVE  \E j \in S : \A i \in S : j <= i
<1> DEFINE less == OpToRel(<, Nat)
<1>1. \A m, n \in Nat : <<m, n>> \notin less => n <= m
  BY DEF OpToRel
<1>2. S \subseteq Nat
  BY DEF Jobs
<1> HIDE DEF less
<1>3. IsWellFoundedOn(less, Nat)
  BY NatLessThanWellFounded DEF less
<1>4. PICK j \in S : \A i \in S : ~ (<<i, j>> \in less)
  BY <1>2, <1>3, WFMin
<1> QED
  BY <1>1, <1>2, <1>4

\* insert leaves a job that has yet to start: one it found, or a new one.
LEMMA InsertedIs ==
  ASSUME TypeOK, NEW t \in 0 .. MaxJobs, \A j \in Equal(t) : Absorbs(j), Cardinality(Used) < MaxJobs
  PROVE  \/ Inserted(t) = jobs /\ \E w \in Jobs : jobs[w].pc = "waiting"
         \/ \E new \in Jobs :
              /\ jobs[new].pc = "none" /\ Equal(t) = {}
              /\ \A i \in Jobs : jobs[i].pc = "none" => new <= i
              /\ Inserted(t) \in [Jobs -> JobValues]
              /\ Inserted(t)[new].pc = "waiting" /\ Inserted(t)[new].after = t /\ Inserted(t)[new].saw = 0
              /\ \A i \in Jobs \ {new} : Inserted(t)[i] = jobs[i]
<1>1. CASE Equal(t) # {}
  <2>1. PICK w \in Equal(t) : Absorbs(w)
    BY <1>1
  <2> QED
    BY <1>1, <2>1 DEF Inserted, Equal, Absorbs, Pending
<1>2. CASE Equal(t) = {}
  <2> DEFINE free == {j \in Jobs : jobs[j].pc = "none"}
             new == CHOOSE j \in Jobs : jobs[j].pc = "none" /\ \A i \in Jobs : jobs[i].pc = "none" => j <= i
             row == [pc |-> "waiting", after |-> t, saw |-> 0]
  <2>1. free # {}
    <3> SUFFICES ASSUME free = {} PROVE FALSE
      OBVIOUS
    <3>1. Used = Jobs
      BY DEF Used
    <3> QED
      BY <3>1, JobsFinite
  <2>2. \E j \in free : \A i \in free : j <= i
    <3>1. free \in SUBSET Jobs
      OBVIOUS
    <3> HIDE DEF free
    <3> QED
      BY <2>1, <3>1, LeastFree
  <2>3. new \in Jobs /\ jobs[new].pc = "none" /\ \A i \in Jobs : jobs[i].pc = "none" => new <= i
    BY <2>2
  <2>4. row \in JobValues /\ row.pc = "waiting" /\ row.after = t /\ row.saw = 0
    <3>1. "waiting" \in PCs /\ 0 \in 0 .. MaxChanges
      BY DEF PCs
    <3> QED
      BY <3>1 DEF JobValues
  <2>5. Inserted(t) = [jobs EXCEPT ![new] = row]
    BY <1>2 DEF Inserted
  <2>6. jobs \in [Jobs -> JobValues]
    BY DEF TypeOK, JobValues
  <2> HIDE DEF new, row
  <2> QED
    BY <1>2, <2>3, <2>4, <2>5, <2>6
<1> QED
  BY <1>1, <1>2

LEMMA InitIInv == Init => IInv
<1> SUFFICES ASSUME Init PROVE IInv
  OBVIOUS
<1>1. NoJob \in JobValues /\ NoJob.pc = "none" /\ NoJob.saw = 0
  BY JobsFinite DEF NoJob, JobValues, PCs
<1>2. NoCall \in CallValues /\ ~ NoCall.active /\ NoCall.change = 0
  BY JobsFinite DEF NoCall, CallValues
<1>3. \A j \in Jobs : jobs[j] = NoJob
  BY DEF Init
<1>4. \A x \in Callers : calls[x] = NoCall
  BY DEF Init
<1>5. TypeOK
  BY <1>1, <1>2, <1>3 DEF Init, TypeOK, JobValues, CallValues, Pending, Running
<1>6. NoLostWakeup
  BY DEF Init, NoLostWakeup
<1>7. CallsOK /\ ReadOK
  BY <1>1, <1>2, <1>3, <1>4, JobsFinite DEF Init, CallsOK, ReadOK
<1>8. Used = {} /\ Active = {}
  BY <1>1, <1>2, <1>3, <1>4 DEF Used, Active
<1>9. Paid
  BY <1>8, FS_EmptySet DEF Init, Paid
<1> QED
  BY <1>5, <1>6, <1>7, <1>9 DEF IInv, JobsOK

(***************************************************************************)
(* Inserts                                                                 *)
(***************************************************************************)
\* An insert that ends leaves a job that will read every change so far.
LEMMA InsertKeeps ==
  ASSUME IInv, NEW x \in Callers, NEW t \in 0 .. MaxJobs, \A j \in Equal(t) : Absorbs(j),
         Cardinality(Used) < MaxJobs,
         jobs' = IF x \in Jobs THEN [Inserted(t) EXCEPT ![x].pc = "passed"] ELSE Inserted(t),
         x \in Jobs => jobs[x].pc = "passing",
         version' \in version .. MaxChanges, told' \in 0 .. version',
         UNCHANGED <<applied, passes, faults>>,
         calls' \in [Callers -> CallValues], \A y \in Callers \ {x} : calls'[y] = calls[y],
         ~ calls'[x].active, calls'[x].change <= version',
         Cardinality(Used) + 1 + Cardinality(Active \ {x}) <= version' + passes
  PROVE  IInv'
<1> USE JobsFinite
<1>0. TypeOK /\ jobs \in [Jobs -> JobValues] /\ version \in Nat /\ passes \in Nat
  BY DEF IInv, JobsOK, TypeOK, JobValues
<1>1. PICK ins : ins = Inserted(t)
  OBVIOUS
<1>2. \/ ins = jobs /\ \E w \in Jobs : jobs[w].pc = "waiting"
      \/ \E new \in Jobs :
           /\ jobs[new].pc = "none" /\ Equal(t) = {}
           /\ ins \in [Jobs -> JobValues]
           /\ ins[new].pc = "waiting" /\ ins[new].after = t /\ ins[new].saw = 0
           /\ \A i \in Jobs \ {new} : ins[i] = jobs[i]
  BY <1>0, <1>1, InsertedIs
<1>3. PICK news \in SUBSET Jobs :
        /\ \A i, j \in news : i = j
        /\ \A i \in news : /\ jobs[i].pc = "none" /\ Equal(t) = {}
                           /\ ins[i].pc = "waiting" /\ ins[i].after = t /\ ins[i].saw = 0
        /\ \A i \in Jobs \ news : ins[i] = jobs[i]
  <2>1. CASE ins = jobs
    BY <2>1
  <2>2. ASSUME NEW new \in Jobs, jobs[new].pc = "none", Equal(t) = {},
               ins[new].pc = "waiting", ins[new].after = t, ins[new].saw = 0,
               \A i \in Jobs \ {new} : ins[i] = jobs[i]
        PROVE  \E ns \in SUBSET Jobs :
                 /\ \A i, j \in ns : i = j
                 /\ \A i \in ns : /\ jobs[i].pc = "none" /\ Equal(t) = {}
                                  /\ ins[i].pc = "waiting" /\ ins[i].after = t /\ ins[i].saw = 0
                 /\ \A i \in Jobs \ ns : ins[i] = jobs[i]
    <3> WITNESS {new} \in SUBSET Jobs
    <3> QED
      BY <2>2
  <2> QED
    BY <1>2, <2>1, <2>2
<1>4. ins \in [Jobs -> JobValues]
  BY <1>0, <1>2
<1>5. /\ jobs' \in [Jobs -> JobValues]
      /\ \A i \in Jobs \ {x} : jobs'[i] = ins[i]
      /\ x \in Jobs => jobs'[x].pc = "passed" /\ jobs'[x].after = ins[x].after /\ jobs'[x].saw = ins[x].saw
  <2>1. CASE x \in Jobs
    <3>1. jobs' = [ins EXCEPT ![x].pc = "passed"] /\ ins[x] \in JobValues
      BY <1>1, <1>4, <2>1
    <3>2. [ins[x] EXCEPT !.pc = "passed"] \in JobValues
      BY <3>1 DEF JobValues, PCs
    <3>3. jobs'[x] = [ins[x] EXCEPT !.pc = "passed"] /\ \A i \in Jobs \ {x} : jobs'[i] = ins[i]
      BY <1>4, <2>1, <3>1
    <3>4. jobs' \in [Jobs -> JobValues]
      BY <1>4, <2>1, <3>1, <3>2
    <3>5. jobs'[x].pc = "passed" /\ jobs'[x].after = ins[x].after /\ jobs'[x].saw = ins[x].saw
      BY <3>1, <3>3 DEF JobValues
    <3> QED
      BY <3>3, <3>4, <3>5
  <2>2. CASE x \notin Jobs
    BY <1>1, <1>4, <2>2
  <2> QED
    BY <2>1, <2>2
<1>6. x \in Jobs => x \notin news
  BY <1>3
<1>7. \A i \in Jobs \ news : /\ jobs'[i].after = jobs[i].after /\ jobs'[i].saw = jobs[i].saw
                             /\ jobs'[i].pc = jobs[i].pc \/ (i = x /\ jobs'[i].pc = "passed" /\ jobs[i].pc = "passing")
  BY <1>3, <1>5
<1>8. \A i \in news : /\ jobs'[i].pc = "waiting" /\ jobs'[i].after = t /\ jobs'[i].saw = 0
  BY <1>3, <1>5, <1>6
<1>9. \A i \in Jobs : Pending(i)' <=> (i \in news \/ Pending(i))
  BY <1>3, <1>7, <1>8 DEF Pending, Running
<1>10. \A i \in Jobs, n \in news : Pending(i) => jobs[i].after # t
  BY <1>3 DEF Equal
<1>11. \A i, j \in Jobs : Pending(i)' /\ Pending(j)' /\ i # j => jobs'[i].after # jobs'[j].after
  <2> SUFFICES ASSUME NEW i \in Jobs, NEW j \in Jobs, Pending(i)', Pending(j)', i # j
               PROVE  jobs'[i].after # jobs'[j].after
    OBVIOUS
  <2>1. CASE i \in news
    BY <1>3, <1>7, <1>8, <1>9, <1>10, <2>1
  <2>2. CASE j \in news
    BY <1>3, <1>7, <1>8, <1>9, <1>10, <2>2
  <2>3. CASE i \notin news /\ j \notin news
    BY <1>0, <1>7, <1>9, <2>3 DEF TypeOK
  <2> QED
    BY <2>1, <2>2, <2>3
<1>12. TypeOK'
  <2>1. version' \in 0 .. MaxChanges /\ told' \in 0 .. version' /\ applied' \in 0 .. version'
    BY <1>0 DEF TypeOK
  <2> QED
    BY <1>0, <1>5, <1>11, <2>1 DEF TypeOK, JobValues, CallValues
<1>13. NoLostWakeup'
  <2>1. PICK w \in Jobs : ins[w].pc = "waiting"
    BY <1>2
  <2>2. w # x
    BY <1>3, <1>6, <2>1
  <2>3. jobs'[w].pc = "waiting"
    BY <1>5, <2>1, <2>2
  <2>4. Covers(w)'
    BY <2>3 DEF Covers, Pending
  <2> QED
    BY <2>4 DEF Covers, NoLostWakeup
<1>14. CallsOK'
  <2> SUFFICES ASSUME NEW j \in Jobs PROVE calls'[j].active <=> jobs'[j].pc = "passing"
    BY DEF CallsOK
  <2>1. CASE j = x
    BY <1>5, <2>1
  <2>2. CASE j # x
    BY <1>3, <1>7, <1>8, <2>2 DEF IInv, CallsOK
  <2> QED
    BY <2>1, <2>2
<1>15. ReadOK'
  <2>1. \A i \in Jobs : jobs[i].saw \in Nat /\ jobs[i].saw <= version
    BY <1>0 DEF IInv, ReadOK, JobValues
  <2>2. \A y \in Callers : calls[y].change \in Nat /\ calls[y].change <= version
    BY DEF IInv, ReadOK, JobsOK, TypeOK
  <2>3. \A i \in Jobs : jobs'[i].saw <= version'
    BY <1>0, <1>7, <1>8, <2>1
  <2>4. \A y \in Callers : calls'[y].change <= version'
    BY <1>0, <2>2
  <2> QED
    BY <2>3, <2>4 DEF ReadOK
<1>16. Paid'
  <2>1. Active' = Active \ {x}
    BY DEF Active
  <2>2. IsFiniteSet(Active \ {x}) /\ Cardinality(Active \ {x}) \in Nat
    BY FS_Subset, FS_CardinalityType DEF IInv, Paid
  <2>3. Used' = Used \cup news
    BY <1>3, <1>7, <1>8 DEF Used
  <2>4. Cardinality(Used') <= Cardinality(Used) + 1
    <3>1. CASE news = {}
      BY <2>3, <3>1, UsedFinite
    <3>2. ASSUME NEW n \in news PROVE Cardinality(Used') <= Cardinality(Used) + 1
      <4>1. Used' = Used \cup {n}
        BY <1>3, <2>3
      <4>2. Cardinality(Used \cup {n}) = IF n \in Used THEN Cardinality(Used) ELSE Cardinality(Used) + 1
        BY UsedFinite, FS_AddElement
      <4> QED
        BY <4>1, <4>2, UsedFinite
    <3> QED
      BY <3>1, <3>2
  <2>5. Cardinality(Used') \in Nat
    <3>1. Used' \subseteq Jobs
      BY DEF Used
    <3> QED
      BY <3>1, FS_Subset, FS_CardinalityType
  <2> QED
    BY <1>0, <2>1, <2>2, <2>4, <2>5, UsedFinite DEF Paid
<1> QED
  BY <1>12, <1>13, <1>14, <1>15, <1>16 DEF IInv, JobsOK

\* Who pays for an insert in progress has not spent it yet.
LEMMA Room ==
  ASSUME IInv
  PROVE  /\ \A x \in Active : Cardinality(Used) + 1 + Cardinality(Active \ {x}) <= version + passes
         /\ \A x \in Active : Cardinality(Used) < MaxJobs
         /\ version < MaxChanges => Cardinality(Used) < MaxJobs
<1>1. /\ version \in 0 .. MaxChanges /\ passes \in 0 .. MaxPasses /\ IsFiniteSet(Active)
      /\ Cardinality(Used) + Cardinality(Active) <= version + passes
  BY DEF IInv, JobsOK, TypeOK, Paid
<1>2. Cardinality(Active) \in Nat
  BY <1>1, FS_CardinalityType
<1>3. ASSUME NEW x \in Active
      PROVE  Cardinality(Active \ {x}) = Cardinality(Active) - 1 /\ Cardinality(Active \ {x}) \in Nat
  <2>1. IsFiniteSet(Active \ {x}) /\ Cardinality(Active \ {x}) = Cardinality(Active) - 1
    BY <1>1, FS_RemoveElement
  <2> QED
    BY <2>1, FS_CardinalityType
<1>4. MaxJobs = MaxChanges + MaxPasses
  BY DEF MaxJobs
<1>5. \A x \in Active : Cardinality(Used) + 1 + Cardinality(Active \ {x}) <= version + passes
  BY <1>1, <1>2, <1>3, UsedFinite
<1>6. \A x \in Active : Cardinality(Used) < MaxJobs
  <2> SUFFICES ASSUME NEW x \in Active PROVE Cardinality(Used) < MaxJobs
    OBVIOUS
  <2>1. Cardinality(Active \ {x}) \in Nat /\ Cardinality(Used) + 1 + Cardinality(Active \ {x}) <= version + passes
    BY <1>3, <1>5
  <2> QED
    BY <1>1, <1>4, <2>1, UsedFinite
<1>7. version < MaxChanges => Cardinality(Used) < MaxJobs
  BY <1>1, <1>2, <1>4, UsedFinite
<1> QED
  BY <1>5, <1>6, <1>7

\* A change is told only when its insert ends.
LEMMA ChangeKeeps ==
  ASSUME IInv, NEW c \in Clients, Change(c)
  PROVE  IInv'
<1> USE JobsFinite
<1>0. TypeOK /\ c \in Callers /\ c \notin Jobs
  BY DEF IInv, JobsOK
<1>1. /\ version < MaxChanges /\ ~ calls[c].active /\ version' = version + 1
      /\ UNCHANGED <<jobs, told, applied, passes, faults>>
  BY DEF Change
<1>2. /\ calls' \in [Callers -> CallValues]
      /\ calls'[c].active /\ calls'[c].change = version'
      /\ \A x \in Callers \ {c} : calls'[x] = calls[x]
  <2>1. version' \in 0 .. MaxChanges /\ 0 \in 0 .. MaxJobs
    BY <1>0, <1>1 DEF TypeOK
  <2>2. calls \in [Callers -> CallValues] /\ [active |-> TRUE, next |-> 0, change |-> version'] \in CallValues
    BY <1>0, <2>1 DEF TypeOK, CallValues
  <2> QED
    BY <1>0, <2>2 DEF Change
<1>3. TypeOK'
  BY <1>0, <1>1, <1>2 DEF TypeOK, CallValues, Pending, Running
<1>4. NoLostWakeup'
  BY <1>1 DEF IInv, JobsOK, NoLostWakeup, Pending, Running
<1>5. CallsOK'
  BY <1>0, <1>1, <1>2 DEF IInv, CallsOK
<1>6. ReadOK'
  <2>1. version \in Nat /\ \A j \in Jobs : jobs[j].saw \in Nat /\ jobs[j].saw <= version
    BY <1>0 DEF IInv, ReadOK, TypeOK
  <2>2. \A x \in Callers : calls[x].change \in Nat /\ calls[x].change <= version
    BY <1>0 DEF IInv, ReadOK, TypeOK
  <2>3. \A j \in Jobs : jobs'[j].saw <= version'
    BY <1>1, <2>1
  <2>4. \A x \in Callers : calls'[x].change <= version'
    BY <1>1, <1>2, <2>1, <2>2
  <2> QED
    BY <2>3, <2>4 DEF ReadOK
<1>7. Paid'
  <2>1. Used' = Used /\ Active' = Active \cup {c} /\ c \notin Active
    BY <1>0, <1>1, <1>2 DEF Used, Active
  <2>2. /\ IsFiniteSet(Active \cup {c})
        /\ Cardinality(Active \cup {c}) = Cardinality(Active) + 1
    BY <2>1, FS_AddElement DEF IInv, Paid
  <2>3. Cardinality(Active) \in Nat /\ version \in Nat /\ passes \in Nat
    BY <1>0, FS_CardinalityType DEF IInv, Paid, TypeOK
  <2> QED
    BY <1>1, <2>1, <2>2, <2>3, UsedFinite DEF IInv, Paid
<1> QED
  BY <1>3, <1>4, <1>5, <1>6, <1>7 DEF IInv, JobsOK

LEMMA ChangeTxKeeps ==
  ASSUME IInv, NEW c \in Clients, ChangeTx(c)
  PROVE  IInv'
<1> USE JobsFinite
<1>0. TypeOK /\ c \in Callers /\ c \notin Jobs
  BY DEF IInv, JobsOK
<1>1. /\ version < MaxChanges /\ ~ calls[c].active /\ version' = version + 1 /\ told' = version'
      /\ UNCHANGED <<calls, applied, passes, faults>>
  BY DEF ChangeTx
<1>2. PICK t \in 0 .. MaxJobs : EndsBehind(t) /\ jobs' = Inserted(t)
  BY DEF ChangeTx
<1>3. \A j \in Equal(t) : Absorbs(j)
  BY <1>2 DEF EndsBehind
<1>4. version' \in version .. MaxChanges /\ told' \in 0 .. version' /\ version \in Nat /\ passes \in Nat
  BY <1>0, <1>1 DEF TypeOK
<1>5. calls' \in [Callers -> CallValues] /\ calls[c].change <= version /\ calls[c].change \in Nat
  BY <1>0, <1>1 DEF TypeOK, CallValues, IInv, ReadOK
<1>6. Active \ {c} = Active /\ Cardinality(Active) \in Nat
  BY <1>1, FS_CardinalityType DEF Active, IInv, Paid
<1>7. Cardinality(Used) + 1 + Cardinality(Active \ {c}) <= version' + passes
  BY <1>1, <1>4, <1>6, UsedFinite DEF IInv, Paid
<1>8. Cardinality(Used) < MaxJobs
  BY <1>1, Room
<1>9. calls'[c].change <= version'
  BY <1>1, <1>4, <1>5
<1> QED
  BY <1>0, <1>1, <1>2, <1>3, <1>4, <1>5, <1>7, <1>8, <1>9, InsertKeeps

\* A step of one unfinished job, which stays one that covers what was told.
LEMMA JobKeeps ==
  ASSUME IInv, NEW j \in Jobs, Pending(j),
         jobs' \in [Jobs -> JobValues], \A i \in Jobs \ {j} : jobs'[i] = jobs[i],
         jobs'[j].after = jobs[j].after, jobs'[j].pc # "none", jobs'[j].saw <= version,
         UNCHANGED <<version, told>>,
         applied' \in applied .. version, passes' \in passes .. MaxPasses, faults' \in 0 .. MaxFaults,
         calls' \in [Callers -> CallValues], \A x \in Callers \ {j} : calls'[x] = calls[x],
         calls'[j].active <=> jobs'[j].pc = "passing", calls'[j].change <= version,
         calls'[j].active /\ ~ calls[j].active => passes' = passes + 1,
         Covers(j) => applied' >= told \/ Covers(j)'
  PROVE  IInv'
<1> USE JobsFinite
<1>0. TypeOK /\ NoLostWakeup /\ \A i \in Jobs : Pending(i) <=> jobs[i].pc \notin {"none", "done"}
  BY JobTyped DEF IInv, JobsOK
<1>1. \A i \in Jobs : Pending(i)' => Pending(i) /\ jobs'[i].after = jobs[i].after
  BY <1>0 DEF Pending, Running
<1>2. TypeOK'
  <2>1. \A i, k \in Jobs : Pending(i)' /\ Pending(k)' /\ i # k => jobs'[i].after # jobs'[k].after
    BY <1>0, <1>1 DEF TypeOK
  <2>2. told' \in 0 .. version' /\ applied' \in 0 .. version' /\ passes' \in 0 .. MaxPasses
    BY <1>0 DEF TypeOK
  <2> QED
    BY <1>0, <2>1, <2>2 DEF TypeOK, JobValues, CallValues
<1>3. NoLostWakeup'
  <2>1. CASE applied >= told
    BY <1>0, <2>1 DEF NoLostWakeup, TypeOK
  <2>2. ASSUME NEW i \in Jobs, Covers(i) PROVE NoLostWakeup'
    <3>1. applied' >= told' \/ Covers(i)'
      BY <2>2 DEF Covers, Pending, Running
    <3> QED
      BY <3>1 DEF Covers, NoLostWakeup
  <2> QED
    BY <1>0, <2>1, <2>2, CoveredIs
<1>4. CallsOK'
  BY DEF IInv, CallsOK
<1>5. ReadOK'
  BY DEF IInv, ReadOK
<1>6. Paid'
  <2>1. Used' = Used
    BY <1>0 DEF Used
  <2>2. IsFiniteSet(Active) /\ Cardinality(Active) \in Nat /\ version \in Nat /\ passes \in Nat
    BY <1>0, FS_CardinalityType DEF IInv, Paid, TypeOK
  <2>3. CASE calls'[j].active => calls[j].active
    <3>1. Active' \subseteq Active
      BY <2>3 DEF Active
    <3>2. IsFiniteSet(Active') /\ Cardinality(Active') <= Cardinality(Active)
      BY <2>2, <3>1, FS_Subset
    <3>3. Cardinality(Active') \in Nat
      BY <3>2, FS_CardinalityType
    <3> QED
      BY <2>1, <2>2, <3>2, <3>3, UsedFinite DEF IInv, Paid
  <2>4. CASE calls'[j].active /\ ~ calls[j].active
    <3>1. Active' = Active \cup {j} /\ j \notin Active
      BY <2>4 DEF Active
    <3>2. IsFiniteSet(Active \cup {j}) /\ Cardinality(Active \cup {j}) = Cardinality(Active) + 1
      BY <2>2, <3>1, FS_AddElement
    <3> QED
      BY <2>1, <2>2, <2>4, <3>1, <3>2, UsedFinite DEF IInv, Paid
  <2> QED
    BY <2>3, <2>4
<1> QED
  BY <1>2, <1>3, <1>4, <1>5, <1>6 DEF IInv, JobsOK

LEMMA NoCallTyped == NoCall \in CallValues /\ ~ NoCall.active /\ NoCall.change = 0
BY JobsFinite DEF NoCall, CallValues

LEMMA InsertStepKeeps ==
  ASSUME IInv, NEW x \in Callers, Insert(x)
  PROVE  IInv'
<1> USE JobsFinite
<1>0. /\ TypeOK /\ calls[x].active /\ x \in Active /\ UNCHANGED <<version, applied, passes, faults>>
      /\ x \in Jobs => jobs[x].pc = "passing"
  BY DEF IInv, JobsOK, CallsOK, Insert, Active
<1>1. ASSUME NEW j \in Equal(calls[x].next), calls' = [calls EXCEPT ![x].next = j], UNCHANGED <<jobs, told>>
      PROVE  IInv'
  <2>1. j \in Jobs /\ j \in 0 .. MaxJobs
    BY DEF Equal, Jobs
  <2>2. /\ calls' \in [Callers -> CallValues]
        /\ \A y \in Callers : calls'[y].active = calls[y].active /\ calls'[y].change = calls[y].change
    <3>1. calls \in [Callers -> CallValues]
      BY <1>0 DEF TypeOK, CallValues
    <3>2. /\ calls'[x] = [calls[x] EXCEPT !.next = j]
          /\ \A y \in Callers \ {x} : calls'[y] = calls[y]
      BY <1>1, <3>1
    <3>3. [calls[x] EXCEPT !.next = j] \in CallValues
      BY <2>1, <3>1 DEF CallValues
    <3>4. calls' \in [Callers -> CallValues]
      BY <1>1, <3>1, <3>3
    <3>5. [calls[x] EXCEPT !.next = j].active = calls[x].active /\ [calls[x] EXCEPT !.next = j].change = calls[x].change
      BY <3>1 DEF CallValues
    <3> QED
      BY <3>2, <3>4, <3>5
  <2>3. TypeOK'
    BY <1>0, <1>1, <2>2 DEF TypeOK, CallValues, Pending, Running
  <2>4. NoLostWakeup'
    BY <1>0, <1>1 DEF IInv, JobsOK, NoLostWakeup, Pending, Running
  <2>5. CallsOK' /\ ReadOK'
    BY <1>0, <1>1, <2>2 DEF IInv, CallsOK, ReadOK
  <2>6. Active' = Active /\ Used' = Used
    BY <1>1, <2>2 DEF Active, Used
  <2>7. Paid'
    BY <1>0, <2>6 DEF IInv, Paid
  <2> QED
    BY <2>3, <2>4, <2>5, <2>7 DEF IInv, JobsOK
<1>2. ASSUME \A j \in Equal(calls[x].next) : Absorbs(j),
             jobs' = IF x \in Jobs THEN [Inserted(calls[x].next) EXCEPT ![x].pc = "passed"]
                     ELSE Inserted(calls[x].next),
             told' = Newest(told, calls[x].change),
             calls' = [calls EXCEPT ![x] = NoCall]
      PROVE  IInv'
  <2>1. PICK t \in 0 .. MaxJobs : t = calls[x].next
    BY <1>0 DEF TypeOK
  <2>2. calls' \in [Callers -> CallValues] /\ calls'[x] = NoCall /\ \A y \in Callers \ {x} : calls'[y] = calls[y]
    BY <1>0, <1>2, NoCallTyped DEF TypeOK, CallValues
  <2>3. version' \in version .. MaxChanges /\ told' \in 0 .. version' /\ version \in Nat
    <3>1. version \in 0 .. MaxChanges /\ told \in 0 .. version
      BY <1>0 DEF TypeOK
    <3>2. calls[x].change \in Nat /\ calls[x].change <= version
      BY <1>0 DEF TypeOK, IInv, ReadOK
    <3> QED
      BY <1>0, <1>2, <3>1, <3>2 DEF Newest
  <2>4. /\ Cardinality(Used) < MaxJobs
        /\ Cardinality(Used) + 1 + Cardinality(Active \ {x}) <= version' + passes
    BY <1>0, Room
  <2>5. ~ calls'[x].active /\ calls'[x].change <= version'
    BY <1>0, <2>2, <2>3, NoCallTyped
  <2>6. \A j \in Equal(t) : Absorbs(j)
    BY <1>2, <2>1
  <2>7. jobs' = IF x \in Jobs THEN [Inserted(t) EXCEPT ![x].pc = "passed"] ELSE Inserted(t)
    BY <1>2, <2>1
  <2> QED
    BY <1>0, <2>2, <2>3, <2>4, <2>5, <2>6, <2>7, InsertKeeps
<1> QED
  BY <1>1, <1>2 DEF Insert

LEMMA LoseClientKeeps ==
  ASSUME IInv, NEW c \in Clients, LoseClient(c)
  PROVE  IInv'
<1> USE JobsFinite
<1>0. /\ TypeOK /\ c \in Callers /\ c \notin Jobs /\ UNCHANGED <<version, jobs, told, applied, passes>>
      /\ faults' \in 0 .. MaxFaults
  BY DEF IInv, JobsOK, LoseClient, Fault, TypeOK
<1>1. calls' \in [Callers -> CallValues] /\ calls'[c] = NoCall /\ \A x \in Callers \ {c} : calls'[x] = calls[x]
  BY <1>0, NoCallTyped DEF LoseClient, TypeOK, CallValues
<1>2. TypeOK'
  BY <1>0, <1>1 DEF TypeOK, CallValues, Pending, Running
<1>3. NoLostWakeup'
  BY <1>0 DEF IInv, JobsOK, NoLostWakeup, Pending, Running
<1>4. CallsOK'
  BY <1>0, <1>1 DEF IInv, CallsOK
<1>5. ReadOK'
  <2>1. version >= 0
    BY <1>0 DEF TypeOK
  <2> QED
    BY <1>0, <1>1, <2>1, NoCallTyped DEF IInv, ReadOK
<1>6. Paid'
  <2>1. Used' = Used /\ Active' \subseteq Active
    BY <1>0, <1>1, NoCallTyped DEF Used, Active
  <2>2. /\ IsFiniteSet(Active') /\ Cardinality(Active') <= Cardinality(Active)
        /\ Cardinality(Active) \in Nat /\ version \in Nat /\ passes \in Nat
    BY <1>0, <2>1, FS_Subset, FS_CardinalityType DEF IInv, Paid, TypeOK
  <2>3. Cardinality(Active') \in Nat
    BY <2>2, FS_CardinalityType
  <2> QED
    BY <1>0, <2>1, <2>2, <2>3, UsedFinite DEF IInv, Paid
<1> QED
  BY <1>2, <1>3, <1>4, <1>5, <1>6 DEF IInv, JobsOK

(***************************************************************************)
(* Jobs at work                                                            *)
(***************************************************************************)
\* A step of a job, by the fields it changes.
LEMMA MovedIs ==
  ASSUME IInv, NEW j \in Jobs, NEW to \in PCs,
         jobs' = [jobs EXCEPT ![j].pc = to] \/ jobs' = [jobs EXCEPT ![j].pc = to, ![j].saw = version]
  PROVE  /\ jobs' \in [Jobs -> JobValues] /\ \A i \in Jobs \ {j} : jobs'[i] = jobs[i]
         /\ jobs'[j].after = jobs[j].after /\ jobs'[j].pc = to /\ jobs'[j].saw <= version
         /\ jobs' = [jobs EXCEPT ![j].pc = to] => jobs'[j].saw = jobs[j].saw
         /\ jobs' = [jobs EXCEPT ![j].pc = to, ![j].saw = version] => jobs'[j].saw = version
<1>1. /\ jobs \in [Jobs -> JobValues] /\ jobs[j] \in JobValues
      /\ version \in 0 .. MaxChanges /\ jobs[j].saw <= version
  BY DEF IInv, JobsOK, TypeOK, ReadOK, JobValues
<1> DEFINE moved == [jobs[j] EXCEPT !.pc = to]
           read == [jobs[j] EXCEPT !.pc = to, !.saw = version]
<1>2. /\ moved \in JobValues /\ moved.pc = to /\ moved.after = jobs[j].after /\ moved.saw = jobs[j].saw
      /\ read \in JobValues /\ read.pc = to /\ read.after = jobs[j].after /\ read.saw = version
  BY <1>1 DEF JobValues
<1>3. ASSUME jobs' = [jobs EXCEPT ![j].pc = to]
      PROVE  jobs' \in [Jobs -> JobValues] /\ jobs'[j] = moved /\ \A i \in Jobs \ {j} : jobs'[i] = jobs[i]
  BY <1>1, <1>2, <1>3
<1>4. ASSUME jobs' = [jobs EXCEPT ![j].pc = to, ![j].saw = version]
      PROVE  jobs' \in [Jobs -> JobValues] /\ jobs'[j] = read /\ \A i \in Jobs \ {j} : jobs'[i] = jobs[i]
  BY <1>1, <1>2, <1>4
<1> HIDE DEF moved, read
<1>5. version <= version
  BY <1>1
<1> QED
  BY <1>1, <1>2, <1>3, <1>4, <1>5

\* A step that changes nothing but its job.
LEMMA WorkKeeps ==
  ASSUME IInv, NEW j \in Jobs, NEW to \in PCs \ {"none", "passing"},
         jobs[j].pc \notin {"none", "done", "passing"},
         jobs' = [jobs EXCEPT ![j].pc = to] \/ jobs' = [jobs EXCEPT ![j].pc = to, ![j].saw = version],
         UNCHANGED <<version, calls, told, passes>>,
         applied' \in applied .. version, faults' \in 0 .. MaxFaults,
         Covers(j) => applied' >= told \/ Covers(j)'
  PROVE  IInv'
<1>1. /\ TypeOK /\ Pending(j) /\ j \in Callers /\ ~ calls[j].active /\ calls[j].change <= version
  BY JobTyped, JobsFinite DEF IInv, JobsOK, CallsOK, ReadOK
<1>2. calls' \in [Callers -> CallValues] /\ passes' \in passes .. MaxPasses
  BY <1>1 DEF TypeOK, CallValues
<1>3. jobs' \in [Jobs -> JobValues] /\ \A i \in Jobs \ {j} : jobs'[i] = jobs[i]
  BY MovedIs
<1>4. jobs'[j].after = jobs[j].after /\ jobs'[j].pc # "none" /\ jobs'[j].pc # "passing" /\ jobs'[j].saw <= version
  BY MovedIs
<1> QED
  BY <1>1, <1>2, <1>3, <1>4, JobKeeps

\* A step that leaves its job waiting or dead, and ends its call.
LEMMA BackKeeps ==
  ASSUME IInv, NEW j \in Jobs, NEW to \in {"waiting", "dead"},
         jobs[j].pc \notin {"none", "done"},
         jobs' = [jobs EXCEPT ![j].pc = to],
         calls' = [calls EXCEPT ![j] = NoCall],
         UNCHANGED <<version, told, applied, passes>>, faults' \in 0 .. MaxFaults
  PROVE  IInv'
<1>1. TypeOK /\ Pending(j) /\ j \in Callers /\ to \in PCs
  BY JobTyped, JobsFinite DEF IInv, JobsOK, PCs
<1>2. /\ calls' \in [Callers -> CallValues] /\ calls'[j] = NoCall
      /\ \A x \in Callers \ {j} : calls'[x] = calls[x]
  BY <1>1, NoCallTyped DEF TypeOK, CallValues
<1>3. passes' \in passes .. MaxPasses /\ applied' \in applied .. version /\ version \in Nat
  BY <1>1 DEF TypeOK
<1>4. /\ jobs' \in [Jobs -> JobValues] /\ \A i \in Jobs \ {j} : jobs'[i] = jobs[i]
      /\ jobs'[j].after = jobs[j].after /\ jobs'[j].pc = to /\ jobs'[j].saw <= version
  BY <1>1, MovedIs
<1>5. Covers(j)'
  BY <1>4 DEF Covers, Pending, Running
<1>6. ~ calls'[j].active /\ calls'[j].change <= version
  BY <1>2, <1>3, NoCallTyped
<1>7. jobs'[j].pc # "none" /\ jobs'[j].pc # "passing"
  BY <1>4
<1> QED
  BY <1>1, <1>2, <1>3, <1>4, <1>5, <1>6, <1>7, JobKeeps

LEMMA ContinueKeeps ==
  ASSUME IInv, NEW j \in Jobs, Continue(j)
  PROVE  IInv'
<1>1. /\ TypeOK /\ Pending(j) /\ j \in Callers /\ "passing" \in PCs /\ jobs[j].pc = "working" /\ ~ calls[j].active
      /\ passes < MaxPasses /\ passes' = passes + 1 /\ jobs' = [jobs EXCEPT ![j].pc = "passing"]
      /\ UNCHANGED <<version, told, applied, faults>>
  BY JobTyped, JobsFinite DEF IInv, JobsOK, CallsOK, PCs, Continue, Step
<1>2. /\ calls' \in [Callers -> CallValues] /\ calls'[j].active /\ calls'[j].change = 0
      /\ \A x \in Callers \ {j} : calls'[x] = calls[x]
  <2>1. [active |-> TRUE, next |-> j, change |-> 0] \in CallValues
    BY JobsFinite DEF CallValues, Jobs
  <2> QED
    BY <1>1, <2>1 DEF Continue, TypeOK, CallValues
<1>3. passes' \in passes .. MaxPasses /\ applied' \in applied .. version /\ faults' \in 0 .. MaxFaults /\ version \in Nat
  BY <1>1 DEF TypeOK
<1>4. /\ jobs' \in [Jobs -> JobValues] /\ \A i \in Jobs \ {j} : jobs'[i] = jobs[i]
      /\ jobs'[j].after = jobs[j].after /\ jobs'[j].pc = "passing" /\ jobs'[j].saw <= version
      /\ jobs'[j].saw = jobs[j].saw
  BY <1>1, MovedIs
<1>5. Covers(j) => Covers(j)'
  BY <1>1, <1>4 DEF Covers, Pending, Running
<1>6. calls'[j].change <= version /\ jobs'[j].pc # "none"
  BY <1>2, <1>3, <1>4
<1> QED
  BY <1>1, <1>2, <1>3, <1>4, <1>5, <1>6, JobKeeps

LEMMA JobStepKeeps ==
  ASSUME IInv, NEW j \in Jobs,
         \/ Fetch(j) \/ Wait(j) \/ Start(j) \/ Read(j) \/ Apply(j)
         \/ Complete(j) \/ Fail(j) \/ Report(j) \/ LoseWorker(j) \/ Rescue(j)
  PROVE  IInv'
<1>0. /\ TypeOK /\ version \in Nat /\ told \in 0 .. version /\ applied \in 0 .. version
      /\ applied \in applied .. version /\ faults \in 0 .. MaxFaults
      /\ Fault => faults' \in 0 .. MaxFaults
  BY DEF IInv, JobsOK, TypeOK, Fault
<1>1. ASSUME NEW from \in {"waiting", "fetched", "passed", "dead"},
             NEW to \in {"waiting", "fetched", "cleared", "done"},
             from = "passed" <=> to = "done",
             Step(j, from, to), Work
      PROVE  IInv'
  <2>1. jobs[j].pc = from /\ jobs' = [jobs EXCEPT ![j].pc = to] /\ to \in PCs \ {"none", "passing"}
    BY <1>1 DEF Step, PCs
  <2>2. UNCHANGED <<version, calls, told, applied, passes, faults>>
    BY <1>1 DEF Work
  <2>3. jobs'[j].pc = to
    BY <2>1, MovedIs
  <2>4. Covers(j) => Covers(j)'
    BY <1>1, <2>1, <2>3 DEF Covers, Pending, Running
  <2> QED
    BY <1>0, <1>1, <2>1, <2>2, <2>4, WorkKeeps
<1>2. CASE Fetch(j) \/ Wait(j) \/ Start(j) \/ Complete(j) \/ Rescue(j)
  BY <1>1, <1>2 DEF Fetch, Wait, Snoozed, Start, Complete, Rescue
<1>3. CASE Read(j)
  <2>1. /\ jobs[j].pc = "cleared" /\ jobs' = [jobs EXCEPT ![j].pc = "working", ![j].saw = version]
        /\ UNCHANGED <<version, calls, told, applied, passes, faults>> /\ "working" \in PCs \ {"none", "passing"}
    BY <1>3 DEF Read, Work, PCs
  <2>2. jobs'[j].pc = "working" /\ jobs'[j].saw = version
    BY <2>1, MovedIs
  <2>3. Covers(j)'
    BY <1>0, <2>1, <2>2 DEF Covers, Pending, Running
  <2> QED
    BY <1>0, <2>1, <2>3, WorkKeeps
<1>4. CASE Apply(j)
  <2>1. /\ jobs[j].pc = "working" /\ jobs' = [jobs EXCEPT ![j].pc = "done"]
        /\ applied' = Newest(applied, jobs[j].saw)
        /\ UNCHANGED <<version, calls, told, passes, faults>> /\ "done" \in PCs \ {"none", "passing"}
    BY <1>4 DEF Apply, Step, PCs
  <2>2. jobs[j].saw \in Nat /\ jobs[j].saw <= version
    BY <1>0 DEF TypeOK, IInv, ReadOK
  <2>3. applied' \in applied .. version /\ (Covers(j) => applied' >= told)
    BY <1>0, <2>1, <2>2 DEF Newest, Covers
  <2> QED
    BY <1>0, <2>1, <2>3, WorkKeeps
<1>5. CASE Fail(j) \/ LoseWorker(j)
  <2>1. /\ jobs[j].pc \notin {"none", "done"} /\ calls' = [calls EXCEPT ![j] = NoCall] /\ Fault
        /\ UNCHANGED <<version, told, applied, passes>>
    BY <1>5 DEF Fail, LoseWorker
  <2>2. PICK to \in {"waiting", "dead"} : jobs' = [jobs EXCEPT ![j].pc = to]
    BY <1>5 DEF Fail, LoseWorker
  <2> QED
    BY <1>0, <2>1, <2>2, BackKeeps
<1>6. CASE Report(j)
  <2>1. /\ jobs[j].pc = "working" /\ jobs' = [jobs EXCEPT ![j].saw = version] /\ Fault
        /\ UNCHANGED <<version, calls, told, applied, passes>> /\ "working" \in PCs \ {"none", "passing"}
    BY <1>6 DEF Report, PCs
  <2>2. jobs' = [jobs EXCEPT ![j].pc = "working", ![j].saw = version]
    <3>1. jobs \in [Jobs -> JobValues]
      BY <1>0 DEF TypeOK, JobValues
    <3>2. [jobs[j] EXCEPT !.saw = version] = [jobs[j] EXCEPT !.pc = "working", !.saw = version]
      BY <2>1, <3>1 DEF JobValues
    <3> QED
      BY <2>1, <3>1, <3>2
  <2>3. jobs'[j].pc = "working" /\ jobs'[j].saw = version
    BY <2>1, <2>2, MovedIs
  <2>4. Covers(j)'
    BY <1>0, <2>1, <2>3 DEF Covers, Pending, Running
  <2> QED
    BY <1>0, <2>1, <2>2, <2>4, WorkKeeps
<1> QED
  BY <1>2, <1>3, <1>4, <1>5, <1>6

(***************************************************************************)
(* The theorems                                                            *)
(***************************************************************************)
LEMMA NextKeeps == IInv /\ [Next]_vars => IInv'
<1> SUFFICES ASSUME IInv, [Next]_vars PROVE IInv'
  OBVIOUS
<1>1. ASSUME NEW c \in Clients, Change(c) \/ ChangeTx(c) \/ LoseClient(c) PROVE IInv'
  BY <1>1, ChangeKeeps, ChangeTxKeeps, LoseClientKeeps
<1>2. ASSUME NEW x \in Callers, Insert(x) PROVE IInv'
  BY <1>2, InsertStepKeeps
<1>3. ASSUME NEW j \in Jobs,
             \/ Fetch(j) \/ Wait(j) \/ Start(j) \/ Read(j) \/ Apply(j) \/ Continue(j)
             \/ Complete(j) \/ Fail(j) \/ Report(j) \/ LoseWorker(j) \/ Rescue(j)
      PROVE  IInv'
  BY <1>3, JobStepKeeps, ContinueKeeps
<1>4. CASE UNCHANGED vars
  BY <1>4 DEF vars, IInv, JobsOK, TypeOK, NoLostWakeup, Pending, Running, CallsOK, ReadOK, Paid, Used, Active
<1> QED
  BY <1>1, <1>2, <1>3, <1>4 DEF Next

\* The inductive invariant holds for every set of clients and every bound.
THEOREM Invariance == Spec => []IInv
BY InitIInv, NextKeeps, PTL DEF Spec

\* One unfinished job at most has the same arguments, and every change that was
\* enqueued is applied, or some unfinished job has read it or has yet to read,
\* through failed attempts, dead workers and follow-ups (InsertOnce).
THEOREM NoWakeupLost == Spec => []JobsOK
<1>1. IInv => JobsOK
  BY DEF IInv
<1> QED
  BY <1>1, Invariance, PTL

(***************************************************************************)
(* The end of the follow-ups                                               *)
(***************************************************************************)
LEMMA RowsKeepOrder ==
  ASSUME IInv, Ordered,
         \A j \in Jobs : jobs'[j].after = jobs[j].after /\ (jobs'[j].pc = "none" <=> jobs[j].pc = "none"),
         \A x \in Callers : \/ calls'[x].next \in {calls[x].next, 0}
                            \/ calls'[x].next \in Jobs /\ jobs[calls'[x].next].pc # "none"
  PROVE  Ordered'
<1>1. \A x \in Callers : calls[x].next # 0 => calls[x].next \in Jobs
  BY JobsFinite DEF IInv, JobsOK, TypeOK, Jobs
<1> QED
  BY <1>1 DEF Ordered

\* A new job is the last, and what it follows is there before it.
LEMMA InsertKeepsOrder ==
  ASSUME IInv, Ordered, NEW t \in 0 .. MaxJobs, t # 0 => jobs[t].pc # "none",
         \A j \in Equal(t) : Absorbs(j), Cardinality(Used) < MaxJobs,
         \A j \in Jobs : /\ jobs'[j].after = Inserted(t)[j].after
                         /\ jobs'[j].pc = "none" <=> Inserted(t)[j].pc = "none",
         \A x \in Callers : calls'[x].next \in {calls[x].next, 0}
  PROVE  Ordered'
<1>0. TypeOK /\ Jobs \subseteq Nat
  BY DEF IInv, JobsOK, Jobs
<1>1. CASE Inserted(t) = jobs
  <2>1. \A j \in Jobs : jobs'[j].after = jobs[j].after /\ (jobs'[j].pc = "none" <=> jobs[j].pc = "none")
    BY <1>1
  <2> QED
    BY <2>1, RowsKeepOrder
<1>2. ASSUME NEW new \in Jobs, jobs[new].pc = "none",
             \A i \in Jobs : jobs[i].pc = "none" => new <= i,
             Inserted(t)[new].pc = "waiting", Inserted(t)[new].after = t,
             \A i \in Jobs \ {new} : Inserted(t)[i] = jobs[i]
      PROVE  Ordered'
  <2>1. \A i \in Jobs \ {new} : jobs'[i].after = jobs[i].after /\ (jobs'[i].pc = "none" <=> jobs[i].pc = "none")
    BY <1>2
  <2>2. jobs'[new].pc # "none" /\ jobs'[new].after = t
    BY <1>2
  <2>3. t < new
    <3>1. CASE t = 0
      BY <3>1, JobsFinite DEF Jobs
    <3>2. CASE t # 0
      <4>1. t \in Jobs /\ t # new /\ jobs[t].pc # "none"
        BY <1>2, <3>2, JobsFinite DEF Jobs
      <4>2. ~ (new < t)
        BY <1>2, <4>1 DEF Ordered
      <4> QED
        BY <1>0, <4>1, <4>2
    <3> QED
      BY <3>1, <3>2
  <2>4. \A i, j \in Jobs : jobs'[i].pc = "none" /\ i < j => jobs'[j].pc = "none"
    <3> SUFFICES ASSUME NEW i \in Jobs, NEW j \in Jobs, jobs'[i].pc = "none", i < j PROVE jobs'[j].pc = "none"
      OBVIOUS
    <3>1. i # new /\ jobs[i].pc = "none" /\ new <= i
      BY <1>2, <2>1, <2>2
    <3>2. j # new
      BY <1>0, <3>1
    <3> QED
      BY <2>1, <3>1, <3>2 DEF Ordered
  <2>5. \A j \in Jobs : jobs'[j].pc # "none" => jobs'[j].after < j
    BY <2>1, <2>2, <2>3 DEF Ordered
  <2>6. \A x \in Callers : calls[x].next # 0 => calls[x].next \in Jobs
    BY <1>0, JobsFinite DEF TypeOK, Jobs
  <2>7. \A x \in Callers : calls'[x].next # 0 => jobs'[calls'[x].next].pc # "none"
    BY <1>2, <2>1, <2>2, <2>6 DEF Ordered
  <2> QED
    BY <2>4, <2>5, <2>7 DEF Ordered
<1>3. \/ Inserted(t) = jobs
      \/ \E new \in Jobs :
           /\ jobs[new].pc = "none"
           /\ \A i \in Jobs : jobs[i].pc = "none" => new <= i
           /\ Inserted(t)[new].pc = "waiting" /\ Inserted(t)[new].after = t
           /\ \A i \in Jobs \ {new} : Inserted(t)[i] = jobs[i]
  <2> HIDE <1>1, <1>2
  <2>1. TypeOK
    BY <1>0
  <2> QED
    BY <2>1, InsertedIs
<1> QED
  BY <1>1, <1>2, <1>3

\* Every step keeps the order.
LEMMA OrderKeeps == IInv /\ Ordered /\ [Next]_vars => Ordered'
<1> SUFFICES ASSUME IInv, Ordered, [Next]_vars PROVE Ordered'
  OBVIOUS
<1> USE JobsFinite
<1>0. /\ TypeOK /\ jobs \in [Jobs -> JobValues] /\ calls \in [Callers -> CallValues]
      /\ NoCall \in CallValues /\ NoCall.next = 0
  BY NoCallTyped DEF IInv, JobsOK, TypeOK, JobValues, CallValues, NoCall
<1>1. ASSUME NEW c \in Clients, Change(c) \/ LoseClient(c) PROVE Ordered'
  <2>1. UNCHANGED jobs /\ c \in Callers
    BY <1>1 DEF Change, LoseClient
  <2>2. calls'[c].next = 0 /\ \A x \in Callers \ {c} : calls'[x] = calls[x]
    BY <1>0, <1>1, <2>1 DEF Change, LoseClient
  <2> QED
    BY <2>1, <2>2, RowsKeepOrder
<1>2. ASSUME NEW c \in Clients, ChangeTx(c) PROVE Ordered'
  <2>1. PICK t \in 0 .. MaxJobs : EndsBehind(t) /\ jobs' = Inserted(t)
    BY <1>2 DEF ChangeTx
  <2>2. t # 0 => jobs[t].pc # "none"
    <3>1. t # 0 => Running(t)
      BY <2>1 DEF EndsBehind
    <3> QED
      BY <3>1 DEF Running
  <2>3. /\ \A j \in Equal(t) : Absorbs(j)
        /\ Cardinality(Used) < MaxJobs
    BY <1>2, <2>1, Room DEF ChangeTx, EndsBehind
  <2>4. \A x \in Callers : calls'[x].next \in {calls[x].next, 0}
    BY <1>2 DEF ChangeTx
  <2> QED
    BY <2>1, <2>2, <2>3, <2>4, InsertKeepsOrder
<1>3. ASSUME NEW x \in Callers, Insert(x) PROVE Ordered'
  <2>1. x \in Active /\ (x \in Jobs => jobs[x].pc = "passing")
    BY <1>3 DEF Insert, Active, IInv, CallsOK
  <2>2. ASSUME NEW j \in Equal(calls[x].next), calls' = [calls EXCEPT ![x].next = j], UNCHANGED jobs
        PROVE  Ordered'
    <3>1. j \in Jobs /\ jobs[j].pc # "none"
      BY DEF Equal, Pending, Running
    <3>2. calls'[x].next = j /\ \A y \in Callers \ {x} : calls'[y] = calls[y]
      BY <1>0, <2>2 DEF CallValues
    <3> QED
      BY <2>2, <3>1, <3>2, RowsKeepOrder
  <2>3. ASSUME \A j \in Equal(calls[x].next) : Absorbs(j),
               jobs' = IF x \in Jobs THEN [Inserted(calls[x].next) EXCEPT ![x].pc = "passed"]
                       ELSE Inserted(calls[x].next),
               calls' = [calls EXCEPT ![x] = NoCall]
        PROVE  Ordered'
    <3>1. PICK t \in 0 .. MaxJobs : t = calls[x].next
      BY <1>0 DEF CallValues
    <3>2. Cardinality(Used) < MaxJobs /\ (t # 0 => jobs[t].pc # "none")
      BY <2>1, <3>1, Room DEF Ordered
    <3>3. Inserted(t) \in [Jobs -> JobValues] /\ (x \in Jobs => Inserted(t)[x].pc = "passing")
      BY <1>0, <2>1, <2>3, <3>1, <3>2, InsertedIs
    <3>4. \A j \in Jobs : /\ jobs'[j].after = Inserted(t)[j].after
                          /\ jobs'[j].pc = "none" <=> Inserted(t)[j].pc = "none"
      <4>1. CASE x \in Jobs
        <5>1. jobs' = [Inserted(t) EXCEPT ![x].pc = "passed"]
          BY <2>3, <3>1, <4>1
        <5>2. jobs'[x] = [Inserted(t)[x] EXCEPT !.pc = "passed"] /\ \A j \in Jobs \ {x} : jobs'[j] = Inserted(t)[j]
          BY <3>3, <4>1, <5>1
        <5>3. jobs'[x].pc = "passed" /\ jobs'[x].after = Inserted(t)[x].after
          BY <3>3, <4>1, <5>2 DEF JobValues
        <5> QED
          BY <3>3, <5>2, <5>3
      <4>2. CASE x \notin Jobs
        BY <2>3, <3>1, <4>2
      <4> QED
        BY <4>1, <4>2
    <3>5. \A y \in Callers : calls'[y].next \in {calls[y].next, 0}
      BY <1>0, <2>3
    <3> QED
      BY <2>3, <3>1, <3>2, <3>4, <3>5, InsertKeepsOrder
  <2> QED
    BY <1>3, <2>2, <2>3 DEF Insert
<1>4. ASSUME NEW j \in Jobs,
             \/ Fetch(j) \/ Wait(j) \/ Start(j) \/ Read(j) \/ Apply(j) \/ Continue(j)
             \/ Complete(j) \/ Fail(j) \/ Report(j) \/ LoseWorker(j) \/ Rescue(j)
      PROVE  Ordered'
  <2>1. jobs[j] \in JobValues /\ j \in Callers
    BY <1>0
  <2>2. /\ jobs[j].pc # "none" /\ jobs'[j].pc # "none" /\ jobs'[j].after = jobs[j].after
        /\ \A i \in Jobs \ {j} : jobs'[i] = jobs[i]
    BY <1>0, <1>4, <2>1 DEF Fetch, Wait, Snoozed, Start, Read, Apply, Continue, Complete, Fail, Report,
                            LoseWorker, Rescue, Step, JobValues
  <2>3. \/ UNCHANGED calls
        \/ calls' = [calls EXCEPT ![j] = NoCall]
        \/ calls' = [calls EXCEPT ![j] = [active |-> TRUE, next |-> j, change |-> 0]]
    BY <1>4 DEF Fetch, Wait, Start, Read, Apply, Continue, Complete, Fail, Report, LoseWorker, Rescue, Work
  <2>4. calls'[j].next \in {calls[j].next, 0, j} /\ \A x \in Callers \ {j} : calls'[x] = calls[x]
    BY <1>0, <2>1, <2>3
  <2> QED
    BY <2>2, <2>4, RowsKeepOrder
<1>5. CASE UNCHANGED vars
  BY <1>5 DEF vars, Ordered
<1> QED
  BY <1>1, <1>2, <1>3, <1>4, <1>5 DEF Next

\* Of numbers up to a bound, one is the greatest.
LEMMA GreatestIs ==
  ASSUME NEW S \in SUBSET (0 .. MaxJobs), S # {}
  PROVE  \E m \in S : \A n \in S : n <= m
<1> DEFINE less == OpToRel(<, Nat)
           left == {MaxJobs - n : n \in S}
<1>1. \A m, n \in Nat : <<m, n>> \notin less => n <= m
  BY DEF OpToRel
<1>2. left \subseteq Nat /\ left # {}
  <2>1. \A n \in S : MaxJobs - n \in Nat
    BY JobsFinite
  <2> QED
    BY <2>1
<1> HIDE DEF less
<1>3. IsWellFoundedOn(less, Nat)
  BY NatLessThanWellFounded DEF less
<1>4. \E k \in left : \A i \in left : ~ (<<i, k>> \in less)
  <2> HIDE DEF left
  <2> QED
    BY <1>2, <1>3, WFMin
<1>5. PICK m \in S : \A i \in left : ~ (<<i, MaxJobs - m>> \in less)
  BY <1>4
<1>6. ASSUME NEW n \in S PROVE n <= m
  <2>1. /\ MaxJobs - n \in left /\ MaxJobs - n \in Nat /\ MaxJobs - m \in Nat
        /\ n \in Nat /\ m \in Nat
    BY <1>2, JobsFinite
  <2>2. MaxJobs - m <= MaxJobs - n
    BY <1>1, <1>5, <2>1
  <2> QED
    BY <2>1, <2>2, JobsFinite
<1> QED
  BY <1>6

\* Behind the newest running job of the chain no running one is left.
LEMMA OrderedEnds == IInv /\ Ordered => \E t \in 0 .. MaxJobs : EndsBehind(t)
<1> SUFFICES ASSUME IInv, Ordered PROVE \E t \in 0 .. MaxJobs : EndsBehind(t)
  OBVIOUS
<1> DEFINE R == {j \in Jobs : Running(j) /\ ~ Absorbs(j)}
           Chain(S) == \A j \in S : jobs[j].after \in S \cup {0}
           reached == {t \in 0 .. MaxJobs : \E S \in SUBSET R : t \in S \cup {0} /\ Chain(S)}
<1>1. 0 \in reached
  <2>1. {} \in SUBSET R /\ 0 \in {} \cup {0} /\ Chain({}) /\ 0 \in 0 .. MaxJobs
    BY JobsFinite
  <2> HIDE DEF R, Chain
  <2> QED
    BY <2>1
<1>2. PICK m \in reached : \A n \in reached : n <= m
  <2>1. reached \in SUBSET (0 .. MaxJobs) /\ reached # {}
    BY <1>1
  <2> HIDE DEF reached
  <2> QED
    BY <2>1, GreatestIs
<1>3. PICK S \in SUBSET R : m \in S \cup {0} /\ Chain(S)
  OBVIOUS
<1>4. ASSUME NEW j \in Equal(m), ~ Absorbs(j) PROVE FALSE
  <2>1. j \in R /\ jobs[j].after = m /\ jobs[j].pc # "none" /\ j \in 0 .. MaxJobs
    BY <1>4 DEF Equal, Pending, Absorbs, Running, Jobs
  <2>2. S \cup {j} \in SUBSET R /\ Chain(S \cup {j})
    BY <1>3, <2>1
  <2>3. j \in reached
    BY <2>1, <2>2
  <2>4. m < j
    BY <2>1 DEF Ordered
  <2> QED
    BY <1>2, <2>1, <2>3, <2>4
<1>5. EndsBehind(m)
  BY <1>3, <1>4 DEF EndsBehind
<1> QED
  BY <1>5

\* An InsertOnce within a transaction always finds the end of the follow-ups: a
\* follow-up is newer than the job it follows, so they never go round.
THEOREM FollowUpsEnd == Spec => [](\E t \in 0 .. MaxJobs : EndsBehind(t))
<1>1. Init => Ordered
  BY JobsFinite DEF Init, Ordered, NoJob, NoCall
<1> QED
  BY <1>1, Invariance, OrderKeeps, OrderedEnds, PTL DEF Spec
================================================================================
