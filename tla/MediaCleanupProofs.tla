-------------------------- MODULE MediaCleanupProofs -------------------------
(***************************************************************************)
(* MediaCleanup's safety for any goroutines, keys, names, edits, windows   *)
(* and faults.                                                             *)
(*                                                                         *)
(* The argument: what retires a key or a name records an operation whose   *)
(* window outlasts every write of it, and empties the set of passes that   *)
(* still hold the row.  A pass that does hold it knows of every retired    *)
(* thing that may appear one such operation it has not dealt with, or has  *)
(* to come back: if the window is over when it is measured, the last       *)
(* deletion came after the last write could land.                          *)
(***************************************************************************)
EXTENDS MediaCleanup, WellFoundedInduction, TLAPS

PassValues ==
  [pc : {"idle", "sweep", "work", "repeat", "measure", "reset"},
   ops : SUBSET Obligations, now : Obligations \cup {None},
   lag : {0, 1}, wait : 0 .. Larger(Late, Grace)]
OpValues == [done : BOOLEAN, targets : SUBSET Stored, left : 0 .. Late]
ManifestValues ==
  [inc : Incs, deleted : BOOLEAN, by : Ops \cup {None}, keys : SUBSET Keys,
   names : SUBSET Names, ready : SUBSET Names]
CleanupValues ==
  [due : 0 .. Larger(Late, Grace), ops : SUBSET Obligations, readers : SUBSET Procs]

\* An operation names its targets when it settles, and a pass knows what it
\* works on.
Settled == \A o \in Ops : ~ op[o].done => op[o].targets = {} /\ op[o].left = 0
Passes == \A p \in Procs : /\ pass[p].pc \in {"repeat", "measure", "reset"} => pass[p].now # None
                           /\ pass[p].pc = "sweep" => pass[p].wait = 0

\* The purge resets its own deletion, once.
ThePurge == Operation("purge", 0)
Lifetimes ==
  /\ manifest.by = ThePurge => op[ThePurge].done
  /\ manifest.by = ThePurge \/ ~ op[ThePurge].done => manifest.inc = 0

\* What the folder owns is not retired.
Owned ==
  /\ \A k \in manifest.keys : alloc[k] = "live"
  /\ manifest.ready \subseteq manifest.names

\* An operation whose window outlasts the last write of a thing it names.
Timely(o, x) ==
  /\ x \in op[o].targets
  /\ age[x] >= Landing \/ age[x] + op[o].left >= Late

\* A pass has yet to deal with it, or will see that its window is not over.
Due(p, o, x) ==
  /\ o \in pass[p].ops /\ Timely(o, x)
  /\ pass[p].pc = "measure" /\ pass[p].now = o /\ x \in objects =>
       op[o].left >= 1 /\ (pass[p].lag = 0 => age[x] < Landing)

Live(x) == Retired(x) /\ MayAppear(x)
Recorded == \A x \in Stored : Live(x) =>
              cleanup # None /\ \E o \in cleanup.ops \cap Ops : Timely(o, x)
Seen == Unreferenced # {} => cleanup # None

\* A pass that would remove the row has left nothing out.
AtWork(p) == pass[p].pc \in {"sweep", "work", "repeat", "measure"}
Covers(p) ==
  /\ pass[p].pc # "sweep" => Unreferenced = {}
  /\ \A x \in Stored : Live(x) => \E o \in Ops : Due(p, o, x)
Holds(p) == p \in Sweepers /\ (AtWork(p) /\ pass[p].wait = 0 => Covers(p))
Readers == cleanup # None => \A p \in cleanup.readers : Holds(p)

IInv == TypeOK /\ Settled /\ Passes /\ Lifetimes /\ Owned /\ OwnedStay /\ Recorded /\ Seen /\ Readers

(***************************************************************************)
(* Numbers and names                                                       *)
(***************************************************************************)
LEMMA Numbers ==
  /\ Grace \in Nat /\ Landing \in Nat /\ Late \in Nat /\ Late > Landing
  /\ Old \in Nat /\ Old >= Landing /\ Old >= Grace /\ Edits \in Nat
  /\ Lives \in Nat /\ Lives >= 1 /\ 0 \in Incs /\ 1 \in Incs /\ MaxFaults \in Nat
  /\ Larger(Late, Grace) \in Nat /\ Larger(Late, Grace) >= Late /\ Larger(Late, Grace) >= Grace
BY WindowAssumption DEF Old, Larger, Incs

LEMMA Named ==
  /\ ThePurge \in Ops /\ Operation("erase", 0) \in Ops
  /\ \A i \in Incs : Operation("delete", i) \in Ops /\ Operation("intent", i) \in Intents
  /\ \A o \in Ops : o \notin Intents /\ o # None /\ o \in Obligations /\ Deletion(o) = o
  /\ \A o \in Intents : o # None /\ o \in Obligations /\ Deletion(o) \in Ops /\ Deletion(o) # ThePurge
                        /\ o[2] \in Incs
<1>1. \A o \in Intents : \E i \in Incs : o = <<"intent", i>>
  BY DEF Intents, Operation
<1>2. \A o \in Ops : o[1] # "intent"
  BY DEF Ops, Operation
<1>3. \A o \in Intents : o[1] = "intent" /\ o[2] \in Incs
  BY <1>1
<1>4. \A o \in Ops : o \notin Intents
  BY <1>2, <1>3
<1>5. ThePurge \in Ops /\ Operation("erase", 0) \in Ops
  BY DEF ThePurge, Ops
<1>6. \A i \in Incs : Operation("delete", i) \in Ops /\ Operation("intent", i) \in Intents
  BY DEF Ops, Intents
<1>7. \A i \in Incs : Operation("delete", i) # ThePurge
  BY DEF Operation, ThePurge
<1> QED
  BY <1>3, <1>4, <1>5, <1>6, <1>7, NoneAssumption DEF Obligations, Deletion

LEMMA FreshIs ==
  /\ \A o \in Fresh("edit", Edits) : o \in Ops /\ ~ op[o].done /\ o # ThePurge
  /\ \A o \in Fresh("sweep", Cardinality(Keys)) : o \in Ops /\ ~ op[o].done /\ o # ThePurge
<1>1. ASSUME NEW kind \in {"edit", "sweep"}, NEW bound, NEW o \in Fresh(kind, bound)
      PROVE  \E n \in 1 .. bound : o = Operation(kind, n) /\ ~ op[o].done
  BY DEF Fresh
<1>2. \A n : Operation("edit", n) # ThePurge /\ Operation("sweep", n) # ThePurge
  BY DEF Operation, ThePurge
<1>3. \A n \in 1 .. Edits : Operation("edit", n) \in Ops
  BY DEF Ops
<1>4. \A n \in 1 .. Cardinality(Keys) : Operation("sweep", n) \in Ops
  BY DEF Ops
<1> QED
  BY <1>1, <1>2, <1>3, <1>4

LEMMA RowIs == \A c \in CleanupValues : c # None
<1>1. \A c \in CleanupValues : c \in [due : Nat, ops : SUBSET Obligations, readers : SUBSET Procs]
  BY Numbers DEF CleanupValues
<1> QED
  BY <1>1, NoneAssumption

LEMMA IdleIs == Idle \in PassValues /\ Idle.pc = "idle" /\ Idle.ops = {} /\ Idle.now = None /\ Idle.wait = 0
BY Numbers DEF Idle, PassValues

\* The next expiry is what is left of a grace, or none is running.
LEMMA NextExpiryIs ==
  ASSUME TypeOK
  PROVE  /\ NextExpiry \in 0 .. Larger(Late, Grace)
         /\ NextExpiry = 0 => Unreferenced \subseteq Expired
<1> DEFINE left == {Grace - age[k] : k \in Unreferenced \ Expired}
<1>1. \A k \in Unreferenced \ Expired : Grace - age[k] \in 1 .. Grace
  <2> SUFFICES ASSUME NEW k \in Unreferenced \ Expired PROVE Grace - age[k] \in 1 .. Grace
    OBVIOUS
  <2>1. k \in Stored /\ ~ (age[k] >= Grace)
    BY DEF Unreferenced, Expired, Stored
  <2>2. age[k] \in 0 .. Old
    BY <2>1 DEF TypeOK
  <2> QED
    BY <2>1, <2>2, Numbers
<1>2. left \subseteq 1 .. Grace
  BY <1>1
<1>3. CASE left = {}
  BY <1>3, Numbers DEF NextExpiry
<1>4. CASE left # {}
  <2> DEFINE less == OpToRel(<, Nat)
  <2>1. \A m, n \in Nat : <<m, n>> \notin less => n <= m
    BY DEF OpToRel
  <2> HIDE DEF less, left
  <2>2. IsWellFoundedOn(less, Nat)
    BY NatLessThanWellFounded DEF less
  <2>3. left \subseteq Nat
    BY <1>2
  <2>4. PICK n \in left : \A m \in left : ~ (<<m, n>> \in less)
    BY <1>4, <2>2, <2>3, WFMin
  <2>5. \E k \in left : \A m \in left : k <= m
    BY <2>1, <2>3, <2>4
  <2>6. NextExpiry = CHOOSE k \in left : \A m \in left : k <= m
    BY <1>4 DEF NextExpiry, left
  <2>7. NextExpiry \in left
    BY <2>5, <2>6
  <2> QED
    BY <1>2, <2>7, Numbers
<1> QED
  BY <1>3, <1>4

(***************************************************************************)
(* The row                                                                 *)
(***************************************************************************)
LEMMA ScheduleIs ==
  ASSUME TypeOK, NEW due \in 0 .. Larger(Late, Grace), NEW ops \in SUBSET Obligations, Schedule(due, ops)
  PROVE  /\ cleanup' \in CleanupValues /\ cleanup' # None /\ cleanup'.readers = {}
         /\ ops \subseteq cleanup'.ops /\ (cleanup # None => cleanup.ops \subseteq cleanup'.ops)
         /\ ahead' \in BOOLEAN
<1>1. cleanup' = Merged(due, ops) /\ ahead' \in BOOLEAN
  BY DEF Schedule
<1>2. cleanup # None => cleanup \in CleanupValues
  BY DEF TypeOK, CleanupValues
<1>3. CASE cleanup = None
  <2>1. cleanup' = [due |-> due, ops |-> ops, readers |-> {}]
    BY <1>1, <1>3 DEF Merged
  <2>2. cleanup' \in CleanupValues /\ cleanup'.readers = {} /\ cleanup'.ops = ops
    BY <2>1 DEF CleanupValues
  <2> QED
    BY <1>1, <1>3, <2>2, RowIs
<1>4. CASE cleanup # None
  <2>1. cleanup' = [due |-> Smaller(cleanup.due, due), ops |-> cleanup.ops \cup ops, readers |-> {}]
    BY <1>1, <1>4 DEF Merged
  <2>2. Smaller(cleanup.due, due) \in 0 .. Larger(Late, Grace) /\ cleanup.ops \cup ops \in SUBSET Obligations
    BY <1>2, <1>4 DEF Smaller, CleanupValues
  <2>3. cleanup' \in CleanupValues /\ cleanup'.readers = {} /\ cleanup'.ops = cleanup.ops \cup ops
    BY <2>1, <2>2 DEF CleanupValues
  <2> QED
    BY <1>1, <2>3, RowIs
<1> QED
  BY <1>3, <1>4

\* An operation that settles is timely for everything it retires, and no pass
\* holds the row any more.
LEMMA SettleKeeps ==
  ASSUME TypeOK, Settled, Recorded, NEW o \in Ops, ~ op[o].done, NEW targets \in SUBSET Stored,
         Settle(o, targets), UNCHANGED age,
         \A x \in Stored : Live(x)' => Live(x) \/ x \in targets
  PROVE  /\ op' \in [Ops -> OpValues] /\ op'[o].done /\ \A q \in Ops \ {o} : op'[q] = op[q]
         /\ cleanup' \in CleanupValues /\ ahead' \in BOOLEAN
         /\ Settled' /\ Recorded' /\ Seen' /\ Readers'
<1>1. /\ op' \in [Ops -> OpValues] /\ op'[o] = [done |-> TRUE, targets |-> targets, left |-> Late]
      /\ \A q \in Ops \ {o} : op'[q] = op[q]
  <2>1. op \in [Ops -> OpValues] /\ [done |-> TRUE, targets |-> targets, left |-> Late] \in OpValues
    BY Numbers DEF TypeOK, OpValues
  <2> QED
    BY <2>1 DEF Settle
<1>2. /\ cleanup' \in CleanupValues /\ cleanup' # None /\ cleanup'.readers = {} /\ o \in cleanup'.ops
      /\ cleanup # None => cleanup.ops \subseteq cleanup'.ops
      /\ ahead' \in BOOLEAN
  <2>1. PICK due \in 0 .. Larger(Late, Grace) : Schedule(due, {o})
    BY Numbers DEF Settle
  <2>2. {o} \in SUBSET Obligations
    BY Named
  <2> QED
    BY <2>1, <2>2, ScheduleIs
<1>3. Recorded'
  <2> SUFFICES ASSUME NEW x \in Stored, Live(x)' PROVE \E q \in cleanup'.ops \cap Ops : Timely(q, x)'
    BY <1>2 DEF Recorded
  <2>1. CASE x \in targets
    <3>1. age'[x] + Late >= Late
      BY Numbers DEF TypeOK
    <3> QED
      BY <1>1, <1>2, <2>1, <3>1 DEF Timely
  <2>2. CASE x \notin targets
    <3>1. PICK q \in cleanup.ops \cap Ops : cleanup # None /\ Timely(q, x)
      BY <2>2 DEF Recorded
    <3>2. q # o
      BY <3>1 DEF Settled, Timely
    <3> QED
      BY <1>1, <1>2, <3>1, <3>2 DEF Timely
  <2> QED
    BY <2>1, <2>2
<1>4. Settled'
  BY <1>1 DEF Settled
<1> QED
  BY <1>1, <1>2, <1>3, <1>4 DEF Seen, Readers

(***************************************************************************)
(* What an action leaves alone                                             *)
(***************************************************************************)
\* Nothing becomes retired, no window and no write of a retired thing moves.
Calm ==
  /\ \A o \in Ops : op'[o].targets = op[o].targets /\ op'[o].left = op[o].left
  /\ \A x \in Stored : Live(x)' => /\ Live(x) /\ age'[x] = age[x]
                                   /\ x \in objects' => x \in objects \/ age[x] < Landing

\* Neither is a key let go.
Quiet == Calm /\ Unreferenced' \subseteq Unreferenced

\* The bytes and what refers to them stand still.
LEMMA Still ==
  ASSUME UNCHANGED <<objects, age, manifest, alloc>>,
         \A o \in Ops : op'[o].targets = op[o].targets /\ op'[o].left = op[o].left
  PROVE  Quiet
BY DEF Quiet, Calm, Live, Retired, MayAppear, Unreferenced

LEMMA CalmTimely ==
  ASSUME Calm, NEW o \in Ops, NEW x \in Stored, Live(x)', Timely(o, x)
  PROVE  Timely(o, x)'
BY DEF Calm, Timely

LEMMA CalmRecorded ==
  ASSUME Calm, Recorded, cleanup # None => cleanup' # None /\ cleanup.ops \subseteq cleanup'.ops
  PROVE  Recorded'
<1> SUFFICES ASSUME NEW x \in Stored, Live(x)'
             PROVE  cleanup' # None /\ \E o \in cleanup'.ops \cap Ops : Timely(o, x)'
  BY DEF Recorded
<1>1. Live(x)
  BY DEF Calm
<1>2. cleanup # None /\ \E o \in cleanup.ops \cap Ops : Timely(o, x)
  BY <1>1 DEF Recorded
<1>3. PICK o \in cleanup.ops \cap Ops : Timely(o, x)
  BY <1>2
<1>4. Timely(o, x)'
  BY <1>3, CalmTimely
<1> QED
  BY <1>2, <1>3, <1>4

\* A thing that lands while its window is open is waited for.
LEMMA QuietDue ==
  ASSUME TypeOK, Quiet, NEW p \in Procs, NEW o \in Ops, NEW x \in Stored, Live(x)', Due(p, o, x),
         \/ pass'[p] = pass[p]
         \/ o \in pass'[p].ops /\ pass'[p].pc # "measure"
  PROVE  Due(p, o, x)'
<1>1. Timely(o, x)'
  BY CalmTimely DEF Due, Quiet
<1>2. ASSUME pass'[p] = pass[p], pass[p].pc = "measure", pass[p].now = o, x \in objects'
      PROVE  op'[o].left >= 1 /\ (pass'[p].lag = 0 => age'[x] < Landing)
  <2>1. op'[o].left = op[o].left /\ age'[x] = age[x] /\ (x \in objects \/ age[x] < Landing)
    BY <1>2 DEF Quiet, Calm
  <2>2. age[x] \in Nat /\ op[o].left \in Nat
    BY DEF TypeOK
  <2>3. CASE x \in objects
    BY <1>2, <2>1, <2>3 DEF Due
  <2>4. CASE age[x] < Landing
    <3>1. age[x] + op[o].left >= Late
      BY <2>2, <2>4, Numbers DEF Due, Timely
    <3>2. op[o].left >= 1
      BY <2>2, <2>4, <3>1, Numbers
    <3> QED
      BY <2>1, <2>4, <3>2
  <2> QED
    BY <2>1, <2>3, <2>4
<1> QED
  BY <1>1, <1>2 DEF Due

LEMMA HoldsQuiet ==
  ASSUME TypeOK, Quiet, NEW p \in Procs, Holds(p), pass'[p] = pass[p]
  PROVE  Holds(p)'
<1> SUFFICES ASSUME AtWork(p), pass[p].wait = 0 PROVE Covers(p)'
  BY DEF Holds, AtWork
<1>1. Covers(p)
  BY DEF Holds
<1>2. pass'[p].pc # "sweep" => Unreferenced' = {}
  BY <1>1 DEF Covers, Quiet
<1>3. ASSUME NEW x \in Stored, Live(x)' PROVE \E o \in Ops : Due(p, o, x)'
  <2>1. Live(x)
    BY <1>3 DEF Quiet, Calm
  <2>2. PICK o \in Ops : Due(p, o, x)
    BY <1>1, <2>1 DEF Covers
  <2> QED
    BY <1>3, <2>2, QuietDue
<1> QED
  BY <1>2, <1>3 DEF Covers

LEMMA HoldsRest ==
  ASSUME NEW p \in Sweepers, ~ AtWork(p)'
  PROVE  Holds(p)'
BY DEF Holds

\* A pass goes on with the same obligations.
LEMMA HoldsWork ==
  ASSUME TypeOK, Quiet, NEW p \in Procs, Holds(p), pass[p].pc \in {"work", "repeat"},
         pass'[p].pc \in {"work", "repeat"}, pass'[p].ops = pass[p].ops, pass'[p].wait = pass[p].wait
  PROVE  Holds(p)'
<1> SUFFICES ASSUME pass[p].wait = 0 PROVE Covers(p)'
  BY DEF Holds
<1>1. Covers(p)
  BY DEF Holds, AtWork
<1>2. Unreferenced' = {}
  BY <1>1 DEF Covers, Quiet
<1>3. ASSUME NEW x \in Stored, Live(x)' PROVE \E o \in Ops : Due(p, o, x)'
  <2>1. Live(x)
    BY <1>3 DEF Quiet, Calm
  <2>2. PICK o \in Ops : Due(p, o, x)
    BY <1>1, <2>1 DEF Covers
  <2>3. o \in pass'[p].ops /\ pass'[p].pc # "measure"
    BY <2>2 DEF Due
  <2> QED
    BY <1>3, <2>2, <2>3, QuietDue
<1> QED
  BY <1>2, <1>3 DEF Covers

\* The passes in moved aside, a pass that holds the row goes on holding it.
LEMMA QuietReaders ==
  ASSUME TypeOK, Quiet, Readers, NEW moved,
         cleanup' # None => \A q \in cleanup'.readers \ moved :
                              cleanup # None /\ q \in cleanup.readers /\ pass'[q] = pass[q],
         cleanup' # None => \A q \in cleanup'.readers \cap moved : Holds(q)'
  PROVE  Readers'
<1> SUFFICES ASSUME cleanup' # None, NEW q \in cleanup'.readers PROVE Holds(q)'
  BY DEF Readers
<1>1. CASE q \in moved
  BY <1>1
<1>2. CASE q \notin moved
  <2>1. Holds(q) /\ pass'[q] = pass[q]
    BY <1>2 DEF Readers
  <2>2. q \in Procs
    BY <2>1 DEF Holds, Procs
  <2> QED
    BY <2>1, <2>2, HoldsQuiet
<1> QED
  BY <1>1, <1>2

(***************************************************************************)
(* Clients                                                                 *)
(***************************************************************************)
LEMMA AllocateKeeps ==
  ASSUME IInv, NEW k \in Keys, Allocate(k)
  PROVE  IInv'
<1>1. /\ cleanup' \in CleanupValues /\ cleanup' # None /\ cleanup'.readers = {}
      /\ (cleanup # None => cleanup.ops \subseteq cleanup'.ops) /\ ahead' \in BOOLEAN
  <2>1. Schedule(Grace, {}) /\ Grace \in 0 .. Larger(Late, Grace)
    BY Numbers DEF Allocate
  <2>2. {} \in SUBSET Obligations
    OBVIOUS
  <2> QED
    BY <2>1, <2>2, ScheduleIs DEF IInv
<1>2. TypeOK'
  <2>1. age' \in [Stored -> 0 .. Old]
    BY Numbers DEF IInv, TypeOK, Allocate, Stored
  <2> QED
    BY <1>1, <2>1 DEF IInv, TypeOK, CleanupValues, Allocate
<1>3. Calm
  <2>1. \A x \in Stored : Live(x)' => Live(x) /\ x # k
    BY DEF IInv, Live, Retired, MayAppear, Allocate, TypeOK, Stored
  <2>2. \A x \in Stored : x # k => age'[x] = age[x]
    BY DEF IInv, TypeOK, Allocate
  <2> QED
    BY <2>1, <2>2 DEF Calm, Allocate
<1>4. Recorded' /\ Seen' /\ Readers'
  BY <1>1, <1>3, CalmRecorded DEF IInv, Seen, Readers
<1>5. Owned' /\ OwnedStay'
  BY DEF IInv, Owned, OwnedStay, Allocate, TypeOK
<1>6. Settled' /\ Passes' /\ Lifetimes'
  BY DEF IInv, Settled, Passes, Lifetimes, Allocate
<1> QED
  BY <1>2, <1>4, <1>5, <1>6 DEF IInv

\* A quiet step that does not touch the row or a pass.
LEMMA ClientKeeps ==
  ASSUME IInv, Quiet, UNCHANGED <<cleanup, pass>>
  PROVE  Recorded' /\ Seen' /\ Readers'
<1>1. Seen'
  BY DEF IInv, Seen, Quiet
<1>2. Recorded'
  BY CalmRecorded DEF IInv, Quiet
<1>3. Readers'
  <2>1. cleanup # None => \A q \in cleanup.readers : Holds(q) /\ q \in Procs
    BY DEF IInv, Readers, Holds, Procs
  <2>2. \A q \in Procs : Holds(q) => Holds(q)'
    BY HoldsQuiet DEF IInv
  <2> QED
    BY <2>1, <2>2 DEF Readers
<1> QED
  BY <1>1, <1>2, <1>3

LEMMA AdoptKeeps ==
  ASSUME IInv, NEW k \in Keys, Adopt(k)
  PROVE  IInv'
<1>1. TypeOK'
  BY DEF IInv, TypeOK, Adopt
<1>2. Quiet
  BY DEF IInv, TypeOK, Adopt, Quiet, Calm, Live, Retired, MayAppear, Unreferenced
<1>3. Owned' /\ OwnedStay'
  BY DEF IInv, TypeOK, Owned, OwnedStay, Adopt
<1>4. Settled' /\ Passes' /\ Lifetimes'
  BY DEF IInv, TypeOK, Settled, Passes, Lifetimes, Adopt
<1> QED
  BY <1>1, <1>2, <1>3, <1>4, ClientKeeps DEF IInv, Adopt

LEMMA ReserveKeeps ==
  ASSUME IInv, NEW x \in Names, Reserve(x)
  PROVE  IInv'
<1>1. TypeOK'
  <2>1. age' \in [Stored -> 0 .. Old]
    BY Numbers DEF IInv, TypeOK, Reserve, Stored
  <2>2. manifest' \in ManifestValues
    BY DEF IInv, TypeOK, ManifestValues, Reserve
  <2> QED
    BY <2>1, <2>2 DEF IInv, TypeOK, ManifestValues, Reserve
<1>2. Quiet
  <2>1. x \notin Keys /\ manifest'.names = manifest.names \cup {x} /\ manifest'.keys = manifest.keys
    BY PlaceAssumption DEF IInv, TypeOK, Reserve
  <2>2. \A y \in Stored : y # x => age'[y] = age[y]
    BY DEF IInv, TypeOK, Reserve
  <2>3. \A y \in Stored : Live(y)' => Live(y) /\ y # x
    BY <2>1, <2>2 DEF Reserve, Live, Retired, MayAppear
  <2> QED
    BY <2>1, <2>2, <2>3 DEF Quiet, Calm, Reserve, Unreferenced
<1>3. Owned' /\ OwnedStay'
  BY DEF IInv, TypeOK, Owned, OwnedStay, Reserve
<1>4. Settled' /\ Passes' /\ Lifetimes'
  BY DEF IInv, TypeOK, Settled, Passes, Lifetimes, Reserve
<1> QED
  BY <1>1, <1>2, <1>3, <1>4, ClientKeeps DEF IInv, Reserve

LEMMA ReadyKeeps ==
  ASSUME IInv, NEW x \in Names, Ready(x)
  PROVE  IInv'
<1>1. TypeOK'
  BY DEF IInv, TypeOK, Ready
<1>2. Quiet
  BY DEF IInv, TypeOK, Ready, Quiet, Calm, Live, Retired, MayAppear, Unreferenced
<1>3. Owned' /\ OwnedStay'
  BY DEF IInv, TypeOK, Owned, OwnedStay, Ready
<1>4. Settled' /\ Passes' /\ Lifetimes'
  BY DEF IInv, TypeOK, Settled, Passes, Lifetimes, Ready
<1> QED
  BY <1>1, <1>2, <1>3, <1>4, ClientKeeps DEF IInv, Ready

LEMMA LandsKeeps ==
  ASSUME IInv, NEW x \in Stored, Lands(x)
  PROVE  IInv'
<1>1. TypeOK'
  BY DEF IInv, TypeOK, Lands
<1>2. Quiet
  BY DEF Lands, Quiet, Calm, Live, Retired, MayAppear, Unreferenced
<1>3. Owned' /\ OwnedStay' /\ Settled' /\ Passes' /\ Lifetimes'
  BY DEF IInv, Owned, OwnedStay, Settled, Passes, Lifetimes, Lands
<1> QED
  BY <1>1, <1>2, <1>3, ClientKeeps DEF IInv, Lands

LEMMA DropKeeps ==
  ASSUME IInv, NEW gone \in SUBSET Stored, Drop(gone)
  PROVE  IInv'
<1>1. PICK o \in Fresh("edit", Edits) : Settle(o, gone)
  BY DEF Drop
<1>2. o \in Ops /\ ~ op[o].done /\ o # ThePurge
  BY FreshIs
<1>3. alloc' \in [Keys -> {"none", "live", "retired"}]
      /\ \A k \in Keys : alloc'[k] = IF k \in gone THEN "retired" ELSE alloc[k]
  BY DEF IInv, TypeOK, Drop, RetiredKeys
<1>4. /\ manifest' \in ManifestValues
      /\ manifest'.keys = manifest.keys \ gone /\ manifest'.names = manifest.names \ gone
      /\ manifest'.ready = manifest.ready \ gone
      /\ manifest'.inc = manifest.inc /\ manifest'.by = manifest.by
  BY DEF IInv, TypeOK, ManifestValues, Drop
<1>5. ASSUME NEW x \in Stored, Live(x)' PROVE Live(x) \/ x \in gone
  BY <1>3, <1>4, <1>5 DEF Live, Retired, MayAppear, Drop
<1>6. /\ op' \in [Ops -> OpValues] /\ \A q \in Ops \ {o} : op'[q] = op[q]
      /\ cleanup' \in CleanupValues /\ ahead' \in BOOLEAN
      /\ Settled' /\ Recorded' /\ Seen' /\ Readers'
  BY <1>1, <1>2, <1>5, SettleKeeps DEF IInv, Drop
<1>7. TypeOK'
  BY <1>3, <1>4, <1>6 DEF IInv, TypeOK, ManifestValues, OpValues, CleanupValues, Drop
<1>8. Owned' /\ OwnedStay'
  BY <1>3, <1>4 DEF IInv, Owned, OwnedStay, TypeOK, Drop
<1>9. Passes' /\ Lifetimes'
  BY <1>2, <1>4, <1>6, Named DEF IInv, Passes, Lifetimes, Drop
<1> QED
  BY <1>6, <1>7, <1>8, <1>9 DEF IInv

LEMMA RetireItemKeeps ==
  ASSUME IInv, RetireItem
  PROVE  IInv'
<1>1. manifest.inc \in Incs
  BY DEF IInv, TypeOK
<1>2. Quiet
  BY Still DEF RetireItem
<1>3. intent' \in [Incs -> {"none", "open", "completed"}]
  BY <1>1 DEF IInv, TypeOK, RetireItem
<1>4. Settled' /\ Passes' /\ Lifetimes' /\ Owned' /\ OwnedStay'
  BY DEF IInv, Settled, Passes, Lifetimes, Owned, OwnedStay, RetireItem
<1>5. CASE intent[manifest.inc] = "none"
  <2>1. {Operation("intent", manifest.inc)} \in SUBSET Obligations
    BY <1>1, Named
  <2>2. Schedule(0, {Operation("intent", manifest.inc)})
    BY <1>5 DEF RetireItem
  <2>3. /\ cleanup' \in CleanupValues /\ cleanup' # None /\ cleanup'.readers = {}
        /\ (cleanup # None => cleanup.ops \subseteq cleanup'.ops) /\ ahead' \in BOOLEAN
    BY <2>1, <2>2, ScheduleIs, Numbers DEF IInv
  <2>4. TypeOK'
    BY <1>3, <2>3 DEF IInv, TypeOK, CleanupValues, RetireItem
  <2>5. Recorded' /\ Seen' /\ Readers'
    BY <1>2, <2>3, CalmRecorded DEF IInv, Quiet, Seen, Readers
  <2> QED
    BY <1>4, <2>4, <2>5 DEF IInv
<1>6. CASE intent[manifest.inc] # "none"
  <2>1. UNCHANGED <<cleanup, ahead, pass>>
    BY <1>6 DEF RetireItem, Unscheduled
  <2>2. TypeOK'
    BY <1>3, <2>1 DEF IInv, TypeOK, RetireItem
  <2> QED
    BY <1>2, <1>4, <2>1, <2>2, ClientKeeps DEF IInv
<1> QED
  BY <1>5, <1>6

LEMMA ReadOtherKeeps ==
  ASSUME IInv, ReadOther
  PROVE  IInv'
<1>1. Quiet
  BY Still DEF ReadOther
<1>2. TypeOK'
  BY DEF IInv, TypeOK, ReadOther
<1>3. Settled' /\ Passes' /\ Lifetimes' /\ Owned' /\ OwnedStay'
  BY DEF IInv, Settled, Passes, Lifetimes, Owned, OwnedStay, ReadOther
<1> QED
  BY <1>1, <1>2, <1>3, ClientKeeps DEF IInv, ReadOther

(***************************************************************************)
(* Sweeps and callers                                                      *)
(***************************************************************************)
\* A pass moves on; nothing but passes, the row, intents and faults changes.
LEMMA ReadKeeps ==
  ASSUME IInv, NEW p \in Procs, Read(p)
  PROVE  IInv'
<1>1. p \in Sweepers /\ cleanup # None /\ cleanup \in CleanupValues
  BY DEF IInv, TypeOK, CleanupValues, Read, Turn
<1>2. cleanup' \in CleanupValues /\ cleanup'.ops = cleanup.ops /\ cleanup'.readers = cleanup.readers \cup {p}
  BY <1>1 DEF CleanupValues, Read
<1>3. cleanup' # None
  BY <1>2, RowIs
<1>4. pass'[p] \in PassValues /\ pass'[p].pc = "sweep" /\ pass'[p].ops = cleanup.ops /\ pass'[p].wait = 0
  <2>1. pass'[p] = [Idle EXCEPT !.pc = "sweep", !.ops = cleanup.ops]
    BY DEF IInv, TypeOK, Read
  <2>2. cleanup.ops \in SUBSET Obligations
    BY <1>1 DEF CleanupValues
  <2> QED
    BY <2>1, <2>2, IdleIs DEF PassValues
<1>5. pass' \in [Procs -> PassValues] /\ \A q \in Procs \ {p} : pass'[q] = pass[q]
  BY <1>4 DEF IInv, TypeOK, PassValues, Read
<1>6. TypeOK'
  BY <1>2, <1>5 DEF IInv, TypeOK, PassValues, CleanupValues, Read
<1>7. Quiet
  BY Still DEF Read
<1>8. Recorded' /\ Seen'
  BY <1>2, <1>3, <1>7, CalmRecorded DEF IInv, Quiet, Seen
<1>9. Holds(p)'
  <2>1. \A x \in Stored : Live(x)' => \E o \in Ops : Due(p, o, x)'
    BY <1>2, <1>4, <1>8 DEF Recorded, Due
  <2> QED
    BY <1>1, <1>4, <2>1 DEF Holds, Covers
<1>10. Readers'
  <2>1. \A q \in cleanup'.readers \ {p} : cleanup # None /\ q \in cleanup.readers /\ pass'[q] = pass[q]
    BY <1>1, <1>2, <1>5 DEF CleanupValues
  <2>2. \A q \in cleanup'.readers \cap {p} : Holds(q)'
    BY <1>9
  <2> QED
    BY <1>7, <2>1, <2>2, QuietReaders DEF IInv
<1>11. Settled' /\ Lifetimes' /\ Owned' /\ OwnedStay'
  BY DEF IInv, Settled, Lifetimes, Owned, OwnedStay, Read
<1>12. Passes'
  BY <1>4, <1>5 DEF IInv, Passes
<1> QED
  BY <1>6, <1>8, <1>10, <1>11, <1>12 DEF IInv

LEMMA SweepKeeps ==
  ASSUME IInv, NEW p \in Procs, Sweep(p)
  PROVE  IInv'
<1>1. pass[p] \in PassValues /\ pass[p].pc = "sweep" /\ pass[p].wait = 0
  BY DEF IInv, TypeOK, Passes, PassValues, Sweep
<1>2. NextExpiry \in 0 .. Larger(Late, Grace) /\ (NextExpiry = 0 => Unreferenced \subseteq Expired)
  BY NextExpiryIs DEF IInv
<1>3. CASE Expired = {} /\ Unscheduled /\ UNCHANGED <<alloc, op>>
  <2>1. cleanup' = cleanup /\ (cleanup # None => cleanup \in CleanupValues)
    BY <1>3 DEF Unscheduled, IInv, TypeOK, CleanupValues
  <2>2. /\ pass'[p] \in PassValues /\ pass'[p].pc = "work" /\ pass'[p].wait = NextExpiry
        /\ pass[p].ops \subseteq pass'[p].ops
    <3>1. pass'[p] = [pass[p] EXCEPT !.pc = "work", !.wait = NextExpiry,
                          !.ops = IF cleanup' = None THEN @ ELSE @ \cup cleanup'.ops]
      BY DEF Sweep, IInv, TypeOK
    <3>2. (IF cleanup' = None THEN pass[p].ops ELSE pass[p].ops \cup cleanup'.ops) \in SUBSET Obligations
      BY <1>1, <2>1 DEF PassValues, CleanupValues
    <3> QED
      BY <1>1, <1>2, <3>1, <3>2 DEF PassValues
  <2>3. pass' \in [Procs -> PassValues] /\ \A q \in Procs \ {p} : pass'[q] = pass[q]
    BY <2>2 DEF IInv, TypeOK, PassValues, Sweep
  <2>4. Quiet
    BY <1>3, Still DEF Sweep
  <2>5. Holds(p) => Holds(p)'
    <3> SUFFICES ASSUME Holds(p), pass'[p].wait = 0 PROVE Covers(p)'
      BY <2>2 DEF Holds
    <3>1. Covers(p)
      BY <1>1 DEF Holds, AtWork
    <3>2. Unreferenced' = {}
      BY <1>2, <1>3, <2>2, <2>4 DEF Quiet
    <3>3. ASSUME NEW x \in Stored, Live(x)' PROVE \E o \in Ops : Due(p, o, x)'
      <4>1. Live(x)
        BY <3>3, <2>4 DEF Quiet, Calm
      <4>2. PICK o \in Ops : Due(p, o, x)
        BY <3>1, <4>1 DEF Covers
      <4>3. o \in pass'[p].ops /\ pass'[p].pc # "measure"
        BY <2>2, <4>2 DEF Due
      <4> QED
        BY <2>4, <3>3, <4>2, <4>3, QuietDue DEF IInv
    <3> QED
      BY <3>2, <3>3 DEF Covers
  <2>6. Readers'
    <3>1. cleanup # None => \A q \in cleanup.readers \cap {p} : Holds(q)'
      BY <2>5 DEF IInv, Readers
    <3>2. cleanup # None => \A q \in cleanup.readers \ {p} : q \in cleanup.readers /\ pass'[q] = pass[q]
      BY <2>1, <2>3 DEF CleanupValues
    <3> QED
      BY <2>1, <2>4, <3>1, <3>2, QuietReaders DEF IInv
  <2>7. Recorded' /\ Seen'
    BY <2>1, <2>4, CalmRecorded DEF IInv, Quiet, Seen
  <2>8. TypeOK'
    BY <1>3, <2>1, <2>3 DEF IInv, TypeOK, PassValues, CleanupValues, Sweep, Unscheduled
  <2>9. Settled' /\ Lifetimes' /\ Owned' /\ OwnedStay'
    BY <1>3 DEF IInv, Settled, Lifetimes, Owned, OwnedStay, Sweep
  <2>10. Passes'
    BY <2>2, <2>3 DEF IInv, Passes
  <2> QED
    BY <2>6, <2>7, <2>8, <2>9, <2>10 DEF IInv
<1>4. CASE /\ \E o \in Fresh("sweep", Cardinality(Keys)) : Settle(o, Expired)
           /\ alloc' = RetiredKeys(Expired)
  <2>1. PICK o \in Fresh("sweep", Cardinality(Keys)) : Settle(o, Expired)
    BY <1>4
  <2>2. o \in Ops /\ ~ op[o].done /\ o # ThePurge
    BY FreshIs
  <2>3. alloc' \in [Keys -> {"none", "live", "retired"}]
        /\ \A k \in Keys : alloc'[k] = IF k \in Expired THEN "retired" ELSE alloc[k]
    BY <1>4 DEF IInv, TypeOK, RetiredKeys
  <2>4. Expired \in SUBSET Stored /\ \A k \in Expired : k \notin manifest.keys
    BY DEF Expired, Unreferenced, Stored
  <2>5. ASSUME NEW x \in Stored, Live(x)' PROVE Live(x) \/ x \in Expired
    BY <2>3, <2>5 DEF Live, Retired, MayAppear, Sweep
  <2>6. /\ op' \in [Ops -> OpValues] /\ \A q \in Ops \ {o} : op'[q] = op[q]
        /\ cleanup' \in CleanupValues /\ ahead' \in BOOLEAN
        /\ Settled' /\ Recorded' /\ Seen' /\ Readers'
    BY <2>1, <2>2, <2>4, <2>5, SettleKeeps DEF IInv, Sweep
  <2>7. pass'[p] \in PassValues /\ pass'[p].pc = "work"
    <3>1. pass'[p] = [pass[p] EXCEPT !.pc = "work", !.wait = NextExpiry,
                          !.ops = IF cleanup' = None THEN @ ELSE @ \cup cleanup'.ops]
      BY DEF Sweep, IInv, TypeOK
    <3>2. (IF cleanup' = None THEN pass[p].ops ELSE pass[p].ops \cup cleanup'.ops) \in SUBSET Obligations
      BY <1>1, <2>6 DEF PassValues, CleanupValues
    <3> QED
      BY <1>1, <1>2, <3>1, <3>2 DEF PassValues
  <2>8. pass' \in [Procs -> PassValues] /\ \A q \in Procs \ {p} : pass'[q] = pass[q]
    BY <2>7 DEF IInv, TypeOK, PassValues, Sweep
  <2>9. TypeOK'
    BY <2>3, <2>6, <2>8 DEF IInv, TypeOK, PassValues, OpValues, CleanupValues, Sweep
  <2>10. Owned' /\ OwnedStay'
    BY <2>3, <2>4 DEF IInv, Owned, OwnedStay, TypeOK, Sweep
  <2>11. Passes' /\ Lifetimes'
    BY <2>2, <2>6, <2>7, <2>8, Named DEF IInv, Passes, Lifetimes, Sweep
  <2> QED
    BY <2>6, <2>9, <2>10, <2>11 DEF IInv
<1> QED
  BY <1>3, <1>4 DEF Sweep

LEMMA NowIs ==
  ASSUME TypeOK, Passes, NEW p \in Procs, pass[p].pc \in {"repeat", "measure", "reset"} \/ Working(p)
  PROVE  /\ Now(p) \in Obligations /\ Deletion(Now(p)) \in Ops
         /\ pass[p].pc # "work" => Now(p) = pass[p].now
<1>1. pass[p] \in PassValues
  BY DEF TypeOK, PassValues
<1>2. CASE pass[p].pc = "work"
  <2>1. Left(p) # {}
    BY <1>2 DEF Working
  <2>2. Now(p) \in Left(p)
    BY <1>2, <2>1 DEF Now
  <2> QED
    BY <1>1, <1>2, <2>2, Named DEF Left, PassValues, Obligations
<1>3. CASE pass[p].pc # "work"
  <2>1. Now(p) = pass[p].now /\ pass[p].now # None
    BY <1>3 DEF Now, Passes, Working
  <2> QED
    BY <1>1, <2>1, Named DEF PassValues, Obligations
<1> QED
  BY <1>2, <1>3

LEMMA DeletionTargetsAre ==
  ASSUME TypeOK
  PROVE  DeletionTargets \in SUBSET Stored
BY DEF TypeOK, DeletionTargets, Stored

LEMMA TombstoneKeeps ==
  ASSUME IInv, NEW p \in Procs, Tombstone(p)
  PROVE  IInv'
<1>1. PICK d : d = Deletion(Now(p))
  OBVIOUS
<1>2. PICK current : current = (Now(p) \in Intents => manifest.inc = Now(p)[2])
  OBVIOUS
<1>3. d \in Ops /\ Now(p) \in Obligations /\ pass[p].pc = "work" /\ DeleteItem(d, current)
  BY <1>1, <1>2, NowIs DEF IInv, Tombstone, Working
<1>4. pass'[p] \in PassValues /\ pass'[p].pc = "repeat" /\ pass'[p].now = Now(p)
      /\ pass'[p].ops = pass[p].ops /\ pass'[p].wait = pass[p].wait
  BY <1>3 DEF IInv, TypeOK, PassValues, Tombstone
<1>5. pass' \in [Procs -> PassValues] /\ \A q \in Procs \ {p} : pass'[q] = pass[q]
  BY <1>4 DEF IInv, TypeOK, PassValues, Tombstone
<1>6. Passes'
  BY <1>3, <1>4, <1>5, Named DEF IInv, Passes, Obligations
<1>7. ASSUME Quiet, Unscheduled
      PROVE  Recorded' /\ Seen' /\ Readers'
  <2>1. cleanup' = cleanup
    BY <1>7 DEF Unscheduled
  <2>2. Recorded' /\ Seen'
    BY <1>7, <2>1, CalmRecorded DEF IInv, Quiet, Seen
  <2>3. cleanup # None => \A q \in cleanup.readers \cap {p} : Holds(q)'
    BY <1>3, <1>4, <1>7, HoldsWork DEF IInv, Readers
  <2>4. cleanup # None => \A q \in cleanup.readers \ {p} : q \in cleanup.readers /\ pass'[q] = pass[q]
    BY <1>5 DEF IInv, Readers, Holds, Procs
  <2> QED
    BY <1>7, <2>1, <2>2, <2>3, <2>4, QuietReaders DEF IInv
<1>8. CASE op[d].done /\ Unscheduled /\ UNCHANGED <<manifest, alloc, op>>
  <2>1. Quiet
    BY <1>8, Still DEF Tombstone
  <2>2. TypeOK'
    BY <1>5, <1>8 DEF IInv, TypeOK, PassValues, Unscheduled, Tombstone
  <2>3. Settled' /\ Lifetimes' /\ Owned' /\ OwnedStay'
    BY <1>8 DEF IInv, Settled, Lifetimes, Owned, OwnedStay, Tombstone
  <2> QED
    BY <1>6, <1>7, <1>8, <2>1, <2>2, <2>3 DEF IInv
<1>9. CASE /\ ~ op[d].done /\ ~ current
           /\ op' = [op EXCEPT ![d].done = TRUE]
           /\ Unscheduled /\ UNCHANGED <<manifest, alloc>>
  <2>1. /\ op' \in [Ops -> OpValues]
        /\ \A o \in Ops : /\ op'[o].targets = op[o].targets /\ op'[o].left = op[o].left
                          /\ op[o].done => op'[o].done
    <3>1. op \in [Ops -> OpValues] /\ op[d] \in OpValues
      BY <1>3 DEF IInv, TypeOK, OpValues
    <3>2. op'[d] = [op[d] EXCEPT !.done = TRUE] /\ \A o \in Ops \ {d} : op'[o] = op[o]
      BY <1>3, <1>9, <3>1
    <3>3. op'[d] \in OpValues /\ op'[d].targets = op[d].targets /\ op'[d].left = op[d].left /\ op'[d].done
      BY <3>1, <3>2 DEF OpValues
    <3>4. op' \in [Ops -> OpValues]
      BY <1>9, <3>1, <3>3
    <3> QED
      BY <3>2, <3>3, <3>4
  <2>2. Quiet
    BY <1>9, <2>1, Still DEF Tombstone
  <2>3. TypeOK'
    BY <1>5, <1>9, <2>1 DEF IInv, TypeOK, PassValues, OpValues, Unscheduled, Tombstone
  <2>4. Settled' /\ Lifetimes' /\ Owned' /\ OwnedStay'
    BY <1>9, <2>1, Named DEF IInv, Settled, Lifetimes, Owned, OwnedStay, Tombstone
  <2> QED
    BY <1>6, <1>7, <1>9, <2>2, <2>3, <2>4 DEF IInv
<1>10. CASE /\ ~ op[d].done /\ current
            /\ Settle(d, DeletionTargets)
            /\ manifest' = [manifest EXCEPT !.deleted = TRUE, !.by = d,
                                            !.keys = {}, !.names = {}, !.ready = {}]
            /\ alloc' = RetiredKeys({k \in Keys : alloc[k] # "none"})
  <2>1. alloc' \in [Keys -> {"none", "live", "retired"}]
        /\ \A k \in Keys : alloc'[k] = IF alloc[k] # "none" THEN "retired" ELSE "none"
    BY <1>10 DEF IInv, TypeOK, RetiredKeys
  <2>2. /\ manifest' \in ManifestValues /\ manifest'.keys = {} /\ manifest'.names = {} /\ manifest'.ready = {}
        /\ manifest'.inc = manifest.inc /\ manifest'.by = d
    BY <1>3, <1>10 DEF IInv, TypeOK, ManifestValues
  <2>3. ASSUME NEW x \in Stored, Live(x)' PROVE Live(x) \/ x \in DeletionTargets
    BY <2>1, <2>2, <2>3 DEF Live, Retired, MayAppear, DeletionTargets, Tombstone
  <2>4. /\ op' \in [Ops -> OpValues] /\ op'[d].done /\ \A q \in Ops \ {d} : op'[q] = op[q]
        /\ cleanup' \in CleanupValues /\ ahead' \in BOOLEAN
        /\ Settled' /\ Recorded' /\ Seen' /\ Readers'
    BY <1>3, <1>10, <2>3, DeletionTargetsAre, SettleKeeps DEF IInv, Tombstone
  <2>5. TypeOK'
    BY <1>5, <2>1, <2>2, <2>4 DEF IInv, TypeOK, PassValues, OpValues, ManifestValues, CleanupValues, Tombstone
  <2>6. Lifetimes'
    BY <1>3, <1>10, <2>2, <2>4, Named DEF IInv, Lifetimes
  <2>7. Owned' /\ OwnedStay'
    BY <2>2 DEF Owned, OwnedStay
  <2> QED
    BY <1>6, <2>4, <2>5, <2>6, <2>7 DEF IInv
<1> QED
  BY <1>3, <1>8, <1>9, <1>10 DEF DeleteItem

LEMMA RepeatKeeps ==
  ASSUME IInv, NEW p \in Procs, Repeat(p)
  PROVE  IInv'
<1>1. PICK d : d = Deletion(Now(p))
  OBVIOUS
<1>2. d \in Ops /\ Now(p) \in Obligations /\ pass[p].pc \in {"work", "repeat"}
  BY <1>1, NowIs DEF IInv, Repeat, Working
<1>3. objects' = objects \ (op[d].targets \ manifest.names) /\ op[d].targets \cap manifest.keys = {}
  BY <1>1 DEF Repeat, Targets, Kept
<1>4. /\ pass'[p] \in PassValues /\ pass'[p].pc = IF p \in Callers THEN "reset" ELSE "measure"
      /\ pass'[p].now = Now(p) /\ pass'[p].lag = 0
      /\ pass'[p].ops = pass[p].ops /\ pass'[p].wait = pass[p].wait
  <2>1. pass[p] \in PassValues
    BY DEF IInv, TypeOK, PassValues
  <2>2. pass'[p] = [pass[p] EXCEPT !.pc = IF p \in Callers THEN "reset" ELSE "measure",
                                   !.now = Now(p), !.lag = 0]
    BY DEF IInv, TypeOK, Repeat
  <2> QED
    BY <1>2, <2>1, <2>2 DEF PassValues
<1>5. pass' \in [Procs -> PassValues] /\ \A q \in Procs \ {p} : pass'[q] = pass[q]
  BY <1>4 DEF IInv, TypeOK, PassValues, Repeat
<1>6. TypeOK'
  BY <1>3, <1>5 DEF IInv, TypeOK, PassValues, Repeat
<1>7. Quiet
  BY <1>3 DEF Quiet, Calm, Live, Retired, MayAppear, Unreferenced, Repeat
<1>8. Recorded' /\ Seen'
  BY <1>7, CalmRecorded DEF IInv, Quiet, Seen, Repeat
<1>9. ASSUME Holds(p) PROVE Holds(p)'
  <2>1. p \in Sweepers /\ pass'[p].pc = "measure"
    BY <1>4, <1>9, PlaceAssumption DEF Holds
  <2> SUFFICES ASSUME pass[p].wait = 0 PROVE Covers(p)'
    BY <1>4, <2>1 DEF Holds
  <2>2. Covers(p)
    BY <1>2, <1>9 DEF Holds, AtWork
  <2>3. Unreferenced' = {}
    BY <1>2, <1>7, <2>2 DEF Covers, Quiet
  <2>4. ASSUME NEW x \in Stored, Live(x)' PROVE \E o \in Ops : Due(p, o, x)'
    <3>1. Live(x)
      BY <1>7, <2>4 DEF Quiet, Calm
    <3>2. PICK o \in Ops : Due(p, o, x)
      BY <2>2, <3>1 DEF Covers
    <3>3. Timely(o, x)' /\ o \in pass'[p].ops
      BY <1>4, <1>7, <2>4, <3>2, CalmTimely DEF Due, Quiet
    <3>4. ASSUME Now(p) = o PROVE x \notin objects'
      <4>1. d = o
        BY <1>1, <3>4, Named
      <4>2. x \in op[o].targets
        BY <3>2 DEF Due, Timely
      <4>3. x \notin manifest.names
        BY <3>1, PlaceAssumption DEF IInv, TypeOK, Live, Retired, Stored
      <4> QED
        BY <1>3, <4>1, <4>2, <4>3
    <3> QED
      BY <1>4, <3>3, <3>4 DEF Due
  <2> QED
    BY <2>3, <2>4 DEF Covers
<1>10. Readers'
  <2>1. cleanup' = cleanup
    BY DEF Repeat
  <2>2. cleanup # None => \A q \in cleanup.readers \cap {p} : Holds(q)'
    BY <1>9 DEF IInv, Readers
  <2>3. cleanup # None => \A q \in cleanup.readers \ {p} : q \in cleanup.readers /\ pass'[q] = pass[q]
    BY <1>5 DEF IInv, Readers, Holds, Procs
  <2> QED
    BY <1>7, <2>1, <2>2, <2>3, QuietReaders DEF IInv
<1>11. Passes'
  BY <1>2, <1>4, <1>5, Named DEF IInv, Passes, Obligations
<1>12. Settled' /\ Lifetimes' /\ Owned'
  BY DEF IInv, Settled, Lifetimes, Owned, Repeat
<1>13. OwnedStay'
  BY <1>3 DEF IInv, OwnedStay, Owned, Repeat
<1> QED
  BY <1>6, <1>8, <1>10, <1>11, <1>12, <1>13 DEF IInv

LEMMA MeasureKeeps ==
  ASSUME IInv, NEW p \in Procs, Measure(p)
  PROVE  IInv'
<1>1. PICK d : d = Now(p)
  OBVIOUS
<1>2. d \in Obligations /\ pass[p].pc = "measure" /\ pass[p].now = d /\ (d \in Ops \/ d \in Intents)
  BY <1>1, NowIs DEF IInv, Measure, Obligations
<1>3. PICK w : w = IF d \in Intents THEN pass[p].wait ELSE Larger(pass[p].wait, op[d].left)
  OBVIOUS
<1>4. /\ w \in 0 .. Larger(Late, Grace)
      /\ w = 0 => pass[p].wait = 0 /\ (d \in Ops => op[d].left = 0)
  <2>1. pass[p].wait \in 0 .. Larger(Late, Grace)
    BY DEF IInv, TypeOK
  <2>2. d \in Ops => op[d].left \in 0 .. Late /\ d \notin Intents
    BY Named DEF IInv, TypeOK
  <2>3. ASSUME d \in Ops PROVE w = Larger(pass[p].wait, op[d].left)
    BY <1>3, <2>2, <2>3
  <2>4. CASE d \in Ops
    BY <2>1, <2>2, <2>3, <2>4, Numbers DEF Larger
  <2>5. CASE d \in Intents /\ d \notin Ops
    BY <1>3, <2>1, <2>5
  <2> QED
    BY <1>2, <2>4, <2>5
<1>5. /\ pass'[p] \in PassValues /\ pass'[p].pc = "work"
      /\ pass'[p].ops = pass[p].ops \ {d} /\ pass'[p].wait = w
  <2>1. pass[p] \in PassValues
    BY DEF IInv, TypeOK, PassValues
  <2>2. pass'[p] = [pass[p] EXCEPT !.pc = "work", !.now = None, !.lag = 0, !.ops = pass[p].ops \ {d}, !.wait = w]
    BY <1>1, <1>3 DEF IInv, TypeOK, Measure
  <2> QED
    BY <1>4, <2>1, <2>2 DEF PassValues
<1>6. pass' \in [Procs -> PassValues] /\ \A q \in Procs \ {p} : pass'[q] = pass[q]
  BY <1>5 DEF IInv, TypeOK, PassValues, Measure
<1>7. TypeOK'
  <2>1. intent' \in [Incs -> {"none", "open", "completed"}]
    BY <1>1, Named DEF IInv, TypeOK, Measure
  <2> QED
    BY <1>6, <2>1 DEF IInv, TypeOK, PassValues, Measure
<1>8. Quiet
  BY Still DEF Measure
<1>9. Recorded' /\ Seen'
  BY <1>8, CalmRecorded DEF IInv, Quiet, Seen, Measure
<1>10. ASSUME Holds(p) PROVE Holds(p)'
  <2> SUFFICES ASSUME w = 0 PROVE Covers(p)'
    BY <1>5, <1>10 DEF Holds
  <2>1. Covers(p)
    BY <1>2, <1>4, <1>10 DEF Holds, AtWork
  <2>2. Unreferenced' = {}
    BY <1>2, <1>8, <2>1 DEF Covers, Quiet
  <2>3. ASSUME NEW x \in Stored, Live(x)' PROVE \E o \in Ops : Due(p, o, x)'
    <3>1. Live(x)
      BY <1>8, <2>3 DEF Quiet, Calm
    <3>2. PICK o \in Ops : Due(p, o, x)
      BY <2>1, <3>1 DEF Covers
    <3>3. o # d
      <4> SUFFICES ASSUME o = d PROVE FALSE
        OBVIOUS
      <4>1. op[o].left = 0
        BY <1>4
      <4>2. x \notin objects
        BY <1>2, <3>2, <4>1 DEF Due
      <4>3. age[x] < Landing /\ age[x] \in Nat
        BY <3>1, <4>2 DEF Live, MayAppear, IInv, TypeOK
      <4>4. age[x] >= Landing \/ age[x] + op[o].left >= Late
        BY <3>2 DEF Due, Timely
      <4> QED
        BY <4>1, <4>3, <4>4, Numbers
    <3>4. o \in pass'[p].ops /\ pass'[p].pc # "measure"
      BY <1>5, <3>2, <3>3 DEF Due
    <3> QED
      BY <1>8, <2>3, <3>2, <3>4, QuietDue DEF IInv
  <2> QED
    BY <2>2, <2>3 DEF Covers
<1>11. Readers'
  <2>1. cleanup' = cleanup
    BY DEF Measure
  <2>2. cleanup # None => \A q \in cleanup.readers \cap {p} : Holds(q)'
    BY <1>10 DEF IInv, Readers
  <2>3. cleanup # None => \A q \in cleanup.readers \ {p} : q \in cleanup.readers /\ pass'[q] = pass[q]
    BY <1>6 DEF IInv, Readers, Holds, Procs
  <2> QED
    BY <1>8, <2>1, <2>2, <2>3, QuietReaders DEF IInv
<1>12. Passes'
  BY <1>5, <1>6 DEF IInv, Passes
<1>13. Settled' /\ Lifetimes' /\ Owned' /\ OwnedStay'
  BY DEF IInv, Settled, Lifetimes, Owned, OwnedStay, Measure
<1> QED
  BY <1>7, <1>9, <1>11, <1>12, <1>13 DEF IInv

\* A pass that ends leaves the row as it is, or moves it and keeps what it
\* names, with no pass left that holds it.
LEMMA EndKeeps ==
  ASSUME IInv, NEW p \in Procs, pass' = [pass EXCEPT ![p] = Idle],
         UNCHANGED <<objects, age, manifest, alloc, op, intent, erasing>>,
         faults' \in 0 .. MaxFaults, ahead' \in BOOLEAN,
         \/ UNCHANGED cleanup
         \/ /\ cleanup # None /\ cleanup' \in CleanupValues
            /\ cleanup'.ops = cleanup.ops /\ cleanup'.readers = {}
  PROVE  IInv'
<1>1. pass' \in [Procs -> PassValues] /\ pass'[p].pc = "idle"
      /\ \A q \in Procs \ {p} : pass'[q] = pass[q]
  BY IdleIs DEF IInv, TypeOK, PassValues
<1>2. TypeOK'
  BY <1>1 DEF IInv, TypeOK, PassValues, CleanupValues
<1>3. Quiet
  BY Still
<1>4. cleanup # None => cleanup' # None /\ cleanup.ops \subseteq cleanup'.ops
  BY RowIs
<1>5. Recorded' /\ Seen'
  BY <1>3, <1>4, CalmRecorded DEF IInv, Quiet, Seen
<1>6. Readers'
  <2>1. CASE cleanup' = cleanup
    <3>1. cleanup # None => \A q \in cleanup.readers \cap {p} : Holds(q)'
      BY <1>1, HoldsRest DEF IInv, Readers, Holds, AtWork
    <3>2. cleanup # None => \A q \in cleanup.readers \ {p} : q \in cleanup.readers /\ pass'[q] = pass[q]
      BY <1>1 DEF IInv, Readers, Holds, Procs
    <3> QED
      BY <1>3, <2>1, <3>1, <3>2, QuietReaders DEF IInv
  <2>2. CASE cleanup'.readers = {}
    BY <2>2 DEF Readers
  <2> QED
    BY <2>1, <2>2
<1>7. Settled' /\ Lifetimes' /\ Owned' /\ OwnedStay'
  BY DEF IInv, Settled, Lifetimes, Owned, OwnedStay
<1>8. Passes'
  BY <1>1 DEF IInv, Passes
<1> QED
  BY <1>2, <1>5, <1>6, <1>7, <1>8 DEF IInv

LEMMA CloseKeeps ==
  ASSUME IInv, NEW p \in Procs, Close(p)
  PROVE  IInv'
<1>1. faults' \in 0 .. MaxFaults /\ ahead' \in BOOLEAN
  BY DEF IInv, TypeOK, Close, Unscheduled
<1>2. CASE cleanup = None \/ p \notin cleanup.readers
  <2>1. UNCHANGED cleanup
    BY <1>2 DEF Close, Unscheduled
  <2> QED
    BY <1>1, <2>1, EndKeeps DEF Close
<1>3. CASE cleanup # None /\ p \in cleanup.readers /\ pass[p].wait > 0
  <2>1. cleanup \in CleanupValues /\ pass[p].wait \in 0 .. Larger(Late, Grace)
    BY <1>3 DEF IInv, TypeOK, CleanupValues
  <2>2. cleanup' = [cleanup EXCEPT !.due = pass[p].wait, !.readers = {}]
    BY <1>3 DEF Close
  <2>3. cleanup' \in CleanupValues /\ cleanup'.ops = cleanup.ops /\ cleanup'.readers = {}
    BY <2>1, <2>2 DEF CleanupValues
  <2> QED
    BY <1>1, <1>3, <2>3, EndKeeps DEF Close
<1>4. CASE cleanup # None /\ p \in cleanup.readers /\ ~ (pass[p].wait > 0)
  <2>1. cleanup' = None
    BY <1>4 DEF Close
  <2>2. pass[p].wait = 0
    <3>1. pass[p].wait \in Nat
      BY Numbers DEF IInv, TypeOK
    <3> QED
      BY <1>4, <3>1
  <2>3. pass[p].pc = "work" /\ Left(p) = {}
    BY DEF Close
  <2>4. Covers(p)
    BY <1>4, <2>2, <2>3 DEF IInv, Readers, Holds, AtWork
  <2>5. \A o \in Ops : o \notin pass[p].ops
    BY <2>3, Named DEF Left
  <2>6. Unreferenced = {} /\ \A x \in Stored : ~ Live(x)
    BY <2>3, <2>4, <2>5 DEF Covers, Due
  <2>7. Quiet
    BY Still DEF Close
  <2>8. Recorded' /\ Seen' /\ Readers'
    BY <2>1, <2>6, <2>7 DEF Quiet, Calm, Recorded, Seen, Readers
  <2>9. pass' \in [Procs -> PassValues] /\ pass'[p].pc = "idle" /\ \A q \in Procs \ {p} : pass'[q] = pass[q]
    BY IdleIs DEF IInv, TypeOK, PassValues, Close
  <2>10. TypeOK'
    BY <1>1, <2>1, <2>9 DEF IInv, TypeOK, PassValues, Close
  <2>11. Settled' /\ Lifetimes' /\ Owned' /\ OwnedStay'
    BY DEF IInv, Settled, Lifetimes, Owned, OwnedStay, Close
  <2>12. Passes'
    BY <2>9 DEF IInv, Passes
  <2> QED
    BY <2>8, <2>10, <2>11, <2>12 DEF IInv
<1> QED
  BY <1>2, <1>3, <1>4

LEMMA FailKeeps ==
  ASSUME IInv, NEW p \in Procs, Fail(p)
  PROVE  IInv'
<1>1. faults' \in 0 .. MaxFaults
  BY Numbers DEF IInv, TypeOK, Fail
<1>2. ahead' \in BOOLEAN
  BY DEF IInv, TypeOK, Fail, Unscheduled
<1>3. CASE cleanup = None \/ p \notin cleanup.readers
  <2>1. UNCHANGED cleanup
    BY <1>3 DEF Fail, Unscheduled
  <2> QED
    BY <1>1, <1>2, <2>1, EndKeeps DEF Fail
<1>4. CASE cleanup # None /\ p \in cleanup.readers
  <2>1. cleanup \in CleanupValues
    BY <1>4 DEF IInv, TypeOK, CleanupValues
  <2>2. cleanup' = [cleanup EXCEPT !.due = 0, !.readers = {}]
    BY <1>4 DEF Fail
  <2>3. cleanup' \in CleanupValues /\ cleanup'.ops = cleanup.ops /\ cleanup'.readers = {}
    <3>1. 0 \in 0 .. Larger(Late, Grace)
      BY Numbers
    <3> QED
      BY <2>1, <2>2, <3>1 DEF CleanupValues
  <2> QED
    BY <1>1, <1>2, <1>4, <2>3, EndKeeps DEF Fail
<1> QED
  BY <1>3, <1>4

LEMMA CrashKeeps ==
  ASSUME IInv, NEW p \in Procs, Crash(p)
  PROVE  IInv'
<1>1. faults' \in 0 .. MaxFaults
  BY Numbers DEF IInv, TypeOK, Crash
<1>2. ahead' \in BOOLEAN
  BY DEF IInv, TypeOK, Crash
<1> QED
  BY <1>1, <1>2, EndKeeps DEF Crash

LEMMA CallKeeps ==
  ASSUME IInv, NEW p \in Procs, NEW job \in {"purge", "erase"}, Call(p, job)
  PROVE  IInv'
<1>1. Operation(job, 0) \in Obligations
  BY Named DEF ThePurge
<1>2. pass'[p] \in PassValues /\ pass'[p].pc = "work"
  <2>1. pass'[p] = [Idle EXCEPT !.pc = "work", !.ops = {Operation(job, 0)}]
    BY DEF IInv, TypeOK, Call
  <2>2. {Operation(job, 0)} \in SUBSET Obligations /\ "work" \in {"idle", "sweep", "work", "repeat", "measure", "reset"}
    BY <1>1
  <2>3. pass'[p] = [pc |-> "work", ops |-> {Operation(job, 0)}, now |-> Idle.now, lag |-> Idle.lag, wait |-> Idle.wait]
    BY <2>1 DEF Idle
  <2> QED
    BY <2>2, <2>3, IdleIs DEF PassValues
<1>3. pass' \in [Procs -> PassValues] /\ \A q \in Procs \ {p} : pass'[q] = pass[q]
  BY <1>2 DEF IInv, TypeOK, PassValues, Call
<1>4. TypeOK'
  BY <1>3 DEF IInv, TypeOK, PassValues, Call
<1>5. Quiet
  BY Still DEF Call
<1>6. Recorded' /\ Seen'
  BY <1>5, CalmRecorded DEF IInv, Quiet, Seen, Call
<1>7. Readers'
  <2>1. cleanup' = cleanup /\ p \notin Sweepers
    BY PlaceAssumption DEF Call
  <2>2. cleanup # None => \A q \in cleanup.readers : Holds(q) /\ q \in Procs \ {p}
    BY <2>1 DEF IInv, Readers, Holds, Procs
  <2>3. \A q \in Procs \ {p} : Holds(q) => Holds(q)'
    BY <1>3, <1>5, HoldsQuiet DEF IInv
  <2> QED
    BY <2>1, <2>2, <2>3 DEF Readers
<1>8. Settled' /\ Lifetimes' /\ Owned' /\ OwnedStay'
  BY DEF IInv, Settled, Lifetimes, Owned, OwnedStay, Call
<1>9. Passes'
  BY <1>2, <1>3 DEF IInv, Passes
<1> QED
  BY <1>4, <1>6, <1>7, <1>8, <1>9 DEF IInv

\* Only the purge's own deletion is reset, and it was made in lifetime 0.
LEMMA PurgeIs ==
  ASSUME NEW o \in Ops, o[1] = "purge"
  PROVE  o = ThePurge
BY DEF Ops, Operation, ThePurge

LEMMA ResetKeeps ==
  ASSUME IInv, NEW p \in Procs, Reset(p)
  PROVE  IInv'
<1>1. /\ manifest' \in ManifestValues
      /\ manifest'.keys = manifest.keys /\ manifest'.names = manifest.names /\ manifest'.ready = manifest.ready
      /\ Lifetimes'
  <2>1. CASE Now(p)[1] = "purge" /\ ~ erasing /\ manifest.deleted /\ manifest.by = Now(p)
    <3>1. manifest' = [manifest EXCEPT !.inc = manifest.inc + 1, !.deleted = FALSE, !.by = None]
      BY <2>1 DEF Reset
    <3>2. Now(p) # None
      BY NowIs, NoneAssumption DEF IInv, Reset
    <3>3. manifest.by \in Ops
      BY <2>1, <3>2 DEF IInv, TypeOK
    <3>4. manifest.by = ThePurge
      BY <2>1, <3>3, PurgeIs
    <3>5. manifest.inc = 0 /\ op[ThePurge].done
      BY <3>4 DEF IInv, Lifetimes
    <3>6. manifest \in ManifestValues
      BY DEF IInv, TypeOK, ManifestValues
    <3>7. manifest.inc + 1 \in Incs
      BY <3>5, Numbers
    <3>8. /\ manifest' \in ManifestValues /\ manifest'.by = None
          /\ manifest'.keys = manifest.keys /\ manifest'.names = manifest.names /\ manifest'.ready = manifest.ready
      BY <3>1, <3>6, <3>7 DEF ManifestValues
    <3>9. Lifetimes'
      BY <3>5, <3>8, Named DEF Lifetimes, Reset
    <3> QED
      BY <3>8, <3>9
  <2>2. CASE ~ (Now(p)[1] = "purge" /\ ~ erasing /\ manifest.deleted /\ manifest.by = Now(p))
    <3>1. manifest' = manifest
      BY <2>2 DEF Reset
    <3> QED
      BY <3>1 DEF IInv, TypeOK, ManifestValues, Lifetimes, Reset
  <2> QED
    BY <2>1, <2>2
<1>2. pass' \in [Procs -> PassValues] /\ pass'[p].pc = "idle" /\ \A q \in Procs \ {p} : pass'[q] = pass[q]
  BY IdleIs DEF IInv, TypeOK, PassValues, Reset
<1>3. TypeOK'
  BY <1>1, <1>2 DEF IInv, TypeOK, PassValues, ManifestValues, Reset
<1>4. Quiet
  BY <1>1 DEF Quiet, Calm, Live, Retired, MayAppear, Unreferenced, Reset
<1>5. Recorded' /\ Seen'
  BY <1>4, CalmRecorded DEF IInv, Quiet, Seen, Reset
<1>6. Readers'
  <2>1. cleanup' = cleanup
    BY DEF Reset
  <2>2. cleanup # None => \A q \in cleanup.readers \cap {p} : Holds(q)'
    BY <1>2, HoldsRest DEF IInv, Readers, Holds, AtWork
  <2>3. cleanup # None => \A q \in cleanup.readers \ {p} : q \in cleanup.readers /\ pass'[q] = pass[q]
    BY <1>2 DEF IInv, Readers, Holds, Procs
  <2> QED
    BY <1>4, <2>1, <2>2, <2>3, QuietReaders DEF IInv
<1>7. Settled' /\ Owned' /\ OwnedStay'
  BY <1>1 DEF IInv, Settled, Owned, OwnedStay, Reset
<1>8. Passes'
  BY <1>2 DEF IInv, Passes
<1> QED
  BY <1>1, <1>3, <1>5, <1>6, <1>7, <1>8 DEF IInv

(***************************************************************************)
(* Time                                                                    *)
(***************************************************************************)
LEMMA LessIs ==
  \A n \in Nat : Less(n) \in Nat /\ Less(n) <= n /\ (n = 0 => Less(n) = 0) /\ (n >= 1 => Less(n) = n - 1)
BY DEF Less

\* As long as a write can land, its window and its age move together.
LEMMA TickTimely ==
  ASSUME TypeOK, Tick, NEW o \in Ops, NEW x \in Stored, Timely(o, x)
  PROVE  Timely(o, x)' /\ (age[x] < Landing => op[o].left >= 2)
<1>1. age[x] \in 0 .. Old /\ op[o].left \in Nat
  BY Numbers DEF TypeOK
<1>2. age'[x] = IF age[x] < Old THEN age[x] + 1 ELSE Old
  BY DEF Tick
<1>3. op'[o].targets = op[o].targets /\ op'[o].left = Less(op[o].left)
  BY DEF Tick, TypeOK
<1>4. x \in op[o].targets /\ (age[x] >= Landing \/ age[x] + op[o].left >= Late)
  BY DEF Timely
<1>5. CASE age[x] >= Landing
  <2>1. age'[x] >= Landing
    BY <1>1, <1>2, <1>5, Numbers
  <2> QED
    BY <1>1, <1>3, <1>4, <1>5, <2>1, Numbers DEF Timely
<1>6. CASE ~ (age[x] >= Landing)
  <2>1. age'[x] = age[x] + 1 /\ age[x] + op[o].left >= Late
    BY <1>1, <1>2, <1>4, <1>6, Numbers
  <2>2. op[o].left >= 1
    BY <1>1, <1>6, <2>1, Numbers
  <2>3. op'[o].left = op[o].left - 1
    BY <1>1, <1>3, <2>2, LessIs
  <2>4. age'[x] + op'[o].left >= Late
    BY <1>1, <2>1, <2>3, Numbers
  <2>5. op[o].left >= 2
    BY <1>1, <1>6, <2>1, Numbers
  <2> QED
    BY <1>3, <1>4, <2>4, <2>5 DEF Timely
<1> QED
  BY <1>5, <1>6

LEMMA TickKeeps ==
  ASSUME IInv, Tick
  PROVE  IInv'
<1>1. op' \in [Ops -> OpValues]
      /\ \A o \in Ops : /\ op'[o].done = op[o].done /\ op'[o].targets = op[o].targets
                        /\ op'[o].left = Less(op[o].left)
  <2>1. op \in [Ops -> OpValues]
    BY DEF IInv, TypeOK, OpValues
  <2>2. \A o \in Ops : Less(op[o].left) \in 0 .. Late
    BY <2>1, LessIs, Numbers DEF OpValues
  <2>3. \A o \in Ops : op'[o] = [op[o] EXCEPT !.left = Less(op[o].left)]
    BY DEF Tick
  <2>4. \A o \in Ops : op'[o] \in OpValues
    BY <2>1, <2>2, <2>3 DEF OpValues
  <2>5. op' \in [Ops -> OpValues]
    BY <2>4 DEF Tick
  <2> QED
    BY <2>1, <2>3, <2>5 DEF OpValues
<1>2. age' \in [Stored -> 0 .. Old] /\ \A x \in Stored : age'[x] < Landing => age[x] < Landing
  <2>1. \A x \in Stored : age[x] \in 0 .. Old
    BY DEF IInv, TypeOK
  <2>2. \A x \in Stored : age'[x] = IF age[x] < Old THEN age[x] + 1 ELSE Old
    BY DEF Tick
  <2>3. \A x \in Stored : age'[x] \in 0 .. Old /\ (age'[x] < Landing => age[x] < Landing)
    BY <2>1, <2>2, Numbers
  <2> QED
    BY <2>3 DEF Tick
<1>3. /\ cleanup = None <=> cleanup' = None
      /\ cleanup # None => /\ cleanup' \in CleanupValues
                           /\ cleanup'.ops = cleanup.ops /\ cleanup'.readers = cleanup.readers
  <2>1. CASE cleanup = None
    BY <2>1 DEF Tick
  <2>2. CASE cleanup # None
    <3>1. cleanup \in CleanupValues
      BY <2>2 DEF IInv, TypeOK, CleanupValues
    <3>2. Less(cleanup.due) \in 0 .. Larger(Late, Grace)
      BY <3>1, LessIs, Numbers DEF CleanupValues
    <3>3. cleanup' = [cleanup EXCEPT !.due = Less(cleanup.due)]
      BY <2>2 DEF Tick
    <3>4. cleanup' \in CleanupValues /\ cleanup'.ops = cleanup.ops /\ cleanup'.readers = cleanup.readers
      BY <3>1, <3>2, <3>3 DEF CleanupValues
    <3> QED
      BY <2>2, <3>4, RowIs
  <2> QED
    BY <2>1, <2>2
<1>4. pass' \in [Procs -> PassValues]
      /\ \A p \in Procs : /\ pass'[p].pc = pass[p].pc /\ pass'[p].ops = pass[p].ops
                          /\ pass'[p].now = pass[p].now /\ pass'[p].wait = pass[p].wait
                          /\ pass[p].pc = "measure" => pass'[p].lag = 1
  <2>1. pass \in [Procs -> PassValues]
    BY DEF IInv, TypeOK, PassValues
  <2>2. \A p \in Procs : pass'[p] = IF pass[p].pc = "measure" THEN [pass[p] EXCEPT !.lag = 1] ELSE pass[p]
    BY DEF Tick
  <2>3. \A p \in Procs : /\ pass'[p] \in PassValues
                         /\ pass'[p].pc = pass[p].pc /\ pass'[p].ops = pass[p].ops
                         /\ pass'[p].now = pass[p].now /\ pass'[p].wait = pass[p].wait
                         /\ pass[p].pc = "measure" => pass'[p].lag = 1
    BY <2>1, <2>2 DEF PassValues
  <2> QED
    BY <2>3 DEF Tick
<1>5. TypeOK'
  BY <1>1, <1>2, <1>3, <1>4 DEF IInv, TypeOK, OpValues, CleanupValues, PassValues, Tick
<1>6. \A x \in Stored : Live(x)' => Live(x)
  BY <1>2 DEF Live, Retired, MayAppear, Tick
<1>7. Unreferenced' = Unreferenced
  BY DEF Unreferenced, Tick
<1>8. Recorded'
  <2> SUFFICES ASSUME NEW x \in Stored, Live(x)'
               PROVE  cleanup' # None /\ \E o \in cleanup'.ops \cap Ops : Timely(o, x)'
    BY DEF Recorded
  <2>1. cleanup # None /\ \E o \in cleanup.ops \cap Ops : Timely(o, x)
    BY <1>6 DEF IInv, Recorded
  <2>2. PICK o \in cleanup.ops \cap Ops : Timely(o, x)
    BY <2>1
  <2>3. Timely(o, x)'
    BY <2>2, TickTimely DEF IInv
  <2> QED
    BY <1>3, <2>1, <2>2, <2>3
<1>9. Seen'
  BY <1>3, <1>7 DEF IInv, Seen
<1>10. Readers'
  <2> SUFFICES ASSUME cleanup' # None, NEW p \in cleanup'.readers PROVE Holds(p)'
    BY DEF Readers
  <2>1. Holds(p) /\ p \in Procs
    BY <1>3 DEF IInv, Readers, Holds, Procs
  <2> SUFFICES ASSUME AtWork(p), pass[p].wait = 0 PROVE Covers(p)'
    BY <1>4, <2>1 DEF Holds, AtWork
  <2>2. Covers(p)
    BY <2>1 DEF Holds
  <2>3. pass'[p].pc # "sweep" => Unreferenced' = {}
    BY <1>4, <1>7, <2>1, <2>2 DEF Covers
  <2>4. ASSUME NEW x \in Stored, Live(x)' PROVE \E o \in Ops : Due(p, o, x)'
    <3>1. PICK o \in Ops : Due(p, o, x)
      BY <1>6, <2>2, <2>4 DEF Covers
    <3>2. Timely(o, x)' /\ (age[x] < Landing => op[o].left >= 2)
      BY <3>1, TickTimely DEF Due, IInv
    <3>3. ASSUME pass'[p].pc = "measure", pass'[p].now = o, x \in objects'
          PROVE  op'[o].left >= 1 /\ pass'[p].lag = 1
      <4>1. pass[p].pc = "measure" /\ pass[p].now = o /\ x \in objects /\ pass'[p].lag = 1
        BY <1>4, <2>1, <3>3 DEF Tick
      <4>2. age[x] < Landing
        BY <2>1, <3>1, <4>1 DEF Due, Tick
      <4>3. op[o].left \in Nat /\ op[o].left >= 2 /\ op'[o].left = Less(op[o].left)
        BY <1>1, <3>2, <4>2, Numbers DEF IInv, TypeOK
      <4> QED
        BY <4>1, <4>3, LessIs
    <3> QED
      BY <1>4, <2>1, <3>1, <3>2, <3>3 DEF Due
  <2> QED
    BY <2>3, <2>4 DEF Covers
<1>11. Settled' /\ Lifetimes' /\ Owned' /\ OwnedStay'
  BY <1>1, Named, LessIs DEF IInv, Settled, Lifetimes, Owned, OwnedStay, Tick
<1>12. Passes'
  BY <1>4 DEF IInv, Passes
<1> QED
  BY <1>5, <1>8, <1>9, <1>10, <1>11, <1>12 DEF IInv

(***************************************************************************)
(* The specification                                                       *)
(***************************************************************************)
LEMMA Start ==
  ASSUME Init
  PROVE  IInv
<1>1. TypeOK
  <2>1. /\ age \in [Stored -> 0 .. Old] /\ op \in [Ops -> OpValues] /\ manifest \in ManifestValues
        /\ pass \in [Procs -> PassValues]
    BY Numbers, IdleIs DEF Init, OpValues, ManifestValues
  <2>2. alloc \in [Keys -> {"none", "live", "retired"}] /\ intent \in [Incs -> {"none", "open", "completed"}]
    BY DEF Init
  <2>3. objects \subseteq Stored /\ cleanup = None /\ {erasing, ahead} \subseteq BOOLEAN
    BY DEF Init
  <2>4. faults \in 0 .. MaxFaults
    BY Numbers DEF Init
  <2> QED
    BY <2>1, <2>2, <2>3, <2>4 DEF TypeOK, OpValues, ManifestValues, PassValues
<1>2. Settled /\ Passes /\ Owned /\ OwnedStay
  BY DEF Init, Settled, Passes, Idle, Owned, OwnedStay
<1>3. Lifetimes
  BY Named, NoneAssumption DEF Init, Lifetimes
<1>4. \A x \in Stored : ~ Live(x)
  BY Numbers DEF Init, Live, Retired, MayAppear, Stored
<1>5. Recorded /\ Seen /\ Readers
  BY <1>4 DEF Init, Recorded, Seen, Unreferenced, Readers
<1> QED
  BY <1>1, <1>2, <1>3, <1>5 DEF IInv

LEMMA Step ==
  ASSUME IInv, [Next]_vars
  PROVE  IInv'
<1>1. ASSUME NEW k \in Keys, Allocate(k) \/ Adopt(k) PROVE IInv'
  BY <1>1, AllocateKeeps, AdoptKeeps
<1>2. ASSUME NEW x \in Names, Reserve(x) \/ Ready(x) PROVE IInv'
  BY <1>2, ReserveKeeps, ReadyKeeps
<1>3. ASSUME NEW x \in Stored, Lands(x) PROVE IInv'
  BY <1>3, LandsKeeps
<1>4. ASSUME NEW gone \in SUBSET Stored, Drop(gone) PROVE IInv'
  BY <1>4, DropKeeps
<1>5. CASE RetireItem \/ ReadOther \/ Tick
  BY <1>5, RetireItemKeeps, ReadOtherKeeps, TickKeeps
<1>6. ASSUME NEW p \in Procs, Work(p) PROVE IInv'
  BY <1>6, ReadKeeps, SweepKeeps, TombstoneKeeps, RepeatKeeps, MeasureKeeps, CloseKeeps, ResetKeeps DEF Work
<1>7. ASSUME NEW p \in Procs, Fail(p) \/ Crash(p) PROVE IInv'
  BY <1>7, FailKeeps, CrashKeeps
<1>8. ASSUME NEW p \in Procs, NEW job \in {"purge", "erase"}, Call(p, job) PROVE IInv'
  BY <1>8, CallKeeps
<1>9. CASE UNCHANGED vars
  <2>1. Quiet
    BY <1>9, Still DEF vars
  <2>2. TypeOK' /\ Settled' /\ Passes' /\ Lifetimes' /\ Owned' /\ OwnedStay'
    BY <1>9 DEF vars, IInv, TypeOK, Settled, Passes, Lifetimes, Owned, OwnedStay
  <2> QED
    BY <1>9, <2>1, <2>2, ClientKeeps DEF vars, IInv
<1> QED
  BY <1>1, <1>2, <1>3, <1>4, <1>5, <1>6, <1>7, <1>8, <1>9 DEF Next

\* The inductive invariant: whatever clients, sweeps, purges, erasures,
\* retirements, late writes, failures and crashes do to the folder.
THEOREM Invariance == Spec => []IInv
<1>1. Init => IInv
  BY Start
<1>2. IInv /\ [Next]_vars => IInv'
  BY Step
<1> QED
  BY <1>1, <1>2, PTL DEF Spec

\* Nothing retired is forgotten: the folder's row exists and names an
\* operation for every retired object that is in the bucket or may still land
\* there, although passes move and remove the row that they read long ago
\* (PurgeRetired, scheduleCleanupTx).
THEOREM NothingForgotten == Spec => []CleanupOK
<1>1. IInv => CleanupOK
  <2> SUFFICES ASSUME IInv PROVE TypeOK /\ Obligated
    BY DEF CleanupOK
  <2>1. ASSUME NEW x \in Stored, Retired(x), MayAppear(x)
        PROVE  cleanup # None /\ \E o \in cleanup.ops \cap Ops : x \in op[o].targets
    BY <2>1 DEF IInv, Recorded, Live, Timely
  <2> QED
    BY <2>1 DEF IInv, Obligated, Seen
<1> QED
  BY <1>1, Invariance, PTL

\* No deletion, repeated however late, touches what the folder now owns
\* (repeatDeletion).
THEOREM OwnedAreKept == Spec => []OwnedStay
<1>1. IInv => OwnedStay
  BY DEF IInv
<1> QED
  BY <1>1, Invariance, PTL
==============================================================================
