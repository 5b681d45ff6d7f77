---------------------------- MODULE ReleaseProofs ----------------------------
(***************************************************************************)
(* Release's safety for any workers, requests, writes and faults, whether  *)
(* or not a run still holds the source lock.                               *)
(*                                                                         *)
(* The argument: a plan withdraws the deliveries there were when it was    *)
(* frozen, and the requests they belong to were superseded by then; a      *)
(* superseded request never becomes current again, because only a number   *)
(* that no row, run, job or byte knows is reused.  The release moves to    *)
(* the current request alone.  So nothing that a row or a run has still to *)
(* withdraw is, or becomes, the release; and the release keeps the copies  *)
(* of its own request, which hold everything its plan shows.               *)
(***************************************************************************)
EXTENDS Release, FiniteSetTheorems, TLAPS

\* The plan's own predecessors are requests that never become current again.
Outdated(plan) == \A o \in Previous(plan) : ~ req[o].current

Sources(plan) == {c.src : c \in plan.copies}
Covers(d, plan) == plan.view \subseteq {c.src : c \in d.files}
Delivers(d, plan) == plan.view \subseteq {c.dst : c \in d.files}
\* What a run has placed for its plan; it activates only what is ready.
Placed(t, d) == d # None /\ Delivers(d, t.plan) /\ (t.pc = "activate" => d.ready)

OneCurrent == \A i, j \in Requests : req[i].current /\ req[j].current => i = j

\* What a row promises: only the release's own request, or one that will never
\* be a release again, is retiring, and neither it nor a plan withdraws the
\* release.  The delivery of a current request is that of its frozen plan.
Frozen(i) ==
  LET r == req[i]  d == media.dels[i] IN
  /\ Outdated(r.plan) /\ Outdated(r.result)
  /\ r.state = "retiring" =>
       /\ r.result # None /\ release \notin Previous(r.result)
       /\ r.current => i = release
  /\ r.current =>
       /\ r.plan # None => r.plan.view \subseteq Sources(r.plan) /\ (d # None => Covers(d, r.plan))
       /\ r.plan = None => r.state \in {"retiring", "completed"} \/ d = None

\* The release is delivered by the copies of its own request.
Served ==
  release # None =>
    /\ req[release].state \in {"retiring", "completed"} /\ Prior # None
    /\ media.dels[release] # None /\ media.dels[release].ready /\ Delivers(media.dels[release], Prior)

\* What a run may rely on, with or without its lock.
Runner(w) ==
  LET t == run[w]  id == t.id  d == media.dels[id] IN
  /\ t.pc # "idle" => id \in Requests
  /\ Outdated(t.plan)
  /\ t.pc \in {"copy", "promote", "ready", "activate", "withdraw"} => t.plan # None
  /\ t.pc \in {"copy", "promote"} =>
       /\ t.plan.view \subseteq Sources(t.plan)
       /\ req[id].current => req[id].plan = t.plan \/ (d # None /\ Covers(d, t.plan))
  /\ t.pc \in {"ready", "activate"} /\ req[id].current => Placed(t, d)
  /\ t.pc = "withdraw" => t.ret \in Requests /\ \A o \in t.old : o # release /\ ~ req[o].current
  /\ lock = w => t.pc \notin {"idle", "lock"}

IInv ==
  /\ Types /\ OneCurrent /\ Served
  /\ \A i \in Requests : Frozen(i)
  /\ \A w \in Workers : Runner(w)

\* The invariant is as strong as the checked one.
LEMMA InvImpliesOK == IInv => ReleaseOK
<1> SUFFICES ASSUME IInv PROVE ReleaseOK
  OBVIOUS
<1>1. Cardinality(CurrentOf(req)) <= 1
  <2>1. CASE CurrentOf(req) = {}
    BY <2>1, FS_EmptySet
  <2>2. CASE CurrentOf(req) # {}
    <3>1. PICK i \in Requests : CurrentOf(req) = {i}
      BY <2>2 DEF IInv, OneCurrent, CurrentOf
    <3> QED
      BY <3>1, FS_Singleton
  <2> QED
    BY <2>1, <2>2
<1>2. TypeOK
  BY <1>1 DEF IInv, Served, Runner, TypeOK
<1>3. ServedStays
  <2> SUFFICES ASSUME release # None PROVE Prior.view \subseteq Known
    BY DEF ServedStays
  <2>1. release \in Deliveries /\ Delivers(media.dels[release], Prior)
    BY DEF IInv, Types, Served, Deliveries
  <2> QED
    BY <2>1 DEF Delivers, Known, Pins
<1> QED
  BY <1>2, <1>3 DEF ReleaseOK

(***************************************************************************)
(* Plans                                                                   *)
(***************************************************************************)
LEMMA PriorType == Types => Prior \in Plans \cup {None}
<1> SUFFICES ASSUME Types PROVE Prior \in Plans \cup {None}
  OBVIOUS
<1>1. CASE release = None
  BY <1>1 DEF Prior
<1>2. CASE release # None
  <2>1. req[release] \in Rows
    BY <1>2 DEF Types
  <2> QED
    BY <1>2, <2>1 DEF Prior, Rows
<1> QED
  BY <1>1, <1>2

\* A plan shows only what it copies, and withdraws only what is delivered.
LEMMA PlanType ==
  ASSUME Types
  PROVE  /\ PlanRelease \in Plans
         /\ PlanRelease.previous = Deliveries /\ PlanRelease.view \subseteq Sources(PlanRelease)
<1>1. /\ cat \in Catalog /\ media.rev \in Nat /\ media.file \in Blobs \cup {None} /\ Deliveries \subseteq Requests
  BY DEF Types, Deliveries
<1>2. CASE Retaining
  <2>1. Prior \in Plans
    BY <1>2, PriorType DEF Retaining
  <2> DEFINE copies == {[src |-> b, area |-> b.area] : b \in Prior.view}
  <2>2. copies \in SUBSET [src : Blobs, area : Areas]
    BY <2>1 DEF Plans, Blobs
  <2>3. [Prior.fp EXCEPT !.retained = TRUE] \in
          [rev : Nat, ready : BOOLEAN, area : Areas, state : States, free : BOOLEAN, retained : BOOLEAN]
    BY <2>1 DEF Plans
  <2>4. Retained = [Prior EXCEPT !.fp = [Prior.fp EXCEPT !.retained = TRUE], !.copies = copies,
                                 !.previous = Deliveries, !.next = None, !.retained = TRUE]
    BY <2>1 DEF Retained, Plans
  <2> HIDE DEF copies
  <2>5. Retained \in Plans /\ Retained.previous = Deliveries /\ Retained.view = Prior.view /\ Retained.copies = copies
    BY <1>1, <2>1, <2>2, <2>3, <2>4 DEF Plans
  <2>6. Prior.view \subseteq {c.src : c \in copies}
    <3> SUFFICES ASSUME NEW b \in Prior.view PROVE b \in {c.src : c \in copies}
      OBVIOUS
    <3>1. [src |-> b, area |-> b.area] \in copies
      BY DEF copies
    <3> QED
      BY <3>1
  <2> QED
    BY <1>2, <2>5, <2>6 DEF PlanRelease, Sources
<1>3. CASE ~ Retaining
  <2> DEFINE files == IF media.file = None THEN {} ELSE {media.file}
             copies == {[src |-> b, area |-> Area(cat)] : b \in {b \in files : Live(cat) \/ b.area # "internal"}}
             fp == [rev |-> media.rev, ready |-> files # {}, area |-> Area(cat), state |-> cat.state, free |-> cat.free, retained |-> FALSE]
             view == IF Live(cat) THEN files ELSE {}
             next == IF cat.state = "published" /\ ~ Live(cat) THEN "later" ELSE None
  <2>1. files \subseteq Blobs
    BY <1>1
  <2>2. Area(cat) \in Areas /\ Live(cat) \in BOOLEAN
    BY <1>1 DEF Area, Areas, Live
  <2>3. copies \in SUBSET [src : Blobs, area : Areas] /\ view \in SUBSET Blobs /\ next \in {"later", None}
    BY <2>1, <2>2
  <2>4. fp \in [rev : Nat, ready : BOOLEAN, area : Areas, state : States, free : BOOLEAN, retained : BOOLEAN]
    BY <1>1, <2>2 DEF Catalog
  <2>5. view \subseteq {c.src : c \in copies}
    <3> SUFFICES ASSUME NEW b \in view PROVE b \in {c.src : c \in copies}
      OBVIOUS
    <3>1. [src |-> b, area |-> Area(cat)] \in copies
      OBVIOUS
    <3> QED
      BY <3>1
  <2>6. Planned = [fp |-> fp, view |-> view, copies |-> copies, previous |-> Deliveries, released |-> Live(cat),
                   retained |-> FALSE, waiting |-> (Live(cat) /\ files = {}), next |-> next]
    BY DEF Planned
  <2>7. (Live(cat) /\ files = {}) \in BOOLEAN
    OBVIOUS
  <2> HIDE DEF files, copies, fp, view, next
  <2>8. Planned \in Plans /\ Planned.previous = Deliveries /\ Planned.view = view /\ Planned.copies = copies
    BY <1>1, <2>2, <2>3, <2>4, <2>6, <2>7 DEF Plans
  <2> QED
    BY <1>3, <2>5, <2>8 DEF PlanRelease, Sources
<1> QED
  BY <1>2, <1>3

(***************************************************************************)
(* Rows                                                                    *)
(***************************************************************************)
\* A number that nothing in the tables, the manifest or a run knows.
Unknown(i, rows) ==
  /\ media.dels[i] = None
  /\ \A w \in Workers : run[w].id # i /\ i \notin run[w].old \cup Previous(run[w].plan)
  /\ \A k \in Requests : i \notin Previous(rows[k].plan) \cup Previous(rows[k].result)

\* What may become of the rows without a run and a plan noticing: rows go or are
\* superseded, and only a request nobody knows becomes current.
Carries(i, rows) ==
  LET r == req[i]  n == rows[i] IN
  /\ n.plan \in {r.plan, None} /\ n.result \in {r.result, None}
  /\ n.current => \/ r.current /\ (n.plan = r.plan \/ i = release)
                  \/ Unknown(i, rows) /\ n.plan = None
  /\ n.state = "retiring" => r.state = "retiring" /\ n.result = r.result /\ (n.current => r.current)
  /\ i = release => n.state \in {"retiring", "completed"} /\ n.result = r.result
  /\ n.current /\ n.plan = None => n.state \in {"retiring", "completed"} \/ media.dels[i] = None
Carried(rows) ==
  /\ rows \in [Requests -> Rows]
  /\ \A i, j \in Requests : rows[i].current /\ rows[j].current => i = j
  /\ \A i \in Requests : Carries(i, rows)

LEMMA RowsCarried == IInv => Carried(req)
<1> SUFFICES ASSUME IInv PROVE Carried(req)
  OBVIOUS
<1>1. req \in [Requests -> Rows] /\ \A i, j \in Requests : req[i].current /\ req[j].current => i = j
  BY DEF IInv, Types, OneCurrent
<1>2. ASSUME NEW i \in Requests PROVE Carries(i, req)
  <2>1. Frozen(i) /\ (i = release => req[i].state \in {"retiring", "completed"})
    BY NamesAssumption DEF IInv, Served
  <2> QED
    BY <2>1 DEF Frozen, Carries
<1> QED
  BY <1>1, <1>2 DEF Carried

LEMMA NoRowType == Types => NoRow \in Rows
BY DEF Rows, NoRow, Dues

\* Pruning removes no release, and nothing that is current or retiring.
LEMMA PrunedCarried ==
  ASSUME Types, NEW rows, Carried(rows), NEW all \in BOOLEAN
  PROVE  /\ Carried(Pruned(rows, all))
         /\ \A i \in Requests : rows[i].state = "none" => Pruned(rows, all)[i].state = "none"
         /\ \A i \in Requests : /\ Pruned(rows, all)[i].plan \in {rows[i].plan, None}
                                /\ Pruned(rows, all)[i].result \in {rows[i].result, None}
<1> DEFINE new == Pruned(rows, all)
<1>1. \A i \in Requests : \/ new[i] = rows[i]
                          \/ /\ ~ rows[i].current /\ i # release
                             /\ new[i] = [NoRow EXCEPT !.spent = rows[i].spent]
  BY DEF Pruned, Spent
<1>2. \A i \in Requests : rows[i] \in Rows
  BY DEF Carried
<1>3. \A i \in Requests : LET g == [NoRow EXCEPT !.spent = rows[i].spent] IN
        /\ g \in Rows /\ g.state = "none" /\ g.current = FALSE /\ g.plan = None /\ g.result = None
  BY <1>2, NoRowType DEF NoRow, Rows
<1>4. new \in [Requests -> Rows]
  <2>1. new = [i \in Requests |-> new[i]]
    BY DEF Pruned
  <2>2. \A i \in Requests : new[i] \in Rows
    BY <1>1, <1>2, <1>3
  <2> HIDE DEF new
  <2> QED
    BY <2>1, <2>2
<1> HIDE DEF new
<1>5. \A i \in Requests : new[i].plan \in {rows[i].plan, None} /\ new[i].result \in {rows[i].result, None}
  BY <1>1, <1>3
<1>6. \A i \in Requests : new[i].current => new[i] = rows[i]
  BY <1>1, <1>3
<1>7. ASSUME NEW i \in Requests, Unknown(i, rows)
      PROVE  Unknown(i, new)
  BY <1>5, <1>7 DEF Unknown, Previous
<1>8. ASSUME NEW i \in Requests PROVE Carries(i, new)
  <2>1. Carries(i, rows)
    BY DEF Carried
  <2>2. CASE new[i] = rows[i]
    BY <1>7, <2>1, <2>2 DEF Carries
  <2>3. CASE i # release /\ new[i] = [NoRow EXCEPT !.spent = rows[i].spent]
    BY <1>3, <2>3 DEF Carries
  <2> QED
    BY <1>1, <2>2, <2>3
<1>9. Carried(new)
  BY <1>4, <1>6, <1>8 DEF Carried
<1> QED
  BY <1>1, <1>3, <1>5, <1>9 DEF new

\* A fresh number is one that nothing knows.
LEMMA FreshUnknown ==
  ASSUME Types, NEW rows, Spare(rows) # {}
  PROVE  Fresh(rows) \in Requests /\ Unknown(Fresh(rows), rows) /\ rows[Fresh(rows)].state = "none"
<1>1. Fresh(rows) \in Spare(rows)
  BY DEF Fresh
<1> DEFINE i == Fresh(rows)
<1> HIDE DEF i
<1>2. i \in Requests /\ i \notin Named(rows) /\ rows[i].state = "none" /\ media.dels[i] = None
  BY <1>1 DEF Spare, i
<1>3. ASSUME NEW w \in Workers PROVE run[w].id # i /\ i \notin run[w].old \cup Previous(run[w].plan)
  <2> DEFINE S(v) == {run[v].id, run[v].ret} \cup run[v].old \cup Previous(run[v].plan)
  <2>1. S(w) \subseteq UNION {S(v) : v \in Workers}
    OBVIOUS
  <2>2. UNION {S(v) : v \in Workers} \subseteq Named(rows)
    BY DEF Named
  <2> QED
    BY <1>2, <2>1, <2>2
<1>4. ASSUME NEW k \in Requests PROVE i \notin Previous(rows[k].plan) \cup Previous(rows[k].result)
  <2> DEFINE S(j) == Previous(rows[j].plan) \cup Previous(rows[j].result)
  <2>1. S(k) \subseteq UNION {S(j) : j \in Requests}
    OBVIOUS
  <2>2. UNION {S(j) : j \in Requests} \subseteq Named(rows)
    BY DEF Named
  <2> QED
    BY <1>2, <2>1, <2>2
<1> QED
  BY <1>2, <1>3, <1>4 DEF Unknown, i

LEMMA AcceptCarried ==
  ASSUME Types, NEW rows, Carried(rows), Spare(rows) # {}, NEW at \in Dues
  PROVE  Carried(Accept(rows, at))
<1> DEFINE new == Accept(rows, at)
<1>0. \A i \in Requests : rows[i] \in Rows
  BY DEF Carried
<1>1. CASE \E i \in Requests : Unfrozen(rows[i])
  <2>1. new = [i \in Requests |-> IF Unfrozen(rows[i]) THEN [rows[i] EXCEPT !.due = at, !.state = "pending"] ELSE rows[i]]
    BY <1>1 DEF Accept
  <2>2. \A i \in Requests : LET g == [rows[i] EXCEPT !.due = at, !.state = "pending"] IN
          /\ g \in Rows /\ g.state = "pending"
          /\ g.plan = rows[i].plan /\ g.result = rows[i].result /\ g.current = rows[i].current
    BY <1>0 DEF Rows
  <2>3. \A i \in Requests : Unfrozen(rows[i]) => rows[i].plan = None /\ rows[i].state \in {"pending", "waiting"}
    BY DEF Unfrozen
  <2> HIDE DEF new
  <2>4. \A i \in Requests :
          /\ new[i].plan = rows[i].plan /\ new[i].result = rows[i].result /\ new[i].current = rows[i].current
          /\ new[i] \in Rows
          /\ new[i].state = rows[i].state
             \/ (new[i].state = "pending" /\ rows[i].plan = None /\ rows[i].state \in {"pending", "waiting"})
    BY <1>0, <2>1, <2>2, <2>3
  <2>5. new \in [Requests -> Rows]
    BY <2>1, <2>4
  <2>6. \A i \in Requests : Unknown(i, rows) => Unknown(i, new)
    BY <2>4 DEF Unknown
  <2>7. ASSUME NEW i \in Requests PROVE Carries(i, new)
    <3>1. Carries(i, rows)
      BY DEF Carried
    <3> QED
      BY <2>4, <2>6, <3>1 DEF Carries
  <2>8. \A i, j \in Requests : new[i].current /\ new[j].current => i = j
    BY <2>4 DEF Carried
  <2> QED
    BY <2>5, <2>7, <2>8 DEF Carried, new
<1>2. CASE ~ \E i \in Requests : Unfrozen(rows[i])
  <2> DEFINE over == [i \in Requests |-> [rows[i] EXCEPT !.current = FALSE]]
             kept == IF CurrentOf(rows) = {} THEN rows ELSE Pruned(over, FALSE)
             row == [NoRow EXCEPT !.state = "pending", !.current = TRUE, !.due = at]
  <2>1. new = [kept EXCEPT ![Fresh(kept)] = row]
    BY <1>2 DEF Accept
  <2>2. Carried(over) /\ \A i \in Requests : over[i].plan = rows[i].plan /\ over[i].result = rows[i].result
                                             /\ over[i].state = rows[i].state /\ over[i].current = FALSE
    <3>1. \A i \in Requests : LET g == [rows[i] EXCEPT !.current = FALSE] IN
            /\ g \in Rows /\ g.plan = rows[i].plan /\ g.result = rows[i].result /\ g.state = rows[i].state /\ g.current = FALSE
      BY <1>0 DEF Rows
    <3> HIDE DEF over
    <3>2. over \in [Requests -> Rows] /\ \A i \in Requests : over[i] = [rows[i] EXCEPT !.current = FALSE]
      BY <3>1 DEF over
    <3>3. \A i \in Requests : /\ over[i].plan = rows[i].plan /\ over[i].result = rows[i].result
                              /\ over[i].state = rows[i].state /\ over[i].current = FALSE
      BY <3>1, <3>2
    <3>4. ASSUME NEW i \in Requests PROVE Carries(i, over)
      <4>1. Carries(i, rows)
        BY DEF Carried
      <4> QED
        BY <3>3, <4>1 DEF Carries
    <3> QED
      BY <3>2, <3>3, <3>4 DEF Carried
  <2> HIDE DEF over
  <2>3. /\ Carried(kept)
        /\ \A i \in Requests : /\ ~ kept[i].current
                               /\ kept[i].plan \in {rows[i].plan, None} /\ kept[i].result \in {rows[i].result, None}
                               /\ rows[i].state = "none" => kept[i].state = "none"
    <3>1. CASE CurrentOf(rows) = {}
      BY <3>1 DEF CurrentOf
    <3>2. CASE CurrentOf(rows) # {}
      <4>1. /\ Carried(kept)
            /\ \A i \in Requests : /\ kept[i].plan \in {rows[i].plan, None} /\ kept[i].result \in {rows[i].result, None}
                                   /\ rows[i].state = "none" => kept[i].state = "none"
        BY <2>2, <3>2, PrunedCarried
      <4>2. \A i \in Requests : ~ kept[i].current
        BY <2>2, <3>2 DEF Pruned, NoRow
      <4> QED
        BY <4>1, <4>2
    <3> QED
      BY <3>1, <3>2
  <2> HIDE DEF kept
  <2>4. Spare(kept) # {}
    <3>1. Named(kept) \subseteq Named(rows)
      BY <2>3 DEF Named, Previous
    <3> QED
      BY <2>3, <3>1 DEF Spare
  <2>5. Fresh(kept) \in Requests /\ Unknown(Fresh(kept), kept) /\ kept[Fresh(kept)].state = "none"
    BY <2>4, FreshUnknown
  <2>6. /\ row \in Rows /\ row.state = "pending" /\ row.plan = None /\ row.result = None
    BY NoRowType DEF Rows, NoRow
  <2>7. new \in [Requests -> Rows] /\ new[Fresh(kept)] = row /\ \A i \in Requests \ {Fresh(kept)} : new[i] = kept[i]
    BY <2>1, <2>3, <2>5, <2>6 DEF Carried
  <2> HIDE DEF new, row
  <2>8. \A i \in Requests : Unknown(i, kept) => Unknown(i, new)
    BY <2>6, <2>7 DEF Unknown, Previous
  <2>9. Fresh(kept) # release
    BY <2>3, <2>5 DEF Carried, Carries
  <2>10. media.dels[Fresh(kept)] = None
    BY <2>5 DEF Unknown
  <2>11. ASSUME NEW i \in Requests PROVE Carries(i, new)
    <3>1. CASE i = Fresh(kept)
      BY <2>5, <2>6, <2>7, <2>8, <2>9, <2>10, <3>1 DEF Carries
    <3>2. CASE i # Fresh(kept)
      <4>1. Carries(i, kept)
        BY <2>3 DEF Carried
      <4> QED
        BY <2>7, <2>8, <3>2, <4>1 DEF Carries
    <3> QED
      BY <3>1, <3>2
  <2>12. \A i, j \in Requests : new[i].current /\ new[j].current => i = j
    BY <2>3, <2>7
  <2> QED
    BY <2>7, <2>11, <2>12 DEF Carried, new
<1> QED
  BY <1>1, <1>2

(***************************************************************************)
(* Steps on the rows alone                                                 *)
(***************************************************************************)
\* Whatever withdraws a request keeps it from becoming current.
LEMMA StaysOutdated ==
  ASSUME Types, Carried(req'), NEW o \in Requests, ~ req[o].current, ~ Unknown(o, req')
  PROVE  ~ req'[o].current
BY DEF Carried, Carries

LEMMA CarryKeeps ==
  ASSUME IInv, Carried(req'), release' = release, media'.dels = media.dels
  PROVE  /\ OneCurrent' /\ Served'
         /\ \A i \in Requests : Frozen(i)'
         /\ \A q \in Workers : run'[q] = run[q] /\ (lock' = q => lock = q) => Runner(q)'
<1>1. Types /\ OneCurrent /\ Served /\ (\A i \in Requests : Frozen(i)) /\ \A q \in Workers : Runner(q)
  BY DEF IInv
<1>2. req \in [Requests -> Rows] /\ req' \in [Requests -> Rows] /\ release \in Requests \cup {None}
  BY <1>1 DEF Types, Carried
<1>3. OneCurrent'
  BY DEF Carried, OneCurrent
<1>4. \A i \in Requests : Carries(i, req')
  BY DEF Carried
<1>5. ASSUME NEW i \in Requests PROVE Frozen(i)'
  <2>1. Carries(i, req') /\ Frozen(i)
    BY <1>1, <1>4
  <2>2. ASSUME NEW o \in Previous(req'[i].plan) \cup Previous(req'[i].result) PROVE ~ req'[o].current
    <3>1. o \in Previous(req[i].plan) \cup Previous(req[i].result)
      BY <2>1, <2>2 DEF Carries, Previous
    <3>2. o \in Requests
      BY <1>2, <3>1 DEF Previous, Rows, Plans
    <3>3. ~ req[o].current
      BY <2>1, <3>1 DEF Frozen, Outdated
    <3>4. ~ Unknown(o, req')
      BY <2>2 DEF Unknown
    <3> QED
      BY <1>1, <3>2, <3>3, <3>4, StaysOutdated
  <2>3. Outdated(req[i].plan)' /\ Outdated(req[i].result)'
    BY <2>2 DEF Outdated, Previous
  <2>4. req'[i].state = "retiring" => /\ req'[i].result # None /\ release' \notin Previous(req'[i].result)
                                      /\ req'[i].current => i = release'
    BY <2>1 DEF Carries, Frozen
  <2>5. ASSUME req'[i].current
        PROVE  /\ req'[i].plan # None => /\ req'[i].plan.view \subseteq Sources(req'[i].plan)
                                         /\ media'.dels[i] # None => Covers(media'.dels[i], req'[i].plan)
               /\ req'[i].plan = None => req'[i].state \in {"retiring", "completed"} \/ media'.dels[i] = None
    BY <2>1, <2>5 DEF Carries, Frozen, Covers, Sources
  <2> QED
    BY <2>3, <2>4, <2>5 DEF Frozen, Sources, Covers, Previous
<1>6. Served'
  <2> SUFFICES ASSUME release # None
               PROVE  /\ req'[release].state \in {"retiring", "completed"} /\ Prior' = Prior
    BY <1>1 DEF Served, Delivers
  <2>1. Carries(release, req') /\ release \in Requests
    BY <1>2, <1>4
  <2> QED
    BY <2>1 DEF Carries, Prior
<1>7. ASSUME NEW q \in Workers, run'[q] = run[q], lock' = q => lock = q PROVE Runner(q)'
  <2> DEFINE t == run[q]
  <2>0. Runner(q) /\ t \in Runs
    BY <1>1 DEF Types
  <2>1. ASSUME NEW o \in Previous(t.plan) PROVE ~ req'[o].current
    <3>1. o \in Requests /\ ~ req[o].current /\ ~ Unknown(o, req')
      BY <2>0, <2>1 DEF Runs, Plans, Runner, Outdated, Previous, Unknown
    <3> QED
      BY <1>1, <3>1, StaysOutdated
  <2>2. ASSUME t.pc = "withdraw", NEW o \in t.old PROVE o # release /\ ~ req'[o].current
    <3>1. o \in Requests /\ ~ req[o].current /\ ~ Unknown(o, req') /\ o # release
      BY <2>0, <2>2 DEF Runs, Runner, Unknown
    <3> QED
      BY <1>1, <3>1, StaysOutdated
  <2>3. ASSUME t.id \in Requests, req'[t.id].current
        PROVE  req[t.id].current /\ (req'[t.id].plan = req[t.id].plan \/ t.id = release)
    <3>1. Carries(t.id, req') /\ ~ Unknown(t.id, req')
      BY <1>4, <2>3 DEF Unknown
    <3> QED
      BY <2>3, <3>1 DEF Carries
  <2>4. ASSUME t.pc \in {"copy", "promote"}, req'[t.id].current
        PROVE  req'[t.id].plan = t.plan \/ (media.dels[t.id] # None /\ Covers(media.dels[t.id], t.plan))
    <3>1. t.id \in Requests /\ t.plan # None
      BY <2>0, <2>4 DEF Runner
    <3>2. req[t.id].current /\ (req'[t.id].plan = req[t.id].plan \/ t.id = release)
      BY <2>3, <2>4, <3>1
    <3>3. req[t.id].plan = t.plan \/ (media.dels[t.id] # None /\ Covers(media.dels[t.id], t.plan))
      BY <2>0, <2>4, <3>2 DEF Runner
    <3>4. CASE req[t.id].plan = t.plan /\ t.id = release
      <4>1. media.dels[t.id] # None
        BY <1>1, <3>1, <3>4, NamesAssumption DEF Served
      <4>2. Covers(media.dels[t.id], req[t.id].plan)
        BY <1>1, <3>1, <3>2, <3>4, <4>1 DEF Frozen
      <4> QED
        BY <3>4, <4>1, <4>2
    <3> QED
      BY <3>2, <3>3, <3>4
  <2>5. ASSUME t.pc \in {"ready", "activate"}, req'[t.id].current PROVE Placed(t, media.dels[t.id])
    BY <2>0, <2>3, <2>5 DEF Runner
  <2>6. Outdated(run[q].plan)'
    BY <1>7, <2>1 DEF Outdated, Previous
  <2>7. /\ t.pc # "idle" => t.id \in Requests
        /\ t.pc \in {"copy", "promote", "ready", "activate", "withdraw"} => t.plan # None
        /\ t.pc \in {"copy", "promote"} => t.plan.view \subseteq Sources(t.plan)
        /\ t.pc = "withdraw" => t.ret \in Requests
        /\ lock' = q => t.pc \notin {"idle", "lock"}
    BY <1>7, <2>0 DEF Runner
  <2> QED
    BY <1>7, <2>2, <2>4, <2>5, <2>6, <2>7 DEF Runner, Covers, Placed, Delivers, Sources
<1> QED
  BY <1>3, <1>5, <1>6, <1>7

\* What an intent does to the rows and the jobs.
LEMMA ScheduleKeeps ==
  ASSUME Types, NEW rows, Carried(rows), Spare(rows) # {}, NEW at \in Dues, ScheduleAt(rows, at)
  PROVE  Carried(req') /\ jobs' \subseteq Requests \X Dues
<1>1. Carried(req')
  BY AcceptCarried DEF ScheduleAt
<1>2. {<<i, at>> : i \in CurrentOf(Accept(rows, at))} \subseteq Requests \X Dues
  BY DEF CurrentOf
<1> QED
  BY <1>1, <1>2 DEF ScheduleAt, Types

LEMMA PublicationKeeps ==
  ASSUME IInv, NEW c, c.at \in Dues \cup {None}, HasRoom, SchedulePublication(c)
  PROVE  Carried(req') /\ jobs' \subseteq Requests \X Dues
<1>1. Types /\ Carried(req)
  BY RowsCarried DEF IInv
<1>2. CASE Wanted(c)
  <2>1. DueOf(c) \in Dues /\ ScheduleAt(req, DueOf(c)) /\ Spare(req) # {}
    BY <1>2 DEF SchedulePublication, DueOf, Dues, HasRoom
  <2> QED
    BY <1>1, <2>1, ScheduleKeeps
<1>3. CASE ~ Wanted(c)
  BY <1>1, <1>3 DEF SchedulePublication, Types
<1> QED
  BY <1>2, <1>3

\* A step of no run that leaves the deliveries keeps everything.
LEMMA Quiet ==
  ASSUME IInv, Types', Carried(req'), media'.dels = media.dels, UNCHANGED <<release, run, lock>>
  PROVE  IInv'
<1>1. \A q \in Workers : run'[q] = run[q] /\ (lock' = q => lock = q)
  OBVIOUS
<1> QED
  BY <1>1, CarryKeeps DEF IInv

LEMMA InitInv == Init => IInv
<1> SUFFICES ASSUME Init PROVE IInv
  OBVIOUS
<1>1. /\ cat = [state |-> "draft", at |-> None, published |-> FALSE, free |-> TRUE, was |-> "draft"]
      /\ media = [rev |-> 1, file |-> None, dels |-> [i \in Requests |-> None], withdrawn |-> {}]
      /\ opened = FALSE /\ notice = FALSE /\ fence = FALSE /\ released = FALSE
      /\ req = [i \in Requests |-> NoRow] /\ release = None
      /\ jobs = {} /\ lock = None /\ run = [w \in Workers |-> Idle]
      /\ writes = 0 /\ faults = 0
  BY DEF Init
<1>2. cat \in Catalog
  BY <1>1 DEF Catalog, States
<1>3. media \in [rev : Nat, file : Blobs \cup {None}, dels : [Requests -> Copies \cup {None}], withdrawn : SUBSET Requests]
  BY <1>1
<1>4. NoRow \in Rows /\ Idle \in Runs
  BY DEF Rows, Runs, NoRow, Idle, Dues
<1>5. Types
  BY <1>1, <1>2, <1>3, <1>4 DEF Types
<1>6. \A i \in Requests : Frozen(i)
  BY <1>1 DEF Frozen, Outdated, Previous, NoRow
<1>7. \A w \in Workers : Runner(w)
  BY <1>1, NamesAssumption DEF Runner, Outdated, Previous, Idle
<1>8. OneCurrent /\ Served
  BY <1>1 DEF OneCurrent, Served, NoRow
<1> QED
  BY <1>5, <1>6, <1>7, <1>8 DEF IInv

(***************************************************************************)
(* The catalog and the manifest                                            *)
(***************************************************************************)
LEMMA WriteKeeps == ASSUME IInv, NEW c \in Catalog, Write(c) PROVE IInv'
<1>1. Carried(req') /\ jobs' \subseteq Requests \X Dues
  BY PublicationKeeps DEF Write, Catalog
<1>2. Types'
  BY <1>1 DEF IInv, Types, Write, Carried
<1> QED
  BY <1>1, <1>2, Quiet DEF Write

LEMMA CatalogKeeps ==
  ASSUME IInv, Publish("now") \/ Publish("later") \/ Unpublish \/ Update \/ Delete \/ Restore
  PROVE  IInv'
<1>0. cat \in Catalog
  BY DEF IInv, Types
<1>1. CASE Publish("now")
  <2>1. [cat EXCEPT !.state = "published", !.at = "now"] \in Catalog
    BY <1>0 DEF Catalog, States, Dues
  <2> QED
    BY <1>1, <2>1, WriteKeeps DEF Publish
<1>2. CASE Publish("later")
  <2>1. [cat EXCEPT !.state = "published", !.at = "later"] \in Catalog
    BY <1>0 DEF Catalog, States, Dues
  <2> QED
    BY <1>2, <2>1, WriteKeeps DEF Publish
<1>3. CASE Unpublish
  <2>1. [cat EXCEPT !.state = "draft", !.at = None] \in Catalog
    BY <1>0 DEF Catalog, States
  <2> QED
    BY <1>3, <2>1, WriteKeeps DEF Unpublish
<1>4. CASE Update
  <2>1. [cat EXCEPT !.free = ~ @] \in Catalog
    BY <1>0 DEF Catalog
  <2> QED
    BY <1>4, <2>1, WriteKeeps DEF Update
<1>5. CASE Delete
  <2>1. [cat EXCEPT !.state = "deleted", !.was = cat.state] \in Catalog
    BY <1>0 DEF Catalog, States
  <2> QED
    BY <1>5, <2>1, WriteKeeps DEF Delete
<1>6. CASE Restore
  <2>1. [cat EXCEPT !.state = RestoredState] \in Catalog
    BY <1>0 DEF Catalog, States, RestoredState
  <2> QED
    BY <1>6, <2>1, WriteKeeps DEF Restore
<1> QED
  BY <1>1, <1>2, <1>3, <1>4, <1>5, <1>6

LEMMA ManifestKeeps ==
  ASSUME IInv, SyncFences \/ Open \/ Upload \/ ItemCommitted \/ Processed
  PROVE  IInv'
<1>0. Types /\ Carried(req)
  BY RowsCarried DEF IInv
<1>1. CASE SyncFences \/ Open
  <2>1. /\ UNCHANGED <<cat, media, notice, req, release, released, jobs, lock, run, writes, faults>>
        /\ {opened', fence'} \subseteq BOOLEAN
    BY <1>0, <1>1 DEF SyncFences, Open, Fenced, Types
  <2>2. Types'
    BY <1>0, <2>1 DEF Types
  <2>3. Carried(req')
    BY <1>0, <2>1 DEF Carried, Carries, Unknown
  <2> QED
    BY <2>1, <2>2, <2>3, Quiet
<1>2. CASE Upload
  <2>1. media' \in [rev : Nat, file : Blobs \cup {None}, dels : [Requests -> Copies \cup {None}], withdrawn : SUBSET Requests] /\ media'.dels = media.dels
    <3>1. media \in [rev : Nat, file : Blobs \cup {None}, dels : [Requests -> Copies \cup {None}], withdrawn : SUBSET Requests] /\ media.rev + 1 \in Nat
      BY <1>0 DEF Types
    <3>2. media' = [media EXCEPT !.rev = media.rev + 1, !.file = None]
      BY <1>2 DEF Upload
    <3> QED
      BY <3>1, <3>2
  <2>2. Types'
    BY <1>0, <1>2, <2>1 DEF Types, Upload
  <2>3. Carried(req')
    BY <1>0, <1>2 DEF Upload
  <2> QED
    BY <1>2, <2>1, <2>2, <2>3, Quiet DEF Upload
<1>3. CASE ItemCommitted
  <2>1. Carried(req') /\ jobs' \subseteq Requests \X Dues
    BY <1>0, <1>3, PublicationKeeps DEF ItemCommitted, Types, Catalog
  <2>2. Types'
    BY <1>0, <1>3, <2>1 DEF Types, ItemCommitted, Carried
  <2> QED
    BY <1>3, <2>1, <2>2, Quiet DEF ItemCommitted
<1>4. CASE Processed
  <2>1. Blob(media.rev, "internal", 0) \in Blobs
    BY <1>0 DEF Types, Blob, Blobs, Areas
  <2>2. media' \in [rev : Nat, file : Blobs \cup {None}, dels : [Requests -> Copies \cup {None}], withdrawn : SUBSET Requests] /\ media'.dels = media.dels
    BY <1>0, <1>4, <2>1 DEF Processed, Types
  <2>3. Carried(req') /\ jobs' \subseteq Requests \X Dues
    <3>1. CASE CurrentOf(req) = {}
      BY <1>0, <1>4, <3>1, PublicationKeeps DEF Processed, Types, Catalog
    <3>2. CASE CurrentOf(req) # {}
      <4>1. PICK i \in CurrentOf(req) : ScheduleAt(req, WakeDue(req[i]))
        BY <1>4, <3>2 DEF Processed
      <4>2. WakeDue(req[i]) \in Dues
        BY <1>0 DEF Types, CurrentOf, Rows, WakeDue, Dues
      <4> QED
        BY <1>0, <1>4, <4>1, <4>2, ScheduleKeeps DEF Processed, HasRoom
    <3> QED
      BY <3>1, <3>2
  <2>4. Types'
    BY <1>0, <1>4, <2>2, <2>3 DEF Types, Processed, Carried
  <2> QED
    BY <1>4, <2>2, <2>3, <2>4, Quiet DEF Processed
<1> QED
  BY <1>1, <1>2, <1>3, <1>4

(***************************************************************************)
(* Runs                                                                    *)
(***************************************************************************)
\* The step of one run that leaves the deliveries keeps what the others know.
LEMMA RunKeeps ==
  ASSUME IInv, Types', Carried(req'), media'.dels = media.dels, release' = release, NEW w \in Workers,
         \A q \in Workers : q # w => run'[q] = run[q] /\ (lock' = q => lock = q), Runner(w)'
  PROVE  IInv'
<1>1. /\ OneCurrent' /\ Served' /\ \A i \in Requests : Frozen(i)'
      /\ \A q \in Workers : run'[q] = run[q] /\ (lock' = q => lock = q) => Runner(q)'
  BY CarryKeeps
<1>2. ASSUME NEW q \in Workers PROVE Runner(q)'
  BY <1>1
<1> QED
  BY <1>1, <1>2 DEF IInv

LEMMA DoneRuns ==
  ASSUME Types, NEW w \in Workers, Done(w)
  PROVE  /\ run' \in [Workers -> Runs] /\ lock' \in Workers \cup {None}
         /\ \A q \in Workers : q # w => run'[q] = run[q] /\ (lock' = q => lock = q)
         /\ Runner(w)'
<1>1. Idle \in Runs
  BY DEF Idle, Runs
<1>2. /\ run' = [run EXCEPT ![w] = Idle] /\ lock' = (IF lock = w THEN None ELSE lock)
      /\ run \in [Workers -> Runs] /\ lock \in Workers \cup {None}
  BY DEF Done, Types
<1>3. run' \in [Workers -> Runs] /\ run'[w] = Idle /\ \A q \in Workers : q # w => run'[q] = run[q]
  BY <1>1, <1>2
<1>4. lock' \in Workers \cup {None} /\ lock' # w /\ \A q \in Workers : lock' = q => lock = q
  BY <1>2, NamesAssumption
<1>5. Runner(w)'
  BY <1>3, <1>4 DEF Runner, Idle, Outdated, Previous
<1> QED
  BY <1>3, <1>4, <1>5

LEMMA DoneKeeps ==
  ASSUME IInv, NEW w \in Workers, Done(w), Carried(req'), jobs' \subseteq Requests \X Dues, faults' \in Nat,
         UNCHANGED <<cat, opened, media, notice, fence, release, released, writes>>
  PROVE  IInv'
<1>1. Types /\ req' \in [Requests -> Rows]
  BY DEF IInv, Carried
<1>2. Types'
  BY <1>1, DoneRuns DEF Types
<1> QED
  BY <1>1, <1>2, DoneRuns, RunKeeps

LEMMA FailedKeeps ==
  ASSUME IInv, NEW w \in Workers, run[w].pc # "idle", Failed(w), faults' \in Nat,
         UNCHANGED <<cat, opened, media, notice, fence, release, released, writes>>
  PROVE  IInv'
<1>1. Types /\ Carried(req) /\ run[w].id \in Requests
  BY RowsCarried DEF IInv, Runner
<1> DEFINE id == run[w].id
<1>2. jobs' \subseteq Requests \X Dues
  BY <1>1 DEF Failed, Types, Dues
<1>3. req \in [Requests -> Rows] /\ req' = [req EXCEPT ![id] = FailedRow(req[id])]
  BY <1>1 DEF Failed, Types
<1>4. LET n == FailedRow(req[id])  r == req[id] IN
        /\ n \in Rows /\ n.plan = r.plan /\ n.result = r.result /\ n.current = r.current
        /\ n.state = r.state \/ (n.state = "failed" /\ r.current /\ r.state \notin {"retiring", "completed"})
  <2>1. req[id] \in Rows
    BY <1>1, <1>3
  <2> QED
    BY <2>1 DEF FailedRow, Rows
<1>5. /\ req' \in [Requests -> Rows]
      /\ \A i \in Requests : 
           /\ req'[i].plan = req[i].plan /\ req'[i].result = req[i].result /\ req'[i].current = req[i].current
           /\ req'[i].state = req[i].state \/ (req'[i].state = "failed" /\ req[i].current /\ req[i].state \notin {"retiring", "completed"})
  BY <1>1, <1>3, <1>4
<1>6. ASSUME NEW i \in Requests PROVE Carries(i, req')
  <2>1. Carries(i, req)
    BY <1>1 DEF Carried
  <2>2. ~ Unknown(i, req) \/ Unknown(i, req')
    BY <1>5 DEF Unknown
  <2> QED
    BY <1>5, <2>1, <2>2 DEF Carries
<1>7. Carried(req')
  BY <1>1, <1>5, <1>6 DEF Carried
<1> QED
  BY <1>2, <1>7, DoneKeeps DEF Failed

\* A change of one field of a run.
LEMMA GotoRuns ==
  ASSUME Types, NEW w \in Workers, NEW r \in Runs, run' = [run EXCEPT ![w] = r]
  PROVE  run' \in [Workers -> Runs] /\ run'[w] = r /\ \A q \in Workers : q # w => run'[q] = run[q]
BY DEF Types

LEMMA FieldRuns ==
  ASSUME NEW r \in Runs
  PROVE  /\ \A pc \in {"idle", "lock", "drain", "prepare", "copy", "promote", "ready", "activate", "withdraw"} :
              LET n == [r EXCEPT !.pc = pc] IN
              n \in Runs /\ n.pc = pc /\ n.id = r.id /\ n.plan = r.plan /\ n.old = r.old /\ n.ret = r.ret
         /\ \A old \in SUBSET Requests :
              LET n == [r EXCEPT !.old = old] IN
              n \in Runs /\ n.pc = r.pc /\ n.id = r.id /\ n.plan = r.plan /\ n.old = old /\ n.ret = r.ret
BY DEF Runs

LEMMA TakeKeeps == ASSUME IInv, NEW w \in Workers, NEW j \in jobs, Take(w, j) PROVE IInv'
<1>0. Types /\ Carried(req) /\ Runner(w)
  BY RowsCarried DEF IInv
<1>1. j \in Requests \X Dues /\ run[w].pc = "idle" /\ lock # w /\ run \in [Workers -> Runs]
  BY <1>0 DEF Types, Take, Runner
<1>2. jobs' \subseteq Requests \X Dues /\ fence' \in BOOLEAN
  <2>1. {<<j[1], "later">>} \subseteq Requests \X Dues
    BY <1>1 DEF Dues
  <2> QED
    BY <1>0, <2>1 DEF Take, Types, Fenced
<1>3. UNCHANGED <<cat, opened, media, notice, req, release, released, lock, writes, faults>>
  BY DEF Take
<1> DEFINE r == [Idle EXCEPT !.pc = "lock", !.id = j[1]]
<1>4. r \in Runs /\ r.pc = "lock" /\ r.id \in Requests /\ r.plan = None
  BY <1>1 DEF Idle, Runs
<1> HIDE DEF r
<1>5. CASE run' = run
  <2>1. Types'
    BY <1>0, <1>2, <1>3, <1>5 DEF Types
  <2> QED
    BY <1>0, <1>3, <1>5, <2>1, Quiet
<1>6. CASE run' = [run EXCEPT ![w] = r]
  <2>1. run' \in [Workers -> Runs] /\ run'[w] = r /\ \A q \in Workers : q # w => run'[q] = run[q]
    BY <1>0, <1>4, <1>6, GotoRuns
  <2>2. Types'
    BY <1>0, <1>2, <1>3, <2>1 DEF Types
  <2>3. Runner(w)'
    BY <1>1, <1>3, <1>4, <2>1 DEF Runner, Outdated, Previous
  <2> QED
    BY <1>0, <1>3, <2>1, <2>2, <2>3, RunKeeps
<1> QED
  BY <1>5, <1>6 DEF Take, r

LEMMA LockSourceKeeps == ASSUME IInv, NEW w \in Workers, LockSource(w) PROVE IInv'
<1>0. Types /\ Carried(req) /\ Runner(w) /\ run[w] \in Runs
  BY RowsCarried DEF IInv, Types
<1>1. /\ run[w].pc = "lock" /\ lock = None /\ lock' = w /\ run' = [run EXCEPT ![w] = [run[w] EXCEPT !.pc = "drain"]]
      /\ UNCHANGED <<cat, opened, media, notice, fence, req, release, released, jobs, writes, faults>>
  BY DEF LockSource, Goto
<1> DEFINE r == [run[w] EXCEPT !.pc = "drain"]
<1>2. r \in Runs /\ r.pc = "drain" /\ r.id = run[w].id /\ r.plan = run[w].plan
  BY <1>0, FieldRuns
<1> HIDE DEF r
<1>3. run' \in [Workers -> Runs] /\ run'[w] = r /\ \A q \in Workers : q # w => run'[q] = run[q]
  BY <1>0, <1>1, <1>2, GotoRuns DEF r
<1>4. Types'
  BY <1>0, <1>1, <1>3 DEF Types
<1>5. Runner(w)'
  BY <1>0, <1>1, <1>2, <1>3 DEF Runner, Outdated
<1> QED
  BY <1>0, <1>1, <1>3, <1>4, <1>5, RunKeeps

\* What a retiring row lists is what a run may withdraw.
LEMMA RetireRunner ==
  ASSUME IInv, NEW w \in Workers, NEW i \in Requests, req[i].state = "retiring", run[w].pc # "idle",
         run' = [run EXCEPT ![w] = Retire(run[w], i)], UNCHANGED <<req, release>>
  PROVE  /\ run' \in [Workers -> Runs] /\ Runner(w)' /\ \A q \in Workers : q # w => run'[q] = run[q]
<1>0. Types /\ Frozen(i) /\ Runner(w) /\ run[w] \in Runs /\ req[i] \in Rows
  BY DEF IInv, Types
<1> DEFINE p == req[i].result
<1>1. /\ p # None /\ release \notin Previous(p)
      /\ \A o \in Previous(p) : ~ req[o].current
  BY <1>0 DEF Frozen, Outdated
<1>2. p \in Plans /\ Previous(p) = p.previous /\ p.previous \subseteq Requests
  BY <1>0, <1>1 DEF Rows, Plans, Previous
<1> DEFINE r == Retire(run[w], i)
<1>3. r \in Runs /\ r.pc = "withdraw" /\ r.id = run[w].id /\ r.plan = p /\ r.old \subseteq p.previous /\ r.ret = i
  BY <1>0, <1>2 DEF Retire, Runs
<1>4. run[w].id \in Requests
  BY <1>0 DEF Runner
<1> HIDE DEF p, r
<1>5. run' \in [Workers -> Runs] /\ run'[w] = r /\ \A q \in Workers : q # w => run'[q] = run[q]
  BY <1>0, <1>3, GotoRuns DEF r
<1>6. Runner(w)'
  BY <1>1, <1>2, <1>3, <1>4, <1>5 DEF Runner, Outdated, Previous
<1> QED
  BY <1>5, <1>6

LEMMA DrainKeeps == ASSUME IInv, NEW w \in Workers, Drain(w) PROVE IInv'
<1>0. Types /\ Carried(req) /\ Runner(w) /\ run[w] \in Runs
  BY RowsCarried DEF IInv, Types
<1>1. /\ run[w].pc = "drain"
      /\ UNCHANGED <<cat, opened, media, notice, fence, req, release, released, jobs, lock, writes, faults>>
  BY DEF Drain
<1>2. CASE Others(run[w].id) = {}
  <2> DEFINE r == [run[w] EXCEPT !.pc = "prepare"]
  <2>1. r \in Runs /\ r.pc = "prepare" /\ r.id = run[w].id /\ r.plan = run[w].plan
    BY <1>0, FieldRuns
  <2>2. run' = [run EXCEPT ![w] = r]
    BY <1>2 DEF Drain, Goto
  <2> HIDE DEF r
  <2>3. run' \in [Workers -> Runs] /\ run'[w] = r /\ \A q \in Workers : q # w => run'[q] = run[q]
    BY <1>0, <2>1, <2>2, GotoRuns
  <2>4. Types'
    BY <1>0, <1>1, <2>3 DEF Types
  <2>5. Runner(w)'
    BY <1>0, <1>1, <2>1, <2>3 DEF Runner, Outdated
  <2> QED
    BY <1>0, <1>1, <2>3, <2>4, <2>5, RunKeeps
<1>3. CASE Others(run[w].id) # {}
  <2>1. PICK i \in Others(run[w].id) : run' = [run EXCEPT ![w] = Retire(run[w], i)]
    BY <1>3 DEF Drain
  <2>2. i \in Requests /\ req[i].state = "retiring"
    BY DEF Others
  <2>3. run' \in [Workers -> Runs] /\ Runner(w)' /\ \A q \in Workers : q # w => run'[q] = run[q]
    BY <1>1, <2>1, <2>2, RetireRunner
  <2>4. Types'
    BY <1>0, <1>1, <2>3 DEF Types
  <2> QED
    BY <1>0, <1>1, <2>3, <2>4, RunKeeps
<1> QED
  BY <1>2, <1>3

\* Freezing a plan: nothing it withdraws is current, since the request itself
\* has no delivery before its plan.
LEMMA FreezeKeeps ==
  ASSUME IInv, NEW w \in Workers, NEW id \in Requests, id = run[w].id, NEW plan, plan = PlanRelease,
         run[w].pc = "prepare", req[id].current, req[id].plan = None, req[id].state \notin {"retiring", "completed"},
         req' = [req EXCEPT ![id].state = "running", ![id].plan = plan],
         run' = [run EXCEPT ![w].pc = "copy", ![w].plan = plan],
         UNCHANGED <<cat, opened, media, notice, fence, release, released, jobs, lock, writes, faults>>
  PROVE  IInv'
<1>0. /\ Types /\ OneCurrent /\ Served /\ (\A i \in Requests : Frozen(i)) /\ (\A q \in Workers : Runner(q))
      /\ req \in [Requests -> Rows] /\ run \in [Workers -> Runs] /\ release \in Requests \cup {None}
  BY DEF IInv, Types
<1>1. plan \in Plans /\ plan.previous = Deliveries /\ plan.view \subseteq Sources(plan) /\ plan # None
  BY <1>0, PlanType, NamesAssumption
<1>2. media.dels[id] = None
  BY <1>0 DEF Frozen
<1>3. id # release
  BY <1>0, NamesAssumption DEF Served
<1>4. LET n == [req[id] EXCEPT !.state = "running", !.plan = plan] IN
        n \in Rows /\ n.plan = plan /\ n.result = req[id].result /\ n.current = req[id].current /\ n.state = "running"
  <2>1. req[id] \in Rows
    BY <1>0
  <2> QED
    BY <1>1, <2>1 DEF Rows
<1>5. req' = [req EXCEPT ![id] = [req[id] EXCEPT !.state = "running", !.plan = plan]]
  BY <1>0
<1>6. /\ req' \in [Requests -> Rows]
      /\ \A i \in Requests : req'[i].current = req[i].current /\ req'[i].result = req[i].result
      /\ \A i \in Requests : i # id => req'[i] = req[i]
      /\ req'[id].plan = plan /\ req'[id].state = "running"
  BY <1>0, <1>4, <1>5
<1> DEFINE r == [run[w] EXCEPT !.pc = "copy", !.plan = plan]
<1>7. r \in Runs /\ r.pc = "copy" /\ r.id = id /\ r.plan = plan
  <2>1. run[w] \in Runs
    BY <1>0
  <2> QED
    BY <1>1, <2>1 DEF Runs
<1>8. run' = [run EXCEPT ![w] = r]
  BY <1>0
<1> HIDE DEF r
<1>9. run' \in [Workers -> Runs] /\ run'[w] = r /\ \A q \in Workers : q # w => run'[q] = run[q]
  BY <1>0, <1>7, <1>8, GotoRuns
<1>10. Types'
  BY <1>0, <1>6, <1>9 DEF Types
<1>11. \A o \in Previous(plan) : o \in Requests /\ ~ req'[o].current
  <2> SUFFICES ASSUME NEW o \in Previous(plan) PROVE o \in Requests /\ ~ req'[o].current
    OBVIOUS
  <2>1. o \in Deliveries
    BY <1>1 DEF Previous
  <2> QED
    BY <1>0, <1>2, <1>6, <2>1 DEF Deliveries, OneCurrent
<1>12. OneCurrent'
  BY <1>0, <1>6 DEF OneCurrent
<1>13. ASSUME NEW i \in Requests PROVE Frozen(i)'
  <2>1. Frozen(i)
    BY <1>0
  <2>2. CASE i = id
    <3>1. Outdated(req[i].plan)' /\ Outdated(req[i].result)'
      <4>1. Previous(req[i].result) \subseteq Requests
        BY <1>0 DEF Previous, Rows, Plans
      <4> QED
        BY <1>6, <1>11, <2>1, <2>2, <4>1 DEF Outdated, Previous, Frozen
    <3> QED
      BY <1>1, <1>2, <1>6, <2>2, <3>1 DEF Frozen, Sources
  <2>3. CASE i # id
    <3>1. Outdated(req[i].plan)' /\ Outdated(req[i].result)'
      <4>1. /\ Previous(req[i].plan) \subseteq Requests /\ Previous(req[i].result) \subseteq Requests
        BY <1>0 DEF Previous, Rows, Plans
      <4> QED
        BY <1>6, <2>1, <2>3, <4>1 DEF Outdated, Previous, Frozen
    <3> QED
      BY <1>6, <2>1, <2>3, <3>1 DEF Frozen, Covers, Sources, Previous
  <2> QED
    BY <2>2, <2>3
<1>14. Served'
  BY <1>0, <1>3, <1>6 DEF Served, Delivers, Prior
<1>15. ASSUME NEW q \in Workers PROVE Runner(q)'
  <2>0. Runner(q) /\ run[q] \in Runs
    BY <1>0
  <2>1. CASE q = w
    <3>1. Outdated(run[q].plan)'
      BY <1>7, <1>9, <1>11, <2>1 DEF Outdated, Previous
    <3> QED
      BY <1>1, <1>6, <1>7, <1>9, <2>0, <2>1, <3>1 DEF Runner, Sources
  <2>2. CASE q # w
    <3>1. run'[q] = run[q]
      BY <1>9, <2>2
    <3>2. Outdated(run[q].plan)'
      <4>1. Previous(run[q].plan) \subseteq Requests
        BY <2>0 DEF Previous, Runs, Plans
      <4> QED
        BY <1>6, <2>0, <3>1, <4>1 DEF Outdated, Previous, Runner
    <3>3. run[q].pc \in {"copy", "promote"} /\ req[run[q].id].current => run[q].id # id
      BY <1>2, <2>0 DEF Runner
    <3>4. run[q].pc # "idle" => run[q].id \in Requests
      BY <2>0 DEF Runner
    <3>5. run[q].pc = "withdraw" => run[q].ret \in Requests /\ \A o \in run[q].old : o # release /\ ~ req'[o].current
      BY <1>6, <2>0 DEF Runner, Runs
    <3>6. run[q].pc \in {"copy", "promote"} =>
            /\ run[q].plan.view \subseteq Sources(run[q].plan)
            /\ req'[run[q].id].current =>
                              req'[run[q].id].plan = run[q].plan
                                \/ (media.dels[run[q].id] # None /\ Covers(media.dels[run[q].id], run[q].plan))
      <4>1. CASE run[q].id = id
        <5>1. run[q].pc \notin {"copy", "promote"}
          BY <3>3, <4>1
        <5> QED
          BY <5>1
      <4>2. CASE run[q].id # id
        <5> SUFFICES ASSUME run[q].pc \in {"copy", "promote"}
                     PROVE  /\ run[q].plan.view \subseteq Sources(run[q].plan)
                            /\ req'[run[q].id].current =>
                              req'[run[q].id].plan = run[q].plan
                                \/ (media.dels[run[q].id] # None /\ Covers(media.dels[run[q].id], run[q].plan))
          OBVIOUS
        <5>1. req'[run[q].id] = req[run[q].id]
          BY <1>6, <3>4, <4>2
        <5>2. /\ run[q].plan.view \subseteq Sources(run[q].plan)
              /\ req[run[q].id].current =>
                              req[run[q].id].plan = run[q].plan
                                \/ (media.dels[run[q].id] # None /\ Covers(media.dels[run[q].id], run[q].plan))
          BY <2>0 DEF Runner
        <5> QED
          BY <5>1, <5>2
      <4> QED
        BY <4>1, <4>2
    <3>7. run[q].pc \in {"ready", "activate"} /\ req'[run[q].id].current => Placed(run[q], media.dels[run[q].id])
      BY <1>6, <2>0, <3>4 DEF Runner
    <3>8. /\ run[q].pc \in {"copy", "promote", "ready", "activate", "withdraw"} => run[q].plan # None
          /\ lock = q => run[q].pc \notin {"idle", "lock"}
      BY <2>0 DEF Runner
    <3> QED
      BY <3>1, <3>2, <3>4, <3>5, <3>6, <3>7, <3>8 DEF Runner, Covers, Placed, Delivers, Sources
  <2> QED
    BY <2>1, <2>2
<1> QED
  BY <1>10, <1>12, <1>13, <1>14, <1>15 DEF IInv

\* Moving the row of a run that is not released.
LEMMA RowMoves ==
  ASSUME IInv, NEW id \in Requests, req[id].current, req[id].state \notin {"retiring", "completed"}, req[id].plan = None,
         NEW state \in {"waiting", "completed"}
  PROVE  Carried([req EXCEPT ![id].state = state])
<1> DEFINE rows == [req EXCEPT ![id].state = state]
<1>0. Types /\ Carried(req) /\ Served /\ req \in [Requests -> Rows]
  BY RowsCarried DEF IInv, Types
<1>1. rows = [req EXCEPT ![id] = [req[id] EXCEPT !.state = state]]
  OBVIOUS
<1>2. LET n == [req[id] EXCEPT !.state = state] IN
        n \in Rows /\ n.plan = req[id].plan /\ n.result = req[id].result /\ n.current = req[id].current /\ n.state = state
  <2>1. req[id] \in Rows
    BY <1>0
  <2> QED
    BY <2>1 DEF Rows
<1> HIDE DEF rows
<1>3. /\ rows \in [Requests -> Rows]
      /\ \A i \in Requests : rows[i].plan = req[i].plan /\ rows[i].result = req[i].result /\ rows[i].current = req[i].current
      /\ \A i \in Requests : i # id => rows[i] = req[i]
      /\ rows[id].state = state
  BY <1>0, <1>1, <1>2
<1>4. id # release
  BY <1>0, NamesAssumption DEF Served
<1>5. ASSUME NEW i \in Requests PROVE Carries(i, rows)
  <2>1. Carries(i, req)
    BY <1>0 DEF Carried
  <2>2. ~ Unknown(i, req) \/ Unknown(i, rows)
    BY <1>3 DEF Unknown
  <2>3. Carries(id, req)
    BY <1>0 DEF Carried
  <2>4. CASE i = id
    BY <1>3, <1>4, <2>2, <2>3, <2>4 DEF Carries
  <2>5. CASE i # id
    BY <1>3, <2>1, <2>2, <2>5 DEF Carries
  <2> QED
    BY <2>4, <2>5
<1> QED
  BY <1>0, <1>3, <1>5 DEF Carried, rows

LEMMA PrepareKeeps == ASSUME IInv, NEW w \in Workers, Prepare(w) PROVE IInv'
<1> DEFINE id == run[w].id
           row == req[id]
           plan == PlanRelease
<1>0. /\ Types /\ Carried(req) /\ Runner(w) /\ run[w] \in Runs /\ run[w].pc = "prepare" /\ id \in Requests
      /\ req \in [Requests -> Rows] /\ Frozen(id)
  BY RowsCarried DEF IInv, Types, Prepare, Runner
<1>1. UNCHANGED <<cat, opened, media, notice, fence, release, released, writes, faults>>
  BY DEF Prepare
<1>2. faults' \in Nat /\ jobs \subseteq Requests \X Dues
  BY <1>0, <1>1 DEF Types
<1>3. CASE row.state = "retiring" /\ run' = [run EXCEPT ![w] = Retire(run[w], id)] /\ UNCHANGED <<req, jobs, lock>>
  <2>1. run' \in [Workers -> Runs] /\ Runner(w)' /\ \A q \in Workers : q # w => run'[q] = run[q]
    BY <1>0, <1>1, <1>3, RetireRunner
  <2>2. Types'
    BY <1>0, <1>1, <1>3, <2>1 DEF Types
  <2> QED
    BY <1>0, <1>1, <1>3, <2>1, <2>2, RunKeeps
<1>4. CASE Done(w) /\ UNCHANGED req /\ (UNCHANGED jobs \/ jobs' = jobs \cup {<<id, "later">>})
  <2>1. jobs' \subseteq Requests \X Dues
    BY <1>0, <1>2, <1>4 DEF Dues
  <2> QED
    BY <1>0, <1>1, <1>2, <1>4, <2>1, DoneKeeps
<1>5. ASSUME row.current, row.state \notin {"retiring", "completed"}, row.plan # None,
             run' = [run EXCEPT ![w].pc = "copy", ![w].plan = row.plan], UNCHANGED <<req, jobs, lock>>
      PROVE  IInv'
  <2> DEFINE r == [run[w] EXCEPT !.pc = "copy", !.plan = row.plan]
  <2>1. r \in Runs /\ r.pc = "copy" /\ r.id = id /\ r.plan = row.plan
    <3>1. row.plan \in Plans
      BY <1>0, <1>5 DEF Rows
    <3> QED
      BY <1>0, <3>1 DEF Runs
  <2>2. run' = [run EXCEPT ![w] = r]
    BY <1>0, <1>5 DEF Types
  <2> HIDE DEF r
  <2>3. run' \in [Workers -> Runs] /\ run'[w] = r /\ \A q \in Workers : q # w => run'[q] = run[q]
    BY <1>0, <2>1, <2>2, GotoRuns
  <2>4. Types'
    BY <1>0, <1>1, <1>5, <2>3 DEF Types
  <2>5. Outdated(run[w].plan)'
    BY <1>0, <1>5, <2>1, <2>3 DEF Frozen, Outdated
  <2>6. row.plan.view \subseteq Sources(row.plan)
    BY <1>0, <1>5 DEF Frozen
  <2>7. Runner(w)'
    BY <1>0, <1>5, <2>1, <2>3, <2>5, <2>6 DEF Runner, Sources
  <2> QED
    BY <1>0, <1>1, <1>5, <2>3, <2>4, <2>7, RunKeeps
<1>6. ASSUME row.current, row.state \notin {"retiring", "completed"}, row.plan = None,
             req' = [req EXCEPT ![id].state = "waiting"], Done(w), UNCHANGED jobs
      PROVE  IInv'
  BY <1>0, <1>1, <1>2, <1>6, RowMoves, DoneKeeps
<1>7. ASSUME row.current, row.state \notin {"retiring", "completed"}, row.plan = None, Done(w),
             LET rows == [req EXCEPT ![id].state = "completed"] IN
             IF plan.next = None THEN req' = rows /\ UNCHANGED jobs ELSE Spare(rows) # {} /\ ScheduleAt(rows, plan.next)
      PROVE  IInv'
  <2> DEFINE rows == [req EXCEPT ![id].state = "completed"]
  <2>1. Carried(rows)
    BY <1>0, <1>7, RowMoves
  <2> HIDE DEF rows
  <2>2. plan.next \in {"later", None}
    BY <1>0, PlanType DEF Plans
  <2>3. IF plan.next = None THEN req' = rows /\ UNCHANGED jobs ELSE Spare(rows) # {} /\ ScheduleAt(rows, plan.next)
    BY <1>7 DEF rows
  <2>4. Carried(req') /\ jobs' \subseteq Requests \X Dues
    BY <1>0, <1>2, <2>1, <2>2, <2>3, ScheduleKeeps DEF Dues
  <2> QED
    BY <1>1, <1>2, <1>7, <2>4, DoneKeeps
<1>8. ASSUME row.current, row.state \notin {"retiring", "completed"}, row.plan = None,
             req' = [req EXCEPT ![id].state = "running", ![id].plan = plan],
             run' = [run EXCEPT ![w].pc = "copy", ![w].plan = plan], UNCHANGED <<jobs, lock>>
      PROVE  IInv'
  BY <1>0, <1>1, <1>8, FreezeKeeps
<1>9. \/ row.state = "retiring" /\ run' = [run EXCEPT ![w] = Retire(run[w], id)] /\ UNCHANGED <<req, jobs, lock>>
      \/ Done(w) /\ UNCHANGED req /\ (UNCHANGED jobs \/ jobs' = jobs \cup {<<id, "later">>})
      \/ /\ row.current /\ row.state \notin {"retiring", "completed"}
         /\ \/ row.plan # None /\ run' = [run EXCEPT ![w].pc = "copy", ![w].plan = row.plan] /\ UNCHANGED <<req, jobs, lock>>
            \/ row.plan = None /\ req' = [req EXCEPT ![id].state = "waiting"] /\ Done(w) /\ UNCHANGED jobs
            \/ /\ row.plan = None /\ Done(w)
               /\ LET rows == [req EXCEPT ![id].state = "completed"] IN
                  IF plan.next = None THEN req' = rows /\ UNCHANGED jobs ELSE Spare(rows) # {} /\ ScheduleAt(rows, plan.next)
            \/ /\ row.plan = None /\ req' = [req EXCEPT ![id].state = "running", ![id].plan = plan]
               /\ run' = [run EXCEPT ![w].pc = "copy", ![w].plan = plan] /\ UNCHANGED <<jobs, lock>>
  BY <1>0 DEF Prepare, Superseded
<1> QED
  BY <1>3, <1>4, <1>5, <1>6, <1>7, <1>8, <1>9

(***************************************************************************)
(* Steps on the deliveries                                                 *)
(***************************************************************************)
\* A delivery that a current request or the release has keeps its copies; the
\* one that a request gets covers its plan.
SameCopies(i) ==
  /\ req'[i].current = req[i].current /\ req'[i].state = req[i].state
  /\ req'[i].plan = req[i].plan /\ req'[i].result = req[i].result
  /\ \/ media.dels[i] = None /\ media'.dels[i] = None
     \/ media.dels[i] # None /\ media'.dels[i] # None /\ media'.dels[i].files = media.dels[i].files
        /\ (media.dels[i].ready => media'.dels[i].ready)
     \/ ~ req[i].current /\ i # release
     \/ media.dels[i] = None /\ media'.dels[i] # None /\ req[i].plan # None /\ Covers(media'.dels[i], req[i].plan)

LEMMA DeliveriesKeep ==
  ASSUME IInv, req' \in [Requests -> Rows], release' = release, \A i \in Requests : SameCopies(i)
  PROVE  /\ OneCurrent' /\ Served' /\ \A i \in Requests : Frozen(i)'
         /\ \A q \in Workers : run'[q] = run[q] /\ (lock' = q => lock = q) => Runner(q)'
         /\ \A plan \in Plans \cup {None} : (\A o \in Previous(plan) : ~ req[o].current) => \A o \in Previous(plan) : ~ req'[o].current
<1>0. /\ Types /\ OneCurrent /\ Served /\ (\A i \in Requests : Frozen(i)) /\ (\A q \in Workers : Runner(q))
      /\ req \in [Requests -> Rows] /\ run \in [Workers -> Runs] /\ release \in Requests \cup {None}
  BY DEF IInv, Types
<1>1. \A i \in Requests : /\ req'[i].current = req[i].current /\ req'[i].state = req[i].state
                          /\ req'[i].plan = req[i].plan /\ req'[i].result = req[i].result
  BY DEF SameCopies
<1>2. ASSUME NEW plan \in Plans \cup {None}, \A o \in Previous(plan) : ~ req[o].current
      PROVE  \A o \in Previous(plan) : ~ req'[o].current
  BY <1>1, <1>2 DEF Previous, Plans
<1>3. OneCurrent'
  BY <1>0, <1>1 DEF OneCurrent
<1>4. ASSUME NEW i \in Requests PROVE Frozen(i)'
  <2>0. Frozen(i) /\ SameCopies(i) /\ req[i] \in Rows
    BY <1>0
  <2>1. /\ \A o \in Previous(req[i].plan) : ~ req'[o].current
        /\ \A o \in Previous(req[i].result) : ~ req'[o].current
    BY <1>2, <2>0 DEF Frozen, Outdated, Rows
  <2>2. Outdated(req[i].plan)' /\ Outdated(req[i].result)'
    BY <1>1, <2>1 DEF Outdated, Previous
  <2>3. req'[i].state = "retiring" => /\ req'[i].result # None /\ release' \notin Previous(req'[i].result)
                                      /\ req'[i].current => i = release'
    BY <1>1, <2>0 DEF Frozen
  <2>4. req'[i].current /\ req'[i].plan # None =>
          req'[i].plan.view \subseteq Sources(req'[i].plan) /\ (media'.dels[i] # None => Covers(media'.dels[i], req'[i].plan))
    BY <2>0 DEF Frozen, SameCopies, Covers, Sources
  <2>5. req'[i].current /\ req'[i].plan = None => req'[i].state \in {"retiring", "completed"} \/ media'.dels[i] = None
    BY <2>0 DEF Frozen, SameCopies
  <2> QED
    BY <2>2, <2>3, <2>4, <2>5 DEF Frozen, Sources, Covers, Previous
<1>5. Served'
  <2> SUFFICES ASSUME release # None
               PROVE  /\ req'[release].state \in {"retiring", "completed"} /\ Prior' = Prior
                      /\ media'.dels[release] # None /\ media'.dels[release].files = media.dels[release].files
                      /\ media'.dels[release].ready
    BY <1>0 DEF Served, Delivers
  <2>1. SameCopies(release) /\ media.dels[release] # None /\ media.dels[release].ready /\ req[release].state \in {"retiring", "completed"}
    BY <1>0 DEF Served
  <2> QED
    BY <2>1 DEF SameCopies, Prior
<1>6. ASSUME NEW q \in Workers, run'[q] = run[q], lock' = q => lock = q PROVE Runner(q)'
  <2> DEFINE t == run[q]
  <2>0. Runner(q) /\ t \in Runs
    BY <1>0
  <2>1. Outdated(run[q].plan)'
    <3>1. \A o \in Previous(t.plan) : ~ req'[o].current
      BY <1>2, <2>0 DEF Runner, Outdated, Runs
    <3> QED
      BY <1>6, <3>1 DEF Outdated, Previous
  <2>2. t.pc # "idle" => t.id \in Requests /\ SameCopies(t.id)
    BY <2>0 DEF Runner
  <2>3. ASSUME t.pc \in {"copy", "promote"}, req'[t.id].current
        PROVE  req'[t.id].plan = t.plan \/ (media'.dels[t.id] # None /\ Covers(media'.dels[t.id], t.plan))
    <3>1. SameCopies(t.id) /\ req[t.id].current
      BY <2>2, <2>3 DEF SameCopies
    <3>2. req[t.id].plan = t.plan \/ (media.dels[t.id] # None /\ Covers(media.dels[t.id], t.plan))
      BY <2>0, <2>3, <3>1 DEF Runner
    <3> QED
      BY <3>1, <3>2 DEF SameCopies, Covers
  <2>4. ASSUME t.pc \in {"ready", "activate"}, req'[t.id].current
        PROVE  Placed(t, media'.dels[t.id])
    <3>1. SameCopies(t.id) /\ req[t.id].current
      BY <2>2, <2>4 DEF SameCopies
    <3>2. Placed(t, media.dels[t.id])
      BY <2>0, <2>4, <3>1 DEF Runner
    <3> QED
      BY <3>1, <3>2 DEF SameCopies, Placed, Delivers
  <2>5. t.pc = "withdraw" => t.ret \in Requests /\ \A o \in t.old : o # release /\ ~ req'[o].current
    BY <1>1, <2>0 DEF Runner, Runs
  <2>6. /\ t.pc \in {"copy", "promote", "ready", "activate", "withdraw"} => t.plan # None
        /\ t.pc \in {"copy", "promote"} => t.plan.view \subseteq Sources(t.plan)
        /\ lock' = q => t.pc \notin {"idle", "lock"}
    BY <1>6, <2>0 DEF Runner
  <2> QED
    BY <1>6, <2>1, <2>2, <2>3, <2>4, <2>5, <2>6 DEF Runner, Covers, Placed, Delivers, Sources
<1> QED
  BY <1>2, <1>3, <1>4, <1>5, <1>6

\* A run that goes on after a step on the deliveries.
LEMMA DeliverKeeps ==
  ASSUME IInv, Types', release' = release, lock' = lock, \A i \in Requests : SameCopies(i),
         NEW w \in Workers, \A q \in Workers : q # w => run'[q] = run[q], Runner(w)'
  PROVE  IInv'
<1>1. req' \in [Requests -> Rows]
  BY DEF Types
<1>2. /\ OneCurrent' /\ Served' /\ \A i \in Requests : Frozen(i)'
      /\ \A q \in Workers : run'[q] = run[q] /\ (lock' = q => lock = q) => Runner(q)'
  BY <1>1, DeliveriesKeep
<1>3. ASSUME NEW q \in Workers PROVE Runner(q)'
  BY <1>2
<1> QED
  BY <1>2, <1>3 DEF IInv

\* The delivery that is prepared covers what the plan shows.
LEMMA PreparePromotionKeeps == ASSUME IInv, NEW w \in Workers, PreparePromotion(w) PROVE IInv'
<1> DEFINE id == run[w].id
           plan == run[w].plan
           d == [files |-> {[src |-> c.src, dst |-> Copied(c, id)] : c \in plan.copies}, adopted |-> FALSE, ready |-> FALSE]
<1>0. /\ Types /\ Carried(req) /\ Runner(w) /\ run[w] \in Runs /\ run[w].pc = "copy" /\ id \in Requests
      /\ req \in [Requests -> Rows] /\ plan # None /\ plan \in Plans
      /\ media \in [rev : Nat, file : Blobs \cup {None}, dels : [Requests -> Copies \cup {None}], withdrawn : SUBSET Requests]
  BY RowsCarried DEF IInv, Types, PreparePromotion, Runner, Runs
<1>1. UNCHANGED <<cat, opened, notice, fence, release, released, writes, faults>>
  BY DEF PreparePromotion
<1>2. CASE Failed(w) /\ UNCHANGED media
  <2>1. faults' \in Nat
    BY <1>0, <1>1 DEF Types
  <2> QED
    BY <1>0, <1>1, <1>2, <2>1, FailedKeeps
<1>3. CASE /\ media' = IF media.dels[id] # None THEN media ELSE [media EXCEPT !.dels[id] = d]
           /\ Goto(w, "promote") /\ UNCHANGED <<req, jobs, lock>>
  <2> DEFINE r == [run[w] EXCEPT !.pc = "promote"]
  <2>1. r \in Runs /\ r.pc = "promote" /\ r.id = id /\ r.plan = plan
    BY <1>0, FieldRuns
  <2>2. run' = [run EXCEPT ![w] = r]
    BY <1>3 DEF Goto
  <2>3. d \in Copies /\ {c.src : c \in d.files} = Sources(plan)
    <3>1. \A c \in plan.copies : c.src \in Blobs /\ Copied(c, id) \in Blobs
      <4> SUFFICES ASSUME NEW c \in plan.copies PROVE c.src \in Blobs /\ Copied(c, id) \in Blobs
        OBVIOUS
      <4>1. c \in [src : Blobs, area : Areas]
        BY <1>0 DEF Plans
      <4>2. Blob(c.src.rev, c.area, id) \in Blobs
        BY <1>0, <4>1 DEF Blob, Blobs
      <4> QED
        BY <4>1, <4>2 DEF Copied
    <3>2. d.files \in SUBSET [src : Blobs, dst : Blobs]
      BY <3>1
    <3>3. {c.src : c \in d.files} \subseteq Sources(plan)
      BY DEF Sources
    <3>4. ASSUME NEW c \in plan.copies PROVE c.src \in {e.src : e \in d.files}
      <4>1. [src |-> c.src, dst |-> Copied(c, id)] \in d.files
        OBVIOUS
      <4> QED
        BY <4>1
    <3> QED
      BY <3>2, <3>3, <3>4 DEF Copies, Sources
  <2> HIDE DEF r, d
  <2>4. run' \in [Workers -> Runs] /\ run'[w] = r /\ \A q \in Workers : q # w => run'[q] = run[q]
    BY <1>0, <2>1, <2>2, GotoRuns
  <2>5. /\ media' \in [rev : Nat, file : Blobs \cup {None}, dels : [Requests -> Copies \cup {None}], withdrawn : SUBSET Requests]
        /\ \A i \in Requests : i # id => media'.dels[i] = media.dels[i]
        /\ media'.dels[id] = IF media.dels[id] # None THEN media.dels[id] ELSE d
    BY <1>0, <1>3, <2>3
  <2>6. Types'
    BY <1>0, <1>1, <1>3, <2>4, <2>5 DEF Types
  <2>7. /\ plan.view \subseteq Sources(plan) /\ Outdated(plan)
        /\ req[id].current => req[id].plan = plan \/ (media.dels[id] # None /\ Covers(media.dels[id], plan))
    BY <1>0 DEF Runner
  <2>8. Covers(d, plan) /\ d # None
    BY <2>3, <2>7, NamesAssumption DEF Covers
  <2>9. ASSUME NEW i \in Requests PROVE SameCopies(i)
    <3>1. CASE i # id
      BY <1>3, <2>5, <3>1 DEF SameCopies
    <3>2. CASE i = id /\ media.dels[id] # None
      BY <1>3, <2>5, <3>2 DEF SameCopies
    <3>3. CASE i = id /\ media.dels[id] = None
      <4>1. i # release
        BY <3>3, NamesAssumption DEF IInv, Served
      <4>2. req[id].current => req[id].plan # None /\ Covers(d, req[id].plan)
        BY <1>0, <2>7, <2>8, <3>3
      <4> QED
        BY <1>3, <2>5, <2>8, <3>3, <4>1, <4>2 DEF SameCopies
    <3> QED
      BY <3>1, <3>2, <3>3
  <2>10. Runner(w)'
    <3>1. Outdated(run[w].plan)'
      BY <1>3, <2>1, <2>4, <2>7 DEF Outdated, Previous
    <3>2. req'[id].current => req'[id].plan = plan \/ (media'.dels[id] # None /\ Covers(media'.dels[id], plan))
      BY <1>3, <2>5, <2>7
    <3> QED
      BY <1>0, <1>3, <2>1, <2>4, <2>7, <3>1, <3>2 DEF Runner, Sources, Covers
  <2> QED
    BY <1>1, <1>3, <2>4, <2>6, <2>9, <2>10, DeliverKeeps
<1> QED
  BY <1>2, <1>3 DEF PreparePromotion

\* The view that a promotion leaves with its run is what it delivers.
LEMMA PromoteKeeps == ASSUME IInv, NEW w \in Workers, Promote(w) PROVE IInv'
<1> DEFINE id == run[w].id
           plan == run[w].plan
           d == media.dels[id]
           view == {Destination(b, d.files) : b \in plan.view}
<1>0. /\ Types /\ Carried(req) /\ Runner(w) /\ run[w] \in Runs /\ run[w].pc = "promote" /\ id \in Requests
      /\ req \in [Requests -> Rows] /\ plan # None /\ plan \in Plans /\ d \in Copies \cup {None}
      /\ media \in [rev : Nat, file : Blobs \cup {None}, dels : [Requests -> Copies \cup {None}], withdrawn : SUBSET Requests]
  BY RowsCarried DEF IInv, Types, Promote, Runner, Runs
<1>1. UNCHANGED <<cat, opened, notice, fence, release, released, writes, faults>>
  BY DEF Promote
<1>2. CASE Failed(w) /\ UNCHANGED media
  <2>1. faults' \in Nat
    BY <1>0, <1>1 DEF Types
  <2> QED
    BY <1>0, <1>1, <1>2, <2>1, FailedKeeps
<1>3. CASE /\ d # None
           /\ media' = IF d.adopted THEN media
                       ELSE [media EXCEPT !.file = IF @ = None THEN None ELSE Destination(@, d.files), !.dels[id].adopted = TRUE]
           /\ run' = [run EXCEPT ![w].pc = IF d.ready THEN "activate" ELSE "ready",
                                ![w].plan.view = {Destination(b, d.files) : b \in @}]
           /\ UNCHANGED <<req, jobs, lock>>
  <2>1. d \in Copies
    BY <1>0, <1>3
  <2>2. \A b \in Blobs : Destination(b, d.files) \in Blobs
    <3> SUFFICES ASSUME NEW b \in Blobs PROVE Destination(b, d.files) \in Blobs
      OBVIOUS
    <3>1. d.files \subseteq [src : Blobs, dst : Blobs]
      BY <2>1 DEF Copies
    <3> QED
      BY <3>1 DEF Destination
  <2>3. \A b : b \in {c.src : c \in d.files} => Destination(b, d.files) \in {c.dst : c \in d.files}
    BY DEF Destination
  <2>4. view \in SUBSET Blobs
    BY <1>0, <2>2 DEF Plans
  <2> DEFINE p == [plan EXCEPT !.view = view]
             pc == IF d.ready THEN "activate" ELSE "ready"
             r == [run[w] EXCEPT !.pc = pc, !.plan = p]
  <2>5. p \in Plans /\ p.view = view /\ p.previous = plan.previous
    BY <1>0, <2>4 DEF Plans
  <2>6. p # None
    BY <2>5, NamesAssumption
  <2>7. r \in Runs /\ r.pc = pc /\ pc \in {"ready", "activate"} /\ r.id = id /\ r.plan = p
    BY <1>0, <2>5 DEF Runs
  <2>8. run' = [run EXCEPT ![w] = r]
    BY <1>0, <1>3 DEF Types, Runs
  <2> HIDE DEF r, p, view
  <2>9. run' \in [Workers -> Runs] /\ run'[w] = r /\ \A q \in Workers : q # w => run'[q] = run[q]
    BY <1>0, <2>7, <2>8, GotoRuns
  <2> DEFINE e == [d EXCEPT !.adopted = TRUE]
             file == IF media.file = None THEN None ELSE Destination(media.file, d.files)
  <2>10. e \in Copies /\ e.files = d.files /\ e.ready = d.ready /\ e # None
    <3>1. e \in Copies /\ e.files = d.files /\ e.ready = d.ready
      BY <2>1 DEF Copies
    <3> QED
      BY <3>1, NamesAssumption
  <2>11. file \in Blobs \cup {None}
    BY <1>0, <2>2
  <2>12. media' = IF d.adopted THEN media ELSE [media EXCEPT !.file = file, !.dels = [media.dels EXCEPT ![id] = e]]
    BY <1>0, <1>3
  <2> HIDE DEF e, file
  <2>13. /\ media' \in [rev : Nat, file : Blobs \cup {None}, dels : [Requests -> Copies \cup {None}], withdrawn : SUBSET Requests]
         /\ \A i \in Requests : i # id => media'.dels[i] = media.dels[i]
         /\ media'.dels[id] # None /\ media'.dels[id].files = d.files /\ media'.dels[id].ready = d.ready
    <3>1. CASE d.adopted
      BY <1>0, <1>3, <2>12, <3>1
    <3>2. CASE ~ d.adopted
      <4>1. media' = [media EXCEPT !.file = file, !.dels = [media.dels EXCEPT ![id] = e]]
        BY <2>12, <3>2
      <4>2. [media.dels EXCEPT ![id] = e] \in [Requests -> Copies \cup {None}]
        BY <1>0, <2>10
      <4> QED
        BY <1>0, <2>10, <2>11, <4>1, <4>2
    <3> QED
      BY <3>1, <3>2
  <2>14. Types'
    BY <1>0, <1>1, <1>3, <2>9, <2>13 DEF Types
  <2>15. ASSUME NEW i \in Requests PROVE SameCopies(i)
    <3>1. CASE i = id
      BY <1>3, <2>13, <3>1 DEF SameCopies
    <3>2. CASE i # id
      BY <1>3, <2>13, <3>2 DEF SameCopies
    <3> QED
      BY <3>1, <3>2
  <2>16. req[id].current => Covers(d, plan)
    <3>1. req[id].current => req[id].plan = plan \/ Covers(d, plan)
      BY <1>0 DEF Runner
    <3>2. req[id].current /\ req[id].plan = plan => Covers(d, plan)
      BY <1>0, <1>3 DEF IInv, Frozen
    <3> QED
      BY <3>1, <3>2
  <2>17. Runner(w)'
    <3>1. Outdated(run[w].plan)'
      BY <1>0, <1>3, <2>5, <2>6, <2>7, <2>9 DEF Runner, Outdated, Previous
    <3>2. req'[id].current => Delivers(media'.dels[id], p)
      <4> SUFFICES ASSUME req'[id].current, NEW b \in view PROVE b \in {c.dst : c \in d.files}
        BY <2>5, <2>13 DEF Delivers
      <4>1. PICK a \in plan.view : b = Destination(a, d.files)
        BY DEF view
      <4>2. a \in {c.src : c \in d.files}
        BY <1>3, <2>16 DEF Covers
      <4> QED
        BY <2>3, <4>1, <4>2
    <3> QED
      BY <1>0, <1>3, <2>6, <2>7, <2>9, <2>13, <3>1, <3>2 DEF Runner, Placed, Delivers
  <2> QED
    BY <1>1, <1>3, <2>9, <2>14, <2>15, <2>17, DeliverKeeps
<1> QED
  BY <1>2, <1>3 DEF Promote

\* A delivery that is marked ready keeps its copies.
LEMMA MarkReadyKeeps == ASSUME IInv, NEW w \in Workers, MarkReady(w) PROVE IInv'
<1> DEFINE id == run[w].id
           d == media.dels[id]
<1>0. /\ Types /\ Carried(req) /\ Runner(w) /\ run[w] \in Runs /\ run[w].pc = "ready" /\ id \in Requests
      /\ d \in Copies \cup {None}
      /\ media \in [rev : Nat, file : Blobs \cup {None}, dels : [Requests -> Copies \cup {None}], withdrawn : SUBSET Requests]
  BY RowsCarried DEF IInv, Types, MarkReady, Runner, Runs
<1>1. UNCHANGED <<cat, opened, notice, fence, release, released, writes, faults>>
  BY DEF MarkReady
<1>2. CASE Failed(w) /\ UNCHANGED media
  <2>1. faults' \in Nat
    BY <1>0, <1>1 DEF Types
  <2> QED
    BY <1>0, <1>1, <1>2, <2>1, FailedKeeps
<1>3. CASE d # None /\ media' = [media EXCEPT !.dels[id].ready = TRUE] /\ Goto(w, "activate") /\ UNCHANGED <<req, jobs, lock>>
  <2> DEFINE e == [d EXCEPT !.ready = TRUE]
             r == [run[w] EXCEPT !.pc = "activate"]
  <2>1. e \in Copies /\ e.files = d.files /\ e.ready
    BY <1>0, <1>3 DEF Copies
  <2>2. e # None
    BY <2>1, NamesAssumption
  <2>3. media' = [media EXCEPT !.dels = [media.dels EXCEPT ![id] = e]]
    BY <1>0, <1>3
  <2>4. r \in Runs /\ r.pc = "activate" /\ r.id = id /\ r.plan = run[w].plan
    BY <1>0, FieldRuns
  <2>5. run' = [run EXCEPT ![w] = r]
    BY <1>3 DEF Goto
  <2> HIDE DEF e, r
  <2>6. run' \in [Workers -> Runs] /\ run'[w] = r /\ \A q \in Workers : q # w => run'[q] = run[q]
    BY <1>0, <2>4, <2>5, GotoRuns
  <2>7. /\ media' \in [rev : Nat, file : Blobs \cup {None}, dels : [Requests -> Copies \cup {None}], withdrawn : SUBSET Requests]
        /\ \A i \in Requests : i # id => media'.dels[i] = media.dels[i]
        /\ media'.dels[id] = e
    BY <1>0, <2>1, <2>3
  <2>8. Types'
    BY <1>0, <1>1, <1>3, <2>6, <2>7 DEF Types
  <2>9. ASSUME NEW i \in Requests PROVE SameCopies(i)
    <3>1. CASE i = id
      BY <1>3, <2>1, <2>2, <2>7, <3>1 DEF SameCopies
    <3>2. CASE i # id
      BY <1>3, <2>7, <3>2 DEF SameCopies
    <3> QED
      BY <3>1, <3>2
  <2>10. Runner(w)'
    <3>1. Outdated(run[w].plan)'
      BY <1>0, <1>3, <2>4, <2>6 DEF Runner, Outdated, Previous
    <3>2. req'[id].current => Placed(r, media'.dels[id])
      BY <1>0, <1>3, <2>1, <2>2, <2>4, <2>7 DEF Runner, Placed, Delivers
    <3> QED
      BY <1>0, <1>3, <2>4, <2>6, <3>1, <3>2 DEF Runner, Placed, Delivers
  <2> QED
    BY <1>1, <1>3, <2>6, <2>8, <2>9, <2>10, DeliverKeeps
<1> QED
  BY <1>2, <1>3 DEF MarkReady

\* What is withdrawn is neither current nor the release.
LEMMA WithdrawKeeps == ASSUME IInv, NEW w \in Workers, NEW old \in Requests, WithdrawPromotion(w, old) PROVE IInv'
<1>0. /\ Types /\ Runner(w) /\ run[w] \in Runs /\ run[w].pc = "withdraw" /\ old \in run[w].old
      /\ req \in [Requests -> Rows] /\ run[w].old \subseteq Requests
      /\ media \in [rev : Nat, file : Blobs \cup {None}, dels : [Requests -> Copies \cup {None}], withdrawn : SUBSET Requests]
  BY DEF IInv, Types, WithdrawPromotion, Runs
<1>1. UNCHANGED <<cat, opened, notice, fence, release, released, jobs, lock, run, writes, faults>>
  BY DEF WithdrawPromotion
<1>2. ~ req[old].current /\ old # release
  BY <1>0 DEF Runner
<1> DEFINE n == [req[old] EXCEPT !.spent = TRUE]
<1>3. n \in Rows /\ n.current = req[old].current /\ n.state = req[old].state /\ n.plan = req[old].plan /\ n.result = req[old].result
  <2>1. req[old] \in Rows
    BY <1>0
  <2> QED
    BY <2>1 DEF Rows
<1>4. req' = [req EXCEPT ![old] = n]
  BY DEF WithdrawPromotion
<1> HIDE DEF n
<1>5. /\ req' \in [Requests -> Rows]
      /\ \A i \in Requests : /\ req'[i].current = req[i].current /\ req'[i].state = req[i].state
                             /\ req'[i].plan = req[i].plan /\ req'[i].result = req[i].result
  BY <1>0, <1>3, <1>4
<1>6. media' = [media EXCEPT !.dels = [media.dels EXCEPT ![old] = None], !.withdrawn = media.withdrawn \cup {old}]
  BY <1>0 DEF WithdrawPromotion
<1>7. /\ media' \in [rev : Nat, file : Blobs \cup {None}, dels : [Requests -> Copies \cup {None}], withdrawn : SUBSET Requests]
      /\ \A i \in Requests : i # old => media'.dels[i] = media.dels[i]
  BY <1>0, <1>6
<1>8. Types'
  BY <1>0, <1>1, <1>5, <1>7 DEF Types
<1>9. ASSUME NEW i \in Requests PROVE SameCopies(i)
  <2>1. CASE i = old
    BY <1>2, <1>5, <2>1 DEF SameCopies
  <2>2. CASE i # old
    BY <1>5, <1>7, <2>2 DEF SameCopies
  <2> QED
    BY <2>1, <2>2
<1>10. ASSUME NEW q \in Workers PROVE Runner(q)'
  BY <1>1, <1>5, <1>9, DeliveriesKeep
<1> QED
  BY <1>1, <1>8, <1>9, <1>10, DeliverKeeps

\* The entry that goes afterwards pins nothing.
LEMMA RemoveKeeps == ASSUME IInv, NEW w \in Workers, NEW old \in Requests, RemoveWithdrawn(w, old) PROVE IInv'
<1>0. /\ Types /\ Runner(w) /\ run[w] \in Runs /\ run[w].pc = "withdraw" /\ run[w].old \subseteq Requests
      /\ media \in [rev : Nat, file : Blobs \cup {None}, dels : [Requests -> Copies \cup {None}], withdrawn : SUBSET Requests]
  BY DEF IInv, Types, RemoveWithdrawn, Runs
<1>1. UNCHANGED <<cat, opened, notice, fence, req, release, released, jobs, lock, writes, faults>>
  BY DEF RemoveWithdrawn
<1> DEFINE left == run[w].old \ {old}
           rest == media.withdrawn \ {old}
           r == [run[w] EXCEPT !.old = left]
<1>2. /\ media' \in [rev : Nat, file : Blobs \cup {None}, dels : [Requests -> Copies \cup {None}], withdrawn : SUBSET Requests]
      /\ media'.dels = media.dels
  <2>1. media' = [media EXCEPT !.withdrawn = rest] /\ rest \in SUBSET Requests
    BY <1>0 DEF RemoveWithdrawn
  <2> HIDE DEF rest
  <2> QED
    BY <1>0, <2>1
<1>3. r \in Runs /\ r.pc = "withdraw" /\ r.id = run[w].id /\ r.plan = run[w].plan /\ r.old = left /\ r.ret = run[w].ret
  <2>1. left \in SUBSET Requests
    BY <1>0
  <2> HIDE DEF left
  <2> QED
    BY <1>0, <2>1 DEF Runs
<1>4. run' = [run EXCEPT ![w] = r]
  BY DEF RemoveWithdrawn
<1> HIDE DEF r
<1>5. run' \in [Workers -> Runs] /\ run'[w] = r /\ \A q \in Workers : q # w => run'[q] = run[q]
  BY <1>0, <1>3, <1>4, GotoRuns
<1>6. Types'
  BY <1>0, <1>1, <1>2, <1>5 DEF Types
<1>7. ASSUME NEW i \in Requests PROVE SameCopies(i)
  BY <1>1, <1>2 DEF SameCopies
<1>8. Runner(w)'
  <2>1. Outdated(run[w].plan)'
    <3>1. Previous(run[w].plan) \subseteq Requests
      BY <1>0 DEF Previous, Runs, Plans
    <3> QED
      BY <1>0, <1>1, <1>3, <1>5, <3>1 DEF Runner, Outdated, Previous
  <2> QED
    BY <1>0, <1>1, <1>3, <1>5, <2>1 DEF Runner
<1> QED
  BY <1>1, <1>5, <1>6, <1>7, <1>8, DeliverKeeps

(***************************************************************************)
(* Activation and retirement                                               *)
(***************************************************************************)
\* The new release is the current request: no plan withdraws it, and the
\* request that retired before it is superseded.
LEMMA SwapKeeps ==
  ASSUME IInv, NEW w \in Workers, NEW id \in Requests, id = run[w].id, NEW plan, plan = run[w].plan,
         run[w].pc = "activate", req[id].current, cat' \in Catalog,
         req' = [req EXCEPT ![id].state = "retiring", ![id].result = plan], release' = id, released' = plan.released,
         run' = [run EXCEPT ![w].pc = "withdraw", ![w].ret = id, ![w].old = plan.previous \ {id}],
         UNCHANGED <<opened, media, notice, fence, jobs, lock, writes, faults>>
  PROVE  IInv'
<1>0. /\ Types /\ OneCurrent /\ (\A i \in Requests : Frozen(i)) /\ (\A q \in Workers : Runner(q))
      /\ req \in [Requests -> Rows] /\ run \in [Workers -> Runs]
  BY DEF IInv, Types
<1>1. /\ plan \in Plans /\ plan # None /\ Previous(plan) = plan.previous /\ plan.previous \subseteq Requests
      /\ \A o \in plan.previous : ~ req[o].current
      /\ media.dels[id] # None /\ media.dels[id].ready /\ Delivers(media.dels[id], plan)
  <2>1. Runner(w) /\ run[w] \in Runs
    BY <1>0
  <2>2. plan \in Plans /\ plan # None
    BY <2>1 DEF Runs, Runner
  <2>3. Previous(plan) = plan.previous /\ plan.previous \subseteq Requests
    BY <2>2 DEF Previous, Plans
  <2> QED
    BY <2>1, <2>2, <2>3 DEF Runner, Outdated, Placed
<1>2. LET n == [req[id] EXCEPT !.state = "retiring", !.result = plan] IN
        n \in Rows /\ n.plan = req[id].plan /\ n.result = plan /\ n.current = req[id].current /\ n.state = "retiring"
  <2>1. req[id] \in Rows
    BY <1>0
  <2> QED
    BY <1>1, <2>1 DEF Rows
<1>3. req' = [req EXCEPT ![id] = [req[id] EXCEPT !.state = "retiring", !.result = plan]]
  BY <1>0
<1>4. /\ req' \in [Requests -> Rows]
      /\ \A i \in Requests : req'[i].current = req[i].current /\ req'[i].plan = req[i].plan
      /\ \A i \in Requests : i # id => req'[i] = req[i]
      /\ req'[id].result = plan /\ req'[id].state = "retiring"
  BY <1>0, <1>2, <1>3
<1> DEFINE left == plan.previous \ {id}
           r == [run[w] EXCEPT !.pc = "withdraw", !.ret = id, !.old = left]
<1>5. r \in Runs /\ r.pc = "withdraw" /\ r.id = id /\ r.plan = plan /\ r.old = left /\ r.ret = id
  <2>1. left \in SUBSET Requests /\ run[w] \in Runs
    BY <1>0, <1>1
  <2> HIDE DEF left
  <2> QED
    BY <2>1 DEF Runs
<1>6. run' = [run EXCEPT ![w] = r]
  BY <1>0
<1> HIDE DEF r
<1>7. run' \in [Workers -> Runs] /\ run'[w] = r /\ \A q \in Workers : q # w => run'[q] = run[q]
  BY <1>0, <1>5, <1>6, GotoRuns
<1>8. Types'
  <2>1. released' \in BOOLEAN
    BY <1>1 DEF Plans
  <2> QED
    BY <1>0, <1>4, <1>7, <2>1 DEF Types
<1>9. OneCurrent'
  BY <1>0, <1>4 DEF OneCurrent
<1>10. ASSUME NEW p \in Plans \cup {None}, \A o \in Previous(p) : ~ req[o].current
       PROVE  id \notin Previous(p) /\ \A o \in Previous(p) : ~ req'[o].current
  <2>1. Previous(p) \subseteq Requests
    BY DEF Previous, Plans
  <2> QED
    BY <1>4, <1>10, <2>1
<1>11. ASSUME NEW i \in Requests PROVE Frozen(i)'
  <2>0. Frozen(i) /\ req[i] \in Rows /\ req'[i] \in Rows
    BY <1>0, <1>4
  <2>1. /\ \A o \in Previous(req'[i].plan) : ~ req'[o].current
        /\ \A o \in Previous(req'[i].result) : ~ req'[o].current
        /\ id \notin Previous(req'[i].result)
    <3>1. \A o \in Previous(req[i].plan) : ~ req[o].current
      BY <2>0 DEF Frozen, Outdated
    <3>2. \A o \in Previous(req'[i].result) : ~ req[o].current
      <4>1. CASE i = id
        BY <1>1, <1>4, <4>1
      <4>2. CASE i # id
        BY <1>4, <2>0, <4>2 DEF Frozen, Outdated
      <4> QED
        BY <4>1, <4>2
    <3>3. req[i].plan \in Plans \cup {None} /\ req'[i].result \in Plans \cup {None} /\ req'[i].plan = req[i].plan
      BY <1>4, <2>0 DEF Rows
    <3> QED
      BY <1>10, <3>1, <3>2, <3>3
  <2>2. Outdated(req[i].plan)' /\ Outdated(req[i].result)'
    BY <2>1 DEF Outdated, Previous
  <2>3. req'[i].state = "retiring" => /\ req'[i].result # None
                                      /\ req'[i].current => i = id
    <3>1. CASE i = id
      BY <1>1, <1>4, <3>1
    <3>2. CASE i # id
      BY <1>0, <1>4, <2>0, <3>2 DEF Frozen, OneCurrent
    <3> QED
      BY <3>1, <3>2
  <2>4. req'[i].current /\ req'[i].plan # None =>
          req'[i].plan.view \subseteq Sources(req'[i].plan) /\ (media'.dels[i] # None => Covers(media'.dels[i], req'[i].plan))
    BY <1>4, <2>0 DEF Frozen, Covers, Sources
  <2>5. req'[i].current /\ req'[i].plan = None => req'[i].state \in {"retiring", "completed"} \/ media'.dels[i] = None
    BY <1>4, <2>0 DEF Frozen
  <2> QED
    BY <2>1, <2>2, <2>3, <2>4, <2>5 DEF Frozen, Sources, Covers, Previous
<1>12. Served'
  <2>1. Prior' = plan
    BY <1>4, NamesAssumption DEF Prior
  <2> QED
    BY <1>1, <1>4, <2>1 DEF Served, Delivers
<1>13. ASSUME NEW q \in Workers PROVE Runner(q)'
  <2>0. Runner(q) /\ run[q] \in Runs
    BY <1>0
  <2>1. CASE q = w
    <3>1. Outdated(run[q].plan)'
      BY <1>1, <1>4, <1>5, <1>7, <2>1 DEF Outdated, Previous
    <3>2. \A o \in left : o # id /\ ~ req'[o].current
      BY <1>1, <1>4
    <3> HIDE DEF left
    <3> QED
      BY <1>1, <1>5, <1>7, <2>0, <2>1, <3>1, <3>2 DEF Runner
  <2>2. CASE q # w
    <3>1. run'[q] = run[q]
      BY <1>7, <2>2
    <3>2. Outdated(run[q].plan)'
      <4>1. \A o \in Previous(run[q].plan) : ~ req[o].current
        BY <2>0 DEF Runner, Outdated
      <4>2. run[q].plan \in Plans \cup {None}
        BY <2>0 DEF Runs
      <4>3. \A o \in Previous(run[q].plan) : ~ req'[o].current
        BY <1>10, <4>1, <4>2
      <4> QED
        BY <3>1, <4>3 DEF Outdated, Previous
    <3>3. run[q].pc # "idle" => run[q].id \in Requests
      BY <2>0 DEF Runner
    <3>4. run[q].pc = "withdraw" => run[q].ret \in Requests /\ \A o \in run[q].old : o # id /\ ~ req'[o].current
      BY <1>4, <2>0 DEF Runner, Runs
    <3>5. run[q].pc \in {"copy", "promote"} =>
            /\ run[q].plan.view \subseteq Sources(run[q].plan)
            /\ req'[run[q].id].current =>
                 req'[run[q].id].plan = run[q].plan \/ (media.dels[run[q].id] # None /\ Covers(media.dels[run[q].id], run[q].plan))
      BY <1>4, <2>0, <3>3 DEF Runner
    <3>6. run[q].pc \in {"ready", "activate"} /\ req'[run[q].id].current => Placed(run[q], media.dels[run[q].id])
      BY <1>4, <2>0, <3>3 DEF Runner
    <3>7. /\ run[q].pc \in {"copy", "promote", "ready", "activate", "withdraw"} => run[q].plan # None
          /\ lock = q => run[q].pc \notin {"idle", "lock"}
      BY <2>0 DEF Runner
    <3> QED
      BY <3>1, <3>2, <3>3, <3>4, <3>5, <3>6, <3>7 DEF Runner, Covers, Placed, Delivers, Sources
  <2> QED
    BY <2>1, <2>2
<1> QED
  BY <1>8, <1>9, <1>11, <1>12, <1>13 DEF IInv

LEMMA ActivateKeeps == ASSUME IInv, NEW w \in Workers, Activate(w) PROVE IInv'
<1> DEFINE id == run[w].id
           plan == run[w].plan
<1>0. /\ Types /\ Carried(req) /\ Runner(w) /\ run[w].pc = "activate" /\ id \in Requests /\ cat \in Catalog
      /\ UNCHANGED <<opened, media, notice, fence, writes, faults>> /\ plan \in Plans
  BY RowsCarried DEF IInv, Types, Activate, Runner, Runs
<1>1. CASE Failed(w) /\ UNCHANGED <<release, released, cat>>
  BY <1>0, <1>1, FailedKeeps DEF Types
<1>2. CASE Done(w) /\ UNCHANGED <<req, jobs, release, released, cat>>
  BY <1>0, <1>2, DoneKeeps DEF Types
<1>3. CASE HasRoom /\ ScheduleAt(req, "now") /\ Done(w) /\ UNCHANGED <<release, released, cat>>
  <2>1. Carried(req') /\ jobs' \subseteq Requests \X Dues
    BY <1>0, <1>3, ScheduleKeeps DEF HasRoom, Dues
  <2> QED
    BY <1>0, <1>3, <2>1, DoneKeeps DEF Types
<1>4. CASE /\ req[id].current
           /\ req' = [req EXCEPT ![id].state = "retiring", ![id].result = plan]
           /\ release' = id /\ released' = plan.released
           /\ cat' = [cat EXCEPT !.published = @ \/ (plan.released /\ ~ plan.retained)]
           /\ run' = [run EXCEPT ![w].pc = "withdraw", ![w].ret = id, ![w].old = plan.previous \ {id}]
           /\ UNCHANGED <<jobs, lock>>
  <2>1. cat' \in Catalog
    <3>1. (cat.published \/ (plan.released /\ ~ plan.retained)) \in BOOLEAN
      OBVIOUS
    <3> QED
      BY <1>0, <1>4, <3>1 DEF Catalog
  <2> QED
    BY <1>0, <1>4, <2>1, SwapKeeps
<1> QED
  BY <1>1, <1>2, <1>3, <1>4 DEF Activate

\* A run goes on, or ends.
LEMMA RetiredKeeps ==
  ASSUME IInv, NEW w \in Workers, run[w].pc # "idle", Retired(w), Carried(req'), jobs' \subseteq Requests \X Dues,
         UNCHANGED <<cat, opened, media, notice, fence, release, released, writes, faults>>
  PROVE  IInv'
<1>0. Types /\ Runner(w) /\ run[w].id \in Requests
  BY DEF IInv, Runner
<1>1. CASE Done(w)
  BY <1>0, <1>1, DoneKeeps DEF Types
<1> DEFINE r == [Idle EXCEPT !.pc = "drain", !.id = run[w].id]
<1>2. CASE run' = [run EXCEPT ![w] = r] /\ UNCHANGED lock
  <2>1. r \in Runs /\ r.pc = "drain" /\ r.id \in Requests /\ r.plan = None
    BY <1>0 DEF Idle, Runs
  <2> HIDE DEF r
  <2>2. run' \in [Workers -> Runs] /\ run'[w] = r /\ \A q \in Workers : q # w => run'[q] = run[q]
    BY <1>0, <1>2, <2>1, GotoRuns
  <2>3. Types'
    BY <1>0, <1>2, <2>2 DEF Types, Carried
  <2>4. Runner(w)'
    BY <2>1, <2>2 DEF Runner, Outdated, Previous
  <2> QED
    BY <1>0, <1>2, <2>2, <2>3, <2>4, RunKeeps
<1> QED
  BY <1>1, <1>2 DEF Retired

\* A retired request is completed without its plan; only the release's own
\* request is still current then.
LEMMA FinishKeeps == ASSUME IInv, NEW w \in Workers, FinishRetirement(w) PROVE IInv'
<1> DEFINE i == run[w].ret
           next == run[w].plan.next
           base == [req EXCEPT ![i].state = "completed", ![i].plan = None]
           rows == Pruned(base, TRUE)
<1>0. /\ Types /\ Carried(req) /\ Runner(w) /\ run[w].pc = "withdraw" /\ i \in Requests /\ run[w].id \in Requests
      /\ req \in [Requests -> Rows] /\ next \in {"later", None} /\ Frozen(i)
      /\ UNCHANGED <<cat, opened, media, notice, fence, release, released, writes, faults>>
  <2>1. Types /\ Runner(w) /\ run[w].pc = "withdraw" /\ run[w] \in Runs
    BY DEF IInv, Types, FinishRetirement
  <2>2. i \in Requests /\ run[w].id \in Requests /\ run[w].plan \in Plans
    BY <2>1 DEF Runner, Runs
  <2> QED
    BY <2>1, <2>2, RowsCarried DEF IInv, Types, Plans, FinishRetirement
<1>1. CASE req[i].state = "retiring" /\ Retired(w)
           /\ IF req[i].current /\ next # None THEN Spare(rows) # {} /\ ScheduleAt(rows, next) ELSE req' = rows /\ UNCHANGED jobs
  <2>1. LET n == [req[i] EXCEPT !.state = "completed", !.plan = None] IN
          n \in Rows /\ n.plan = None /\ n.result = req[i].result /\ n.current = req[i].current /\ n.state = "completed"
    <3>1. req[i] \in Rows
      BY <1>0
    <3> QED
      BY <3>1 DEF Rows
  <2>2. base = [req EXCEPT ![i] = [req[i] EXCEPT !.state = "completed", !.plan = None]]
    BY <1>0
  <2> HIDE DEF base
  <2>3. /\ base \in [Requests -> Rows]
        /\ \A j \in Requests : base[j].current = req[j].current /\ base[j].result = req[j].result
        /\ \A j \in Requests : j # i => base[j] = req[j]
        /\ base[i].plan = None /\ base[i].state = "completed"
    BY <1>0, <2>1, <2>2
  <2>4. ASSUME NEW j \in Requests PROVE Carries(j, base)
    <3>1. Carries(j, req)
      BY <1>0 DEF Carried
    <3>2. ~ Unknown(j, req) \/ Unknown(j, base)
      BY <2>3 DEF Unknown, Previous
    <3>3. CASE j = i
      <4>1. req[i].current => i = release
        BY <1>0, <1>1 DEF Frozen
      <4> QED
        BY <2>3, <3>1, <3>3, <4>1 DEF Carries
    <3>4. CASE j # i
      BY <2>3, <3>1, <3>2, <3>4 DEF Carries
    <3> QED
      BY <3>3, <3>4
  <2>5. Carried(base)
    BY <1>0, <2>3, <2>4 DEF Carried
  <2>6. Carried(rows)
    BY <1>0, <2>5, PrunedCarried
  <2> HIDE DEF rows
  <2>7. Carried(req') /\ jobs' \subseteq Requests \X Dues
    BY <1>0, <1>1, <2>6, ScheduleKeeps DEF Types, Dues
  <2> QED
    BY <1>0, <1>1, <2>7, RetiredKeeps
<1>2. CASE Retired(w) /\ UNCHANGED <<req, jobs>>
  BY <1>0, <1>2, RetiredKeeps DEF Types
<1>3. CASE jobs' = jobs \cup {<<run[w].id, "now">>} /\ Done(w) /\ UNCHANGED req
  <2>1. jobs' \subseteq Requests \X Dues
    BY <1>0, <1>3 DEF Types, Dues
  <2> QED
    BY <1>0, <1>3, <2>1, DoneKeeps DEF Types
<1> QED
  BY <1>1, <1>2, <1>3 DEF FinishRetirement

(***************************************************************************)
(* Faults                                                                  *)
(***************************************************************************)
LEMMA FaultKeeps == ASSUME IInv, NEW w \in Workers, Fail(w) \/ Crash(w) \/ LoseLock(w) PROVE IInv'
<1>0. Types /\ Carried(req) /\ Runner(w) /\ faults \in Nat
  BY RowsCarried DEF IInv, Types
<1>1. CASE Fail(w)
  BY <1>0, <1>1, FailedKeeps DEF Fail
<1>2. CASE Crash(w)
  <2>1. run[w].id \in Requests
    BY <1>0, <1>2 DEF Runner, Crash
  <2>2. jobs' \subseteq Requests \X Dues /\ faults' \in Nat
    BY <1>0, <1>2, <2>1 DEF Crash, Types, Dues
  <2> QED
    BY <1>0, <1>2, <2>2, DoneKeeps DEF Crash
<1>3. CASE LoseLock(w)
  <2>1. /\ UNCHANGED <<cat, opened, media, notice, fence, req, release, released, jobs, run, writes>>
        /\ lock' = None /\ faults' = faults + 1
    BY <1>3 DEF LoseLock
  <2>2. Types' /\ Carried(req')
    BY <1>0, <2>1 DEF Types
  <2>3. \A q \in Workers : run'[q] = run[q] /\ (lock' = q => lock = q)
    BY <2>1, NamesAssumption
  <2> QED
    BY <2>1, <2>2, <2>3, CarryKeeps DEF IInv
<1> QED
  BY <1>1, <1>2, <1>3

LEMMA StepInv == IInv /\ [Next]_vars => IInv'
<1> SUFFICES ASSUME IInv, [Next]_vars PROVE IInv'
  OBVIOUS
<1>1. CASE Publish("now") \/ (~ opened /\ Publish("later")) \/ Unpublish \/ Update \/ Delete \/ Restore
  BY <1>1, CatalogKeeps
<1>2. CASE SyncFences \/ Open \/ Upload \/ ItemCommitted \/ Processed
  BY <1>2, ManifestKeeps
<1>3. ASSUME NEW w \in Workers, Work(w) PROVE IInv'
  <2>1. CASE \E j \in jobs : Take(w, j)
    BY <2>1, TakeKeeps
  <2>2. CASE LockSource(w) \/ Drain(w) \/ Prepare(w)
    BY <2>2, LockSourceKeeps, DrainKeeps, PrepareKeeps
  <2>3. CASE PreparePromotion(w) \/ Promote(w) \/ MarkReady(w) \/ Activate(w)
    BY <2>3, PreparePromotionKeeps, PromoteKeeps, MarkReadyKeeps, ActivateKeeps
  <2>4. CASE \E old \in Requests : WithdrawPromotion(w, old) \/ RemoveWithdrawn(w, old)
    BY <2>4, WithdrawKeeps, RemoveKeeps
  <2>5. CASE FinishRetirement(w)
    BY <2>5, FinishKeeps
  <2> QED
    BY <1>3, <2>1, <2>2, <2>3, <2>4, <2>5 DEF Work
<1>4. CASE UNCHANGED vars
  <2>1. UNCHANGED <<cat, opened, media, notice, fence, req, release, released, jobs, lock, run, writes, faults>>
    BY <1>4 DEF vars
  <2>2. Types /\ Carried(req)
    BY RowsCarried DEF IInv
  <2>3. Types' /\ Carried(req')
    BY <2>1, <2>2 DEF Types
  <2> QED
    BY <2>1, <2>3, Quiet
<1> QED
  BY <1>1, <1>2, <1>3, <1>4, FaultKeeps DEF Next

\* The invariant, and with it types, one current request and bytes that stay.
THEOREM Invariance == Spec => []IInv
<1> QED
  BY InitInv, StepInv, PTL DEF Spec

\* What readers are given stays in storage, and the release names a request
\* that is kept (promotions, Activate, finishRetirement).
THEOREM ReleaseHolds == Spec => []ReleaseOK
<1> QED
  BY Invariance, InvImpliesOK, PTL

(***************************************************************************)
(* Steps                                                                   *)
(***************************************************************************)
\* A delivery that goes is neither the release's nor that of the request which
\* is to replace it.
WithdrawsOld ==
  [][\A i \in Requests : media.dels[i] # None /\ media'.dels[i] = None => i # release /\ ~ req[i].current]_vars

\* Only the current request becomes the release, and its delivery is ready then.
SwapsToCurrent ==
  [][release' # release => release' \in Requests /\ req[release'].current /\ media.dels[release'] # None /\ media.dels[release'].ready]_vars

LEMMA CatalogSteps ==
  ASSUME IInv, Next, \A w \in Workers : ~ Work(w)
  PROVE  media'.dels = media.dels /\ release' = release
<1> USE DEF Write
<1>1. CASE Publish("now") \/ (~ opened /\ Publish("later")) \/ Unpublish \/ Update \/ Delete \/ Restore
  BY <1>1 DEF Publish, Unpublish, Update, Delete, Restore
<1>2. CASE SyncFences \/ Open \/ ItemCommitted
  BY <1>2 DEF SyncFences, Open, ItemCommitted
<1>3. CASE Upload \/ Processed
  BY <1>3 DEF Upload, Processed, IInv, Types
<1>4. ASSUME NEW w \in Workers, Fail(w) \/ Crash(w) \/ LoseLock(w) PROVE media'.dels = media.dels /\ release' = release
  BY <1>4 DEF Fail, Crash, LoseLock
<1> QED
  BY <1>1, <1>2, <1>3, <1>4 DEF Next

LEMMA WorkSteps ==
  ASSUME IInv, NEW w \in Workers, Work(w)
  PROVE  /\ \A i \in Requests : media.dels[i] # None /\ media'.dels[i] = None => i # release /\ ~ req[i].current
         /\ release' # release => release' \in Requests /\ req[release'].current /\ media.dels[release'] # None /\ media.dels[release'].ready
<1>0. /\ Runner(w) /\ run[w].old \subseteq Requests
      /\ media \in [rev : Nat, file : Blobs \cup {None}, dels : [Requests -> Copies \cup {None}], withdrawn : SUBSET Requests]
  BY DEF IInv, Types, Runs
<1>1. CASE (\E j \in jobs : Take(w, j)) \/ LockSource(w) \/ Drain(w) \/ Prepare(w) \/ FinishRetirement(w)
  BY <1>1 DEF Take, LockSource, Drain, Prepare, FinishRetirement
<1>2. CASE PreparePromotion(w)
  <2> DEFINE id == run[w].id
             d == [files |-> {[src |-> c.src, dst |-> Copied(c, id)] : c \in run[w].plan.copies}, adopted |-> FALSE, ready |-> FALSE]
  <2>1. /\ release' = release
        /\ media' = media \/ (media.dels[id] = None /\ media' = [media EXCEPT !.dels = [media.dels EXCEPT ![id] = d]])
    BY <1>0, <1>2 DEF PreparePromotion
  <2> HIDE DEF d
  <2> QED
    BY <1>0, <2>1
<1>3. CASE Promote(w)
  <2> DEFINE id == run[w].id
             d == media.dels[id]
             e == [d EXCEPT !.adopted = TRUE]
             file == IF media.file = None THEN None ELSE Destination(media.file, d.files)
  <2>1. id \in Requests /\ release' = release
    BY <1>0, <1>3 DEF Promote, Runner
  <2>2. CASE d \in Copies
    <3>1. e \in Copies
      BY <2>2 DEF Copies
    <3>2. media' = media \/ media' = [media EXCEPT !.file = file, !.dels = [media.dels EXCEPT ![id] = e]]
      <4>1. \/ media' = media
            \/ media' = [media EXCEPT !.file = IF @ = None THEN None ELSE Destination(@, d.files), !.dels[id].adopted = TRUE]
        BY <1>3 DEF Promote
      <4> QED
        BY <1>0, <4>1
    <3>3. e # None /\ [media.dels EXCEPT ![id] = e] \in [Requests -> Copies \cup {None}]
      BY <1>0, <3>1, NamesAssumption
    <3> HIDE DEF e, file
    <3>4. \A i \in Requests : media.dels[i] # None => media'.dels[i] # None
      BY <1>0, <3>2, <3>3
    <3> QED
      BY <2>1, <3>4
  <2>3. CASE d = None
    BY <1>3, <2>1, <2>3 DEF Promote
  <2> QED
    BY <1>0, <2>1, <2>2, <2>3
<1>4. CASE Activate(w)
  <2>1. media' = media /\ (release' = release \/ (release' = run[w].id /\ req[run[w].id].current /\ run[w].pc = "activate"))
    BY <1>4 DEF Activate
  <2> QED
    BY <1>0, <2>1 DEF Runner, Placed
<1>5. CASE MarkReady(w)
  <2> DEFINE id == run[w].id
             d == media.dels[id]
             e == [d EXCEPT !.ready = TRUE]
  <2>1. id \in Requests /\ release' = release
    BY <1>0, <1>5 DEF MarkReady, Runner
  <2>2. CASE d = None
    BY <1>5, <2>1, <2>2 DEF MarkReady
  <2>3. CASE d # None
    <3>1. d \in Copies
      BY <1>0, <2>1, <2>3
    <3>2. e \in Copies
      BY <3>1 DEF Copies
    <3>3. media' = [media EXCEPT !.dels = [media.dels EXCEPT ![id] = e]]
      BY <1>0, <1>5, <2>3 DEF MarkReady
    <3>4. e # None
      BY <3>2, NamesAssumption
    <3> HIDE DEF e
    <3> QED
      BY <1>0, <2>1, <3>3, <3>4
  <2> QED
    BY <2>2, <2>3
<1>6. ASSUME NEW old \in Requests, WithdrawPromotion(w, old) \/ RemoveWithdrawn(w, old)
      PROVE  /\ \A i \in Requests : media.dels[i] # None /\ media'.dels[i] = None => i # release /\ ~ req[i].current
             /\ release' = release
  <2>1. old # release /\ ~ req[old].current
    BY <1>0, <1>6 DEF Runner, WithdrawPromotion, RemoveWithdrawn
  <2>2. \A i \in Requests \ {old} : media'.dels[i] = media.dels[i]
    BY <1>0, <1>6 DEF WithdrawPromotion, RemoveWithdrawn
  <2>3. release' = release
    BY <1>6 DEF WithdrawPromotion, RemoveWithdrawn
  <2> QED
    BY <2>1, <2>2, <2>3
<1> QED
  BY <1>1, <1>2, <1>3, <1>4, <1>5, <1>6 DEF Work

\* No withdrawal takes what readers have or are about to get.
THEOREM WithdrawalsAreOld == Spec => WithdrawsOld
<1>1. IInv /\ [Next]_vars =>
        [\A i \in Requests : media.dels[i] # None /\ media'.dels[i] = None => i # release /\ ~ req[i].current]_vars
  <2> SUFFICES ASSUME IInv, Next
               PROVE  \A i \in Requests : media.dels[i] # None /\ media'.dels[i] = None => i # release /\ ~ req[i].current
    BY DEF vars
  <2>1. CASE \E w \in Workers : Work(w)
    BY <2>1, WorkSteps
  <2>2. CASE \A w \in Workers : ~ Work(w)
    BY <2>2, CatalogSteps
  <2> QED
    BY <2>1, <2>2
<1> QED
  BY <1>1, Invariance, PTL DEF Spec, WithdrawsOld

\* The release moves to the current request alone, whoever holds the lock.
THEOREM SwapsAreCurrent == Spec => SwapsToCurrent
<1>1. IInv /\ [Next]_vars =>
        [release' # release => release' \in Requests /\ req[release'].current /\ media.dels[release'] # None /\ media.dels[release'].ready]_vars
  <2> SUFFICES ASSUME IInv, Next
               PROVE  release' # release => release' \in Requests /\ req[release'].current /\ media.dels[release'] # None /\ media.dels[release'].ready
    BY DEF vars
  <2>1. CASE \E w \in Workers : Work(w)
    BY <2>1, WorkSteps
  <2>2. CASE \A w \in Workers : ~ Work(w)
    BY <2>2, CatalogSteps
  <2> QED
    BY <2>1, <2>2
<1> QED
  BY <1>1, Invariance, PTL DEF Spec, SwapsToCurrent
==============================================================================
