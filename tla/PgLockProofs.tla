----------------------------- MODULE PgLockProofs -----------------------------
(***************************************************************************)
(* PgLock's safety, and that it implements KeyLock, for any processes,     *)
(* goroutines, keys, sessions and faults.                                  *)
(*                                                                         *)
(* The argument: what is locked on the session a process uses is what its  *)
(* goroutines hold there, each key by one of them.  So a key that held     *)
(* does not name is not locked on that session, and taking it there cannot *)
(* be the re-entrant kind; nor can it be on a waiter's own session, which  *)
(* holds nothing before it is granted its key.  Every lock is therefore    *)
(* taken once, and belongs to one goroutine while its session lasts.       *)
(***************************************************************************)
EXTENDS PgLock, TLAPS

\* The server's lock table: a key is free, or held by a session it has.
LockOK(k) ==
  /\ locks[k].n = 0 => locks[k].by = None
  /\ locks[k].by # None => locks[k].by \in live
Table == \A k \in Keys : LockOK(k)

\* No two processes use one session.
ConnsOwn == \A n, m \in Nodes : conn[n] = conn[m] /\ conn[n] # None => n = m

\* A waiter's session is its own and holds nothing yet; a holder's session is
\* its own, or its process uses it and remembers the key, or it is forgotten.
Own(p) ==
  /\ sess[p] \in Sessions
  /\ \A n \in Nodes : conn[n] # sess[p]
  /\ \A q \in Procs : sess[q] = sess[p] => q = p
Client(p) ==
  /\ pc[p] \in {"idle", "queue"} => sess[p] = None
  /\ pc[p] # "idle" => want[p] \in Keys
  /\ pc[p] \in {"waiting", "alone"} => Own(p)
  /\ pc[p] = "waiting" => \A k \in Keys : locks[k].by # sess[p]
  /\ pc[p] = "shared" =>
       /\ sess[p] \in Sessions
       /\ \A n \in Nodes : conn[n] = sess[p] => n = NodeOf[p] /\ want[p] \in held[n]
Clients == \A p \in Procs : Client(p)

\* What a goroutine holds is locked for its session, once.
LockedOnce ==
  \A k \in Keys, p \in Procs : Holding(p, k) => locks[k].by = sess[p] /\ locks[k].n = 1

\* Goroutines that share a session hold different keys on it.
SharedOnce ==
  \A p, q \in Procs :
    pc[p] = "shared" /\ pc[q] = "shared" /\ sess[p] = sess[q] /\ want[p] = want[q] => p = q

IInv == TypeOK /\ Table /\ ConnsOwn /\ Clients /\ SharedOnce /\ LockedOnce /\ NothingLeaked

\* The invariant is as strong as the property.
LEMMA InvImpliesLocksOK == IInv => LocksOK
<1> SUFFICES ASSUME IInv PROVE LocksOK
  OBVIOUS
<1>1. HoldersLocked
  <2> SUFFICES ASSUME NEW k \in Keys, NEW p \in Procs, Holding(p, k) PROVE locks[k] = [by |-> sess[p], n |-> 1]
    BY DEF HoldersLocked
  <2>1. locks[k].by = sess[p] /\ locks[k].n = 1 /\ locks[k] \in [by : Sessions \cup {None}, n : Nat]
    BY DEF IInv, LockedOnce, TypeOK
  <2> QED
    BY <2>1
<1>2. Exclusion
  <2> SUFFICES ASSUME NEW k \in Keys, NEW p \in Procs, NEW q \in Procs, Holding(p, k), Holding(q, k) PROVE p = q
    BY DEF Exclusion
  <2>1. sess[p] = sess[q] /\ want[p] = want[q]
    BY DEF IInv, LockedOnce, Holding
  <2>2. CASE pc[p] = "alone" \/ pc[q] = "alone"
    BY <2>1, <2>2 DEF IInv, Clients, Client, Own
  <2>3. CASE pc[p] = "shared" /\ pc[q] = "shared"
    BY <2>1, <2>3 DEF IInv, SharedOnce
  <2> QED
    BY <2>2, <2>3 DEF Holding
<1> QED
  BY <1>1, <1>2 DEF IInv, LocksOK

(***************************************************************************)
(* What the steps rely on                                                  *)
(***************************************************************************)
\* A key is taken on a process's session only while nobody holds it.
LEMMA TakesFree ==
  ASSUME IInv, NEW n \in Nodes, NEW k \in Keys, NEW s \in Sessions,
         k \notin held[n], Connected(n, s), Grantable(k, s)
  PROVE  /\ locks[k].n = 0 /\ locks[k].by = None
         /\ Granted(k, s)[k].by = s /\ Granted(k, s)[k].n = 1
         /\ \A j \in Keys \ {k} : Granted(k, s)[j] = locks[j]
         /\ \A q \in Procs : ~ Holding(q, k)
<1>1. LockOK(k) /\ locks \in [Keys -> [by : Sessions \cup {None}, n : Nat]]
  BY DEF IInv, Table, TypeOK
<1>2. locks[k].by # s
  <2>1. CASE conn[n] = s /\ s # None
    BY <2>1 DEF IInv, NothingLeaked
  <2>2. CASE Unused(s)
    BY <2>2, <1>1, NoneAssumption DEF Unused, LockOK
  <2> QED
    BY <2>1, <2>2 DEF Connected
<1>3. locks[k].n = 0 /\ locks[k].by = None
  BY <1>1, <1>2 DEF Grantable, LockOK
<1>4. /\ Granted(k, s)[k].by = s /\ Granted(k, s)[k].n = 1
      /\ \A j \in Keys \ {k} : Granted(k, s)[j] = locks[j]
  BY <1>1, <1>3 DEF Granted
<1>5. \A q \in Procs : ~ Holding(q, k)
  BY <1>3 DEF IInv, LockedOnce
<1> QED
  BY <1>3, <1>4, <1>5

\* A session a process takes is its own, and only its own goroutines' keys are
\* locked on it.
LEMMA ConnectsOwn ==
  ASSUME IInv, NEW n \in Nodes, NEW s \in Sessions, Connected(n, s)
  PROVE  /\ s # None /\ live' \subseteq live \cup {s} /\ live \subseteq live'
         /\ \A m \in Nodes \ {n} : conn[m] # s
         /\ \A q \in Procs : sess[q] = s => pc[q] = "shared" /\ NodeOf[q] = n /\ conn[n] = s
<1>1. s # None
  BY NoneAssumption
<1>2. CASE conn[n] = s /\ live' = live
  <2>1. \A m \in Nodes \ {n} : conn[m] # s
    BY <1>1, <1>2 DEF IInv, ConnsOwn
  <2>2. ASSUME NEW q \in Procs, sess[q] = s PROVE pc[q] = "shared" /\ NodeOf[q] = n
    <3>1. Client(q) /\ pc[q] \in {"idle", "queue", "waiting", "shared", "alone"}
      BY DEF IInv, Clients, TypeOK
    <3> QED
      BY <3>1, <2>2, <1>1, <1>2 DEF Client, Own
  <2> QED
    BY <1>1, <1>2, <2>1, <2>2
<1>3. CASE Unused(s) /\ live' = live \cup {s}
  BY <1>1, <1>3 DEF Unused
<1> QED
  BY <1>2, <1>3 DEF Connected

(***************************************************************************)
(* Types                                                                   *)
(***************************************************************************)
LEMMA InitIInv == Init => IInv
<1> SUFFICES ASSUME Init PROVE IInv
  OBVIOUS
<1>1. TypeOK
  BY FaultAssumption DEF Init, TypeOK, Free
<1>2. Table /\ ConnsOwn /\ Clients /\ SharedOnce
  BY DEF Init, Free, Table, LockOK, ConnsOwn, Clients, Client, SharedOnce
<1>3. LockedOnce /\ NothingLeaked
  BY DEF Init, LockedOnce, NothingLeaked, Holding
<1> QED
  BY <1>1, <1>2, <1>3 DEF IInv

\* Steps keep the types; a key is unlocked only while it is locked.
LEMMA GrantTypes ==
  ASSUME TypeOK, NEW k \in Keys, NEW s \in Sessions
  PROVE  Granted(k, s) \in [Keys -> [by : Sessions \cup {None}, n : Nat]]
BY DEF TypeOK, Granted

LEMMA NextTypes == IInv /\ Next => TypeOK'
<1> SUFFICES ASSUME IInv, Next PROVE TypeOK'
  OBVIOUS
<1>0. TypeOK /\ MaxFaults \in Nat /\ NodeOf \in [Procs -> Nodes]
  BY FaultAssumption, NodeAssumption DEF IInv
<1>1. ASSUME NEW p \in Procs, NEW k \in Keys, Try(p, k) PROVE TypeOK'
  <2>1. NodeOf[p] \in Nodes
    BY <1>0
  <2>2. CASE locks' = locks
    BY <1>0, <1>1, <2>1, <2>2 DEF Try, Become, Connected, TypeOK
  <2>3. CASE locks' # locks
    <3>1. PICK s \in Sessions : locks' = Granted(k, s) /\ Connected(NodeOf[p], s) /\ Become(p, "shared", k, s)
                              /\ conn' = [conn EXCEPT ![NodeOf[p]] = s]
                              /\ held' = [held EXCEPT ![NodeOf[p]] = @ \cup {k}] /\ UNCHANGED faults
      BY <1>1, <2>3 DEF Try
    <3>2. locks' \in [Keys -> [by : Sessions \cup {None}, n : Nat]]
      BY <3>1, <1>0, GrantTypes
    <3> QED
      BY <1>0, <2>1, <3>1, <3>2 DEF Become, Connected, TypeOK
  <2> QED
    BY <2>2, <2>3
<1>2. ASSUME NEW p \in Procs, NEW k \in Keys, TryFails(p, k) PROVE TypeOK'
  <2>1. NodeOf[p] \in Nodes
    BY <1>0
  <2>2. PICK s \in Sessions : Connected(NodeOf[p], s) /\ (locks' = locks \/ locks' = Granted(k, s))
    BY <1>2 DEF TryFails
  <2>3. locks' \in [Keys -> [by : Sessions \cup {None}, n : Nat]]
    BY <2>2, <1>0, GrantTypes DEF TypeOK
  <2>4. live' \subseteq Sessions /\ faults' \in Nat
    BY <1>0, <1>2, <2>2 DEF TryFails, Connected, Fault, TypeOK
  <2> QED
    BY <1>0, <1>2, <2>1, <2>3, <2>4 DEF TryFails, Forget, TypeOK
<1>3. ASSUME NEW p \in Procs, Queue(p) \/ GiveUp(p) \/ Close(p) PROVE TypeOK'
  BY <1>0, <1>3 DEF Queue, GiveUp, Close, Return, Become, TypeOK
<1>4. ASSUME NEW p \in Procs, Grant(p) PROVE TypeOK'
  <2>1. want[p] \in Keys /\ sess[p] \in Sessions
    BY <1>4 DEF Grant, IInv, Clients, Client, Own
  <2>2. locks' \in [Keys -> [by : Sessions \cup {None}, n : Nat]]
    BY <2>1, <1>0, <1>4, GrantTypes DEF Grant
  <2> QED
    BY <1>0, <1>4, <2>1, <2>2 DEF Grant, Become, TypeOK
<1>5. ASSUME NEW p \in Procs, Release(p) PROVE TypeOK'
  <2>1. want[p] \in Keys /\ NodeOf[p] \in Nodes /\ LockOK(want[p])
    BY <1>0, <1>5 DEF Release, IInv, Clients, Client, Table
  <2>2. conn[NodeOf[p]] \in live => conn[NodeOf[p]] # None
    BY <1>0, NoneAssumption DEF TypeOK
  <2>3. locks' \in [Keys -> [by : Sessions \cup {None}, n : Nat]]
    <3>1. CASE locks' = locks
      BY <3>1, <1>0 DEF TypeOK
    <3>2. CASE locks' = Unlocked(want[p]) /\ locks[want[p]].by # None
      <4> DEFINE l == locks[want[p]]
      <4>1. l \in [by : Sessions \cup {None}, n : Nat] /\ l.n # 0
        BY <3>2, <2>1, <1>0 DEF LockOK, TypeOK
      <4>2. l.n - 1 \in Nat
        BY <4>1
      <4>3. Free \in [by : Sessions \cup {None}, n : Nat]
        BY DEF Free
      <4>4. [by |-> l.by, n |-> l.n - 1] \in [by : Sessions \cup {None}, n : Nat]
        BY <4>1, <4>2
      <4> DEFINE r == IF l.n = 1 THEN Free ELSE [by |-> l.by, n |-> l.n - 1]
      <4>5. r \in [by : Sessions \cup {None}, n : Nat]
        BY <4>3, <4>4
      <4>6. locks' = [j \in Keys |-> IF j = want[p] THEN r ELSE locks[j]]
        BY <3>2, <2>1, <1>0 DEF Unlocked, TypeOK
      <4> HIDE DEF r
      <4> QED
        BY <4>5, <4>6, <1>0 DEF TypeOK
    <3> QED
      BY <3>1, <3>2, <1>5, <2>2 DEF Release
  <2> QED
    BY <1>0, <1>5, <2>1, <2>3 DEF Release, Return, Become, CloseLocked, Forget, TypeOK
<1>6. ASSUME NEW p \in Procs, ReleaseFails(p) PROVE TypeOK'
  BY <1>0, <1>6 DEF ReleaseFails, Return, Become, CloseLocked, Forget, Fault, TypeOK
<1>7. ASSUME NEW n \in Nodes, KeepAlive(n) PROVE TypeOK'
  BY <1>0, <1>7 DEF KeepAlive, Forget, Fault, TypeOK
<1>8. ASSUME NEW n \in Nodes, Crash(n) PROVE TypeOK'
  BY <1>0, <1>8 DEF Crash, Forget, Fault, TypeOK
<1>9. ASSUME NEW s \in Sessions, Reap(s) \/ Kill(s) PROVE TypeOK'
  BY <1>0, <1>9 DEF Reap, Kill, End, Free, Fault, TypeOK
<1> QED
  BY <1>1, <1>2, <1>3, <1>4, <1>5, <1>6, <1>7, <1>8, <1>9 DEF Next

(***************************************************************************)
(* Steps that take no key                                                  *)
(***************************************************************************)
\* A goroutine that holds nothing on its process's session asks, waits on a new
\* session, or stops.
LEMMA BecomesKeeps ==
  ASSUME IInv, TypeOK', ConnsOwn', NEW p \in Procs,
         NEW label \in {"idle", "queue", "waiting"}, NEW k, NEW s, Become(p, label, k, s),
         pc[p] = "shared" => \A n \in Nodes : conn[n] # sess[p],
         label = "waiting" => s \in Sessions /\ Unused(s) /\ UNCHANGED conn,
         label # "waiting" => s = None,
         label # "idle" => k \in Keys,
         UNCHANGED <<locks, held>>, live \subseteq live',
         \A t \in live' \ live : Unused(t),
         \A n \in Nodes : conn'[n] = conn[n] \/ (conn[n] = None /\ Unused(conn'[n]))
  PROVE  IInv'
<1>1. /\ pc'[p] = label /\ want'[p] = k /\ sess'[p] = s
      /\ \A q \in Procs \ {p} : pc'[q] = pc[q] /\ want'[q] = want[q] /\ sess'[q] = sess[q]
  BY DEF Become, IInv, TypeOK
<1>2. \A q \in Procs : \A n \in Nodes : conn'[n] = sess[q] /\ sess[q] # None => conn[n] = sess[q]
  BY DEF Unused
<1>3. \A q \in Procs, j \in Keys : Holding(q, j)' => q # p /\ Holding(q, j)
  BY <1>1 DEF Holding, Unused
<1>4. Table'
  BY DEF IInv, Table, LockOK
<1>5. Clients'
  <2> SUFFICES ASSUME NEW q \in Procs PROVE Client(q)'
    BY DEF Clients
  <2>1. Client(q) /\ Client(p)
    BY DEF IInv, Clients
  <2>2. CASE q = p /\ label # "waiting"
    BY <2>2, <1>1 DEF Client
  <2>3. CASE q = p /\ label = "waiting"
    <3>1. Own(q)'
      BY <2>3, <1>1 DEF Own, Unused
    <3>2. \A j \in Keys : locks'[j].by # sess'[q]
      BY <2>3, <1>1, NoneAssumption DEF IInv, Table, LockOK, Unused
    <3> QED
      BY <2>3, <1>1, <3>1, <3>2 DEF Client
  <2>4. CASE q # p
    <3>1. pc[q] \in {"waiting", "alone"} => Own(q)'
      BY <2>1, <2>4, <1>1, <1>2, NoneAssumption DEF Client, Own, Unused
    <3>2. pc[q] = "shared" => sess[q] # None
      BY <2>1, NoneAssumption DEF Client
    <3> QED
      BY <2>1, <2>4, <1>1, <1>2, <3>1, <3>2 DEF Client
  <2> QED
    BY <2>2, <2>3, <2>4
<1>6. SharedOnce'
  BY <1>1 DEF IInv, SharedOnce
<1>7. LockedOnce'
  BY <1>1, <1>3 DEF IInv, LockedOnce
<1>8. NothingLeaked'
  <2> SUFFICES ASSUME NEW n \in Nodes, NEW j \in Keys, conn'[n] # None, locks[j].by = conn'[n]
               PROVE  j \in held[n] /\ \E q \in Procs : NodeOf[q] = n /\ Holding(q, j)' /\ sess'[q] = conn'[n]
    BY DEF NothingLeaked
  <2>1. conn'[n] = conn[n]
    BY DEF IInv, Table, LockOK, Unused
  <2>2. j \in held[n] /\ \E q \in Procs : NodeOf[q] = n /\ Holding(q, j) /\ sess[q] = conn[n]
    BY <2>1 DEF IInv, NothingLeaked
  <2>3. PICK q \in Procs : NodeOf[q] = n /\ Holding(q, j) /\ sess[q] = conn[n]
    BY <2>2
  <2>4. q # p
    BY <2>3 DEF Holding, IInv, Clients, Client, Own
  <2> QED
    BY <2>1, <2>2, <2>3, <2>4, <1>1 DEF Holding
<1> QED
  BY <1>4, <1>5, <1>6, <1>7, <1>8 DEF IInv

\* A process forgets its session, and with it what its goroutines hold there.
LEMMA DropsKeeps ==
  ASSUME IInv, TypeOK', NEW n \in Nodes, Forget(n),
         \A q \in Procs :
           \/ pc'[q] = pc[q] /\ want'[q] = want[q] /\ sess'[q] = sess[q]
           \/ NodeOf[q] = n /\ pc'[q] = "idle" /\ want'[q] = None /\ sess'[q] = None,
         live \subseteq live', \A t \in live' \ live : Unused(t),
         \A k \in Keys :
           \/ locks'[k] = locks[k]
           \/ /\ locks'[k].by \in live' /\ locks'[k].n = 1 /\ \A q \in Procs : ~ Holding(q, k)
              /\ \A m \in Nodes \ {n} : conn[m] # locks'[k].by
              /\ \A q \in Procs : sess[q] = locks'[k].by => pc[q] = "shared"
  PROVE  IInv'
<1>1. /\ conn'[n] = None /\ held'[n] = {}
      /\ \A m \in Nodes \ {n} : conn'[m] = conn[m] /\ held'[m] = held[m]
  BY DEF Forget, IInv, TypeOK
<1>2. \A q \in Procs, k \in Keys : Holding(q, k)' => Holding(q, k) /\ sess'[q] = sess[q]
  BY DEF Holding, Unused
<1>3. Table'
  BY DEF IInv, Table, LockOK
<1>4. ConnsOwn'
  BY <1>1 DEF IInv, ConnsOwn
<1>5. Clients'
  <2> SUFFICES ASSUME NEW q \in Procs PROVE Client(q)'
    BY DEF Clients
  <2>1. Client(q)
    BY DEF IInv, Clients
  <2>2. CASE pc'[q] = "idle" /\ sess'[q] = None
    BY <2>2 DEF Client
  <2>3. CASE pc'[q] = pc[q] /\ want'[q] = want[q] /\ sess'[q] = sess[q]
    <3>1. Own(q) => Own(q)'
      BY <2>3, <1>1, NoneAssumption DEF Own
    <3>2. pc[q] = "waiting" => \A k \in Keys : locks'[k].by # sess[q]
      BY <2>1 DEF Client
    <3>3. pc[q] = "shared" => \A m \in Nodes : conn'[m] = sess[q] => m = NodeOf[q] /\ want[q] \in held'[m]
      BY <2>1, <1>1, NoneAssumption DEF Client
    <3> QED
      BY <2>1, <2>3, <3>1, <3>2, <3>3 DEF Client
  <2> QED
    BY <2>2, <2>3
<1>6. SharedOnce'
  BY DEF IInv, SharedOnce
<1>7. LockedOnce'
  BY <1>2 DEF IInv, LockedOnce
<1>8. NothingLeaked'
  BY <1>1 DEF IInv, NothingLeaked, Holding
<1> QED
  BY <1>3, <1>4, <1>5, <1>6, <1>7, <1>8 DEF IInv

\* The server ends a session.
LEMMA EndKeeps ==
  ASSUME IInv, TypeOK', NEW s \in Sessions, End(s)
  PROVE  IInv'
<1>0. s # None /\ live' = live \ {s} /\ UNCHANGED <<conn, held, pc, want, sess>>
  BY NoneAssumption DEF End
<1>1. \A k \in Keys : locks'[k] = IF locks[k].by = s THEN Free ELSE locks[k]
  BY DEF End
<1>2. \A k \in Keys : locks'[k].by = (IF locks[k].by = s THEN None ELSE locks[k].by)
  BY <1>1 DEF Free
<1>3. Table'
  BY <1>0, <1>1, <1>2 DEF IInv, Table, LockOK
<1>4. ConnsOwn' /\ SharedOnce'
  BY <1>0 DEF IInv, ConnsOwn, SharedOnce
<1>5. Clients'
  <2> SUFFICES ASSUME NEW q \in Procs PROVE Client(q)'
    BY DEF Clients
  <2>1. Client(q)
    BY DEF IInv, Clients
  <2>2. pc[q] = "waiting" => sess[q] # None
    BY <2>1, NoneAssumption DEF Client, Own
  <2> QED
    BY <2>1, <2>2, <1>0, <1>2 DEF Client, Own
<1>6. \A q \in Procs, k \in Keys : Holding(q, k)' => Holding(q, k) /\ sess[q] # s
  BY <1>0 DEF Holding
<1>7. LockedOnce'
  BY <1>0, <1>1, <1>6 DEF IInv, LockedOnce
<1>8. NothingLeaked'
  <2> SUFFICES ASSUME NEW n \in Nodes, NEW k \in Keys, conn[n] # None, locks'[k].by = conn[n]
               PROVE  k \in held[n] /\ \E q \in Procs : NodeOf[q] = n /\ Holding(q, k)' /\ sess[q] = conn[n]
    BY <1>0 DEF NothingLeaked
  <2>1. locks[k].by = conn[n] /\ conn[n] # s
    BY <1>2
  <2> QED
    BY <2>1, <1>0 DEF IInv, NothingLeaked, Holding
<1> QED
  BY <1>3, <1>4, <1>5, <1>7, <1>8 DEF IInv

(***************************************************************************)
(* Steps that take or release a key                                        *)
(***************************************************************************)
\* A process takes a key that it does not hold on its session.
LEMMA TakesKeeps ==
  ASSUME IInv, TypeOK', NEW p \in Procs, NEW k \in Keys, NEW s \in Sessions,
         pc[p] = "idle", k \notin held[NodeOf[p]], Connected(NodeOf[p], s), s \in live', Grantable(k, s),
         locks' = Granted(k, s), conn' = [conn EXCEPT ![NodeOf[p]] = s],
         held' = [held EXCEPT ![NodeOf[p]] = @ \cup {k}], Become(p, "shared", k, s)
  PROVE  IInv'
<1> DEFINE n == NodeOf[p]
<1>0. n \in Nodes
  BY NodeAssumption
<1> HIDE DEF n
<1>1. /\ locks[k].n = 0 /\ locks[k].by = None /\ locks'[k].by = s /\ locks'[k].n = 1
      /\ \A j \in Keys \ {k} : locks'[j] = locks[j]
      /\ \A q \in Procs : ~ Holding(q, k)
  BY <1>0, TakesFree DEF n
<1>2. /\ s # None /\ live' \subseteq live \cup {s} /\ live \subseteq live'
      /\ \A m \in Nodes \ {n} : conn[m] # s
      /\ \A q \in Procs : sess[q] = s => pc[q] = "shared" /\ NodeOf[q] = n /\ conn[n] = s
  BY <1>0, ConnectsOwn DEF n
<1>3. /\ pc'[p] = "shared" /\ want'[p] = k /\ sess'[p] = s
      /\ \A q \in Procs \ {p} : pc'[q] = pc[q] /\ want'[q] = want[q] /\ sess'[q] = sess[q]
  BY DEF Become, IInv, TypeOK
<1>4. /\ conn'[n] = s /\ held'[n] = held[n] \cup {k}
      /\ \A m \in Nodes \ {n} : conn'[m] = conn[m] /\ held'[m] = held[m]
  BY <1>0 DEF n, IInv, TypeOK
<1>5. s \in live \/ ~ \E q \in Procs : sess[q] = s
  BY DEF Connected, Unused
<1>6. \A q \in Procs \ {p}, j \in Keys : Holding(q, j)' => Holding(q, j)
  BY <1>2, <1>3, <1>5 DEF Holding
<1>7. Table'
  BY <1>1, <1>2 DEF IInv, Table, LockOK
<1>8. ConnsOwn'
  BY <1>2, <1>4 DEF IInv, ConnsOwn
<1>9. Clients'
  <2> SUFFICES ASSUME NEW q \in Procs PROVE Client(q)'
    BY DEF Clients
  <2>1. Client(q)
    BY DEF IInv, Clients
  <2>2. CASE q = p
    BY <2>2, <1>2, <1>3, <1>4 DEF Client, n
  <2>3. CASE q # p
    <3>1. pc[q] \in {"waiting", "alone"} => Own(q)'
      BY <2>1, <2>3, <1>2, <1>3, <1>4 DEF Client, Own
    <3>2. pc[q] = "waiting" => \A j \in Keys : locks'[j].by # sess[q]
      BY <2>1, <1>1, <1>2 DEF Client
    <3>3. pc[q] = "shared" => \A m \in Nodes : conn'[m] = sess[q] => m = NodeOf[q] /\ want[q] \in held'[m]
      BY <2>1, <1>0, <1>2, <1>4 DEF Client
    <3> QED
      BY <2>1, <2>3, <1>3, <3>1, <3>2, <3>3 DEF Client
  <2> QED
    BY <2>2, <2>3
<1>10. \A q \in Procs \ {p} : ~ (pc[q] = "shared" /\ sess[q] = s /\ want[q] = k)
  BY <1>0, <1>2 DEF IInv, Clients, Client, n
<1>11. SharedOnce'
  BY <1>3, <1>10 DEF IInv, SharedOnce
<1>12. LockedOnce'
  <2> SUFFICES ASSUME NEW j \in Keys, NEW q \in Procs, Holding(q, j)' PROVE locks'[j].by = sess'[q] /\ locks'[j].n = 1
    BY DEF LockedOnce
  <2>1. CASE q = p
    BY <2>1, <1>1, <1>3 DEF Holding
  <2>2. CASE q # p
    BY <2>2, <1>1, <1>3, <1>6 DEF IInv, LockedOnce
  <2> QED
    BY <2>1, <2>2
<1>13. NothingLeaked'
  <2> SUFFICES ASSUME NEW m \in Nodes, NEW j \in Keys, conn'[m] # None, locks'[j].by = conn'[m]
               PROVE  j \in held'[m] /\ \E q \in Procs : NodeOf[q] = m /\ Holding(q, j)' /\ sess'[q] = conn'[m]
    BY DEF NothingLeaked
  <2>1. CASE j = k
    <3>1. m = n
      BY <2>1, <1>1, <1>2, <1>4
    <3> QED
      BY <2>1, <3>1, <1>3, <1>4 DEF Holding, n
  <2>2. CASE j # k
    <3>1. locks[j].by = conn'[m]
      BY <2>2, <1>1
    <3>2. conn[m] = conn'[m]
      BY <3>1, <1>0, <1>4 DEF Connected, Unused, IInv, Table, LockOK, n
    <3>3. j \in held[m] /\ \E q \in Procs : NodeOf[q] = m /\ Holding(q, j) /\ sess[q] = conn[m]
      BY <3>1, <3>2 DEF IInv, NothingLeaked
    <3>4. PICK q \in Procs : NodeOf[q] = m /\ Holding(q, j) /\ sess[q] = conn[m]
      BY <3>3
    <3>5. q # p
      BY <3>4 DEF Holding
    <3> QED
      BY <3>2, <3>3, <3>4, <3>5, <1>2, <1>3, <1>4 DEF Holding
  <2> QED
    BY <2>1, <2>2
<1> QED
  BY <1>7, <1>8, <1>9, <1>11, <1>12, <1>13 DEF IInv

\* A waiter is granted its key.
LEMMA GrantKeeps ==
  ASSUME IInv, TypeOK', NEW p \in Procs, Grant(p)
  PROVE  IInv'
<1> DEFINE k == want[p]
           s == sess[p]
<1>0. Client(p) /\ pc[p] = "waiting"
  BY DEF IInv, Clients, Grant
<1>1. k \in Keys /\ s \in Sessions /\ s \in live /\ Own(p) /\ locks[k].by # s /\ locks[k].n = 0 /\ s # None
  BY <1>0, NoneAssumption DEF Client, Own, Grant, Grantable
<1>2. /\ locks'[k].by = s /\ locks'[k].n = 1
      /\ \A j \in Keys \ {k} : locks'[j] = locks[j]
  BY <1>1 DEF Grant, Granted, IInv, TypeOK
<1>3. /\ pc'[p] = "alone" /\ want' = want /\ sess' = sess
      /\ \A q \in Procs \ {p} : pc'[q] = pc[q]
      /\ UNCHANGED <<live, conn, held>>
  <2>1. want' = want /\ sess' = sess
    BY DEF Grant, Become, IInv, TypeOK
  <2> QED
    BY <2>1 DEF Grant, Become, IInv, TypeOK
<1> HIDE DEF k, s
<1>4. \A q \in Procs \ {p} : sess[q] # s
  BY <1>1 DEF Own, s
<1>5. \A q \in Procs, j \in Keys : Holding(q, j)' => (Holding(q, j) /\ j # k) \/ (q = p /\ j = k)
  <2>1. \A q \in Procs : ~ Holding(q, k)
    BY <1>1 DEF IInv, LockedOnce
  <2> QED
    BY <2>1, <1>3 DEF Holding, k
<1>6. Table' /\ ConnsOwn' /\ SharedOnce'
  BY <1>1, <1>2, <1>3 DEF IInv, Table, LockOK, ConnsOwn, SharedOnce
<1>7. Clients'
  <2> SUFFICES ASSUME NEW q \in Procs PROVE Client(q)'
    BY DEF Clients
  <2>1. Client(q)
    BY DEF IInv, Clients
  <2>2. CASE q = p
    BY <2>2, <1>0, <1>1, <1>3 DEF Client, Own
  <2>3. CASE q # p
    BY <2>1, <2>3, <1>2, <1>3, <1>4 DEF Client, Own
  <2> QED
    BY <2>2, <2>3
<1>8. LockedOnce'
  BY <1>2, <1>3, <1>5 DEF IInv, LockedOnce, s
<1>9. NothingLeaked'
  <2> SUFFICES ASSUME NEW n \in Nodes, NEW j \in Keys, conn[n] # None, locks'[j].by = conn[n]
               PROVE  j \in held[n] /\ \E q \in Procs : NodeOf[q] = n /\ Holding(q, j)' /\ sess[q] = conn[n]
    BY <1>3 DEF NothingLeaked
  <2>1. conn[n] # s
    BY <1>1 DEF Own, s
  <2>2. locks[j].by = conn[n]
    BY <2>1, <1>2
  <2> QED
    BY <2>2, <1>0, <1>3 DEF IInv, NothingLeaked, Holding
<1> QED
  BY <1>6, <1>7, <1>8, <1>9 DEF IInv

\* A goroutine unlocks its key on its process's session.
LEMMA UnlocksKeeps ==
  ASSUME IInv, TypeOK', NEW p \in Procs, pc[p] = "shared", conn[NodeOf[p]] = sess[p], sess[p] \in live,
         locks' = Unlocked(want[p]), held' = [held EXCEPT ![NodeOf[p]] = @ \ {want[p]}],
         Return(p), UNCHANGED <<live, conn>>
  PROVE  IInv'
<1> DEFINE n == NodeOf[p]
           k == want[p]
<1>0. n \in Nodes /\ Client(p)
  BY NodeAssumption DEF IInv, Clients
<1>1. k \in Keys /\ sess[p] # None /\ Holding(p, k) /\ locks[k].n = 1 /\ locks[k].by = sess[p]
  BY <1>0, NoneAssumption DEF Client, Holding, IInv, LockedOnce
<1>2. locks'[k] = Free /\ \A j \in Keys \ {k} : locks'[j] = locks[j]
  BY <1>1 DEF Unlocked, IInv, TypeOK
<1>3. /\ pc'[p] = "idle" /\ want'[p] = None /\ sess'[p] = None
      /\ \A q \in Procs \ {p} : pc'[q] = pc[q] /\ want'[q] = want[q] /\ sess'[q] = sess[q]
  BY DEF Return, Become, IInv, TypeOK
<1>4. held'[n] = held[n] \ {k} /\ \A m \in Nodes \ {n} : held'[m] = held[m]
  BY <1>0 DEF IInv, TypeOK
<1>5. \A q \in Procs, j \in Keys : Holding(q, j)' => q # p /\ j # k /\ Holding(q, j)
  <2>1. \A q \in Procs : Holding(q, k) => q = p
    BY <1>1, InvImpliesLocksOK DEF LocksOK, Exclusion
  <2> HIDE DEF k
  <2> QED
    BY <2>1, <1>3 DEF Holding
<1>6. \A q \in Procs \ {p} : pc[q] = "shared" /\ sess[q] = sess[p] => want[q] # k
  BY DEF IInv, SharedOnce
<1> HIDE DEF n, k
<1>7. Table' /\ ConnsOwn'
  BY <1>2 DEF IInv, Table, LockOK, ConnsOwn, Free
<1>8. SharedOnce'
  BY <1>3 DEF IInv, SharedOnce
<1>9. Clients'
  <2> SUFFICES ASSUME NEW q \in Procs PROVE Client(q)'
    BY DEF Clients
  <2>1. Client(q)
    BY DEF IInv, Clients
  <2>2. CASE q = p
    BY <2>2, <1>3 DEF Client
  <2>3. CASE q # p
    <3>1. pc[q] \in {"waiting", "alone"} => Own(q)'
      BY <2>1, <2>3, <1>3, NoneAssumption DEF Client, Own
    <3>2. pc[q] = "waiting" => \A j \in Keys : locks'[j].by # sess[q]
      BY <2>1, <1>2, NoneAssumption DEF Client, Own, Free
    <3>3. pc[q] = "shared" => \A m \in Nodes : conn[m] = sess[q] => m = NodeOf[q] /\ want[q] \in held'[m]
      BY <2>1, <2>3, <1>0, <1>4, <1>6 DEF Client, n
    <3> QED
      BY <2>1, <2>3, <1>3, <3>1, <3>2, <3>3 DEF Client
  <2> QED
    BY <2>2, <2>3
<1>10. LockedOnce'
  BY <1>2, <1>3, <1>5 DEF IInv, LockedOnce
<1>11. NothingLeaked'
  <2> SUFFICES ASSUME NEW m \in Nodes, NEW j \in Keys, conn[m] # None, locks'[j].by = conn[m]
               PROVE  j \in held'[m] /\ \E q \in Procs : NodeOf[q] = m /\ Holding(q, j)' /\ sess'[q] = conn[m]
    BY DEF NothingLeaked
  <2>1. j # k /\ locks[j].by = conn[m]
    BY <1>2 DEF Free
  <2>2. PICK q \in Procs : j \in held[m] /\ NodeOf[q] = m /\ Holding(q, j) /\ sess[q] = conn[m]
    BY <2>1 DEF IInv, NothingLeaked
  <2>3. q # p
    BY <2>1, <2>2 DEF Holding, k
  <2> QED
    BY <2>1, <2>2, <2>3, <1>3, <1>4 DEF Holding
<1> QED
  BY <1>7, <1>8, <1>9, <1>10, <1>11 DEF IInv

(***************************************************************************)
(* Every step                                                              *)
(***************************************************************************)
LEMMA TryKeeps ==
  ASSUME IInv, TypeOK', NEW p \in Procs, NEW k \in Keys, Try(p, k)
  PROVE  IInv'
<1> DEFINE n == NodeOf[p]
<1>0. n \in Nodes /\ pc[p] = "idle" /\ conn \in [Nodes -> Sessions \cup {None}]
  BY NodeAssumption DEF Try, IInv, TypeOK
<1>1. CASE Become(p, "queue", k, None) /\ UNCHANGED <<live, locks, conn, held, faults>>
  <2>1. ConnsOwn'
    BY <1>1 DEF IInv, ConnsOwn
  <2> QED
    BY <1>0, <1>1, <2>1, BecomesKeeps
<1>2. CASE k \notin held[n] /\ \E s \in Sessions :
             /\ Connected(n, s) /\ s \in live' /\ Grantable(k, s) /\ locks' = Granted(k, s)
             /\ conn' = [conn EXCEPT ![n] = s] /\ held' = [held EXCEPT ![n] = @ \cup {k}]
             /\ Become(p, "shared", k, s) /\ UNCHANGED faults
  BY <1>0, <1>2, TakesKeeps
<1>3. CASE k \notin held[n] /\ \E s \in Sessions :
             /\ Connected(n, s) /\ s \in live' /\ ~ Grantable(k, s)
             /\ conn' = [conn EXCEPT ![n] = s]
             /\ Become(p, "queue", k, None) /\ UNCHANGED <<locks, held, faults>>
  <2>1. PICK s \in Sessions : /\ Connected(n, s) /\ conn' = [conn EXCEPT ![n] = s]
                              /\ Become(p, "queue", k, None) /\ UNCHANGED <<locks, held>>
    BY <1>3
  <2> HIDE DEF n
  <2>2. /\ live \subseteq live' /\ \A m \in Nodes \ {n} : conn[m] # s /\ conn'[m] = conn[m]
        /\ conn'[n] = s
    BY <1>0, <2>1, ConnectsOwn
  <2>3. /\ \A t \in live' \ live : Unused(t)
        /\ conn'[n] = conn[n] \/ (conn[n] = None /\ Unused(conn'[n]))
    BY <2>1, <2>2 DEF Connected
  <2>4. ConnsOwn'
    BY <2>2 DEF IInv, ConnsOwn
  <2> QED
    BY <1>0, <2>1, <2>2, <2>3, <2>4, BecomesKeeps
<1> QED
  BY <1>1, <1>2, <1>3 DEF Try, HeldHere

LEMMA TryFailsKeeps ==
  ASSUME IInv, TypeOK', NEW p \in Procs, NEW k \in Keys, TryFails(p, k)
  PROVE  IInv'
<1> DEFINE n == NodeOf[p]
<1>0. n \in Nodes /\ k \notin held[n] /\ Forget(n) /\ UNCHANGED <<pc, want, sess>>
  BY NodeAssumption DEF TryFails, HeldHere
<1>1. PICK s \in Sessions : Connected(n, s) /\ (locks' = locks \/ (s \in live' /\ Grantable(k, s) /\ locks' = Granted(k, s)))
  BY DEF TryFails
<1> HIDE DEF n
<1>2. /\ s # None /\ live \subseteq live' /\ \A m \in Nodes \ {n} : conn[m] # s
      /\ \A q \in Procs : sess[q] = s => pc[q] = "shared"
  BY <1>0, <1>1, ConnectsOwn
<1>3. \A t \in live' \ live : Unused(t)
  BY <1>1 DEF Connected
<1>4. CASE locks' = locks
  BY <1>0, <1>2, <1>3, <1>4, DropsKeeps
<1>5. CASE s \in live' /\ Grantable(k, s) /\ locks' = Granted(k, s)
  <2>1. /\ locks'[k].by = s /\ locks'[k].n = 1 /\ \A q \in Procs : ~ Holding(q, k)
        /\ \A j \in Keys \ {k} : locks'[j] = locks[j]
    BY <1>0, <1>1, <1>5, TakesFree
  <2> QED
    BY <1>0, <1>2, <1>3, <1>5, <2>1, DropsKeeps
<1> QED
  BY <1>1, <1>4, <1>5

LEMMA ReleaseKeeps ==
  ASSUME IInv, TypeOK', NEW p \in Procs, Release(p) \/ ReleaseFails(p)
  PROVE  IInv'
<1> DEFINE n == NodeOf[p]
<1>0. n \in Nodes /\ Client(p) /\ pc[p] = "shared" /\ Return(p) /\ live' = live
  BY NodeAssumption DEF IInv, Clients, Release, ReleaseFails
<1>1. /\ pc'[p] = "idle" /\ want'[p] = None /\ sess'[p] = None
      /\ \A q \in Procs \ {p} : pc'[q] = pc[q] /\ want'[q] = want[q] /\ sess'[q] = sess[q]
  BY <1>0 DEF Return, Become, IInv, TypeOK
<1>2. CASE conn[n] # sess[p] /\ UNCHANGED <<locks, conn, held>>
  <2>1. \A m \in Nodes : conn[m] # sess[p]
    BY <1>0, <1>2 DEF Client
  <2>2. ConnsOwn' /\ Become(p, "idle", None, None)
    BY <1>0, <1>2 DEF IInv, ConnsOwn, Return
  <2> QED
    BY <1>0, <1>2, <2>1, <2>2, BecomesKeeps
<1>3. CASE conn[n] = sess[p] /\ conn[n] \in live /\ locks' = (IF locks[want[p]].by = conn[n] THEN Unlocked(want[p]) ELSE locks)
           /\ held' = [held EXCEPT ![n] = @ \ {want[p]}] /\ UNCHANGED conn
  <2>1. Holding(p, want[p]) /\ want[p] \in Keys
    BY <1>0, <1>3 DEF Holding, Client
  <2>2. locks[want[p]].by = conn[n]
    BY <2>1, <1>3 DEF IInv, LockedOnce
  <2> QED
    BY <1>0, <1>3, <2>2, UnlocksKeeps
<1>4. CASE Forget(n) /\ UNCHANGED locks
  BY <1>0, <1>1, <1>4, DropsKeeps
<1> QED
  BY <1>2, <1>3, <1>4 DEF Release, ReleaseFails, Stale, CloseLocked

LEMMA NextKeeps == IInv /\ [Next]_vars => IInv'
<1> SUFFICES ASSUME IInv, Next PROVE IInv'
  BY DEF vars, IInv, TypeOK, Table, LockOK, ConnsOwn, Clients, Client, Own, SharedOnce, LockedOnce, NothingLeaked, Holding
<1>0. TypeOK'
  BY NextTypes
<1>1. ASSUME NEW p \in Procs, Queue(p) PROVE IInv'
  <2>1. PICK s \in Sessions : /\ Unused(s) /\ live' = live \cup {s} /\ Become(p, "waiting", want[p], s)
                              /\ UNCHANGED <<locks, conn, held>>
    BY <1>1 DEF Queue
  <2>2. want[p] \in Keys /\ pc[p] = "queue"
    BY <1>1 DEF Queue, IInv, Clients, Client
  <2>3. ConnsOwn'
    BY <2>1 DEF IInv, ConnsOwn
  <2> QED
    BY <1>0, <2>1, <2>2, <2>3, BecomesKeeps
<1>2. ASSUME NEW p \in Procs, GiveUp(p) \/ Close(p) PROVE IInv'
  <2>1. ConnsOwn' /\ Become(p, "idle", None, None) /\ pc[p] # "shared" /\ UNCHANGED <<live, locks, conn, held>>
    BY <1>2 DEF GiveUp, Close, Return, IInv, ConnsOwn
  <2> QED
    BY <1>0, <2>1, BecomesKeeps
<1>3. ASSUME NEW n \in Nodes, KeepAlive(n) PROVE IInv'
  BY <1>0, <1>3, DropsKeeps DEF KeepAlive
<1>4. ASSUME NEW n \in Nodes, Crash(n) PROVE IInv'
  <2>1. \A q \in Procs :
           \/ pc'[q] = pc[q] /\ want'[q] = want[q] /\ sess'[q] = sess[q]
           \/ NodeOf[q] = n /\ pc'[q] = "idle" /\ want'[q] = None /\ sess'[q] = None
    BY <1>4 DEF Crash
  <2>2. Forget(n) /\ UNCHANGED <<live, locks>>
    BY <1>4 DEF Crash
  <2> QED
    BY <1>0, <2>1, <2>2, DropsKeeps
<1>5. ASSUME NEW s \in Sessions, Reap(s) \/ Kill(s) PROVE IInv'
  BY <1>0, <1>5, EndKeeps DEF Reap, Kill
<1> QED
  BY <1>0, <1>1, <1>2, <1>3, <1>4, <1>5, TryKeeps, TryFailsKeeps, ReleaseKeeps, GrantKeeps DEF Next

(***************************************************************************)
(* Results                                                                 *)
(***************************************************************************)
\* The inductive invariant holds in every state.
THEOREM Invariance == Spec => []IInv
BY InitIInv, NextKeeps, PTL DEF Spec

\* Two goroutines never hold a key, whoever holds one has it once, and a
\* session in use keeps none that nobody holds (try, waitFor, release).
THEOREM LocksHold == Spec => []LocksOK
BY Invariance, InvImpliesLocksOK, PTL

(***************************************************************************)
(* Refinement                                                              *)
(***************************************************************************)
\* A step takes one key that nobody held, or nobody holds more than before.
Gives == \A q \in Procs, j \in Keys : Holding(q, j)' => Holding(q, j)
Takes(p, k) ==
  /\ \A q \in Procs : ~ Holding(q, k)
  /\ \A q \in Procs, j \in Keys : Holding(q, j)' <=> Holding(q, j) \/ (q = p /\ j = k)

LEMMA TryHolds ==
  ASSUME IInv, NEW p \in Procs, NEW k \in Keys, Try(p, k)
  PROVE  Gives \/ Takes(p, k)
<1> DEFINE n == NodeOf[p]
<1>0. n \in Nodes /\ pc[p] = "idle" /\ pc \in [Procs -> {"idle", "queue", "waiting", "shared", "alone"}]
  BY NodeAssumption DEF Try, IInv, TypeOK
<1>1. ASSUME NEW label, NEW key, NEW s, Become(p, label, key, s)
      PROVE  /\ pc'[p] = label /\ want'[p] = key /\ sess'[p] = s
             /\ \A q \in Procs \ {p} : pc'[q] = pc[q] /\ want'[q] = want[q] /\ sess'[q] = sess[q]
  BY <1>1 DEF Become, IInv, TypeOK
<1>2. CASE Become(p, "queue", k, None) /\ (live' = live \/ \E s \in Sessions : Connected(n, s))
  <2>1. \A q \in Procs : sess[q] \in live' => sess[q] \in live
    BY <1>2 DEF Connected, Unused
  <2> QED
    BY <1>1, <1>2, <2>1 DEF Gives, Holding
<1>3. CASE k \notin held[n] /\ \E s \in Sessions :
             Connected(n, s) /\ s \in live' /\ Grantable(k, s) /\ Become(p, "shared", k, s)
  <2>1. PICK s \in Sessions : Connected(n, s) /\ s \in live' /\ Grantable(k, s) /\ Become(p, "shared", k, s)
    BY <1>3
  <2>2. /\ pc'[p] = "shared" /\ want'[p] = k /\ sess'[p] = s
        /\ \A q \in Procs \ {p} : pc'[q] = pc[q] /\ want'[q] = want[q] /\ sess'[q] = sess[q]
    BY <1>1, <2>1
  <2>3. \A q \in Procs : ~ Holding(q, k)
    BY <1>0, <1>3, <2>1, TakesFree
  <2>4. \A q \in Procs : sess[q] \in live' <=> sess[q] \in live
    BY <2>1 DEF Connected, Unused
  <2> QED
    BY <1>0, <2>1, <2>2, <2>3, <2>4 DEF Takes, Holding
<1> QED
  BY <1>2, <1>3 DEF Try, HeldHere

LEMMA GrantHolds ==
  ASSUME IInv, NEW p \in Procs, Grant(p)
  PROVE  want[p] \in Keys /\ Takes(p, want[p])
<1>1. want[p] \in Keys /\ pc[p] = "waiting" /\ Own(p) /\ locks[want[p]].by # sess[p] /\ locks[want[p]].n = 0
  BY DEF Grant, Grantable, IInv, Clients, Client
<1>2. \A q \in Procs : ~ Holding(q, want[p])
  BY <1>1 DEF IInv, LockedOnce
<1>3. /\ pc'[p] = "alone" /\ want' = want /\ sess' = sess /\ live' = live /\ sess[p] \in live
      /\ \A q \in Procs \ {p} : pc'[q] = pc[q]
  BY DEF Grant, Become, IInv, TypeOK
<1> QED
  BY <1>1, <1>2, <1>3 DEF Takes, Holding

LEMMA OthersHold ==
  ASSUME IInv, Next, ~ \E p \in Procs : Grant(p) \/ \E k \in Keys : Try(p, k)
  PROVE  Gives
<1>1. ASSUME NEW p \in Procs, NEW k \in Keys, TryFails(p, k) PROVE Gives
  <2>1. \A q \in Procs : sess[q] \in live' => sess[q] \in live
    BY <1>1 DEF TryFails, Connected, Unused
  <2> QED
    BY <1>1, <2>1 DEF TryFails, Gives, Holding
<1>2. ASSUME NEW p \in Procs, Queue(p) PROVE Gives
  <2>1. \A q \in Procs : sess[q] \in live' => sess[q] \in live
    BY <1>2 DEF Queue, Unused
  <2> QED
    BY <1>2, <2>1 DEF Queue, Become, Gives, Holding, IInv, TypeOK
<1>3. ASSUME NEW p \in Procs, GiveUp(p) \/ Close(p) \/ Release(p) \/ ReleaseFails(p) PROVE Gives
  <2>1. Return(p) /\ live' = live
    BY <1>3 DEF GiveUp, Close, Release, ReleaseFails
  <2> QED
    BY <2>1 DEF Return, Become, Gives, Holding, IInv, TypeOK
<1>4. ASSUME NEW n \in Nodes, KeepAlive(n) \/ Crash(n) PROVE Gives
  BY <1>4 DEF KeepAlive, Crash, Gives, Holding
<1>5. ASSUME NEW s \in Sessions, Reap(s) \/ Kill(s) PROVE Gives
  BY <1>5 DEF Reap, Kill, End, Gives, Holding
<1> QED
  BY <1>1, <1>2, <1>3, <1>4, <1>5 DEF Next

\* The abstract holder is the goroutine that holds the key.
LEMMA HolderIs ==
  ASSUME IInv, NEW k \in Keys
  PROVE  /\ Holder(k) = None <=> \A p \in Procs : ~ Holding(p, k)
         /\ \A p \in Procs : Holder(k) = p <=> Holding(p, k)
<1>1. Exclusion
  BY InvImpliesLocksOK DEF LocksOK
<1> QED
  BY <1>1, NoneAssumption DEF Holder, Exclusion

LEMMA StepRefines ==
  ASSUME IInv, IInv', [Next]_vars
  PROVE  [Abstract!Next]_[k \in Keys |-> Holder(k)]
<1> DEFINE h == [k \in Keys |-> Holder(k)]
<1>0. /\ \A k \in Keys : Holder(k) = None <=> \A p \in Procs : ~ Holding(p, k)
      /\ \A k \in Keys, p \in Procs : Holder(k) = p <=> Holding(p, k)
      /\ \A k \in Keys : Holder(k) \in Procs \cup {None}
  <2>1. \A k \in Keys : Holder(k) \in Procs \cup {None}
    BY DEF Holder
  <2> QED
    BY <2>1, HolderIs
<1>1. /\ \A k \in Keys : Holder(k)' = None <=> \A p \in Procs : ~ Holding(p, k)'
      /\ \A k \in Keys, p \in Procs : Holder(k)' = p <=> Holding(p, k)'
      /\ \A k \in Keys : Holder(k)' \in Procs \cup {None}
  <2>1. \A k \in Keys : Holder(k)' \in Procs \cup {None}
    BY DEF Holder
  <2>2. Exclusion'
    <3>1. LocksOK'
      BY InvImpliesLocksOK, PTL
    <3> QED
      BY <3>1 DEF LocksOK
  <2>3. ASSUME NEW k \in Keys
        PROVE  /\ Holder(k)' = None <=> \A p \in Procs : ~ Holding(p, k)'
               /\ \A p \in Procs : Holder(k)' = p <=> Holding(p, k)'
    BY <2>2, NoneAssumption DEF Holder, Exclusion
  <2> QED
    BY <2>1, <2>3
<1>2. ASSUME Gives PROVE Abstract!Next \/ h' = h
  <2> DEFINE L == {k \in Keys : h[k] # None /\ h'[k] = None}
  <2>1. \A k \in Keys : h'[k] = IF k \in L THEN None ELSE h[k]
    BY <1>0, <1>1, <1>2 DEF Gives
  <2>2. CASE L = {}
    BY <2>1, <2>2
  <2>3. CASE L # {}
    <3>1. h' = [k \in Keys |-> IF k \in L THEN None ELSE h[k]]
      BY <2>1
    <3>2. Abstract!Give(L)
      BY <2>3, <3>1 DEF Abstract!Give
    <3> QED
      BY <3>2 DEF Abstract!Next
  <2> QED
    BY <2>2, <2>3
<1>3. ASSUME NEW p \in Procs, NEW k \in Keys, Takes(p, k) PROVE Abstract!Next
  <2>1. h[k] = None
    BY <1>0, <1>3 DEF Takes
  <2>2. \A j \in Keys : h'[j] = IF j = k THEN p ELSE h[j]
    BY <1>0, <1>1, <1>3 DEF Takes
  <2>3. h' = [h EXCEPT ![k] = p]
    BY <2>2
  <2> QED
    BY <2>1, <2>3 DEF Abstract!Next, Abstract!Acquire
<1>4. CASE UNCHANGED vars
  BY <1>2, <1>4 DEF vars, Gives, Holding
<1>5. CASE Next
  BY <1>2, <1>3, <1>5, TryHolds, GrantHolds, OthersHold
<1> QED
  BY <1>4, <1>5

\* What callers believe of a lock is all that can happen to it.
THEOREM Refinement == Spec => ImplementsKeyLock
<1>1. Init => Abstract!Init
  BY DEF Init, Abstract!Init, Holder, Holding
<1> QED
  BY <1>1, StepRefines, Invariance, PTL DEF Spec, ImplementsKeyLock, Abstract!Spec

===============================================================================
