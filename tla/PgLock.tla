------------------------------- MODULE PgLock --------------------------------
(***************************************************************************)
(* Advisory locks held outside the holder's pool (src/internal/pglock).    *)
(*                                                                         *)
(* A process takes every free key on one session it shares; only a key     *)
(* somebody already holds is waited for on a connection of its own.        *)
(* PostgreSQL's advisory locks are re-entrant within a session, end with   *)
(* it, and are only released by the session that took them.  The session   *)
(* methods run under one mutex, so each is one step here; the server ends  *)
(* a session on its own, and its client learns of that at the next query.  *)
(***************************************************************************)
EXTENDS Naturals

CONSTANTS
  Nodes,      \* processes of the program
  Procs,      \* goroutines that want locks
  NodeOf,     \* the process of each goroutine
  Keys,       \* lock keys
  Sessions,   \* database sessions; an ended one may be numbered again
  MaxFaults,  \* bound on killed sessions, failed queries and crashes
  None

ASSUME NodeAssumption == NodeOf \in [Procs -> Nodes]
ASSUME NoneAssumption == None \notin Nodes \cup Procs \cup Keys \cup Sessions
ASSUME FaultAssumption == MaxFaults \in Nat

VARIABLES
  live,    \* sessions the server still has
  locks,   \* the server's lock of each key: its session and how often it took it
  conn,    \* session.conn of each process
  held,    \* session.held of each process
  pc,      \* idle, queue, waiting, shared (holds on conn), alone (on its own)
  want,    \* the key a goroutine asked for
  sess,    \* the connection its lock was taken or is waited for on
  faults

vars == <<live, locks, conn, held, pc, want, sess, faults>>

Free == [by |-> None, n |-> 0]

\* pg_try_advisory_lock succeeds for the session that already has the key.
Grantable(k, s) == locks[k].n = 0 \/ locks[k].by = s
Granted(k, s) == [locks EXCEPT ![k] = [by |-> s, n |-> @.n + 1]]
Unlocked(k) == [locks EXCEPT ![k] = IF @.n = 1 THEN Free ELSE [by |-> @.by, n |-> @.n - 1]]

Unused(s) ==
  /\ s \notin live
  /\ \A n \in Nodes : conn[n] # s
  /\ \A p \in Procs : sess[p] # s

\* Nobody uses the connection any more: it was closed, or its process died.
Abandoned(s) ==
  /\ \A n \in Nodes : conn[n] # s
  /\ \A p \in Procs : sess[p] = s => pc[p] \notin {"waiting", "alone"}

Fault == faults < MaxFaults /\ faults' = faults + 1

Become(p, label, key, s) ==
  /\ pc' = [pc EXCEPT ![p] = label]
  /\ want' = [want EXCEPT ![p] = key]
  /\ sess' = [sess EXCEPT ![p] = s]

Return(p) == Become(p, "idle", None, None)

\* The connection is dropped, and the keys taken on it with it.
Forget(n) == conn' = [conn EXCEPT ![n] = None] /\ held' = [held EXCEPT ![n] = {}]

Connected(n, s) ==
  \/ conn[n] = s /\ s # None /\ live' = live
  \/ conn[n] = None /\ Unused(s) /\ live' = live \cup {s}

\* Advisory locks are re-entrant in a session: a key this process holds on its
\* shared session is never tried there again.
NeverHeld(n, k) == FALSE
HeldHere(n, k) == k \in held[n]

\* try: the key is busy here, or elsewhere, or it is taken on the shared session.
Try(p, k) ==
  LET n == NodeOf[p] IN
  /\ pc[p] = "idle"
  /\ \/ HeldHere(n, k)
        /\ Become(p, "queue", k, None) /\ UNCHANGED <<live, locks, conn, held, faults>>
     \/ /\ ~ HeldHere(n, k)
        /\ \E s \in Sessions :
             /\ Connected(n, s) /\ s \in live' /\ Grantable(k, s)
             /\ locks' = Granted(k, s)
             /\ conn' = [conn EXCEPT ![n] = s] /\ held' = [held EXCEPT ![n] = @ \cup {k}]
             /\ Become(p, "shared", k, s) /\ UNCHANGED faults
     \/ /\ ~ HeldHere(n, k)
        /\ \E s \in Sessions :
             /\ Connected(n, s) /\ s \in live' /\ ~ Grantable(k, s)
             /\ conn' = [conn EXCEPT ![n] = s]
             /\ Become(p, "queue", k, None) /\ UNCHANGED <<locks, held, faults>>

\* The query fails: the session is gone, or it timed out and pgx closed the
\* connection, whether or not the server had granted the key.
TryFails(p, k) ==
  LET n == NodeOf[p] IN
  /\ pc[p] = "idle" /\ ~ HeldHere(n, k)
  /\ \E s \in Sessions :
       /\ Connected(n, s)
       /\ \/ s \notin live' /\ UNCHANGED <<locks, faults>>
          \/ s \in live' /\ Fault /\ UNCHANGED locks
          \/ s \in live' /\ Fault /\ Grantable(k, s) /\ locks' = Granted(k, s)
  /\ Forget(n)
  /\ UNCHANGED <<pc, want, sess>>

\* waitFor: a connection of its own queues for the key.
Queue(p) ==
  /\ pc[p] = "queue"
  /\ \E s \in Sessions :
       /\ Unused(s)
       /\ live' = live \cup {s}
       /\ Become(p, "waiting", want[p], s)
  /\ UNCHANGED <<locks, conn, held, faults>>

\* PostgreSQL grants the key to a session that waits for it.
Grant(p) ==
  /\ pc[p] = "waiting" /\ sess[p] \in live /\ Grantable(want[p], sess[p])
  /\ locks' = Granted(want[p], sess[p])
  /\ Become(p, "alone", want[p], sess[p])
  /\ UNCHANGED <<live, conn, held, faults>>

\* waitFor's error: the caller gives up, or its waiting session ended.  Either
\* way the connection is closed.  A caller that does not wait gives up at once.
GiveUp(p) ==
  /\ pc[p] \in {"queue", "waiting"}
  /\ Return(p)
  /\ UNCHANGED <<live, locks, conn, held, faults>>

\* A lock taken on a session that has since closed already ended with it.
NeverStale(n, s) == FALSE
Stale(n, s) == conn[n] # s

\* closeLocked.  Closing the session is the only way to be sure that a key
\* whose unlock failed is not left held.
StaysOpen(n) == UNCHANGED <<conn, held>>
CloseLocked(n) == Forget(n)

\* release of a key on the shared session.
Release(p) ==
  LET n == NodeOf[p]
      k == want[p]
      s == sess[p] IN
  /\ pc[p] = "shared"
  /\ \/ Stale(n, s) /\ UNCHANGED <<locks, conn, held>>
     \/ /\ ~ Stale(n, s) /\ conn[n] \in live
        /\ locks' = IF locks[k].by = conn[n] THEN Unlocked(k) ELSE locks
        /\ held' = [held EXCEPT ![n] = @ \ {k}]
        /\ UNCHANGED conn
     \/ ~ Stale(n, s) /\ conn[n] \notin live /\ CloseLocked(n) /\ UNCHANGED locks
  /\ Return(p)
  /\ UNCHANGED <<live, faults>>

\* The unlock query fails on a live session.
ReleaseFails(p) ==
  LET n == NodeOf[p] IN
  /\ pc[p] = "shared" /\ ~ Stale(n, sess[p]) /\ conn[n] \in live /\ Fault
  /\ CloseLocked(n)
  /\ Return(p)
  /\ UNCHANGED <<live, locks>>

\* release of a key on a connection of its own: the connection is closed.
Close(p) ==
  /\ pc[p] = "alone"
  /\ Return(p)
  /\ UNCHANGED <<live, locks, conn, held, faults>>

\* keepAlive: an unused session is closed; one whose ping fails, because it is
\* gone or did not answer in time, is forgotten.
KeepAlive(n) ==
  /\ conn[n] # None
  /\ \/ (held[n] = {} \/ conn[n] \notin live) /\ UNCHANGED faults
     \/ held[n] # {} /\ conn[n] \in live /\ Fault
  /\ Forget(n)
  /\ UNCHANGED <<live, locks, pc, want, sess>>

\* The server ends a session and with it every lock it holds.
End(s) ==
  /\ live' = live \ {s}
  /\ locks' = [k \in Keys |-> IF locks[k].by = s THEN Free ELSE locks[k]]
  /\ UNCHANGED <<conn, held, pc, want, sess>>

\* The client closed it, or vanished and it sat idle too long.
Reap(s) == s \in live /\ Abandoned(s) /\ End(s) /\ UNCHANGED faults

Kill(s) == s \in live /\ Fault /\ End(s)

Crash(n) ==
  /\ Fault
  /\ \E p \in Procs : NodeOf[p] = n /\ pc[p] # "idle"
  /\ Forget(n)
  /\ pc' = [p \in Procs |-> IF NodeOf[p] = n THEN "idle" ELSE pc[p]]
  /\ want' = [p \in Procs |-> IF NodeOf[p] = n THEN None ELSE want[p]]
  /\ sess' = [p \in Procs |-> IF NodeOf[p] = n THEN None ELSE sess[p]]
  /\ UNCHANGED <<live, locks>>

Init ==
  /\ live = {} /\ locks = [k \in Keys |-> Free]
  /\ conn = [n \in Nodes |-> None] /\ held = [n \in Nodes |-> {}]
  /\ pc = [p \in Procs |-> "idle"]
  /\ want = [p \in Procs |-> None] /\ sess = [p \in Procs |-> None]
  /\ faults = 0

Next ==
  \/ \E p \in Procs :
       \/ Queue(p) \/ Grant(p) \/ GiveUp(p) \/ Release(p) \/ ReleaseFails(p) \/ Close(p)
       \/ \E k \in Keys : Try(p, k) \/ TryFails(p, k)
  \/ \E n \in Nodes : KeepAlive(n) \/ Crash(n)
  \/ \E s \in Sessions : Reap(s) \/ Kill(s)

Spec == Init /\ [][Next]_vars

(***************************************************************************)
(* Fairness: holders defer their release, the server ends the sessions     *)
(* nobody uses (at the latest when they idled idleLimit), and PostgreSQL's *)
(* lock queue lets nobody overtake a waiter for ever.  A query on an ended *)
(* session fails.                                                          *)
(***************************************************************************)
FairSpec ==
  /\ Spec
  /\ \A p \in Procs : WF_vars(Release(p) \/ Close(p)) /\ WF_vars(Queue(p)) /\ SF_vars(Grant(p))
  /\ \A p \in Procs : WF_vars(pc[p] = "waiting" /\ sess[p] \notin live /\ GiveUp(p))
  /\ \A s \in Sessions : WF_vars(Reap(s))

(***************************************************************************)
(* Properties                                                              *)
(***************************************************************************)
TypeOK ==
  /\ live \subseteq Sessions
  /\ locks \in [Keys -> [by : Sessions \cup {None}, n : Nat]]
  /\ conn \in [Nodes -> Sessions \cup {None}] /\ held \in [Nodes -> SUBSET Keys]
  /\ pc \in [Procs -> {"idle", "queue", "waiting", "shared", "alone"}]
  /\ want \in [Procs -> Keys \cup {None}] /\ sess \in [Procs -> Sessions \cup {None}]
  /\ faults \in Nat

\* p was told that it holds k, and the session it holds it on has not ended.
Holding(p, k) == pc[p] \in {"shared", "alone"} /\ want[p] = k /\ sess[p] \in live

\* Two goroutines, of one process or of two, never both hold a key.
Exclusion ==
  \A k \in Keys : \A p, q \in Procs : Holding(p, k) /\ Holding(q, k) => p = q

\* Whoever holds a key has it from the server, once: one release frees it.
HoldersLocked ==
  \A k \in Keys : \A p \in Procs :
    Holding(p, k) => locks[k] = [by |-> sess[p], n |-> 1]

\* No key is left locked on a session the process goes on using: a goroutine
\* still holds it and will release it.
NothingLeaked ==
  \A n \in Nodes, k \in Keys :
    conn[n] # None /\ locks[k].by = conn[n] =>
      /\ k \in held[n]
      /\ \E p \in Procs : NodeOf[p] = n /\ Holding(p, k) /\ sess[p] = conn[n]

\* The connections, locks and held keys agree with what goroutines believe.
LocksOK == TypeOK /\ Exclusion /\ HoldersLocked /\ NothingLeaked

\* A waiter gets its key or gives up, whatever happens to the holders.
WaitersServed == \A p \in Procs : pc[p] = "waiting" ~> pc[p] # "waiting"

Holder(k) ==
  IF \E p \in Procs : Holding(p, k) THEN CHOOSE p \in Procs : Holding(p, k) ELSE None

Abstract == INSTANCE KeyLock WITH holder <- [k \in Keys |-> Holder(k)]

\* What callers believe of the lock is all that can happen to it.
ImplementsKeyLock == Abstract!Spec
=============================================================================
