------------------------------- MODULE KeyLock -------------------------------
(***************************************************************************)
(* What the rest of the program believes of a lock: a key has at most one  *)
(* holder, who keeps it until it releases it or loses it.  A holder is not *)
(* told that it lost a key.  ManifestJournal's folder lock is one key of   *)
(* this specification; PgLock implements it.                               *)
(***************************************************************************)
CONSTANTS Procs, Keys, None

VARIABLE holder    \* [Keys -> Procs \cup {None}]

Init == holder = [k \in Keys |-> None]

Acquire(p, k) == holder[k] = None /\ holder' = [holder EXCEPT ![k] = p]

\* A session that ends takes every key taken on it.
Give(keys) ==
  /\ \E k \in keys : holder[k] # None
  /\ holder' = [k \in Keys |-> IF k \in keys THEN None ELSE holder[k]]

Next == \/ \E p \in Procs, k \in Keys : Acquire(p, k)
        \/ \E keys \in SUBSET Keys : Give(keys)

Spec == Init /\ [][Next]_holder
=============================================================================
