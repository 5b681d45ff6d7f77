-------------------------- MODULE MCManifestJournal --------------------------
(***************************************************************************)
(* Small instances of ManifestJournal: which operations contend, on which  *)
(* keys.  The sets of processes and operations are in the .cfg files.      *)
(***************************************************************************)
EXTENDS ManifestJournal, TLC

CONSTANTS k1, k2, c1, c2, c3, c4, c5

Task(kind, adds, drops) == [kind |-> kind, adds |-> adds, drops |-> drops, of |-> None]

\* The worker places staged upload k1 as blob k2 while a client removes k1.
EditWork == c1 :> Task("commit", {k1}, {}) @@ c2 :> Task("record", {k2}, {k1})
            @@ c3 :> Task("commit", {}, {k1})

\* An upload, the purge of its item, and the reset that reopens the folder.
PurgeWork == c1 :> Task("commit", {k1}, {}) @@ c2 :> Task("purge", {}, {})
             @@ c3 :> [Task("reset", {}, {}) EXCEPT !.of = c2]

\* A folder that does not exist yet: allocate k1, commit it, sweep it when it
\* expires, drop it when nothing references it, and retire the item.
KeyWork == c1 :> Task("alloc", {k1}, {}) @@ c2 :> Task("commit", {k1}, {})
           @@ c3 :> Task("drop", {}, {k1}) @@ c4 :> Task("expire", {}, {})
           @@ c5 :> Task("retire", {}, {})

\* The owner retires the item while a first edit creates the manifest.
RetireWork == c1 :> Task("commit", {}, {}) @@ c2 :> Task("retire", {}, {})

\* A staged upload expires before it is placed; the item is purged later.
ExpireWork == c1 :> Task("commit", {k1}, {}) @@ c2 :> Task("expire", {}, {})
              @@ c3 :> Task("purge", {}, {})

Symmetry == Permutations(Procs)
=============================================================================
