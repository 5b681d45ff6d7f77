---------------------------- MODULE ManifestStore ----------------------------
(***************************************************************************)
(* What the commit journal promises its callers: a folder behaves as one   *)
(* object that every operation edits atomically, at its current content,   *)
(* at most once, and an operation is only answered after its edit.  There  *)
(* are no processes, leases, attempts or storage requests here.            *)
(* ManifestJournal implements this specification; an operation's edit is   *)
(* the landing of its one conditional PUT.                                 *)
(***************************************************************************)
CONSTANTS Ops, Keys, Work, None, Root

VARIABLES
  content,   \* None, or [by, refs, inc, deleted]
  done,      \* operations that edited the folder
  answered   \* operations whose client was told they are done

vars == <<content, done, answered>>

Kind(o) == Work[o].kind
Empty == [by |-> Root, refs |-> {}, inc |-> Root, deleted |-> FALSE]

Living(c) == c # None /\ ~ c.deleted

\* A first edit starts an incarnation of its own.
Base(o) == IF content = None THEN [Empty EXCEPT !.by = o, !.inc = o] ELSE content

Commit(o) ==
  /\ Kind(o) = "commit"
  /\ content = None \/ Living(content)
  /\ content' = [Base(o) EXCEPT !.by = o, !.refs = (@ \ Work[o].drops) \cup Work[o].adds]

\* A worker replaces what it placed, unless a client removed that meanwhile.
Record(o) ==
  /\ Kind(o) = "record" /\ Living(content)
  /\ content' = [content EXCEPT !.by = o,
                   !.refs = IF Work[o].drops \subseteq @
                              THEN (@ \ Work[o].drops) \cup Work[o].adds ELSE @]

\* The sweep only removes expired uploads.
Expire(o) ==
  /\ Kind(o) = "expire" /\ Living(content)
  /\ \E kept \in SUBSET content.refs : content' = [content EXCEPT !.by = o, !.refs = kept]

\* A purge leaves a tombstone of the same incarnation.
Purge(o) ==
  /\ Kind(o) = "purge"
  /\ content' = [Base(o) EXCEPT !.by = o, !.refs = {}, !.deleted = TRUE]

\* Only the reset of the very purge that made the tombstone reopens the
\* folder, empty and under a new incarnation.
Reset(o) ==
  /\ Kind(o) = "reset" /\ content # None /\ content.deleted /\ content.by = Work[o].of
  /\ content' = [by |-> o, refs |-> {}, inc |-> o, deleted |-> FALSE]

Apply(o) ==
  /\ o \notin done
  /\ done' = done \cup {o}
  /\ Commit(o) \/ Record(o) \/ Expire(o) \/ Purge(o) \/ Reset(o)
  /\ UNCHANGED answered

\* An empty root never replaces anything.
Open == content = None /\ content' = Empty /\ UNCHANGED <<done, answered>>

Answer(o) == o \in done /\ answered' = answered \cup {o} /\ UNCHANGED <<content, done>>

Init == content \in {None, Empty} /\ done = {} /\ answered = {}

Next == Open \/ \E o \in Ops : Apply(o) \/ Answer(o)

Spec == Init /\ [][Next]_vars
=============================================================================
