------------------------------ MODULE RerunQueue -----------------------------
(***************************************************************************)
(* River jobs that recompute something from inputs which keep changing     *)
(* (src/internal/mediastore/river.go): media ingest and derivatives, the   *)
(* search sync, publication.  Equal jobs coalesce.  A running job may have *)
(* read its inputs before a change, so the change queues a follow-up that  *)
(* names the running job.                                                  *)
(*                                                                         *)
(* One family of equal jobs is modelled.  Inputs are a version number; a   *)
(* job is identified by the order of its insertion.  A unique conflict     *)
(* locks the row it meets, so the inserts of a transaction take effect     *)
(* together with its change; outside one, each insert is a step.           *)
(***************************************************************************)
EXTENDS Naturals

CONSTANTS
  Clients,     \* goroutines that change the inputs and enqueue
  MaxChanges,  \* bound on changes
  MaxPasses,   \* bound on passes that leave work to a next one
  MaxFaults    \* bound on failed attempts and lost workers and clients

ASSUME BoundAssumption == MaxChanges \in Nat /\ MaxPasses \in Nat /\ MaxFaults \in Nat
ASSUME ClientAssumption == Clients \cap Nat = {}

\* One InsertOnce inserts one job at most.
MaxJobs == MaxChanges + MaxPasses
Jobs == 1 .. MaxJobs
Callers == Clients \cup Jobs

VARIABLES
  version,   \* of the inputs
  jobs,      \* each job's pc, the job it follows (0: none), the inputs it read
  calls,     \* InsertOnce in progress: whose job it looks for next, and for which change
  told,      \* newest change whose InsertOnce has returned
  applied,   \* newest inputs a completed job has dealt with
  passes, faults

vars == <<version, jobs, calls, told, applied, passes, faults>>

NoJob == [pc |-> "none", after |-> 0, saw |-> 0]
NoCall == [active |-> FALSE, next |-> 0, change |-> 0]

PCs == {"none", "waiting", "fetched", "cleared", "working", "passing", "passed", "dead", "done"}

\* The job's row says running, also when its worker died.
Running(j) == jobs[j].pc \in {"fetched", "cleared", "working", "passing", "passed", "dead"}

\* PendingOnce: an unfinished job is unique by its arguments, a running one too.
Pending(j) == jobs[j].pc = "waiting" \/ Running(j)
Equal(after) == {j \in Jobs : Pending(j) /\ jobs[j].after = after}

Newest(a, b) == IF a > b THEN a ELSE b

AbsorbsRunning(j) == TRUE
\* Only a job that has yet to start is sure to read the change.
Absorbs(j) == ~ Running(j)

\* InsertOnce within one transaction ends behind the running jobs: each follows
\* one before it, or none.
EndsBehind(t) ==
  /\ \A j \in Equal(t) : Absorbs(j)
  /\ \E S \in SUBSET {j \in Jobs : Running(j) /\ ~ Absorbs(j)} :
       t \in S \cup {0} /\ \A j \in S : jobs[j].after \in S \cup {0}

\* insert's effect on the table, for one set of arguments.
Inserted(after) ==
  IF Equal(after) # {} THEN jobs
  ELSE LET new == CHOOSE j \in Jobs : jobs[j].pc = "none"
                                      /\ \A i \in Jobs : jobs[i].pc = "none" => j <= i
       IN [jobs EXCEPT ![new] = [pc |-> "waiting", after |-> after, saw |-> 0]]

Step(j, from, to) == jobs[j].pc = from /\ jobs' = [jobs EXCEPT ![j].pc = to]
Fault == faults < MaxFaults /\ faults' = faults + 1

(***************************************************************************)
(* Enqueueing                                                              *)
(***************************************************************************)
\* The change commits first and is enqueued after it.
Change(c) ==
  /\ version < MaxChanges /\ ~ calls[c].active
  /\ version' = version + 1
  /\ calls' = [calls EXCEPT ![c] = [active |-> TRUE, next |-> 0, change |-> version']]
  /\ UNCHANGED <<jobs, told, applied, passes, faults>>

\* The change and its job commit together.
ChangeTx(c) ==
  /\ version < MaxChanges /\ ~ calls[c].active
  /\ version' = version + 1
  /\ told' = version'
  /\ \E t \in 0 .. MaxJobs : EndsBehind(t) /\ jobs' = Inserted(t)
  /\ UNCHANGED <<calls, applied, passes, faults>>

\* One round of InsertOnce: behind a running equal job, look for its follow-up.
Insert(x) ==
  /\ calls[x].active
  /\ \/ \E j \in Equal(calls[x].next) :
          /\ ~ Absorbs(j)
          /\ calls' = [calls EXCEPT ![x].next = j]
          /\ UNCHANGED <<jobs, told>>
     \/ /\ \A j \in Equal(calls[x].next) : Absorbs(j)
        /\ jobs' = IF x \in Jobs THEN [Inserted(calls[x].next) EXCEPT ![x].pc = "passed"]
                   ELSE Inserted(calls[x].next)
        /\ told' = Newest(told, calls[x].change)
        /\ calls' = [calls EXCEPT ![x] = NoCall]
  /\ UNCHANGED <<version, applied, passes, faults>>

\* The client fails between its change and the enqueue.
LoseClient(c) ==
  /\ calls[c].active /\ Fault
  /\ calls' = [calls EXCEPT ![c] = NoCall]
  /\ UNCHANGED <<version, jobs, told, applied, passes>>

(***************************************************************************)
(* Working a job                                                           *)
(***************************************************************************)
Work == UNCHANGED <<version, calls, told, applied, passes, faults>>

Fetch(j) == Step(j, "waiting", "fetched") /\ Work

\* WaitFor returns nil where it should snooze.
Skipped == "done"
Snoozed == "waiting"

Follows(j) == jobs[j].after # 0 /\ Running(jobs[j].after)
Wait(j) == Follows(j) /\ Step(j, "fetched", Snoozed) /\ Work
Start(j) == ~ Follows(j) /\ Step(j, "fetched", "cleared") /\ Work

Read(j) ==
  /\ jobs[j].pc = "cleared"
  /\ jobs' = [jobs EXCEPT ![j].pc = "working", ![j].saw = version]
  /\ Work

\* The run has dealt with what it read.
Apply(j) ==
  /\ Step(j, "working", "done")
  /\ applied' = Newest(applied, jobs[j].saw)
  /\ UNCHANGED <<version, calls, told, passes, faults>>

\* Work remains: the next run is queued behind this one, which then completes.
Continue(j) ==
  /\ passes < MaxPasses /\ passes' = passes + 1
  /\ Step(j, "working", "passing")
  /\ calls' = [calls EXCEPT ![j] = [active |-> TRUE, next |-> j, change |-> 0]]
  /\ UNCHANGED <<version, told, applied, faults>>

Complete(j) == Step(j, "passed", "done") /\ Work

\* An attempt fails and is retried.
Fail(j) ==
  /\ Fault
  /\ jobs[j].pc \in {"fetched", "cleared", "working", "passing", "passed"}
  /\ jobs' = [jobs EXCEPT ![j].pc = "waiting"]
  /\ calls' = [calls EXCEPT ![j] = NoCall]
  /\ UNCHANGED <<version, told, applied, passes>>

\* The last attempt fails: what the inputs ask for now is recorded as failed.
Report(j) ==
  /\ jobs[j].pc = "working" /\ Fault
  /\ jobs' = [jobs EXCEPT ![j].saw = version]
  /\ UNCHANGED <<version, calls, told, applied, passes>>

\* The worker's process dies; the row says running until it is rescued.
LoseWorker(j) ==
  /\ Fault
  /\ jobs[j].pc \in {"fetched", "cleared", "working", "passing", "passed"}
  /\ jobs' = [jobs EXCEPT ![j].pc = "dead"]
  /\ calls' = [calls EXCEPT ![j] = NoCall]
  /\ UNCHANGED <<version, told, applied, passes>>

Rescue(j) == Step(j, "dead", "waiting") /\ Work

Init ==
  /\ version = 0 /\ told = 0 /\ applied = 0 /\ passes = 0 /\ faults = 0
  /\ jobs = [j \in Jobs |-> NoJob]
  /\ calls = [x \in Callers |-> NoCall]

Next ==
  \/ \E c \in Clients : Change(c) \/ ChangeTx(c) \/ LoseClient(c)
  \/ \E x \in Callers : Insert(x)
  \/ \E j \in Jobs :
       \/ Fetch(j) \/ Wait(j) \/ Start(j) \/ Read(j) \/ Apply(j) \/ Continue(j)
       \/ Complete(j) \/ Fail(j) \/ Report(j) \/ LoseWorker(j) \/ Rescue(j)

Spec == Init /\ [][Next]_vars

\* River fetches what is due, workers go on, and stuck jobs are rescued.
FairSpec ==
  /\ Spec
  /\ \A j \in Jobs :
       /\ WF_vars(Fetch(j)) /\ WF_vars(Rescue(j)) /\ WF_vars(Insert(j))
       /\ WF_vars(Wait(j) \/ Start(j) \/ Read(j) \/ Apply(j) \/ Complete(j))

(***************************************************************************)
(* Properties                                                              *)
(***************************************************************************)
\* Every variable has values of its own kind, and the table's unique index
\* holds: one unfinished job at most for one set of arguments.
TypeOK ==
  /\ \A i, j \in Jobs : Pending(i) /\ Pending(j) /\ i # j => jobs[i].after # jobs[j].after
  /\ version \in 0 .. MaxChanges /\ told \in 0 .. version /\ applied \in 0 .. version
  /\ jobs \in [Jobs -> [pc : PCs, after : 0 .. MaxJobs, saw : 0 .. MaxChanges]]
  /\ calls \in [Callers -> [active : BOOLEAN, next : 0 .. MaxJobs, change : 0 .. MaxChanges]]
  /\ passes \in 0 .. MaxPasses /\ faults \in 0 .. MaxFaults

\* A change that was enqueued is dealt with, or a job will still read it, or
\* the one that runs has read it (InsertOnce, river.go:26-30).
NoLostWakeup ==
  \/ applied >= told
  \/ \E j \in Jobs :
       /\ Pending(j)
       /\ jobs[j].pc \in {"working", "passing"} => jobs[j].saw >= told
       /\ jobs[j].pc # "passed"

\* The table is well-formed and no enqueued change is forgotten in it.
JobsOK == TypeOK /\ NoLostWakeup

\* Every enqueued change is dealt with in the end, through failed attempts,
\* dead workers, follow-ups and bounded passes.
ChangesApplied == \A v \in 1 .. MaxChanges : told >= v ~> applied >= v

\* river.go:43-45: WaitFor snoozes a follow-up while the job it follows still
\* runs, so jobs for the same inputs do not overlap.
NoOverlap ==
  \A i, j \in Jobs :
    jobs[i].pc \in {"working", "passing"} /\ jobs[j].pc \in {"working", "passing"} => i = j
=============================================================================
