---------------------------- MODULE JobScheduler ----------------------------
(***************************************************************************)
(* The job scheduler of the Local Runtime (runtime/scheduler.py): one      *)
(* instance per connection, all of whose methods are synchronous, so that  *)
(* each of them is one action.                                             *)
(*                                                                         *)
(* Job identifiers are the positions of the jobs dictionary, which Python  *)
(* keeps in insertion order.  Only submit() appends to the queue, and what *)
(* it appends is the newest identifier, so the queue is the set of the     *)
(* waiting identifiers and its FIFO order is the order of the identifiers. *)
(* children[j] is the list of the jobs whose parent is j, in that order.   *)
(***************************************************************************)
EXTENDS Integers, Sequences, FiniteSets

CONSTANTS
  Role,              (* agent identifiers of the registry                  *)
  Concurrency,       (* running jobs an agent may have                     *)
  QueueLimit,        (* waiting jobs an agent may have                     *)
  GlobalConcurrency, (* running jobs of the scheduler                      *)
  GlobalQueueLimit,  (* waiting jobs of the scheduler                      *)
  Key,               (* idempotency keys                                   *)
  NoKey,             (* a submission without a key                         *)
  HeartbeatTimeout,  (* the argument of expire()                           *)
  MinRetryDeadline,  (* the 100 ms floor of a retried deadline             *)
  MaxJobs,           (* bound: jobs ever submitted                         *)
  MaxTime,           (* bound: the clock                                   *)
  (* What callers may ask for.                                             *)
  Deadlines, RetryBudgets, Cancellables, Delegation

ASSUME BoundsAssumption ==
  /\ Concurrency \in [Role -> Nat \ {0}]
  /\ QueueLimit \in [Role -> Nat \ {0}]
  /\ GlobalConcurrency \in Nat \ {0}
  /\ GlobalQueueLimit \in Nat \ {0}

ASSUME InputsAssumption ==
  /\ NoKey \notin Key
  /\ HeartbeatTimeout \in Nat
  /\ MinRetryDeadline \in Nat
  /\ MaxJobs \in Nat
  /\ MaxTime \in Nat
  /\ Deadlines \subseteq Nat
  /\ RetryBudgets \subseteq Nat
  /\ Cancellables \subseteq BOOLEAN
  /\ Delegation \in BOOLEAN

VARIABLES
  jobs,        (* the jobs dictionary, as a sequence                       *)
  queue,       (* identifiers waiting to start                             *)
  idempotency, (* the job a key names, or NoJob                            *)
  clock        (* clock_ms()                                               *)

vars == <<jobs, queue, idempotency, clock>>

-----------------------------------------------------------------------------
(* Jobs and their life cycle.                                              *)

NoJob == 0

TerminalStates == {"COMPLETED", "FAILED", "CANCELLED", "TIMED_OUT", "BLOCKED_POLICY"}

JobState == {"QUEUED", "RUNNING"} \cup TerminalStates

Transitions ==
  [s \in {"QUEUED", "RUNNING"} |->
     IF s = "QUEUED" THEN {"RUNNING", "CANCELLED", "TIMED_OUT", "BLOCKED_POLICY"}
                     ELSE {"COMPLETED", "FAILED", "CANCELLED", "TIMED_OUT"}]

Job == [task: Nat, role: Role, state: JobState, created: Nat, deadline: Nat,
        heartbeat: Nat, attempt: Nat, budget: Nat, parent: Nat,
        cancellable: BOOLEAN, key: Key \cup {NoKey}]

JobIds == DOMAIN jobs

InState(S) == {j \in JobIds : jobs[j].state \in S}

Running == InState({"RUNNING"})

Terminal(j) == jobs[j].state \in TerminalStates

WithRole(S, r) == {j \in S : jobs[j].role = r}

CanTransition(j, s) == ~Terminal(j) /\ s \in Transitions[jobs[j].state]

(* replace(job, state = s, heartbeat_ms = now) for every job of S.         *)
Transitioned(S, s) ==
  [j \in JobIds |-> IF j \in S THEN [jobs[j] EXCEPT !.state = s, !.heartbeat = clock]
                               ELSE jobs[j]]

(* Mutant: transition() that leaves the job in the queue.                  *)
TransitionAllStaysQueued(S, s) ==
  /\ jobs' = Transitioned(S, s)
  /\ UNCHANGED <<queue, idempotency, clock>>

(* transition(j, s) for every j of S, which the caller has found legal.    *)
TransitionAll(S, s) ==
  /\ jobs' = Transitioned(S, s)
  /\ queue' = queue \ S
  /\ UNCHANGED <<idempotency, clock>>

-----------------------------------------------------------------------------
(* Operations.                                                             *)

Init ==
  /\ jobs = <<>>
  /\ queue = {}
  /\ idempotency = [k \in Key |-> NoJob]
  /\ clock = 0

(* Mutant: both bounds off by one.                                         *)
HasRoomForOneMore(r) ==
  /\ Cardinality(queue) <= GlobalQueueLimit
  /\ Cardinality(WithRole(queue, r)) <= QueueLimit[r]

(* Neither of submit's QueueFull errors applies.                           *)
HasRoom(r) ==
  /\ Cardinality(queue) < GlobalQueueLimit
  /\ Cardinality(WithRole(queue, r)) < QueueLimit[r]

NewId == Len(jobs) + 1

(* A context without a task joins the task of the parent, or founds one.   *)
TaskFor(parent) == IF parent = NoJob THEN NewId ELSE jobs[parent].task

NewJob(task, r, deadline, attempt, budget, parent, cancellable, k) ==
  [task |-> task, role |-> r, state |-> "QUEUED", created |-> clock,
   deadline |-> clock + deadline, heartbeat |-> clock, attempt |-> attempt,
   budget |-> budget, parent |-> parent, cancellable |-> cancellable, key |-> k]

(* Mutant: a key keeps the first job it was given.                         *)
EnqueueFirstKeyWins(job) ==
  /\ Len(jobs) < MaxJobs
  /\ jobs' = Append(jobs, job)
  /\ queue' = queue \cup {NewId}
  /\ idempotency' = IF job.key = NoKey \/ idempotency[job.key] # NoJob THEN idempotency
                     ELSE [idempotency EXCEPT ![job.key] = NewId]
  /\ UNCHANGED clock

Enqueue(job) ==
  /\ Len(jobs) < MaxJobs
  /\ jobs' = Append(jobs, job)
  /\ queue' = queue \cup {NewId}
  /\ idempotency' = IF job.key = NoKey THEN idempotency
                                       ELSE [idempotency EXCEPT ![job.key] = NewId]
  /\ UNCHANGED clock

(* A key that is known returns the job it names and changes nothing.       *)
KnownKey(k) == k # NoKey /\ idempotency[k] # NoJob

Submit(r, deadline, budget, parent, cancellable, k) ==
  /\ ~KnownKey(k)
  /\ HasRoom(r)
  /\ parent # NoJob => Delegation
  /\ Enqueue(NewJob(TaskFor(parent), r, deadline, 1, budget, parent, cancellable, k))

(* Mutant: the agent's running jobs are compared with <=.                  *)
StartableOneTooMany ==
  {j \in queue : Cardinality(WithRole(Running, jobs[j].role)) <= Concurrency[jobs[j].role]}

(* Waiting jobs whose agent has a free slot.                               *)
Startable ==
  {j \in queue : Cardinality(WithRole(Running, jobs[j].role)) < Concurrency[jobs[j].role]}

(* Mutant: the newest startable job first.                                 *)
IsNewestToStart(j) ==
  /\ Cardinality(Running) < GlobalConcurrency
  /\ j \in Startable
  /\ \A i \in Startable : j >= i

(* The job start_next() moves to RUNNING: the oldest startable one.        *)
IsNextToStart(j) ==
  /\ Cardinality(Running) < GlobalConcurrency
  /\ j \in Startable
  /\ \A i \in Startable : j <= i

StartNext == \E j \in queue : IsNextToStart(j) /\ TransitionAll({j}, "RUNNING")

(* start_next() returns None.                                              *)
NothingToStart == \A j \in queue : ~IsNextToStart(j)

(* transition() as callers use it: a worker's outcome, a policy block.     *)
Finish(j, s) ==
  /\ s \in {"COMPLETED", "FAILED", "BLOCKED_POLICY"}
  /\ CanTransition(j, s)
  /\ TransitionAll({j}, s)

Heartbeat(j) ==
  /\ jobs[j].state = "RUNNING"
  /\ jobs' = [jobs EXCEPT ![j].heartbeat = clock]
  /\ UNCHANGED <<queue, idempotency, clock>>

(* Mutant: expire() that does not look at job.terminal.                    *)
OverdueEvenTerminal ==
  {j \in JobIds : \/ clock >= jobs[j].deadline
                  \/ clock - jobs[j].heartbeat >= HeartbeatTimeout}

Overdue ==
  {j \in JobIds : /\ ~Terminal(j)
                  /\ \/ clock >= jobs[j].deadline
                     \/ /\ jobs[j].state = "RUNNING"
                        /\ clock - jobs[j].heartbeat >= HeartbeatTimeout}

Expire == Overdue # {} /\ TransitionAll(Overdue, "TIMED_OUT")

Root(j, t) == jobs[j].task = t /\ jobs[j].parent = NoJob

(* Mutant: the traversal stops at jobs that have finished.                 *)
VisitedWhileLive(t) ==
  LET visit[j \in JobIds] ==
        /\ ~Terminal(j)
        /\ \/ Root(j, t)
           \/ /\ jobs[j].parent # NoJob
              /\ jobs[j].cancellable
              /\ visit[jobs[j].parent]
  IN  {j \in JobIds : visit[j]}

(* The jobs _cancel_tree visits: the roots of t, and then every child that *)
(* is cancellable, below whatever it visits.  A child is younger than its  *)
(* parent, so the recursion is on the identifier.                          *)
Visited(t) ==
  LET visit[j \in JobIds] ==
        \/ Root(j, t)
        \/ /\ jobs[j].parent # NoJob
           /\ jobs[j].cancellable
           /\ visit[jobs[j].parent]
  IN  {j \in JobIds : visit[j]}

(* Mutant: every live job of the task.                                     *)
CancelWholeTask(t) == {j \in JobIds : jobs[j].task = t /\ ~Terminal(j)}

(* Of these it cancels the live ones, the roots whatever they declare.     *)
CancelSet(t) ==
  {j \in Visited(t) : ~Terminal(j) /\ (Root(j, t) \/ jobs[j].cancellable)}

CancelTask(t) == CancelSet(t) # {} /\ TransitionAll(CancelSet(t), "CANCELLED")

(* What both outcomes of retry() require.  It deletes the key first, which *)
(* raises when the key is not there.                                       *)
Retryable(j) ==
  /\ jobs[j].state \in {"FAILED", "TIMED_OUT"}
  /\ jobs[j].attempt <= jobs[j].budget
  /\ jobs[j].key # NoKey => idempotency[jobs[j].key] # NoJob

MaxOf(a, b) == IF a >= b THEN a ELSE b

RetryJob(j) ==
  NewJob(jobs[j].task, jobs[j].role,
         MaxOf(MinRetryDeadline, jobs[j].deadline - jobs[j].created),
         jobs[j].attempt + 1, jobs[j].budget, jobs[j].parent,
         jobs[j].cancellable, jobs[j].key)

Retry(j) == Retryable(j) /\ HasRoom(jobs[j].role) /\ Enqueue(RetryJob(j))

(* submit() raises QueueFull after the key is gone.                        *)
RetryRefused(j) ==
  /\ Retryable(j)
  /\ ~HasRoom(jobs[j].role)
  /\ jobs[j].key # NoKey
  /\ idempotency' = [idempotency EXCEPT ![jobs[j].key] = NoJob]
  /\ UNCHANGED <<jobs, queue, clock>>

Tick == clock < MaxTime /\ clock' = clock + 1 /\ UNCHANGED <<jobs, queue, idempotency>>

SubmitAny ==
  \E r \in Role, d \in Deadlines, b \in RetryBudgets,
     p \in JobIds \cup {NoJob}, c \in Cancellables, k \in Key \cup {NoKey} :
       Submit(r, d, b, p, c, k)

Next ==
  \/ SubmitAny
  \/ StartNext
  \/ \E j \in JobIds, s \in TerminalStates : Finish(j, s)
  \/ \E j \in JobIds : Heartbeat(j)
  \/ Expire
  \/ \E t \in JobIds : CancelTask(t)
  \/ \E j \in JobIds : Retry(j)
  \/ \E j \in JobIds : RetryRefused(j)
  \/ Tick

Spec == Init /\ [][Next]_vars

-----------------------------------------------------------------------------
(* Properties.                                                             *)

(* The state keeps its types (Job, 84-105, and the four containers of      *)
(* JobScheduler.__init__).                                                 *)
TypeOK ==
  /\ jobs \in Seq(Job)
  /\ queue \subseteq JobIds
  /\ idempotency \in [Key -> JobIds \cup {NoJob}]
  /\ clock \in Nat

(* The queue holds the QUEUED jobs and no other: no transition, from       *)
(* whichever method, leaves a finished job in the queue to be started, or  *)
(* a waiting one outside it to be forgotten.                               *)
QueueHoldsExactlyTheWaiting == queue = InState({"QUEUED"})

(* start_next() never overcommits the pool, whatever finishes, expires or  *)
(* is cancelled between two calls: neither the scheduler nor any agent     *)
(* runs more jobs than it may.                                             *)
ConcurrencyBounded ==
  /\ Cardinality(Running) <= GlobalConcurrency
  /\ \A r \in Role : Cardinality(WithRole(Running, r)) <= Concurrency[r]

(* submit(), also when retry() calls it, keeps both queue bounds.          *)
QueueBounded ==
  /\ Cardinality(queue) <= GlobalQueueLimit
  /\ \A r \in Role : Cardinality(WithRole(queue, r)) <= QueueLimit[r]

(* An agent's jobs start in the order they were accepted: when a job       *)
(* starts, no older job of the same agent is still waiting, although       *)
(* start_next() skips the agents that are busy.                            *)
FifoPerAgent ==
  [][\A j \in queue :
       jobs'[j].state = "RUNNING"
       => \A i \in queue : (i < j /\ jobs[i].role = jobs[j].role) => jobs'[i].state # "QUEUED"]_vars

(* A job that reached a terminal state never changes again: a late         *)
(* completion, a heartbeat, expiry or cancellation cannot rewrite it.      *)
TerminalIsFinal ==
  [][\A j \in JobIds : Terminal(j) => jobs'[j] = jobs[j]]_vars

(* "Propagates only to descendants declared cancellable": below a root, a  *)
(* job that declared itself not cancellable is never cancelled.            *)
CancelsOnlyTheCancellable ==
  \A j \in JobIds :
    jobs[j].state = "CANCELLED" => (jobs[j].parent = NoJob \/ jobs[j].cancellable)

(* j can be reached from i by going to children that are cancellable.      *)
CancellableBelow(j, i) ==
  \E n \in 1 .. Len(jobs) : \E path \in [1 .. n -> JobIds] :
    /\ path[1] = i /\ path[n] = j
    /\ \A m \in 1 .. n - 1 : /\ jobs[path[m + 1]].parent = path[m]
                             /\ jobs[path[m + 1]].cancellable

(* Cancelling a task is complete: once a root is cancelled nothing that    *)
(* hangs below it by cancellable links is left waiting or running, even    *)
(* under a job that had already finished.                                  *)
CancelReachesTheTree ==
  [][\A i \in JobIds :
       (jobs[i].parent = NoJob /\ jobs[i].state # "CANCELLED" /\ jobs'[i].state = "CANCELLED")
       => \A j \in JobIds : CancellableBelow(j, i) => jobs'[j].state \in TerminalStates]_vars

(* What an idempotency key names is always the newest job submitted with   *)
(* it, so a repeated submission is answered with the attempt in hand and   *)
(* never with one that a retry replaced.                                   *)
KeyNamesNewestAttempt ==
  \A k \in Key : idempotency[k] # NoJob =>
    /\ jobs[idempotency[k]].key = k
    /\ \A j \in JobIds : jobs[j].key = k => j <= idempotency[k]

=============================================================================
