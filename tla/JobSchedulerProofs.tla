------------------------- MODULE JobSchedulerProofs -------------------------
(***************************************************************************)
(* Theorems about JobScheduler, for every registry, every bound and every  *)
(* set of inputs.  Every step either accepts a job, starts the next one,   *)
(* ends some live jobs, or leaves the states of all jobs alone             *)
(* (StepShapes); each invariant is then shown over these four shapes.      *)
(***************************************************************************)
EXTENDS JobScheduler, SequenceTheorems, FiniteSetTheorems, WellFoundedInduction, TLAPS

(* The job a submission or a retry creates; a retried job has the parent   *)
(* of the one it replaces.                                                 *)
Accept(job) ==
  /\ job \in Job
  /\ job.state = "QUEUED"
  /\ job.parent \in JobIds \cup {NoJob} \cup {jobs[j].parent : j \in JobIds}
  /\ HasRoom(job.role)
  /\ Enqueue(job)

(* Some live jobs reach a terminal state together; what a cancellation     *)
(* ends is a root or declared cancellable.                                 *)
End(S, s) ==
  /\ S \subseteq {j \in JobIds : ~Terminal(j)}
  /\ s \in TerminalStates
  /\ s = "CANCELLED" => \A j \in S : jobs[j].parent = NoJob \/ jobs[j].cancellable
  /\ TransitionAll(S, s)

HeartbeatOnly(j) ==
  /\ jobs[j].state = "RUNNING"
  /\ \E h \in Nat : jobs'[j] = [jobs[j] EXCEPT !.heartbeat = h]

(* No job changes its state, and only running jobs change their heartbeat. *)
Keep ==
  /\ jobs' \in Seq(Job)
  /\ Len(jobs') = Len(jobs)
  /\ \A j \in JobIds : jobs'[j] = jobs[j] \/ HeartbeatOnly(j)
  /\ queue' = queue

Shape ==
  \/ \E job : Accept(job)
  \/ \E j \in queue : IsNextToStart(j) /\ TransitionAll({j}, "RUNNING")
  \/ \E S, s : End(S, s)
  \/ Keep

-----------------------------------------------------------------------------
(* Job identifiers are an initial segment of the naturals.                 *)
LEMMA IdsOfSeq ==
  ASSUME jobs \in Seq(Job)
  PROVE  /\ JobIds = 1 .. Len(jobs)
         /\ Len(jobs) \in Nat
         /\ \A j \in JobIds : jobs[j] \in Job
  BY DEF JobIds

(* What a job was submitted with, which nothing changes later.             *)
SameRequest(a, b) ==
  /\ a.task = b.task /\ a.role = b.role /\ a.attempt = b.attempt
  /\ a.budget = b.budget /\ a.parent = b.parent
  /\ a.cancellable = b.cancellable /\ a.key = b.key

(* The update of transition() keeps the dictionary well formed and touches *)
(* the jobs of S only.                                                     *)
LEMMA TransitionedShape ==
  ASSUME jobs \in Seq(Job), clock \in Nat, NEW S, NEW s \in JobState
  PROVE  /\ Transitioned(S, s) \in Seq(Job)
         /\ Len(Transitioned(S, s)) = Len(jobs)
         /\ DOMAIN Transitioned(S, s) = JobIds
         /\ \A j \in JobIds : Transitioned(S, s)[j] \in Job
         /\ \A j \in JobIds \cap S :
              /\ Transitioned(S, s)[j].state = s
              /\ SameRequest(Transitioned(S, s)[j], jobs[j])
         /\ \A j \in JobIds \ S : Transitioned(S, s)[j] = jobs[j]
<1>1. \A j \in JobIds : Transitioned(S, s)[j] \in Job
  BY IdsOfSeq DEF Transitioned, Job
<1>2. DOMAIN Transitioned(S, s) = JobIds
  BY DEF Transitioned
<1>3. /\ Transitioned(S, s) \in Seq(Job)
      /\ Len(Transitioned(S, s)) = Len(jobs)
  <2> DEFINE f == Transitioned(S, s)
             n == Len(jobs)
  <2>1. f = [i \in 1 .. n |-> f[i]]
    BY IdsOfSeq DEF Transitioned
  <2>2. \A i \in 1 .. n : f[i] \in Job
    BY <1>1, IdsOfSeq
  <2>3. n \in Nat
    BY IdsOfSeq
  <2> HIDE DEF f, n
  <2>4. f \in Seq(Job)
    BY <2>1, <2>2, <2>3, IsASeq
  <2>5. Len(f) = n
    BY <2>1, <2>3, <2>4, LenProperties
  <2> QED
    BY <2>4, <2>5 DEF f, n
<1>4. ASSUME NEW j \in JobIds \cap S
      PROVE  /\ Transitioned(S, s)[j].state = s
             /\ SameRequest(Transitioned(S, s)[j], jobs[j])
  <2> DEFINE a == [jobs[j] EXCEPT !.state = s]
  <2>1. jobs[j] \in Job
    BY IdsOfSeq
  <2>2. a \in Job /\ a.state = s /\ SameRequest(a, jobs[j])
    BY <2>1 DEF Job, SameRequest
  <2>3. Transitioned(S, s)[j] = [a EXCEPT !.heartbeat = clock]
    BY DEF Transitioned
  <2> HIDE DEF a
  <2> QED
    BY <2>2, <2>3 DEF Job, SameRequest
<1> QED
  BY <1>1, <1>2, <1>3, <1>4 DEF Transitioned

(* Accepting a job appends it and changes no other.                        *)
LEMMA EnqueueShape ==
  ASSUME jobs \in Seq(Job), NEW job \in Job, Enqueue(job)
  PROVE  /\ jobs' \in Seq(Job)
         /\ Len(jobs') = NewId
         /\ JobIds' = JobIds \cup {NewId}
         /\ NewId \notin JobIds
         /\ NewId \in Nat \ {0}
         /\ jobs'[NewId] = job
         /\ \A j \in JobIds : jobs'[j] = jobs[j]
<1>1. jobs' = Append(jobs, job)
  BY DEF Enqueue
<1>2. /\ jobs' \in Seq(Job)
      /\ Len(jobs') = Len(jobs) + 1
      /\ \A i \in 1 .. Len(jobs) : jobs'[i] = jobs[i]
      /\ jobs'[Len(jobs) + 1] = job
  BY <1>1, AppendProperties
<1>3. JobIds' = 1 .. Len(jobs')
  BY <1>2 DEF JobIds
<1> QED
  BY <1>2, <1>3, IdsOfSeq DEF NewId

(* A set of job identifiers is finite.                                     *)
LEMMA IdsFinite ==
  ASSUME jobs \in Seq(Job), NEW S \in SUBSET JobIds
  PROVE  IsFiniteSet(S) /\ Cardinality(S) \in Nat
<1>1. IsFiniteSet(1 .. Len(jobs))
  BY IdsOfSeq, FS_Interval
<1> QED
  BY <1>1, IdsOfSeq, FS_Subset, FS_CardinalityType

(* One more element raises a cardinality by at most one.                   *)
LEMMA OneMore ==
  ASSUME NEW S, IsFiniteSet(S), NEW x, NEW T, T \subseteq S \cup {x}
  PROVE  /\ IsFiniteSet(T)
         /\ Cardinality(T) \in Nat /\ Cardinality(S) \in Nat
         /\ Cardinality(T) <= Cardinality(S) + 1
<1>1. /\ IsFiniteSet(S \cup {x})
      /\ Cardinality(S \cup {x}) <= Cardinality(S) + 1
      /\ Cardinality(S) \in Nat
      /\ Cardinality(S \cup {x}) \in Nat
  BY FS_AddElement, FS_CardinalityType
<1>2. IsFiniteSet(T) /\ Cardinality(T) <= Cardinality(S \cup {x})
  BY <1>1, FS_Subset
<1>3. Cardinality(T) \in Nat
  BY <1>2, FS_CardinalityType
<1> QED
  BY <1>1, <1>2, <1>3

-----------------------------------------------------------------------------
(* What submit() appends is a waiting job of the right type.               *)
LEMMA SubmitAccepts ==
  ASSUME TypeOK, NEW r \in Role, NEW d \in Deadlines, NEW b \in RetryBudgets,
         NEW p \in JobIds \cup {NoJob}, NEW c \in Cancellables,
         NEW k \in Key \cup {NoKey}, Submit(r, d, b, p, c, k)
  PROVE  Accept(NewJob(TaskFor(p), r, d, 1, b, p, c, k))
<1> DEFINE job == NewJob(TaskFor(p), r, d, 1, b, p, c, k)
<1>1. TaskFor(p) \in Nat
  <2>1. CASE p = NoJob
    BY <2>1, IdsOfSeq DEF TaskFor, NewId, TypeOK
  <2>2. CASE p \in JobIds /\ p # NoJob
    BY <2>2, IdsOfSeq DEF TaskFor, TypeOK, Job
  <2> QED
    BY <2>1, <2>2
<1>2. p \in Nat /\ d \in Nat /\ b \in Nat /\ c \in BOOLEAN /\ clock \in Nat
  BY IdsOfSeq, InputsAssumption DEF TypeOK, NoJob
<1>3. job \in Job /\ job.state = "QUEUED" /\ job.role = r /\ job.parent = p
  BY <1>1, <1>2 DEF NewJob, Job, JobState, TerminalStates
<1>4. Enqueue(job) /\ HasRoom(job.role)
  BY <1>3 DEF Submit
<1> QED
  BY <1>3, <1>4 DEF Accept

(* What retry() appends is a waiting job of the right type: the previous   *)
(* one with a fresh deadline and the next attempt number.                  *)
LEMMA RetryJobType ==
  ASSUME TypeOK, NEW j \in JobIds
  PROVE  /\ RetryJob(j) \in Job /\ RetryJob(j).state = "QUEUED"
         /\ RetryJob(j).role = jobs[j].role /\ RetryJob(j).parent = jobs[j].parent
<1>1. jobs[j] \in Job /\ clock \in Nat
  BY IdsOfSeq DEF TypeOK
<1> DEFINE d == MaxOf(MinRetryDeadline, jobs[j].deadline - jobs[j].created)
<1>2. d \in Nat
  BY <1>1, InputsAssumption DEF MaxOf, Job
<1>3. clock + d \in Nat /\ jobs[j].attempt + 1 \in Nat
  BY <1>1, <1>2 DEF Job
<1> HIDE DEF d
<1>4. RetryJob(j) = NewJob(jobs[j].task, jobs[j].role, d, jobs[j].attempt + 1,
                           jobs[j].budget, jobs[j].parent, jobs[j].cancellable, jobs[j].key)
  BY DEF RetryJob, d
<1> QED
  BY <1>1, <1>3, <1>4 DEF NewJob, Job, JobState, TerminalStates

LEMMA RetryAccepts ==
  ASSUME TypeOK, NEW j \in JobIds, Retry(j)
  PROVE  Accept(RetryJob(j))
  BY RetryJobType DEF Retry, Accept

(* A heartbeat changes nothing but the heartbeat of a running job.         *)
LEMMA HeartbeatKeeps ==
  ASSUME TypeOK, NEW j \in JobIds, Heartbeat(j)
  PROVE  Keep
<1>1. jobs[j] \in Job /\ clock \in Nat /\ JobIds = 1 .. Len(jobs)
  BY IdsOfSeq DEF TypeOK
<1>2. jobs' = [jobs EXCEPT ![j] = [jobs[j] EXCEPT !.heartbeat = clock]]
  BY DEF Heartbeat
<1>3. [jobs[j] EXCEPT !.heartbeat = clock] \in Job
  BY <1>1 DEF Job
<1>4. jobs' \in Seq(Job) /\ Len(jobs') = Len(jobs)
  BY <1>1, <1>2, <1>3, ExceptSeq DEF TypeOK
<1>5. \A i \in JobIds : jobs'[i] = jobs[i] \/ HeartbeatOnly(i)
  <2>1. \A i \in JobIds : i # j => jobs'[i] = jobs[i]
    BY <1>2
  <2>2. HeartbeatOnly(j)
    BY <1>1, <1>2 DEF HeartbeatOnly, Heartbeat, JobIds
  <2> QED
    BY <2>1, <2>2
<1> QED
  BY <1>4, <1>5 DEF Keep, Heartbeat

(* Every step of the scheduler has one of four shapes.                     *)
LEMMA StepShapes ==
  ASSUME TypeOK, [Next]_vars
  PROVE  Shape
<1> USE DEF Shape
<1>1. CASE SubmitAny
  BY <1>1, SubmitAccepts DEF SubmitAny
<1>2. CASE StartNext
  BY <1>2 DEF StartNext
<1>3. ASSUME NEW j \in JobIds, NEW s \in TerminalStates, Finish(j, s)
      PROVE  End({j}, s)
  BY <1>3 DEF Finish, CanTransition, End, TerminalStates
<1>4. ASSUME NEW j \in JobIds, Heartbeat(j)
      PROVE  Keep
  BY <1>4, HeartbeatKeeps
<1>5. CASE Expire
  <2>1. End(Overdue, "TIMED_OUT")
    BY <1>5 DEF Expire, End, Overdue, TerminalStates
  <2> QED
    BY <2>1
<1>6. ASSUME NEW t \in JobIds, CancelTask(t)
      PROVE  End(CancelSet(t), "CANCELLED")
  BY <1>6 DEF CancelTask, End, CancelSet, Visited, Root, TerminalStates
<1>7. ASSUME NEW j \in JobIds, Retry(j)
      PROVE  \E job : Accept(job)
  BY <1>7, RetryAccepts
<1>8. ASSUME UNCHANGED <<jobs, queue>>
      PROVE  Keep
  BY <1>8 DEF Keep, TypeOK
<1>9. ASSUME NEW j \in JobIds, RetryRefused(j)
      PROVE  Keep
  BY <1>8, <1>9 DEF RetryRefused
<1>10. CASE Tick
  BY <1>8, <1>10 DEF Tick
<1>11. CASE UNCHANGED vars
  BY <1>8, <1>11 DEF vars
<1> QED
  BY <1>1, <1>2, <1>3, <1>4, <1>5, <1>6, <1>7, <1>9, <1>10, <1>11 DEF Next

-----------------------------------------------------------------------------
(* The empty scheduler.                                                    *)
LEMMA InitSound ==
  ASSUME Init
  PROVE  TypeOK /\ QueueHoldsExactlyTheWaiting /\ ConcurrencyBounded /\ QueueBounded
<1>1. TypeOK
  BY EmptySeq DEF Init, TypeOK, JobIds, NoJob
<1>2. /\ \A S : InState(S) = {}
      /\ Running = {} /\ queue = {}
      /\ \A r \in Role : WithRole(Running, r) = {} /\ WithRole(queue, r) = {}
  BY DEF Init, InState, Running, WithRole, JobIds
<1>3. Cardinality({}) = 0
  BY FS_EmptySet
<1>4. QueueHoldsExactlyTheWaiting
  BY <1>2 DEF QueueHoldsExactlyTheWaiting
<1>5. ConcurrencyBounded
  BY <1>2, <1>3, BoundsAssumption DEF ConcurrencyBounded
<1>6. QueueBounded
  BY <1>2, <1>3, BoundsAssumption DEF QueueBounded
<1> QED
  BY <1>1, <1>4, <1>5, <1>6

(* What accepting a job and what transition() do to the four containers.   *)
LEMMA AcceptTypes ==
  ASSUME TypeOK, NEW job, Accept(job)
  PROVE  TypeOK'
<1>1. job \in Job /\ Enqueue(job)
  BY DEF Accept
<1>2. /\ jobs' \in Seq(Job) /\ JobIds' = JobIds \cup {NewId}
      /\ queue' = queue \cup {NewId} /\ clock' = clock
  BY <1>1, EnqueueShape DEF TypeOK, Enqueue
<1>3. idempotency' \in [Key -> JobIds' \cup {NoJob}]
  BY <1>1, <1>2 DEF TypeOK, Enqueue, Job
<1> QED
  BY <1>2, <1>3 DEF TypeOK

LEMMA TransitionTypes ==
  ASSUME TypeOK, NEW S, NEW s \in JobState, TransitionAll(S, s)
  PROVE  TypeOK'
<1>1. jobs' = Transitioned(S, s) /\ queue' = queue \ S /\ UNCHANGED <<idempotency, clock>>
  BY DEF TransitionAll
<1>2. jobs' \in Seq(Job) /\ JobIds' = JobIds
  BY <1>1, TransitionedShape DEF TypeOK, JobIds
<1> QED
  BY <1>1, <1>2 DEF TypeOK

LEMMA TypeStep ==
  ASSUME TypeOK, [Next]_vars
  PROVE  TypeOK'
<1>1. CASE SubmitAny
  BY <1>1, SubmitAccepts, AcceptTypes DEF SubmitAny
<1>2. ASSUME NEW j \in JobIds, Retry(j)
      PROVE  TypeOK'
  BY <1>2, RetryAccepts, AcceptTypes
<1>3. ASSUME NEW S, NEW s \in {"RUNNING"} \cup TerminalStates, TransitionAll(S, s)
      PROVE  TypeOK'
  BY <1>3, TransitionTypes DEF JobState
<1>4. CASE StartNext
  BY <1>3, <1>4 DEF StartNext
<1>5. ASSUME NEW j \in JobIds, NEW s \in TerminalStates, Finish(j, s)
      PROVE  TypeOK'
  BY <1>3, <1>5 DEF Finish
<1>6. CASE Expire
  BY <1>3, <1>6 DEF Expire, TerminalStates
<1>7. ASSUME NEW t \in JobIds, CancelTask(t)
      PROVE  TypeOK'
  BY <1>3, <1>7 DEF CancelTask, TerminalStates
<1>8. ASSUME NEW j \in JobIds, Heartbeat(j)
      PROVE  TypeOK'
  <2>1. Keep /\ UNCHANGED <<idempotency, clock>>
    BY <1>8, HeartbeatKeeps DEF Heartbeat
  <2>2. JobIds' = 1 .. Len(jobs') /\ JobIds = 1 .. Len(jobs)
    BY <2>1, IdsOfSeq DEF Keep, JobIds, TypeOK
  <2> QED
    BY <2>1, <2>2 DEF Keep, TypeOK
<1>9. ASSUME NEW j \in JobIds, RetryRefused(j)
      PROVE  TypeOK'
  BY <1>9 DEF RetryRefused, TypeOK, JobIds
<1>10. CASE Tick \/ UNCHANGED vars
  BY <1>10 DEF Tick, vars, TypeOK, JobIds
<1> QED
  BY <1>1, <1>2, <1>4, <1>5, <1>6, <1>7, <1>8, <1>9, <1>10 DEF Next

(* The dictionary, the queue, the key table and the clock keep their       *)
(* types.                                                                  *)
THEOREM TypeCorrect == Spec => []TypeOK
<1>1. Init => TypeOK
  BY InitSound
<1>2. TypeOK /\ [Next]_vars => TypeOK'
  BY TypeStep
<1> QED
  BY <1>1, <1>2, PTL DEF Spec

-----------------------------------------------------------------------------
(* How each shape of step changes the set of running and of waiting jobs.  *)

LEMMA AcceptStates ==
  ASSUME TypeOK, NEW job, Accept(job)
  PROVE  /\ JobIds' = JobIds \cup {NewId} /\ NewId \notin JobIds
         /\ jobs'[NewId] = job
         /\ \A j \in JobIds : jobs'[j] = jobs[j]
         /\ queue' = queue \cup {NewId}
         /\ Running' = Running
         /\ InState({"QUEUED"})' = InState({"QUEUED"}) \cup {NewId}
<1>1. job \in Job /\ job.state = "QUEUED" /\ Enqueue(job)
  BY DEF Accept
<1>2. /\ JobIds' = JobIds \cup {NewId} /\ NewId \notin JobIds
      /\ jobs'[NewId] = job
      /\ \A j \in JobIds : jobs'[j] = jobs[j]
  BY <1>1, EnqueueShape DEF TypeOK
<1> QED
  BY <1>1, <1>2 DEF Running, InState, Enqueue

LEMMA TransitionStates ==
  ASSUME TypeOK, NEW S \in SUBSET JobIds, NEW s \in JobState, TransitionAll(S, s)
  PROVE  /\ JobIds' = JobIds
         /\ queue' = queue \ S
         /\ \A j \in JobIds \ S : jobs'[j] = jobs[j]
         /\ \A j \in S : jobs'[j].state = s
         /\ \A j \in JobIds : SameRequest(jobs'[j], jobs[j])
<1>1. jobs' = Transitioned(S, s)
  BY DEF TransitionAll
<1>2. /\ DOMAIN Transitioned(S, s) = JobIds
      /\ \A j \in S : Transitioned(S, s)[j].state = s
      /\ \A j \in S : SameRequest(Transitioned(S, s)[j], jobs[j])
      /\ \A j \in JobIds \ S : Transitioned(S, s)[j] = jobs[j]
  BY TransitionedShape DEF TypeOK
<1>3. /\ JobIds' = JobIds
      /\ \A j \in S : jobs'[j].state = s
      /\ \A j \in S : SameRequest(jobs'[j], jobs[j])
      /\ \A j \in JobIds \ S : jobs'[j] = jobs[j]
  BY <1>1, <1>2 DEF JobIds
<1> QED
  BY <1>3 DEF TransitionAll, SameRequest

LEMMA KeepStates ==
  ASSUME TypeOK, Keep
  PROVE  /\ JobIds' = JobIds
         /\ queue' = queue
         /\ \A j \in JobIds : jobs'[j].state = jobs[j].state /\ SameRequest(jobs'[j], jobs[j])
<1>1. JobIds' = JobIds
  <2>1. JobIds' = 1 .. Len(jobs') /\ JobIds = 1 .. Len(jobs)
    BY IdsOfSeq DEF Keep, JobIds, TypeOK
  <2> QED
    BY <2>1 DEF Keep
<1>2. \A j \in JobIds : jobs'[j].state = jobs[j].state /\ SameRequest(jobs'[j], jobs[j])
  <2> SUFFICES ASSUME NEW j \in JobIds
               PROVE  jobs'[j].state = jobs[j].state /\ SameRequest(jobs'[j], jobs[j])
    OBVIOUS
  <2>1. CASE jobs'[j] = jobs[j]
    BY <2>1 DEF SameRequest
  <2>2. CASE HeartbeatOnly(j)
    <3>1. PICK h \in Nat : jobs'[j] = [jobs[j] EXCEPT !.heartbeat = h]
      BY <2>2 DEF HeartbeatOnly
    <3>2. jobs[j] \in Job
      BY IdsOfSeq DEF TypeOK
    <3> QED
      BY <3>1, <3>2 DEF Job, SameRequest
  <2> QED
    BY <2>1, <2>2 DEF Keep
<1> QED
  BY <1>1, <1>2 DEF Keep

-----------------------------------------------------------------------------
(* Each shape moves the queue and the waiting jobs together.               *)
LEMMA QueueStep ==
  ASSUME TypeOK, QueueHoldsExactlyTheWaiting, Shape
  PROVE  QueueHoldsExactlyTheWaiting'
<1> SUFFICES ASSUME queue = InState({"QUEUED"})
             PROVE  queue' = InState({"QUEUED"})'
  BY DEF QueueHoldsExactlyTheWaiting
<1>1. ASSUME NEW job, Accept(job)
      PROVE  queue' = InState({"QUEUED"})'
  BY <1>1, AcceptStates
<1>2. ASSUME NEW S \in SUBSET JobIds, NEW s \in JobState \ {"QUEUED"}, TransitionAll(S, s)
      PROVE  queue' = InState({"QUEUED"})'
  BY <1>2, TransitionStates DEF InState
<1>3. ASSUME NEW j \in queue, TransitionAll({j}, "RUNNING")
      PROVE  queue' = InState({"QUEUED"})'
  BY <1>2, <1>3 DEF TypeOK, JobState
<1>4. ASSUME NEW S, NEW s, End(S, s)
      PROVE  queue' = InState({"QUEUED"})'
  BY <1>2, <1>4 DEF End, JobState, TerminalStates
<1>5. CASE Keep
  BY <1>5, KeepStates DEF InState
<1> QED
  BY <1>1, <1>3, <1>4, <1>5 DEF Shape

(* The queue is the set of waiting jobs.  The invariant is inductive with  *)
(* the types alone: each shape moves both sides together.                  *)
THEOREM QueueCorrect == Spec => []QueueHoldsExactlyTheWaiting
<1>1. Init => QueueHoldsExactlyTheWaiting
  BY InitSound
<1>2. TypeOK /\ QueueHoldsExactlyTheWaiting /\ [Next]_vars => QueueHoldsExactlyTheWaiting'
  BY QueueStep, StepShapes
<1> QED
  BY <1>1, <1>2, TypeCorrect, PTL DEF Spec

-----------------------------------------------------------------------------
(* Only start_next() makes a job run: every other step leaves or shrinks   *)
(* the set of running jobs, and no step changes the agent of a job.        *)
LEMMA RunningStep ==
  ASSUME TypeOK, Shape
  PROVE  \/ \E j \in queue : /\ IsNextToStart(j)
                             /\ Running' \subseteq Running \cup {j}
                             /\ \A i \in Running' : jobs'[i].role = jobs[i].role
         \/ /\ Running' \subseteq Running
            /\ \A i \in Running' : jobs'[i].role = jobs[i].role
<1>1. ASSUME NEW job, Accept(job)
      PROVE  /\ Running' \subseteq Running
             /\ \A i \in Running' : jobs'[i].role = jobs[i].role
  BY <1>1, AcceptStates DEF Running, InState
<1>2. ASSUME NEW j \in queue, IsNextToStart(j), TransitionAll({j}, "RUNNING")
      PROVE  /\ Running' \subseteq Running \cup {j}
             /\ \A i \in Running' : jobs'[i].role = jobs[i].role
  <2>1. {j} \in SUBSET JobIds /\ "RUNNING" \in JobState
    BY DEF TypeOK, JobState
  <2>2. /\ JobIds' = JobIds
        /\ \A i \in JobIds \ {j} : jobs'[i] = jobs[i]
        /\ \A i \in JobIds : jobs'[i].role = jobs[i].role
    BY <1>2, <2>1, TransitionStates DEF SameRequest
  <2> QED
    BY <2>2 DEF Running, InState
<1>3. ASSUME NEW S, NEW s, End(S, s)
      PROVE  /\ Running' \subseteq Running
             /\ \A i \in Running' : jobs'[i].role = jobs[i].role
  BY <1>3, TransitionStates DEF Running, InState, SameRequest, End, JobState, TerminalStates
<1>4. ASSUME Keep
      PROVE  /\ Running' \subseteq Running
             /\ \A i \in Running' : jobs'[i].role = jobs[i].role
  BY <1>4, KeepStates DEF Running, InState, SameRequest
<1> QED
  BY <1>1, <1>2, <1>3, <1>4 DEF Shape

(* start_next() adds one job where both counts are below their bounds.     *)
LEMMA PoolStep ==
  ASSUME TypeOK, ConcurrencyBounded, Shape
  PROVE  ConcurrencyBounded'
<1>1. /\ IsFiniteSet(Running) /\ Cardinality(Running) \in Nat
      /\ \A r \in Role : /\ IsFiniteSet(WithRole(Running, r))
                        /\ Cardinality(WithRole(Running, r)) \in Nat
  BY IdsFinite DEF TypeOK, Running, InState, WithRole
<1>2. /\ GlobalConcurrency \in Nat
      /\ \A r \in Role : Concurrency[r] \in Nat
  BY BoundsAssumption
<1>3. ASSUME NEW j \in queue, IsNextToStart(j), Running' \subseteq Running \cup {j},
             \A i \in Running' : jobs'[i].role = jobs[i].role
      PROVE  ConcurrencyBounded'
  <2>1. Cardinality(Running') <= GlobalConcurrency
    <3>1. Cardinality(Running) < GlobalConcurrency
      BY <1>3 DEF IsNextToStart
    <3>2. /\ Cardinality(Running') <= Cardinality(Running) + 1
          /\ Cardinality(Running') \in Nat
      BY <1>1, <1>3, OneMore
    <3> QED
      BY <1>1, <1>2, <3>1, <3>2
  <2>2. ASSUME NEW r \in Role
        PROVE  Cardinality(WithRole(Running, r)') <= Concurrency[r]
    <3>1. WithRole(Running, r)' = {i \in Running' : jobs[i].role = r}
      BY <1>3 DEF WithRole
    <3>2. CASE jobs[j].role = r
      <4>1. Cardinality(WithRole(Running, r)) < Concurrency[r]
        BY <1>3, <3>2 DEF IsNextToStart, Startable
      <4>2. WithRole(Running, r)' \subseteq WithRole(Running, r) \cup {j}
        BY <1>3, <3>1 DEF WithRole
      <4>3. /\ Cardinality(WithRole(Running, r)') <= Cardinality(WithRole(Running, r)) + 1
            /\ Cardinality(WithRole(Running, r)') \in Nat
        BY <1>1, <4>2, OneMore
      <4> QED
        BY <1>1, <1>2, <4>1, <4>3
    <3>3. CASE jobs[j].role # r
      <4>1. WithRole(Running, r)' \subseteq WithRole(Running, r)
        BY <1>3, <3>1, <3>3 DEF WithRole
      <4>2. /\ Cardinality(WithRole(Running, r)') <= Cardinality(WithRole(Running, r))
            /\ Cardinality(WithRole(Running, r)') \in Nat
        BY <1>1, <4>1, FS_Subset, FS_CardinalityType
      <4> QED
        BY <1>1, <1>2, <4>2 DEF ConcurrencyBounded
    <3> QED
      BY <3>2, <3>3
  <2> QED
    BY <2>1, <2>2 DEF ConcurrencyBounded
<1>4. ASSUME Running' \subseteq Running, \A i \in Running' : jobs'[i].role = jobs[i].role
      PROVE  ConcurrencyBounded'
  <2>1. Cardinality(Running') \in Nat /\ Cardinality(Running') <= Cardinality(Running)
    BY <1>1, <1>4, FS_Subset, FS_CardinalityType
  <2>2. ASSUME NEW r \in Role
        PROVE  Cardinality(WithRole(Running, r)') <= Concurrency[r]
    <3>1. WithRole(Running, r)' \subseteq WithRole(Running, r)
      BY <1>4 DEF WithRole
    <3>2. /\ Cardinality(WithRole(Running, r)') \in Nat
          /\ Cardinality(WithRole(Running, r)') <= Cardinality(WithRole(Running, r))
      BY <1>1, <3>1, FS_Subset, FS_CardinalityType
    <3> QED
      BY <1>1, <1>2, <3>2 DEF ConcurrencyBounded
  <2> QED
    BY <1>1, <1>2, <2>1, <2>2 DEF ConcurrencyBounded
<1> QED
  BY <1>3, <1>4, RunningStep

(* Neither the pool nor an agent is ever overcommitted.  start_next() adds *)
(* one job where both counts are below their bounds.                       *)
THEOREM PoolBounded == Spec => []ConcurrencyBounded
<1>1. Init => ConcurrencyBounded
  BY InitSound
<1>2. TypeOK /\ ConcurrencyBounded /\ [Next]_vars => ConcurrencyBounded'
  BY PoolStep, StepShapes
<1> QED
  BY <1>1, <1>2, TypeCorrect, PTL DEF Spec

-----------------------------------------------------------------------------
(* Only what is accepted lengthens the queue, and there was room for it.   *)
LEMMA QueueBoundsStep ==
  ASSUME TypeOK, QueueBounded, Shape
  PROVE  QueueBounded'
<1>1. /\ IsFiniteSet(queue) /\ Cardinality(queue) \in Nat
      /\ \A r \in Role : /\ IsFiniteSet(WithRole(queue, r))
                        /\ Cardinality(WithRole(queue, r)) \in Nat
  BY IdsFinite DEF TypeOK, WithRole
<1>2. GlobalQueueLimit \in Nat /\ \A r \in Role : QueueLimit[r] \in Nat
  BY BoundsAssumption
<1>3. ASSUME NEW job, Accept(job)
      PROVE  QueueBounded'
  <2>1. /\ queue' = queue \cup {NewId}
        /\ jobs'[NewId] = job
        /\ \A j \in JobIds : jobs'[j] = jobs[j]
    BY <1>3, AcceptStates
  <2>2. HasRoom(job.role)
    BY <1>3 DEF Accept
  <2>3. Cardinality(queue') <= GlobalQueueLimit
    <3>1. Cardinality(queue') <= Cardinality(queue) + 1 /\ Cardinality(queue') \in Nat
      BY <1>1, <2>1, OneMore
    <3> QED
      BY <1>1, <1>2, <2>2, <3>1 DEF HasRoom
  <2>4. ASSUME NEW r \in Role
        PROVE  Cardinality(WithRole(queue, r)') <= QueueLimit[r]
    <3>1. CASE job.role = r
      <4>1. WithRole(queue, r)' \subseteq WithRole(queue, r) \cup {NewId}
        BY <2>1 DEF WithRole, TypeOK
      <4>2. /\ Cardinality(WithRole(queue, r)') <= Cardinality(WithRole(queue, r)) + 1
            /\ Cardinality(WithRole(queue, r)') \in Nat
        BY <1>1, <4>1, OneMore
      <4>3. Cardinality(WithRole(queue, r)) < QueueLimit[r]
        BY <2>2, <3>1 DEF HasRoom
      <4> QED
        BY <1>1, <1>2, <4>2, <4>3
    <3>2. CASE job.role # r
      <4>1. WithRole(queue, r)' \subseteq WithRole(queue, r)
        BY <2>1, <3>2 DEF WithRole, TypeOK
      <4>2. /\ Cardinality(WithRole(queue, r)') <= Cardinality(WithRole(queue, r))
            /\ Cardinality(WithRole(queue, r)') \in Nat
        BY <1>1, <4>1, FS_Subset, FS_CardinalityType
      <4> QED
        BY <1>1, <1>2, <4>2 DEF QueueBounded
    <3> QED
      BY <3>1, <3>2
  <2> QED
    BY <2>3, <2>4 DEF QueueBounded
<1>4. ASSUME queue' \subseteq queue, \A j \in queue' : jobs'[j].role = jobs[j].role
      PROVE  QueueBounded'
  <2>1. Cardinality(queue') \in Nat /\ Cardinality(queue') <= Cardinality(queue)
    BY <1>1, <1>4, FS_Subset, FS_CardinalityType
  <2>2. ASSUME NEW r \in Role
        PROVE  Cardinality(WithRole(queue, r)') <= QueueLimit[r]
    <3>1. WithRole(queue, r)' \subseteq WithRole(queue, r)
      BY <1>4 DEF WithRole
    <3>2. /\ Cardinality(WithRole(queue, r)') \in Nat
          /\ Cardinality(WithRole(queue, r)') <= Cardinality(WithRole(queue, r))
      BY <1>1, <3>1, FS_Subset, FS_CardinalityType
    <3> QED
      BY <1>1, <1>2, <3>2 DEF QueueBounded
  <2> QED
    BY <1>1, <1>2, <2>1, <2>2 DEF QueueBounded
<1>5. ASSUME NEW S \in SUBSET JobIds, NEW s \in JobState, TransitionAll(S, s)
      PROVE  QueueBounded'
  BY <1>4, <1>5, TransitionStates DEF SameRequest, TypeOK
<1>6. ASSUME NEW j \in queue, TransitionAll({j}, "RUNNING")
      PROVE  QueueBounded'
  BY <1>5, <1>6 DEF TypeOK, JobState
<1>7. ASSUME NEW S, NEW s, End(S, s)
      PROVE  QueueBounded'
  BY <1>5, <1>7 DEF End, JobState
<1>8. CASE Keep
  BY <1>4, <1>8, KeepStates DEF SameRequest, TypeOK
<1> QED
  BY <1>3, <1>6, <1>7, <1>8 DEF Shape

(* The queue bounds hold because only submit() adds to the queue, one job  *)
(* at a time, and only after it has compared both lengths; retry() goes    *)
(* through it.                                                             *)
THEOREM QueuesBounded == Spec => []QueueBounded
<1>1. Init => QueueBounded
  BY InitSound
<1>2. TypeOK /\ QueueBounded /\ [Next]_vars => QueueBounded'
  BY QueueBoundsStep, StepShapes
<1> QED
  BY <1>1, <1>2, TypeCorrect, PTL DEF Spec

-----------------------------------------------------------------------------
(* Nothing rewrites a job that is over.  A job that starts must be waiting *)
(* for this, which is what QueueHoldsExactlyTheWaiting gives.              *)
THEOREM TerminalJobsAreFinal == Spec => TerminalIsFinal
<1>1. ASSUME TypeOK, QueueHoldsExactlyTheWaiting, [Next]_vars,
             NEW j \in JobIds, Terminal(j)
      PROVE  jobs'[j] = jobs[j]
  <2>1. ASSUME NEW job, Accept(job)
        PROVE  jobs'[j] = jobs[j]
    BY <1>1, <2>1, AcceptStates
  <2>2. ASSUME NEW i \in queue, TransitionAll({i}, "RUNNING")
        PROVE  jobs'[j] = jobs[j]
    <3>1. i # j /\ i \in JobIds
      BY <1>1, <2>2 DEF QueueHoldsExactlyTheWaiting, InState, Terminal, TerminalStates
    <3>2. {i} \in SUBSET JobIds /\ "RUNNING" \in JobState
      BY <3>1 DEF JobState
    <3>3. \A k \in JobIds \ {i} : jobs'[k] = jobs[k]
      BY <1>1, <2>2, <3>2, TransitionStates
    <3> QED
      BY <1>1, <3>1, <3>3
  <2>3. ASSUME NEW S, NEW s, End(S, s)
        PROVE  jobs'[j] = jobs[j]
    BY <1>1, <2>3, TransitionStates DEF End, JobState
  <2>4. CASE Keep
    BY <1>1, <2>4 DEF Keep, HeartbeatOnly, Terminal, TerminalStates
  <2> QED
    BY <1>1, <2>1, <2>2, <2>3, <2>4, StepShapes DEF Shape
<1>2. TypeOK /\ QueueHoldsExactlyTheWaiting /\ [Next]_vars
      => [\A j \in JobIds : Terminal(j) => jobs'[j] = jobs[j]]_vars
  BY <1>1
<1> QED
  BY <1>2, TypeCorrect, QueueCorrect, PTL DEF Spec, TerminalIsFinal

-----------------------------------------------------------------------------
(* No job overtakes an older one of its agent: the oldest startable job is *)
(* chosen, and a waiting job of the same agent is as startable as it is.   *)
THEOREM AgentsAreFifo == Spec => FifoPerAgent
<1> DEFINE Overtakes(j) ==
      /\ jobs'[j].state = "RUNNING"
      /\ \E i \in queue : /\ i < j /\ jobs[i].role = jobs[j].role
                         /\ jobs'[i].state = "QUEUED"
<1>1. ASSUME TypeOK, QueueHoldsExactlyTheWaiting, [Next]_vars, NEW j \in queue
      PROVE  ~Overtakes(j)
  <2>1. j \in JobIds /\ jobs[j].state = "QUEUED" /\ queue \subseteq JobIds
    BY <1>1 DEF QueueHoldsExactlyTheWaiting, InState
  <2>2. ASSUME NEW job, Accept(job)
        PROVE  ~Overtakes(j)
    BY <1>1, <2>1, <2>2, AcceptStates
  <2>3. ASSUME NEW k \in queue, IsNextToStart(k), TransitionAll({k}, "RUNNING")
        PROVE  ~Overtakes(j)
    <3>1. {k} \in SUBSET JobIds /\ "RUNNING" \in JobState
      BY <2>1 DEF JobState
    <3>2. \A i \in JobIds \ {k} : jobs'[i] = jobs[i]
      BY <1>1, <2>3, <3>1, TransitionStates
    <3>3. CASE j # k
      BY <2>1, <3>2, <3>3
    <3>4. CASE j = k
      <4>1. j \in Startable /\ \A i \in Startable : j <= i
        BY <2>3, <3>4 DEF IsNextToStart
      <4>2. ASSUME NEW i \in queue, i < j, jobs[i].role = jobs[j].role
            PROVE  FALSE
        <5>1. i \in Startable
          BY <4>1, <4>2 DEF Startable
        <5>2. i \in Nat /\ j \in Nat
          BY <1>1, <2>1, IdsOfSeq DEF TypeOK
        <5> QED
          BY <4>1, <4>2, <5>1, <5>2
      <4> QED
        BY <4>2
    <3> QED
      BY <3>3, <3>4
  <2>4. ASSUME NEW S, NEW s, End(S, s)
        PROVE  ~Overtakes(j)
    <3>1. /\ \A i \in JobIds \ S : jobs'[i] = jobs[i]
          /\ \A i \in S : jobs'[i].state = s
      BY <1>1, <2>4, TransitionStates DEF End, JobState
    <3> QED
      BY <2>1, <2>4, <3>1 DEF End, TerminalStates
  <2>5. CASE Keep
    BY <1>1, <2>1, <2>5, KeepStates
  <2> QED
    BY <1>1, <2>2, <2>3, <2>4, <2>5, StepShapes DEF Shape
<1>2. TypeOK /\ QueueHoldsExactlyTheWaiting /\ [Next]_vars
      => [\A j \in queue :
            jobs'[j].state = "RUNNING"
            => \A i \in queue : (i < j /\ jobs[i].role = jobs[j].role)
                              => jobs'[i].state # "QUEUED"]_vars
  BY <1>1
<1> QED
  BY <1>2, TypeCorrect, QueueCorrect, PTL DEF Spec, FifoPerAgent

-----------------------------------------------------------------------------
(* Cancellation is the only way to CANCELLED, and what it cancels below a  *)
(* root had declared itself cancellable; neither the parent nor the        *)
(* declaration of a job changes later.                                     *)
THEOREM CancelScope == Spec => []CancelsOnlyTheCancellable
<1>1. Init => CancelsOnlyTheCancellable
  BY DEF Init, CancelsOnlyTheCancellable, JobIds
<1>2. TypeOK /\ CancelsOnlyTheCancellable /\ [Next]_vars => CancelsOnlyTheCancellable'
  <2> SUFFICES ASSUME TypeOK, CancelsOnlyTheCancellable, [Next]_vars
               PROVE  CancelsOnlyTheCancellable'
    OBVIOUS
  <2>1. ASSUME NEW job, Accept(job)
        PROVE  CancelsOnlyTheCancellable'
    BY <2>1, AcceptStates DEF CancelsOnlyTheCancellable, Accept
  <2>2. ASSUME NEW S \in SUBSET JobIds, NEW s \in JobState, TransitionAll(S, s),
               s = "CANCELLED" => \A j \in S : jobs[j].parent = NoJob \/ jobs[j].cancellable
        PROVE  CancelsOnlyTheCancellable'
    <3>1. /\ JobIds' = JobIds
          /\ \A j \in JobIds \ S : jobs'[j] = jobs[j]
          /\ \A j \in S : jobs'[j].state = s
          /\ \A j \in JobIds : /\ jobs'[j].parent = jobs[j].parent
                              /\ jobs'[j].cancellable = jobs[j].cancellable
      BY <2>2, TransitionStates DEF SameRequest
    <3> QED
      BY <2>2, <3>1 DEF CancelsOnlyTheCancellable
  <2>3. ASSUME NEW j \in queue, TransitionAll({j}, "RUNNING")
        PROVE  CancelsOnlyTheCancellable'
    BY <2>2, <2>3 DEF TypeOK, JobState
  <2>4. ASSUME NEW S, NEW s, End(S, s)
        PROVE  CancelsOnlyTheCancellable'
    BY <2>2, <2>4 DEF End, JobState
  <2>5. CASE Keep
    BY <2>5, KeepStates DEF CancelsOnlyTheCancellable, SameRequest
  <2> QED
    BY <2>1, <2>3, <2>4, <2>5, StepShapes DEF Shape
<1> QED
  BY <1>1, <1>2, TypeCorrect, PTL DEF Spec

-----------------------------------------------------------------------------
(* Only accepting a job makes a key name another job; every other step     *)
(* leaves the key alone or, when a retry is refused, forgets it.           *)
LEMMA KeysKept ==
  ASSUME TypeOK, [Next]_vars
  PROVE  \/ \E job : Accept(job)
         \/ \A k \in Key : idempotency'[k] \in {idempotency[k], NoJob}
<1>1. CASE SubmitAny
  BY <1>1, SubmitAccepts DEF SubmitAny
<1>2. ASSUME NEW j \in JobIds, Retry(j)
      PROVE  \E job : Accept(job)
  BY <1>2, RetryAccepts
<1>3. ASSUME NEW j \in JobIds, RetryRefused(j)
      PROVE  \A k \in Key : idempotency'[k] \in {idempotency[k], NoJob}
  BY <1>3 DEF RetryRefused, TypeOK
<1>4. CASE UNCHANGED idempotency
  BY <1>4
<1> QED
  BY <1>1, <1>2, <1>3, <1>4
     DEF Next, vars, StartNext, Finish, Heartbeat, Expire, CancelTask, Tick, TransitionAll

(* A repeated submission is answered with the newest attempt.  What is     *)
(* accepted gets the largest identifier and takes its key with it, and no  *)
(* step changes the key of a job, so the invariant needs the types only.   *)
THEOREM KeysNameNewest == Spec => []KeyNamesNewestAttempt
<1>1. Init => KeyNamesNewestAttempt
  BY DEF Init, KeyNamesNewestAttempt
<1>2. TypeOK /\ KeyNamesNewestAttempt /\ [Next]_vars => KeyNamesNewestAttempt'
  <2> SUFFICES ASSUME TypeOK, KeyNamesNewestAttempt, [Next]_vars
               PROVE  KeyNamesNewestAttempt'
    OBVIOUS
  <2>0. JobIds = 1 .. Len(jobs) /\ Len(jobs) \in Nat
    BY IdsOfSeq DEF TypeOK
  <2>1. ASSUME NEW job, Accept(job)
        PROVE  KeyNamesNewestAttempt'
    <3>1. /\ JobIds' = JobIds \cup {NewId} /\ jobs'[NewId] = job
          /\ \A j \in JobIds : jobs'[j] = jobs[j]
      BY <2>1, AcceptStates
    <3>2. \A j \in JobIds' : j <= NewId
      BY <2>0, <3>1 DEF NewId
    <3>3. ASSUME NEW k \in Key, k = job.key
          PROVE  idempotency'[k] = NewId
      BY <2>1, <3>3, InputsAssumption DEF Accept, Enqueue, TypeOK
    <3>4. ASSUME NEW k \in Key, k # job.key
          PROVE  idempotency'[k] = idempotency[k]
      BY <2>1, <3>4 DEF Accept, Enqueue, TypeOK
    <3>5. ASSUME NEW k \in Key, idempotency'[k] # NoJob
          PROVE  /\ jobs'[idempotency'[k]].key = k
                 /\ \A j \in JobIds' : jobs'[j].key = k => j <= idempotency'[k]
      <4>1. CASE k = job.key
        BY <3>1, <3>2, <3>3, <4>1
      <4>2. CASE k # job.key
        <5>1. idempotency[k] \in JobIds
          BY <3>4, <3>5, <4>2 DEF TypeOK
        <5> QED
          BY <3>1, <3>4, <3>5, <4>2, <5>1 DEF KeyNamesNewestAttempt
      <4> QED
        BY <4>1, <4>2
    <3> QED
      BY <3>5 DEF KeyNamesNewestAttempt
  <2>2. ASSUME JobIds' = JobIds, \A j \in JobIds : jobs'[j].key = jobs[j].key,
               \A k \in Key : idempotency'[k] \in {idempotency[k], NoJob}
        PROVE  KeyNamesNewestAttempt'
    <3>1. \A k \in Key : idempotency'[k] # NoJob =>
             idempotency'[k] = idempotency[k] /\ idempotency[k] \in JobIds
      BY <2>2 DEF TypeOK
    <3> QED
      BY <2>2, <3>1 DEF KeyNamesNewestAttempt
  <2>3. ASSUME NEW S \in SUBSET JobIds, NEW s \in JobState, TransitionAll(S, s)
        PROVE  JobIds' = JobIds /\ \A j \in JobIds : jobs'[j].key = jobs[j].key
    BY <2>3, TransitionStates DEF SameRequest
  <2>4. ASSUME NEW j \in queue, TransitionAll({j}, "RUNNING")
        PROVE  JobIds' = JobIds /\ \A i \in JobIds : jobs'[i].key = jobs[i].key
    BY <2>3, <2>4 DEF TypeOK, JobState
  <2>5. ASSUME NEW S, NEW s, End(S, s)
        PROVE  JobIds' = JobIds /\ \A j \in JobIds : jobs'[j].key = jobs[j].key
    BY <2>3, <2>5 DEF End, JobState
  <2>6. ASSUME Keep
        PROVE  JobIds' = JobIds /\ \A j \in JobIds : jobs'[j].key = jobs[j].key
    BY <2>6, KeepStates DEF SameRequest
  <2> QED
    BY <2>1, <2>2, <2>4, <2>5, <2>6, StepShapes, KeysKept DEF Shape
<1> QED
  BY <1>1, <1>2, TypeCorrect, PTL DEF Spec

-----------------------------------------------------------------------------
(* Cancellation reaches the whole tree.                                    *)

(* What _cancel_tree meets: whatever it follows is in the dictionary.      *)
ParentsExist == \A j \in JobIds : jobs[j].parent \in JobIds \cup {NoJob}

LEMMA ParentsInv == Spec => []ParentsExist
<1>1. Init => ParentsExist
  BY DEF Init, ParentsExist, JobIds
<1>2. TypeOK /\ ParentsExist /\ [Next]_vars => ParentsExist'
  <2> SUFFICES ASSUME TypeOK, ParentsExist, [Next]_vars
               PROVE  ParentsExist'
    OBVIOUS
  <2>1. ASSUME NEW job, Accept(job)
        PROVE  ParentsExist'
    <3>1. job.parent \in JobIds \cup {NoJob}
      BY <2>1 DEF Accept, ParentsExist
    <3> QED
      BY <2>1, <3>1, AcceptStates DEF ParentsExist
  <2>2. ASSUME JobIds' = JobIds, \A j \in JobIds : jobs'[j].parent = jobs[j].parent
        PROVE  ParentsExist'
    BY <2>2 DEF ParentsExist
  <2>3. ASSUME NEW S \in SUBSET JobIds, NEW s \in JobState, TransitionAll(S, s)
        PROVE  ParentsExist'
    BY <2>2, <2>3, TransitionStates DEF SameRequest
  <2>4. ASSUME NEW j \in queue, TransitionAll({j}, "RUNNING")
        PROVE  ParentsExist'
    BY <2>3, <2>4 DEF TypeOK, JobState
  <2>5. ASSUME NEW S, NEW s, End(S, s)
        PROVE  ParentsExist'
    BY <2>3, <2>5 DEF End, JobState
  <2>6. CASE Keep
    BY <2>2, <2>6, KeepStates DEF SameRequest
  <2> QED
    BY <2>1, <2>4, <2>5, <2>6, StepShapes DEF Shape
<1> QED
  BY <1>1, <1>2, TypeCorrect, PTL DEF Spec

(* A set of naturals that is not empty has a least element.                *)
LEMMA LeastNatural ==
  ASSUME NEW T \in SUBSET Nat, T # {}
  PROVE  \E x \in T : \A y \in T : x <= y
<1> DEFINE R == {ss \in Nat \X Nat : ss[1] < ss[2]}
<1>1. IsWellFoundedOn(R, Nat)
  BY NatLessThanWellFounded DEF OpToRel
<1>2. \A x, y \in Nat : <<y, x>> \in R <=> y < x
  OBVIOUS
<1> HIDE DEF R
<1>3. PICK x \in T : \A y \in T : ~ (<<y, x>> \in R)
  BY <1>1, WFMin
<1>4. ASSUME NEW y \in T
      PROVE  x <= y
  <2>1. x \in Nat /\ y \in Nat
    OBVIOUS
  <2>2. ~ (y < x)
    BY <1>2, <1>3, <2>1
  <2> QED
    BY <2>1, <2>2
<1> QED
  BY <1>4

(* What the traversal visits: the roots of the task and, below what it     *)
(* visits, the jobs that are cancellable.  The least set with this         *)
(* property shows that the recursive function exists.                      *)
LEMMA VisitedFollowsLinks ==
  ASSUME TypeOK, ParentsExist, NEW t, NEW j \in JobIds
  PROVE  j \in Visited(t) <=> \/ Root(j, t)
                             \/ /\ jobs[j].parent # NoJob /\ jobs[j].cancellable
                                /\ jobs[j].parent \in Visited(t)
<1> DEFINE Linked(i) == jobs[i].parent # NoJob /\ jobs[i].cancellable
           Follow(W) == {i \in JobIds : Root(i, t) \/ (Linked(i) /\ jobs[i].parent \in W)}
           V == {i \in JobIds : \A W \in SUBSET JobIds : Follow(W) \subseteq W => i \in W}
           Def(f) == [i \in JobIds |-> \/ Root(i, t)
                                      \/ /\ jobs[i].parent # NoJob
                                         /\ jobs[i].cancellable
                                         /\ f[jobs[i].parent]]
           visit == CHOOSE f : f = Def(f)
<1>1. Follow(V) = V
  <2>1. Follow(V) \subseteq V
    OBVIOUS
  <2>2. Follow(Follow(V)) \subseteq Follow(V)
    BY <2>1
  <2>3. Follow(V) \in SUBSET JobIds
    OBVIOUS
  <2>4. V \subseteq Follow(V)
    BY <2>2, <2>3
  <2> QED
    BY <2>1, <2>4
<1>2. visit = Def(visit)
  <2> DEFINE f == [i \in JobIds |-> i \in V]
  <2>1. ASSUME NEW i \in JobIds
        PROVE  f[i] = Def(f)[i]
    <3>1. i \in V <=> Root(i, t) \/ (Linked(i) /\ jobs[i].parent \in V)
      BY <1>1
    <3>2. Linked(i) => (f[jobs[i].parent] <=> jobs[i].parent \in V)
      BY DEF ParentsExist
    <3> QED
      BY <3>1, <3>2
  <2>2. f = Def(f)
    BY <2>1
  <2> HIDE DEF f, V, Def
  <2> QED
    BY <2>2
<1>3. Visited(t) = {i \in JobIds : visit[i]}
  BY DEF Visited
<1> HIDE DEF visit, V
<1>4. visit[j] = Def(visit)[j]
  BY <1>2
<1>5. jobs[j].parent # NoJob => (jobs[j].parent \in Visited(t) <=> visit[jobs[j].parent])
  BY <1>3 DEF ParentsExist
<1> QED
  BY <1>3, <1>4, <1>5

(* What hangs below a root by cancellable links is visited: the first job  *)
(* of the path that were not would have a visited parent.                  *)
LEMMA BelowIsVisited ==
  ASSUME TypeOK, ParentsExist, NEW t, NEW i \in JobIds, Root(i, t),
         NEW j \in JobIds, CancellableBelow(j, i)
  PROVE  j \in Visited(t) /\ (j = i \/ jobs[j].cancellable)
<1>1. PICK n \in 1 .. Len(jobs) : \E path \in [1 .. n -> JobIds] :
        /\ path[1] = i /\ path[n] = j
        /\ \A m \in 1 .. n - 1 : /\ jobs[path[m + 1]].parent = path[m]
                                 /\ jobs[path[m + 1]].cancellable
  BY DEF CancellableBelow
<1>2. PICK path \in [1 .. n -> JobIds] :
        /\ path[1] = i /\ path[n] = j
        /\ \A m \in 1 .. n - 1 : /\ jobs[path[m + 1]].parent = path[m]
                                 /\ jobs[path[m + 1]].cancellable
  BY <1>1
<1>3. JobIds = 1 .. Len(jobs) /\ Len(jobs) \in Nat /\ n \in Nat /\ n >= 1
  BY <1>1, IdsOfSeq DEF TypeOK
<1>4. ASSUME NEW m \in 1 .. n, m # 1
      PROVE  /\ m - 1 \in 1 .. n
             /\ jobs[path[m]].parent = path[m - 1]
             /\ jobs[path[m]].cancellable
             /\ jobs[path[m]].parent # NoJob
  <2>1. m - 1 \in 1 .. n - 1 /\ (m - 1) + 1 = m /\ m - 1 \in 1 .. n
    BY <1>3, <1>4
  <2>2. jobs[path[m]].parent = path[m - 1] /\ jobs[path[m]].cancellable
    BY <1>2, <2>1
  <2>3. path[m - 1] \in JobIds
    BY <1>2, <2>1
  <2> QED
    BY <1>3, <2>1, <2>2, <2>3 DEF NoJob
<1> DEFINE Missed == {m \in 1 .. n : path[m] \notin Visited(t)}
<1>5. Missed = {}
  <2> SUFFICES ASSUME Missed # {}
               PROVE  FALSE
    OBVIOUS
  <2>1. Missed \in SUBSET Nat
    BY <1>3
  <2>2. PICK m \in Missed : \A k \in Missed : m <= k
    BY <2>1, LeastNatural
  <2>3. m # 1
    BY <1>2, <2>2, VisitedFollowsLinks
  <2>4. m - 1 \in 1 .. n /\ m - 1 \notin Missed
    BY <1>3, <1>4, <2>2, <2>3
  <2>5. jobs[path[m]].parent \in Visited(t)
    BY <1>4, <2>2, <2>3, <2>4
  <2>6. path[m] \in JobIds
    BY <1>2, <2>2
  <2> QED
    BY <1>4, <2>2, <2>3, <2>5, <2>6, VisitedFollowsLinks
<1>6. j \in Visited(t)
  BY <1>2, <1>3, <1>5
<1>7. j = i \/ jobs[j].cancellable
  BY <1>2, <1>3, <1>4
<1> QED
  BY <1>6, <1>7

(* Nothing but a cancellation makes a job CANCELLED.                       *)
LEMMA OnlyCancelTaskCancels ==
  ASSUME TypeOK, [Next]_vars, NEW j \in JobIds,
         jobs[j].state # "CANCELLED", jobs'[j].state = "CANCELLED"
  PROVE  \E t \in JobIds : CancelTask(t) /\ j \in CancelSet(t)
<1>1. ASSUME NEW job, Accept(job)
      PROVE  FALSE
  BY <1>1, AcceptStates
<1>2. ASSUME NEW S \in SUBSET JobIds, NEW s \in JobState, TransitionAll(S, s)
      PROVE  s = "CANCELLED" /\ j \in S
  BY <1>2, TransitionStates
<1>3. CASE StartNext
  <2>1. PICK i \in queue : TransitionAll({i}, "RUNNING")
    BY <1>3 DEF StartNext
  <2>2. {i} \in SUBSET JobIds /\ "RUNNING" \in JobState
    BY DEF TypeOK, JobState
  <2> QED
    BY <1>2, <2>1, <2>2
<1>4. ASSUME NEW i \in JobIds, NEW s \in TerminalStates, Finish(i, s)
      PROVE  FALSE
  BY <1>2, <1>4 DEF Finish, JobState
<1>5. CASE Expire
  BY <1>2, <1>5 DEF Expire, Overdue, JobState, TerminalStates
<1>6. ASSUME NEW t \in JobIds, CancelTask(t)
      PROVE  j \in CancelSet(t)
  BY <1>2, <1>6 DEF CancelTask, CancelSet, Visited, JobState, TerminalStates
<1>7. CASE SubmitAny
  BY <1>1, <1>7, SubmitAccepts DEF SubmitAny
<1>8. ASSUME NEW i \in JobIds, Retry(i)
      PROVE  FALSE
  BY <1>1, <1>8, RetryAccepts
<1>9. ASSUME NEW i \in JobIds, Heartbeat(i)
      PROVE  FALSE
  <2>1. jobs[i] \in Job
    BY IdsOfSeq DEF TypeOK
  <2>2. jobs'[j] = jobs[j] \/ (jobs'[j] = [jobs[i] EXCEPT !.heartbeat = clock] /\ i = j)
    BY <1>9 DEF Heartbeat
  <2> QED
    BY <2>1, <2>2 DEF Job
<1>10. ASSUME UNCHANGED jobs
       PROVE  FALSE
  BY <1>10
<1> QED
  BY <1>3, <1>4, <1>5, <1>6, <1>7, <1>8, <1>9, <1>10
     DEF Next, vars, RetryRefused, Tick

(* Cancelling a task is complete, also through jobs that are already over. *)
(* The step that cancels a root is the cancellation of its task; whatever  *)
(* hangs below the root is visited, and what is visited and live is        *)
(* cancelled with it.                                                      *)
THEOREM CancelIsComplete == Spec => CancelReachesTheTree
<1> DEFINE Complete(i) ==
      (jobs[i].parent = NoJob /\ jobs[i].state # "CANCELLED" /\ jobs'[i].state = "CANCELLED")
      => \A j \in JobIds : CancellableBelow(j, i) => jobs'[j].state \in TerminalStates
<1>1. ASSUME TypeOK, ParentsExist, [Next]_vars, NEW i \in JobIds
      PROVE  Complete(i)
  <2> SUFFICES ASSUME jobs[i].parent = NoJob, jobs[i].state # "CANCELLED",
                      jobs'[i].state = "CANCELLED",
                      NEW j \in JobIds, CancellableBelow(j, i)
               PROVE  jobs'[j].state \in TerminalStates
    OBVIOUS
  <2>1. PICK t \in JobIds : CancelTask(t) /\ i \in CancelSet(t)
    BY <1>1, OnlyCancelTaskCancels
  <2>2. Root(i, t)
    BY <1>1, <2>1, VisitedFollowsLinks DEF CancelSet
  <2>3. j \in Visited(t) /\ (j = i \/ jobs[j].cancellable)
    BY <1>1, <2>2, BelowIsVisited
  <2>4. Terminal(j) \/ j \in CancelSet(t)
    BY <2>2, <2>3 DEF CancelSet
  <2>5. /\ CancelSet(t) \in SUBSET JobIds
        /\ "CANCELLED" \in JobState /\ "CANCELLED" \in TerminalStates
    BY DEF CancelSet, Visited, JobState, TerminalStates
  <2>6. /\ \A k \in JobIds \ CancelSet(t) : jobs'[k] = jobs[k]
        /\ \A k \in CancelSet(t) : jobs'[k].state = "CANCELLED"
    BY <1>1, <2>1, <2>5, TransitionStates DEF CancelTask
  <2> QED
    BY <2>4, <2>5, <2>6 DEF Terminal
<1>2. TypeOK /\ ParentsExist /\ [Next]_vars => [\A i \in JobIds : Complete(i)]_vars
  BY <1>1
<1> QED
  BY <1>2, TypeCorrect, ParentsInv, PTL DEF Spec, CancelReachesTheTree

=============================================================================
