------------------------- MODULE OrchestratorProofs -------------------------
(***************************************************************************)
(* Theorems about Orchestrator, for every registry, every set of texts and *)
(* every number of turns in progress at once.  The turns use the scheduler *)
(* through its own operations, so what JobSchedulerProofs shows of them is *)
(* cited here, instantiated as Orchestrator instantiates JobScheduler; the *)
(* blocked job, which is submitted and ended in one step, is added to it.  *)
(***************************************************************************)
EXTENDS Orchestrator, SequenceTheorems, FiniteSetTheorems, TLAPS

SP == INSTANCE JobSchedulerProofs WITH
  Key <- Turn, HeartbeatTimeout <- 1, MinRetryDeadline <- 1,
  MaxJobs <- Cardinality(Turn), MaxTime <- 0,
  Deadlines <- {1}, RetryBudgets <- {1}, Cancellables <- {TRUE}, Delegation <- FALSE

-----------------------------------------------------------------------------
(* The two instances of the scheduler define the same operators.           *)

LEMMA SameConstants ==
  /\ SP!NoJob = Sched!NoJob
  /\ SP!TerminalStates = Sched!TerminalStates
  /\ SP!JobState = Sched!JobState
  /\ SP!Job = Sched!Job
  /\ \A S : SP!Cardinality(S) = Sched!Cardinality(S)
<1>1. /\ SP!NoJob = Sched!NoJob
      /\ SP!TerminalStates = Sched!TerminalStates
      /\ SP!JobState = Sched!JobState
      /\ SP!Job = Sched!Job
  BY DEF SP!NoJob, Sched!NoJob, SP!TerminalStates, Sched!TerminalStates,
         SP!JobState, Sched!JobState, SP!Job, Sched!Job
<1>2. \A S : SP!Cardinality(S) = Sched!Cardinality(S)
  BY DEF SP!Cardinality, Sched!Cardinality, SP!IsFiniteSet, Sched!IsFiniteSet
<1> QED
  BY <1>1, <1>2

LEMMA SameState ==
  /\ SP!JobIds = Sched!JobIds
  /\ SP!NewId = Sched!NewId
  /\ \A S : SP!InState(S) = Sched!InState(S)
  /\ \A S, r : SP!WithRole(S, r) = Sched!WithRole(S, r)
  /\ SP!Running = Sched!Running
  /\ \A r : SP!HasRoom(r) <=> Sched!HasRoom(r)
  /\ \A j : SP!IsNextToStart(j) <=> Sched!IsNextToStart(j)
  /\ \A j : SP!Terminal(j) <=> Sched!Terminal(j)
  BY SameConstants
     DEF SP!JobIds, Sched!JobIds, SP!NewId, Sched!NewId, SP!InState, Sched!InState,
         SP!WithRole, Sched!WithRole, SP!Running, Sched!Running, SP!Startable,
         Sched!Startable, SP!HasRoom, Sched!HasRoom, SP!IsNextToStart,
         Sched!IsNextToStart, SP!Terminal, Sched!Terminal

(* What the scheduler's own theorems say of it, at any moment.             *)
Sound ==
  /\ Sched!TypeOK
  /\ SchedulerStaysSound

LEMMA SameInvariants ==
  /\ Sound <=> SP!TypeOK /\ SP!QueueHoldsExactlyTheWaiting
               /\ SP!ConcurrencyBounded /\ SP!QueueBounded
  /\ Sound' <=> SP!TypeOK' /\ SP!QueueHoldsExactlyTheWaiting'
                /\ SP!ConcurrencyBounded' /\ SP!QueueBounded'
<1> USE SameConstants
    DEF Sound, SchedulerStaysSound, SP!TypeOK, Sched!TypeOK,
        SP!QueueHoldsExactlyTheWaiting, Sched!QueueHoldsExactlyTheWaiting,
        SP!ConcurrencyBounded, Sched!ConcurrencyBounded,
        SP!QueueBounded, Sched!QueueBounded, SP!JobIds, Sched!JobIds,
        SP!InState, Sched!InState, SP!WithRole, Sched!WithRole,
        SP!Running, Sched!Running
<1>1. Sound <=> SP!TypeOK /\ SP!QueueHoldsExactlyTheWaiting
                /\ SP!ConcurrencyBounded /\ SP!QueueBounded
  OBVIOUS
<1>2. Sound' <=> SP!TypeOK' /\ SP!QueueHoldsExactlyTheWaiting'
                 /\ SP!ConcurrencyBounded' /\ SP!QueueBounded'
  OBVIOUS
<1> QED
  BY <1>1, <1>2

LEMMA SameActions ==
  /\ \A S, s : SP!TransitionAll(S, s) <=> Sched!TransitionAll(S, s)
  /\ \A new : SP!Enqueue(new) <=> Sched!Enqueue(new)
<1>1. \A S, s : SP!TransitionAll(S, s) <=> Sched!TransitionAll(S, s)
  BY DEF SP!TransitionAll, Sched!TransitionAll, SP!Transitioned, Sched!Transitioned,
         SP!JobIds, Sched!JobIds
<1>2. \A new : SP!Enqueue(new) <=> Sched!Enqueue(new)
  BY DEF SP!Enqueue, Sched!Enqueue, SP!NewId, Sched!NewId
<1> QED
  BY <1>1, <1>2

(* The scheduler's assumptions hold of the turns and the registry.         *)
LEMMA SchedulerAssumptions ==
  SP!BoundsAssumption /\ SP!InputsAssumption
<1>1. SP!BoundsAssumption
  BY SchedulerAssumption DEF SP!BoundsAssumption, Sched!BoundsAssumption
<1>2. Cardinality(Turn) \in Nat
  BY TurnsAssumption, FS_CardinalityType
<1>3. SP!InputsAssumption
  BY <1>2, TurnsAssumption DEF SP!InputsAssumption
<1> QED
  BY <1>1, <1>3

-----------------------------------------------------------------------------
(* What the calls of the turns do to the scheduler.                        *)

(* One job more, waiting or already over.                                  *)
Added(state) ==
  /\ Sched!JobIds' = Sched!JobIds \cup {Sched!NewId}
  /\ Sched!NewId \notin Sched!JobIds
  /\ Sched!NewId # NoJob
  /\ jobs'[Sched!NewId].state = state
  /\ \A j \in Sched!JobIds : jobs'[j] = jobs[j]

(* The live jobs of S, and no others, reach this state.                    *)
Moved(S, state) ==
  /\ S \subseteq LiveJobs
  /\ Sched!JobIds' = Sched!JobIds
  /\ \A j \in S : jobs'[j].state = state
  /\ \A j \in Sched!JobIds \ S : jobs'[j] = jobs[j]

LEMMA SubmitAdds ==
  ASSUME Sound, NEW r \in Role, NEW t \in Turn,
         Sched!Submit(r, 1, 1, Sched!NoJob, TRUE, t)
  PROVE  Sound' /\ Added("QUEUED") /\ jobs'[Sched!NewId].role = r
<1> USE SchedulerAssumptions
<1> DEFINE new == SP!NewJob(SP!TaskFor(SP!NoJob), r, 1, 1, 1, SP!NoJob, TRUE, t)
<1>1. SP!Submit(r, 1, 1, SP!NoJob, TRUE, t)
  BY SameConstants, SameState, SameActions
     DEF SP!Submit, Sched!Submit, SP!KnownKey, Sched!KnownKey, SP!NewJob, Sched!NewJob,
         SP!TaskFor, Sched!TaskFor
<1>2. SP!Accept(new)
  <2>1. SP!TypeOK
    BY SameInvariants
  <2> QED
    BY <1>1, <2>1, SP!SubmitAccepts
<1>3. SP!Shape
  BY <1>2 DEF SP!Shape
<1>4. SP!TypeOK' /\ SP!QueueHoldsExactlyTheWaiting'
      /\ SP!ConcurrencyBounded' /\ SP!QueueBounded'
  BY <1>2, <1>3, SameInvariants, SP!AcceptTypes, SP!QueueStep, SP!PoolStep,
     SP!QueueBoundsStep
<1>5. new.state = "QUEUED" /\ new.role = r
  BY DEF SP!NewJob
<1> HIDE DEF new
<1>6. /\ SP!JobIds' = SP!JobIds \cup {SP!NewId} /\ SP!NewId \notin SP!JobIds
      /\ jobs'[SP!NewId] = new
      /\ \A j \in SP!JobIds : jobs'[j] = jobs[j]
  BY <1>2, SameInvariants, SP!AcceptStates
<1>7. SP!NewId # NoJob
  BY SameInvariants, SP!IdsOfSeq DEF SP!TypeOK, SP!NewId, NoJob, Sched!NoJob
<1>8. SP!JobIds' = Sched!JobIds'
  BY DEF SP!JobIds, Sched!JobIds
<1>9. Added("QUEUED") /\ jobs'[Sched!NewId].role = r
  BY <1>5, <1>6, <1>7, <1>8, SameState DEF Added
<1> QED
  BY <1>4, <1>9, SameInvariants

(* transition() of a set of jobs, found legal, in any of its uses.         *)
LEMMA TransitionMoves ==
  ASSUME Sound, NEW S \in SUBSET LiveJobs, NEW s \in Sched!JobState, SP!TransitionAll(S, s)
  PROVE  SP!TypeOK' /\ Moved(S, s)
<1> USE SchedulerAssumptions
<1>1. S \in SUBSET SP!JobIds /\ s \in SP!JobState /\ SP!TypeOK
  BY SameState, SameConstants, SameInvariants DEF LiveJobs
<1>2. SP!TypeOK'
  BY <1>1, SP!TransitionTypes
<1>3. /\ SP!JobIds' = SP!JobIds
      /\ \A j \in SP!JobIds \ S : jobs'[j] = jobs[j]
      /\ \A j \in S : jobs'[j].state = s
  BY <1>1, SP!TransitionStates
<1>4. SP!JobIds' = Sched!JobIds'
  BY DEF SP!JobIds, Sched!JobIds
<1> QED
  BY <1>2, <1>3, <1>4, SameState DEF Moved

(* start_next() moves a waiting job to RUNNING, and nothing else.          *)
LEMMA StartMoves ==
  ASSUME Sound, Sched!StartNext
  PROVE  Sound' /\ \E j \in Sched!JobIds : jobs[j].state = "QUEUED" /\ Moved({j}, "RUNNING")
<1> USE SchedulerAssumptions
<1>1. PICK j \in queue : SP!IsNextToStart(j) /\ SP!TransitionAll({j}, "RUNNING")
  BY SameState, SameActions DEF Sched!StartNext
<1>2. j \in Sched!JobIds /\ jobs[j].state = "QUEUED"
  BY DEF Sound, SchedulerStaysSound, Sched!QueueHoldsExactlyTheWaiting, Sched!InState
<1>3. {j} \in SUBSET LiveJobs /\ "RUNNING" \in Sched!JobState
  BY <1>2 DEF LiveJobs, Sched!Terminal, Sched!TerminalStates, Sched!JobState
<1>4. SP!TypeOK' /\ Moved({j}, "RUNNING")
  BY <1>1, <1>3, TransitionMoves
<1>5. SP!Shape
  BY <1>1 DEF SP!Shape
<1>6. SP!QueueHoldsExactlyTheWaiting' /\ SP!ConcurrencyBounded' /\ SP!QueueBounded'
  BY <1>5, SameInvariants, SP!QueueStep, SP!PoolStep, SP!QueueBoundsStep
<1> QED
  BY <1>2, <1>4, <1>6, SameInvariants

(* Live jobs that end together, of which a cancellation takes only roots   *)
(* and cancellable jobs.                                                   *)
LEMMA EndMoves ==
  ASSUME Sound, NEW S \in SUBSET LiveJobs, NEW s \in Sched!TerminalStates,
         s = "CANCELLED" => \A j \in S : jobs[j].parent = Sched!NoJob \/ jobs[j].cancellable,
         Sched!TransitionAll(S, s)
  PROVE  Sound' /\ Moved(S, s)
<1> USE SchedulerAssumptions
<1>1. SP!TransitionAll(S, s) /\ s \in Sched!JobState
  BY SameActions DEF Sched!JobState
<1>2. SP!TypeOK' /\ Moved(S, s)
  BY <1>1, TransitionMoves
<1>3. SP!End(S, s)
  BY <1>1, SameState, SameConstants DEF SP!End, LiveJobs
<1>4. SP!Shape
  BY <1>3 DEF SP!Shape
<1>5. SP!QueueHoldsExactlyTheWaiting' /\ SP!ConcurrencyBounded' /\ SP!QueueBounded'
  BY <1>4, SameInvariants, SP!QueueStep, SP!PoolStep, SP!QueueBoundsStep
<1> QED
  BY <1>2, <1>5, SameInvariants

LEMMA FinishMoves ==
  ASSUME Sound, NEW j \in Sched!JobIds, Sched!Finish(j, "COMPLETED")
  PROVE  Sound' /\ Moved({j}, "COMPLETED")
<1>1. {j} \in SUBSET LiveJobs
  BY DEF Sched!Finish, Sched!CanTransition, LiveJobs
<1> QED
  BY <1>1, EndMoves DEF Sched!Finish, Sched!TerminalStates

LEMMA CancelMoves ==
  ASSUME Sound, NEW task, Sched!CancelTask(task)
  PROVE  Sound' /\ \E S : Moved(S, "CANCELLED")
<1>1. /\ Sched!CancelSet(task) \in SUBSET LiveJobs
      /\ \A j \in Sched!CancelSet(task) : jobs[j].parent = Sched!NoJob \/ jobs[j].cancellable
  BY DEF Sched!CancelSet, Sched!Visited, Sched!Root, LiveJobs
<1> QED
  BY <1>1, EndMoves DEF Sched!CancelTask, Sched!TerminalStates

(* A blocked job is over when it appears: it is in no queue and takes no   *)
(* slot.                                                                   *)
LEMMA BlockAdds ==
  ASSUME Sound, BlockJob
  PROVE  Sound' /\ Added("BLOCKED_POLICY")
<1> DEFINE blocked == [Sched!NewJob(Sched!NewId, SupervisorId, 1, 1, 1, Sched!NoJob, TRUE, NoKey)
                         EXCEPT !.state = "BLOCKED_POLICY"]
<1>1. /\ jobs \in Seq(Sched!Job) /\ clock \in Nat /\ queue \subseteq Sched!JobIds
      /\ idempotency \in [Turn -> Sched!JobIds \cup {Sched!NoJob}]
  BY DEF Sound, Sched!TypeOK
<1>2. blocked \in Sched!Job /\ blocked.state = "BLOCKED_POLICY"
  <2>1. Sched!NewId \in Nat /\ Sched!NoJob \in Nat /\ clock + 1 \in Nat /\ SupervisorId \in Role
    BY <1>1, RegistryAssumption DEF Sched!NewId, Sched!NoJob
  <2> QED
    BY <1>1, <2>1 DEF Sched!NewJob, Sched!Job, Sched!JobState, Sched!TerminalStates
<1>3. jobs' = Append(jobs, blocked) /\ UNCHANGED <<queue, idempotency, clock>>
  BY DEF BlockJob
<1> HIDE DEF blocked
<1>4. /\ jobs' \in Seq(Sched!Job)
      /\ Len(jobs') = Len(jobs) + 1
      /\ \A i \in 1 .. Len(jobs) : jobs'[i] = jobs[i]
      /\ jobs'[Len(jobs) + 1] = blocked
      /\ Sched!JobIds = 1 .. Len(jobs) /\ Sched!JobIds' = 1 .. Len(jobs')
      /\ Len(jobs) \in Nat
  BY <1>1, <1>2, <1>3, AppendProperties DEF Sched!JobIds
<1>5. Added("BLOCKED_POLICY")
  BY <1>2, <1>4 DEF Added, Sched!NewId, NoJob, Sched!NoJob
<1>6. Sched!TypeOK'
  BY <1>1, <1>3, <1>4 DEF Sched!TypeOK
<1>7. \A S : {"BLOCKED_POLICY"} \cap S = {} => Sched!InState(S)' = Sched!InState(S)
  BY <1>5 DEF Added, Sched!InState
<1>8. Sched!Running' = Sched!Running /\ Sched!Running \subseteq Sched!JobIds
  BY <1>7 DEF Sched!Running, Sched!InState
<1>9. \A S \in SUBSET Sched!JobIds, r \in Role :
         {j \in S : jobs'[j].role = r} = Sched!WithRole(S, r)
  BY <1>5 DEF Added, Sched!WithRole
<1>10. SchedulerStaysSound'
  <2>1. Sched!QueueHoldsExactlyTheWaiting'
    BY <1>3, <1>7 DEF Sound, SchedulerStaysSound, Sched!QueueHoldsExactlyTheWaiting
  <2>2. Sched!ConcurrencyBounded'
    BY <1>8, <1>9 DEF Sound, SchedulerStaysSound, Sched!ConcurrencyBounded, Sched!WithRole
  <2>3. Sched!QueueBounded'
    BY <1>1, <1>3, <1>9 DEF Sound, SchedulerStaysSound, Sched!QueueBounded, Sched!WithRole
  <2> QED
    BY <2>1, <2>2, <2>3 DEF SchedulerStaysSound
<1> QED
  BY <1>5, <1>6, <1>10 DEF Sound

LEMMA StutterSound ==
  ASSUME Sound, UNCHANGED schedVars
  PROVE  Sound'
  BY DEF schedVars, Sound, SchedulerStaysSound, Sched!TypeOK,
         Sched!QueueHoldsExactlyTheWaiting, Sched!ConcurrencyBounded, Sched!QueueBounded,
         Sched!JobIds, Sched!InState, Sched!WithRole, Sched!Running

(* An emit leads to its await, or raises.                                  *)
Goes(t, S) == \E w \in S : Goto(t, w)

LEMMA EmittingGoes ==
  ASSUME NEW t, NEW w, Emitting(t, w)
  PROVE  Goes(t, {w, Raised(w)})
  BY DEF Emitting, Goes

LEMMA BlockedTurnSteps ==
  ASSUME Sound, NEW t \in Turn, BlockedTurn(t)
  PROVE  /\ Sound'
         /\ \/ Added("BLOCKED_POLICY") /\ Goes(t, {"responding", "done"})
            \/ UNCHANGED schedVars /\ Goto(t, "failed")
<1>1. CASE BlockJob /\ Emitting(t, "responding")
  BY <1>1, BlockAdds, EmittingGoes DEF Raised
<1>2. CASE Goto(t, "failed") /\ UNCHANGED schedVars
  <2>1. Sound'
    BY <1>2, StutterSound
  <2> QED
    BY <1>2, <2>1
<1> QED
  BY <1>1, <1>2 DEF BlockedTurn

-----------------------------------------------------------------------------
(* The turns.                                                              *)

(* A turn has a job from the moment it is announced, and none before.      *)
JobsAreOwned ==
  \A t \in Turn :
    /\ pc[t] \in {"idle", "routing"} => job[t] = NoJob
    /\ pc[t] \in {"announced", "working", "completing"} => job[t] # NoJob

(* What is being routed is no command and passed the preflight.            *)
RoutedIsHarmless ==
  \A t \in Turn :
    pc[t] = "routing"
    => /\ said[t].text \in Texts
       /\ Recognize(said[t].text) = NoCommand
       /\ ~Consequential(said[t].text)

(* The steps of a turn that leave the scheduler alone.                     *)
Moves ==
  { <<"idle", "routing">>, <<"idle", "responding">>, <<"idle", "silent">>,
    <<"idle", "failed">>, <<"idle", "done">>, <<"routing", "failed">>,
    <<"announced", "silent">>, <<"announced", "failed">>, <<"working", "silent">>,
    <<"working", "failed">>, <<"completing", "responding">>, <<"completing", "done">>,
    <<"responding", "done">> }

(* The route of t is allowed and its job accepted.                         *)
Submitted(t, d) ==
  /\ pc[t] = "routing" /\ d \in Routed(t) /\ Permitted(t, d)
  /\ Added("QUEUED") /\ jobs'[Sched!NewId].role = d.role
  /\ job' = [job EXCEPT ![t] = Sched!NewId]
  /\ Goes(t, {"announced", "failed"})

Blocked(t) ==
  /\ pc[t] \in {"idle", "routing"}
  /\ Added("BLOCKED_POLICY")
  /\ Goes(t, {"responding", "done"}) /\ UNCHANGED job

Started(t, j) ==
  /\ pc[t] = "announced"
  /\ jobs[j].state = "QUEUED" /\ Moved({j}, "RUNNING")
  /\ Goes(t, {"working", "failed"}) /\ UNCHANGED job

Completed(t) ==
  /\ pc[t] = "working"
  /\ Moved({job[t]}, "COMPLETED")
  /\ Goes(t, {"completing", "done"}) /\ UNCHANGED job

Cancelled(S) ==
  /\ Moved(S, "CANCELLED") /\ UNCHANGED job
  /\ UNCHANGED pc \/ \E t \in Turn : pc[t] = "idle" /\ Goes(t, {"responding", "done"})

Passed ==
  /\ UNCHANGED <<jobs, job>>
  /\ UNCHANGED pc \/ \E t \in Turn, w \in Active \cup Over : <<pc[t], w>> \in Moves /\ Goto(t, w)

TurnShape ==
  \/ \E t \in Turn : \E d : Submitted(t, d)
  \/ \E t \in Turn : Blocked(t)
  \/ \E t \in Turn, j \in Sched!JobIds : Started(t, j)
  \/ \E t \in Turn : Completed(t)
  \/ \E S : Cancelled(S)
  \/ Passed

(* The agent a decision names is in the registry.                          *)
LEMMA RoutedToRegistry ==
  ASSUME NEW t \in Turn, said[t].text \in Texts, Recognize(said[t].text) = NoCommand,
         said[t].target \in Addressed, NEW d \in Routed(t)
  PROVE  d.role \in Role
<1> DEFINE text == said[t].text
           target == said[t].target
<1>1. Deterministic(text, target).role \in Role
  <2>1. CASE target = NoTarget
    BY <2>1, RegistryAssumption DEF Deterministic
  <2>2. CASE target # NoTarget
    <3>1. target \in Role /\ target # SupervisorId
      BY <2>2 DEF Addressed
    <3>2. Deterministic(text, target) = Decision(RouteOfRole(target), "UNKNOWN", target)
      BY <2>2, <3>1 DEF Deterministic
    <3> QED
      BY <3>1, <3>2 DEF Decision
  <2> QED
    BY <2>1, <2>2
<1>2. d = Deterministic(text, target) \/ d \in Valid(ModelDefaults)
  BY DEF Routed, Decisions
<1> QED
  BY <1>1, <1>2 DEF Valid

LEMMA TurnSteps ==
  ASSUME TypeOK, SchedulerStaysSound, JobsAreOwned, RoutedIsHarmless, [Next]_vars
  PROVE  Sound' /\ TurnShape
<1> USE DEF TurnShape
<1>0. Sound
  BY DEF Sound, TypeOK
<1>1. ASSUME UNCHANGED schedVars, UNCHANGED job,
             UNCHANGED pc \/ \E t \in Turn, w \in Active \cup Over :
                               <<pc[t], w>> \in Moves /\ Goto(t, w)
      PROVE  Sound' /\ TurnShape
  BY <1>0, <1>1, StutterSound DEF Passed, schedVars
<1>2. ASSUME NEW t \in Turn, pc[t] \in {"idle", "routing"}, BlockedTurn(t), UNCHANGED job
      PROVE  Sound' /\ TurnShape
  <2>1. CASE Added("BLOCKED_POLICY") /\ Goes(t, {"responding", "done"})
    BY <1>0, <1>2, <2>1, BlockedTurnSteps DEF Blocked
  <2>2. CASE UNCHANGED schedVars /\ Goto(t, "failed")
    BY <1>1, <1>2, <2>2 DEF Moves, Over
  <2> QED
    BY <1>0, <1>2, <2>1, <2>2, BlockedTurnSteps
<1>3. ASSUME NEW task, Sched!CancelTask(task), UNCHANGED job,
             UNCHANGED pc \/ \E t \in Turn : pc[t] = "idle" /\ Goes(t, {"responding", "done"})
      PROVE  Sound' /\ TurnShape
  BY <1>0, <1>3, CancelMoves DEF Cancelled
<1>4. ASSUME NEW t \in Turn, NEW text \in Texts, Utterance(t, text)
      PROVE  Sound' /\ TurnShape
  BY <1>1, <1>4 DEF Utterance, Begin, Moves, Active, Over
<1>5. ASSUME NEW t \in Turn, NEW text \in Texts, AnswerCommand(t, text)
      PROVE  Sound' /\ TurnShape
  BY <1>1, <1>5 DEF AnswerCommand, Begin, Moves, Active, Over, Emitting, Raised
<1>6. ASSUME NEW t \in Turn, NEW text \in Texts, StopCommand(t, text)
      PROVE  Sound' /\ TurnShape
  BY <1>1, <1>6 DEF StopCommand, Begin, Moves, Over, Emitting, Raised
<1>7. ASSUME NEW t \in Turn, NEW text \in Texts, CancelCommand(t, text)
      PROVE  Sound' /\ TurnShape
  <2>1. pc[t] = "idle" /\ Goes(t, {"responding", "done"}) /\ UNCHANGED job
    BY <1>7, EmittingGoes DEF CancelCommand, Begin, Raised
  <2>2. CASE UNCHANGED schedVars
    BY <1>1, <2>1, <2>2 DEF Moves, Active, Over, Goes
  <2>3. ASSUME NEW j \in LiveJobs, Sched!CancelTask(jobs[j].task)
        PROVE  Sound' /\ TurnShape
    BY <1>3, <2>1, <2>3
  <2> QED
    BY <1>7, <2>2, <2>3 DEF CancelCommand
<1>8. ASSUME NEW t \in Turn, NEW text \in Texts, Preflight(t, text)
      PROVE  Sound' /\ TurnShape
  BY <1>2, <1>8 DEF Preflight, Begin
<1>9. ASSUME NEW t \in Turn, BlockRoute(t)
      PROVE  Sound' /\ TurnShape
  BY <1>2, <1>9 DEF BlockRoute
<1>10. ASSUME NEW t \in Turn, NEW d \in Routed(t), Route(t, d)
       PROVE  Sound' /\ TurnShape
  <2>1. d.role \in Role
    BY <1>10, RoutedToRegistry DEF Route, RoutedIsHarmless, TypeOK
  <2>2. CASE /\ Sched!Submit(d.role, 1, 1, Sched!NoJob, TRUE, t)
             /\ job' = [job EXCEPT ![t] = Sched!NewId]
             /\ Emitting(t, "announced")
    BY <1>0, <1>10, <2>1, <2>2, SubmitAdds, EmittingGoes DEF Submitted, Route, Raised
  <2>3. CASE Goto(t, "failed") /\ UNCHANGED <<schedVars, job>>
    BY <1>1, <1>10, <2>3 DEF Route, Moves, Over
  <2> QED
    BY <1>10, <2>2, <2>3 DEF Route
<1>11. ASSUME NEW t \in Turn, Start(t)
       PROVE  Sound' /\ TurnShape
  <2>1. CASE Sched!StartNext /\ Emitting(t, "working")
    BY <1>0, <1>11, <2>1, StartMoves, EmittingGoes DEF Start, Started, Raised
  <2>2. CASE Goto(t, "silent") /\ UNCHANGED schedVars
    BY <1>1, <1>11, <2>2 DEF Start, Moves, Over
  <2> QED
    BY <1>11, <2>1, <2>2 DEF Start
<1>12. ASSUME NEW t \in Turn, Work(t)
       PROVE  Sound' /\ TurnShape
  <2>1. job[t] \in Sched!JobIds
    BY <1>12 DEF Work, JobsAreOwned, TypeOK
  <2>2. CASE Sched!Finish(job[t], "COMPLETED") /\ Emitting(t, "completing")
    BY <1>0, <1>12, <2>1, <2>2, FinishMoves, EmittingGoes DEF Work, Completed, Raised
  <2>3. CASE (Goto(t, "silent") \/ Goto(t, "failed")) /\ UNCHANGED schedVars
    BY <1>1, <1>12, <2>3 DEF Work, Moves, Over
  <2> QED
    BY <1>12, <2>2, <2>3 DEF Work
<1>13. ASSUME NEW t \in Turn, Announce(t) \/ Responded(t) \/ Raise(t)
       PROVE  Sound' /\ TurnShape
  BY <1>1, <1>13 DEF Announce, Responded, Raise, Emitting, Raised, Moves, Active, Over
<1>14. ASSUME NEW task, TaskCancel(task)
       PROVE  Sound' /\ TurnShape
  BY <1>3, <1>14 DEF TaskCancel
<1>16. CASE Lose
  BY <1>1, <1>16 DEF Lose
<1>15. CASE UNCHANGED vars
  BY <1>1, <1>15 DEF vars, schedVars
<1> QED
  BY <1>4, <1>5, <1>6, <1>7, <1>8, <1>9, <1>10, <1>11, <1>12, <1>13, <1>14, <1>15,
     <1>16 DEF Next, TurnStep

LEMMA EmittingElsewhere ==
  ASSUME NEW t, NEW v, v # "routing", Emitting(t, v)
  PROVE  \E w : w # "routing" /\ Goto(t, w)
  BY DEF Emitting, Raised

(* Only what is uttered is routed, and only after the preflight.           *)
LEMMA SaidStep ==
  ASSUME TypeOK, RoutedIsHarmless, [Next]_vars
  PROVE  /\ said' \in [Turn -> [text : Texts \cup {Nothing.text}, target : Addressed]]
         /\ overlapped' \in BOOLEAN /\ link' \in {"open", "lost", "left"}
         /\ RoutedIsHarmless'
<1> DEFINE Said == said' \in [Turn -> [text : Texts \cup {Nothing.text}, target : Addressed]]
<1>1. overlapped' \in BOOLEAN
  <2>1. ASSUME NEW t \in Turn, Begin(t)
        PROVE  overlapped' \in BOOLEAN
    BY <2>1 DEF Begin, TypeOK
  <2>2. CASE UNCHANGED overlapped
    BY <2>2 DEF TypeOK
  <2> QED
    BY <2>1, <2>2 DEF Next, vars, Utterance, AnswerCommand, StopCommand, CancelCommand,
       Preflight, TurnStep, BlockRoute, Route, Start, Work, Announce, Responded, Raise,
       TaskCancel, Lose
<1>10. link' \in {"open", "lost", "left"}
  BY DEF TypeOK, Next, vars, Utterance, AnswerCommand, StopCommand, CancelCommand,
     Preflight, TurnStep, BlockRoute, Route, Start, Work, Announce, Responded, Raise,
     TaskCancel, Lose
<1>2. ASSUME NEW t \in Turn, NEW text \in Texts, Utterance(t, text), link = "open"
      PROVE  Said /\ RoutedIsHarmless'
  <2>1. PICK target \in Addressed :
          said' = [said EXCEPT ![t] = [text |-> text, target |-> target]]
    BY <1>2 DEF Utterance
  <2>2. Said
    BY <2>1 DEF TypeOK
  <2>3. \A u \in Turn : u # t => pc'[u] = pc[u] /\ said'[u] = said[u]
    BY <1>2, <2>1 DEF Utterance, Goto, TypeOK
  <2>4. said'[t].text = text
    BY <2>1 DEF TypeOK
  <2>5. RoutedIsHarmless'
    BY <1>2, <2>3, <2>4 DEF Utterance, RoutedIsHarmless, Consequential
  <2> QED
    BY <2>2, <2>5
<1>3. ASSUME UNCHANGED said,
             UNCHANGED pc \/ \E t \in Turn : \E w : w # "routing" /\ Goto(t, w)
      PROVE  Said /\ RoutedIsHarmless'
  BY <1>3 DEF RoutedIsHarmless, Goto, TypeOK, Consequential
<1>4. ASSUME NEW t \in Turn, NEW w, w # "routing", Goto(t, w),
             said' = [said EXCEPT ![t] = Nothing]
      PROVE  Said /\ RoutedIsHarmless'
  <2>1. NoTarget \in Addressed
    BY DEF Addressed
  <2>2. Said
    BY <1>4, <2>1 DEF TypeOK, Nothing
  <2>3. \A u \in Turn : u # t => pc'[u] = pc[u] /\ said'[u] = said[u]
    BY <1>4 DEF Goto, TypeOK
  <2>4. pc'[t] # "routing"
    BY <1>4 DEF Goto, TypeOK
  <2>5. RoutedIsHarmless'
    BY <2>3, <2>4 DEF RoutedIsHarmless, Consequential
  <2> QED
    BY <2>2, <2>5
<1>5. ASSUME NEW t \in Turn, NEW text \in Texts,
             AnswerCommand(t, text) \/ StopCommand(t, text) \/ CancelCommand(t, text)
      PROVE  Said /\ RoutedIsHarmless'
  BY <1>3, <1>5, EmittingElsewhere DEF AnswerCommand, StopCommand, CancelCommand
<1>11. ASSUME NEW t \in Turn, NEW text \in Texts, Utterance(t, text), link # "open"
       PROVE  Said /\ RoutedIsHarmless'
  BY <1>3, <1>11 DEF Utterance
<1>6. ASSUME NEW t \in Turn, NEW text \in Texts, Preflight(t, text)
      PROVE  Said /\ RoutedIsHarmless'
  BY <1>3, <1>6, EmittingElsewhere DEF Preflight, BlockedTurn
<1>7. ASSUME NEW t \in Turn,
             BlockRoute(t) \/ (\E d \in Routed(t) : Route(t, d)) \/ Raise(t)
      PROVE  Said /\ RoutedIsHarmless'
  BY <1>4, <1>7, EmittingElsewhere DEF BlockRoute, BlockedTurn, Route, Raise, Raised
<1>8. ASSUME NEW t \in Turn, Start(t) \/ Work(t) \/ Announce(t) \/ Responded(t)
      PROVE  Said /\ RoutedIsHarmless'
  BY <1>3, <1>8, EmittingElsewhere DEF Start, Work, Announce, Responded
<1>9. ASSUME UNCHANGED <<pc, said>>
      PROVE  Said /\ RoutedIsHarmless'
  BY <1>3, <1>9
<1> QED
  BY <1>1, <1>2, <1>5, <1>6, <1>7, <1>8, <1>9, <1>10, <1>11
     DEF Next, TurnStep, TaskCancel, Lose, vars

(* The types and the ownership of jobs, over the shapes.                   *)
LEMMA TurnTypes ==
  ASSUME TypeOK, TurnShape
  PROVE  /\ pc' \in [Turn -> {"idle"} \cup Active \cup Over]
         /\ job' \in [Turn -> Sched!JobIds' \cup {NoJob}]
<1>1. ASSUME NEW t \in Turn, NEW d, Submitted(t, d)
      PROVE  /\ pc' \in [Turn -> {"idle"} \cup Active \cup Over]
             /\ job' \in [Turn -> Sched!JobIds' \cup {NoJob}]
  BY <1>1 DEF Submitted, Added, Goes, Goto, Active, Over, TypeOK
<1>2. ASSUME NEW t \in Turn, Blocked(t)
      PROVE  /\ pc' \in [Turn -> {"idle"} \cup Active \cup Over]
             /\ job' \in [Turn -> Sched!JobIds' \cup {NoJob}]
  BY <1>2 DEF Blocked, Added, Goes, Goto, Active, Over, TypeOK
<1>3. ASSUME NEW t \in Turn, NEW j, Started(t, j) \/ Completed(t)
      PROVE  /\ pc' \in [Turn -> {"idle"} \cup Active \cup Over]
             /\ job' \in [Turn -> Sched!JobIds' \cup {NoJob}]
  BY <1>3 DEF Started, Completed, Moved, Goes, Goto, Active, Over, TypeOK
<1>4. ASSUME NEW S, Cancelled(S)
      PROVE  /\ pc' \in [Turn -> {"idle"} \cup Active \cup Over]
             /\ job' \in [Turn -> Sched!JobIds' \cup {NoJob}]
  BY <1>4 DEF Cancelled, Moved, Goes, Goto, Active, Over, TypeOK
<1>5. CASE Passed
  BY <1>5 DEF Passed, Goto, TypeOK, Sched!JobIds
<1> QED
  BY <1>1, <1>2, <1>3, <1>4, <1>5 DEF TurnShape

LEMMA OwnershipStep ==
  ASSUME TypeOK, JobsAreOwned, TurnShape
  PROVE  JobsAreOwned'
<1>1. ASSUME NEW t \in Turn, NEW d, Submitted(t, d)
      PROVE  JobsAreOwned'
  BY <1>1 DEF Submitted, Added, Goes, Goto, TypeOK, JobsAreOwned
<1>2. ASSUME NEW t \in Turn, Blocked(t)
      PROVE  JobsAreOwned'
  BY <1>2 DEF Blocked, Goes, Goto, TypeOK, JobsAreOwned
<1>3. ASSUME NEW t \in Turn, NEW j, Started(t, j) \/ Completed(t)
      PROVE  JobsAreOwned'
  BY <1>3 DEF Started, Completed, Goes, Goto, TypeOK, JobsAreOwned
<1>4. ASSUME NEW S, Cancelled(S)
      PROVE  JobsAreOwned'
  BY <1>4 DEF Cancelled, Goes, Goto, TypeOK, JobsAreOwned
<1>5. CASE Passed
  BY <1>5 DEF Passed, Moves, Goto, TypeOK, JobsAreOwned
<1> QED
  BY <1>1, <1>2, <1>3, <1>4, <1>5 DEF TurnShape

Spoken == {"completing", "responding", "done"}

(* A job that is over stays as it is, a job becomes COMPLETED by its own   *)
(* turn alone, and a turn gets to speak of its job only on completing it.  *)
LEMMA SpokenStep ==
  ASSUME TypeOK, JobsAreOwned, TurnShape, OnlyCompletedWorkIsSpoken, CompletedByItsOwnTurn
  PROVE  OnlyCompletedWorkIsSpoken' /\ CompletedByItsOwnTurn'
<1>1. \A t \in Turn : job[t] # NoJob => job[t] \in Sched!JobIds
  BY DEF TypeOK
<1>2. \A t \in Turn : job[t] # NoJob /\ pc[t] \in Spoken => jobs[job[t]].state = "COMPLETED"
  BY DEF OnlyCompletedWorkIsSpoken, Spoken
<1>3. \A j \in Sched!JobIds : jobs[j].state = "COMPLETED"
         => \E t \in Turn : job[t] = j /\ pc[t] \in Spoken
  BY DEF CompletedByItsOwnTurn, Spoken
<1> SUFFICES /\ \A t \in Turn : job'[t] # NoJob /\ pc'[t] \in Spoken
                                => jobs'[job'[t]].state = "COMPLETED"
             /\ \A j \in Sched!JobIds' : jobs'[j].state = "COMPLETED"
                  => \E t \in Turn : job'[t] = j /\ pc'[t] \in Spoken
  BY DEF OnlyCompletedWorkIsSpoken, CompletedByItsOwnTurn, Spoken
<1> DEFINE A == \A t \in Turn : job'[t] # NoJob /\ pc'[t] \in Spoken
                              => jobs'[job'[t]].state = "COMPLETED"
           B == \A j \in Sched!JobIds' : jobs'[j].state = "COMPLETED"
                  => \E t \in Turn : job'[t] = j /\ pc'[t] \in Spoken
<1>4. \A j \in LiveJobs : j \in Sched!JobIds /\ jobs[j].state # "COMPLETED"
  BY DEF LiveJobs, Sched!Terminal, Sched!TerminalStates
<1>5. ASSUME NEW t \in Turn, NEW d, Submitted(t, d)
      PROVE  A /\ B
  <2>1. /\ \A u \in Turn : u # t => pc'[u] = pc[u] /\ job'[u] = job[u]
        /\ pc'[t] \in {"announced", "failed"} /\ pc[t] = "routing" /\ Added("QUEUED")
    BY <1>5 DEF Submitted, Goes, Goto, TypeOK
  <2>2. A
    BY <1>1, <1>2, <2>1 DEF Added, Spoken
  <2>3. B
    BY <1>3, <2>1 DEF Added, Spoken
  <2> QED
    BY <2>2, <2>3
<1>6. ASSUME NEW t \in Turn, Blocked(t)
      PROVE  A /\ B
  <2>1. /\ \A u \in Turn : u # t => pc'[u] = pc[u]
        /\ pc[t] \in {"idle", "routing"} /\ job[t] = NoJob /\ job' = job
        /\ Added("BLOCKED_POLICY")
    BY <1>6 DEF Blocked, Goes, Goto, TypeOK, JobsAreOwned
  <2>2. A
    BY <1>1, <1>2, <2>1 DEF Added
  <2>3. B
    BY <1>3, <2>1 DEF Added, Spoken
  <2> QED
    BY <2>2, <2>3
<1>7. ASSUME NEW t \in Turn, NEW j \in Sched!JobIds, Started(t, j)
      PROVE  A /\ B
  <2>1. /\ \A u \in Turn : u # t => pc'[u] = pc[u]
        /\ pc[t] = "announced" /\ pc'[t] \in {"working", "failed"} /\ job' = job
        /\ jobs[j].state = "QUEUED" /\ Moved({j}, "RUNNING")
    BY <1>7 DEF Started, Goes, Goto, TypeOK
  <2>2. A
    BY <1>1, <1>2, <2>1 DEF Moved, Spoken
  <2>3. B
    BY <1>3, <2>1 DEF Moved, Spoken
  <2> QED
    BY <2>2, <2>3
<1>8. ASSUME NEW t \in Turn, Completed(t)
      PROVE  A /\ B
  <2>1. /\ \A u \in Turn : u # t => pc'[u] = pc[u]
        /\ pc[t] = "working" /\ pc'[t] \in {"completing", "done"} /\ job' = job
        /\ Moved({job[t]}, "COMPLETED")
    BY <1>8 DEF Completed, Goes, Goto, TypeOK
  <2>2. A
    BY <1>1, <1>2, <2>1 DEF Moved
  <2>3. B
    BY <1>3, <2>1 DEF Moved, Spoken
  <2> QED
    BY <2>2, <2>3
<1>9. ASSUME NEW S, Cancelled(S)
      PROVE  A /\ B
  <2>1. /\ Moved(S, "CANCELLED") /\ job' = job
        /\ \A u \in Turn : pc'[u] = pc[u] \/ pc[u] = "idle"
    BY <1>9 DEF Cancelled, Goes, Goto, TypeOK
  <2>2. A
    <3>1. \A u \in Turn : job[u] # NoJob => pc'[u] = pc[u]
      BY <2>1 DEF JobsAreOwned
    <3> QED
      BY <1>1, <1>2, <1>4, <2>1, <3>1 DEF Moved
  <2>3. B
    BY <1>3, <2>1 DEF Moved, Spoken
  <2> QED
    BY <2>2, <2>3
<1>10. CASE Passed
  <2>1. /\ job' = job /\ jobs' = jobs /\ Sched!JobIds' = Sched!JobIds
        /\ \A u \in Turn : pc'[u] = pc[u] \/ <<pc[u], pc'[u]>> \in Moves
    BY <1>10 DEF Passed, Goto, TypeOK, Sched!JobIds
  <2>2. \A u \in Turn : pc[u] \in Spoken => pc'[u] \in Spoken
    BY <2>1 DEF Moves, Spoken
  <2>3. \A u \in Turn : job[u] # NoJob /\ pc'[u] \in Spoken => pc[u] \in Spoken
    BY <2>1 DEF Moves, Spoken, JobsAreOwned
  <2>4. A
    BY <1>2, <2>1, <2>3
  <2>5. B
    BY <1>3, <2>1, <2>2
  <2> QED
    BY <2>4, <2>5
<1> QED
  BY <1>5, <1>6, <1>7, <1>8, <1>9, <1>10 DEF TurnShape

-----------------------------------------------------------------------------
Inv ==
  /\ TypeOK
  /\ SchedulerStaysSound
  /\ JobsAreOwned
  /\ RoutedIsHarmless
  /\ OnlyCompletedWorkIsSpoken
  /\ CompletedByItsOwnTurn

LEMMA InvHolds == Spec => []Inv
<1>1. Init => Inv
  <2> SUFFICES ASSUME Init
               PROVE  Inv
    OBVIOUS
  <2>1. Sound
    <3>1. SP!Init
      BY SameConstants DEF Init, SP!Init, Sched!Init
    <3> QED
      BY <3>1, SchedulerAssumptions, SP!InitSound, SameInvariants
  <2>2. TypeOK
    BY <2>1 DEF Sound, Init, TypeOK, Nothing, Text, Addressed
  <2>3. JobsAreOwned /\ RoutedIsHarmless /\ OnlyCompletedWorkIsSpoken
    BY DEF Init, JobsAreOwned, RoutedIsHarmless, OnlyCompletedWorkIsSpoken
  <2>4. CompletedByItsOwnTurn
    BY DEF Init, Sched!Init, CompletedByItsOwnTurn, Sched!JobIds
  <2> QED
    BY <2>1, <2>2, <2>3, <2>4 DEF Inv, Sound
<1>2. Inv /\ [Next]_vars => Inv'
  <2> SUFFICES ASSUME Inv, [Next]_vars
               PROVE  Inv'
    OBVIOUS
  <2>1. Sound' /\ TurnShape
    BY TurnSteps DEF Inv
  <2>2. TypeOK'
    BY <2>1, SaidStep, TurnTypes DEF Inv, Sound, TypeOK, Nothing, Text
  <2> QED
    BY <2>1, <2>2, SaidStep, OwnershipStep, SpokenStep DEF Inv, Sound
<1> QED
  BY <1>1, <1>2, PTL DEF Spec

(* The state of the turns and of their scheduler keeps its types.          *)
THEOREM TypesHold == Spec => []TypeOK
  BY InvHolds, PTL DEF Inv

(* However turns interleave, the scheduler they share keeps its queue, its *)
(* pool and its bounds, also under the block, which ends a job in the step *)
(* that submits it.                                                        *)
THEOREM SchedulerSound == Spec => []SchedulerStaysSound
  BY InvHolds, PTL DEF Inv

(* No turn announces or speaks a result unless its own job completed: once *)
(* a job is cancelled nothing completes it, and the turn that finds it     *)
(* cancelled falls silent.                                                 *)
THEOREM OnlyCompletedIsSpoken == Spec => []OnlyCompletedWorkIsSpoken
  BY InvHolds, PTL DEF Inv

(* No turn completes the job of another.                                   *)
THEOREM CompletedByOwner == Spec => []CompletedByItsOwnTurn
  BY InvHolds, PTL DEF Inv

(* Nothing consequential gets a job, and a request to read that is sent to *)
(* an agent by name gets none of an agent that changes something, whatever *)
(* the language model answers.                                             *)
THEOREM NoConsequentialStart == Spec => NothingConsequentialIsStarted
<1> DEFINE Harmless(t) ==
      (job[t] = NoJob /\ job'[t] # NoJob) =>
        LET risk == ClassifyText(said[t].text)
        IN  /\ risk \notin BlockedRisks
            /\ (said[t].target # NoTarget /\ risk = "READ_ONLY")
               => jobs'[job'[t]].role \notin {"coding", "browser"}
<1>1. ASSUME Inv, [Next]_vars, NEW t \in Turn
      PROVE  Harmless(t)
  <2> SUFFICES ASSUME job[t] = NoJob, job'[t] # NoJob
               PROVE  /\ ClassifyText(said[t].text) \notin BlockedRisks
                      /\ (said[t].target # NoTarget /\ ClassifyText(said[t].text) = "READ_ONLY")
                         => jobs'[job'[t]].role \notin {"coding", "browser"}
    OBVIOUS
  <2>1. TurnShape
    BY <1>1, TurnSteps DEF Inv
  <2>2. PICK d : Submitted(t, d)
    BY <1>1, <2>1 DEF TurnShape, Submitted, Blocked, Started, Completed, Cancelled,
                      Passed, Inv, TypeOK
  <2>3. pc[t] = "routing" /\ d \in Routed(t) /\ Permitted(t, d) /\ jobs'[job'[t]].role = d.role
    BY <1>1, <2>2 DEF Submitted, Inv, TypeOK
  <2>4. /\ Recognize(said[t].text) = NoCommand
        /\ ClassifyText(said[t].text) \notin BlockedRisks
    BY <1>1, <2>3 DEF Inv, RoutedIsHarmless, Consequential
  <2>5. ASSUME said[t].target # NoTarget, ClassifyText(said[t].text) = "READ_ONLY",
               d.role \in {"coding", "browser"}
        PROVE  FALSE
    <3> DEFINE target == said[t].target
    <3>1. target \in Role /\ target # SupervisorId
      BY <1>1, <2>5 DEF Inv, TypeOK, Addressed
    <3>2. d = Decision(RouteOfRole(target), "UNKNOWN", target)
      BY <2>3, <2>4, <2>5, <3>1 DEF Routed, Decisions, Deterministic
    <3>3. d.route = target /\ d.risk = "UNKNOWN" /\ d.role = target
      BY <2>5, <3>2 DEF Decision, RouteOfRole
    <3>4. Capability[d.route] \in LocalReversibleCapabilities \ ReadOnlyCapabilities
      BY <2>5, <3>3 DEF Capability, LocalReversibleCapabilities, ReadOnlyCapabilities
    <3>5. Risk(said[t].text, d.risk) = "READ_ONLY"
      BY <2>5, <3>3 DEF Risk
    <3>6. Evaluate(Capability[d.route], said[t].text, d.risk) = "BLOCKED_POLICY"
      BY <3>4, <3>5 DEF Evaluate
    <3> QED
      BY <2>3, <3>6 DEF Permitted, Allowed
  <2> QED
    BY <2>3, <2>4, <2>5
<1>2. Inv /\ [Next]_vars => [\A t \in Turn : Harmless(t)]_vars
  BY <1>1
<1> QED
  BY <1>2, InvHolds, PTL DEF Spec, NothingConsequentialIsStarted

=============================================================================
