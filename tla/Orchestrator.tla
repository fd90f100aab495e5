---------------------------- MODULE Orchestrator ----------------------------
(***************************************************************************)
(* The turns of one connection (runtime/orchestrator.py): the server       *)
(* starts one asyncio task per accepted utterance and does not wait for    *)
(* the one before it, so turns interleave at every await.  They share one  *)
(* JobScheduler.                                                           *)
(*                                                                         *)
(* A turn's pc names the await it is in.  What an emit sends is not part   *)
(* of this module; what a response does on the wire is ResponseCoordinator.*)
(* The connection may be lost at any time: an emit then raises, which the  *)
(* server swallows (guarded_turn), so that the turn ends where it was and  *)
(* its job stays as it was.                                                *)
(* Agents run nothing that awaits: the server passes hermes=None, and all  *)
(* other results are computed on the spot.  Nothing calls the scheduler's  *)
(* heartbeat(), expire() or retry(), so its clock stands still here.       *)
(* What a text is, and how it is classified and routed, is in Policy and   *)
(* Supervisor.                                                             *)
(***************************************************************************)
EXTENDS Supervisor, FiniteSets

CONSTANTS
  Turn,              (* utterances of the connection                       *)
  Texts,             (* what users say                                     *)
  Targets,           (* agents that they address                           *)
  Concurrency, QueueLimit, GlobalConcurrency, GlobalQueueLimit,
  NoKey

VARIABLES
  jobs, queue, idempotency, clock,  (* the JobScheduler                    *)
  pc,          (* where each turn is                                       *)
  said,        (* what a turn that is being routed is about                *)
  job,         (* the job a turn submitted, or NoJob                       *)
  overlapped,  (* history: two turns have been in progress at once         *)
  link         (* the connection: open, lost, or lost and the reader loop  *)
               (* has left                                                 *)

schedVars == <<jobs, queue, idempotency, clock>>

vars == <<jobs, queue, idempotency, clock, pc, said, job, overlapped, link>>

(* A turn submits at most one job, under a key nothing else uses (its      *)
(* trace identifier is fresh), with one deadline.                          *)
Sched == INSTANCE JobScheduler WITH
  Key <- Turn, HeartbeatTimeout <- 1, MinRetryDeadline <- 1,
  MaxJobs <- Cardinality(Turn), MaxTime <- 0,
  Deadlines <- {1}, RetryBudgets <- {1}, Cancellables <- {TRUE}, Delegation <- FALSE

ASSUME SchedulerAssumption == Sched!BoundsAssumption

ASSUME TurnsAssumption == IsFiniteSet(Turn) /\ NoKey \notin Turn

(* The registry has the orchestrator and every agent a rule may choose.    *)
ASSUME RegistryAssumption ==
  /\ SupervisorId \in Role
  /\ \A text \in Texts : Recognize(text) = NoCommand => ByRule(text).role \in Role

NoJob == Sched!NoJob

Nothing == [text |-> Text({}), target |-> NoTarget]

Active == {"routing", "announced", "working", "completing", "responding"}

(* "silent" turns returned without a response: stopped, queued, cancelled. *)
(* "failed" ones raised before they had anything to say, and "done" ones   *)
(* delivered what there is to say, or raised while they announced or       *)
(* delivered it.  The server forgets a turn that raised.                   *)
Over == {"done", "silent", "failed"}

Init ==
  /\ Sched!Init
  /\ pc = [t \in Turn |-> "idle"]
  /\ said = [t \in Turn |-> Nothing]
  /\ job = [t \in Turn |-> NoJob]
  /\ overlapped = FALSE
  /\ link = "open"

Goto(t, where) == pc' = [pc EXCEPT ![t] = where]

(* What becomes of a turn that raises in this await.                       *)
Raised(where) == IF where \in {"completing", "responding"} THEN "done" ELSE "failed"

(* The turn calls emit(): send() waits, or raises ConnectionClosed.        *)
Emitting(t, where) == Goto(t, IF link = "open" THEN where ELSE Raised(where))

(* start_turn(): the task begins whatever other turns are doing, also when *)
(* the connection was lost after it was created.                           *)
Begin(t) ==
  /\ pc[t] = "idle"
  /\ overlapped' = (overlapped \/ \E u \in Turn : pc[u] \in Active)

-----------------------------------------------------------------------------
(* handle_turn().                                                          *)

(* USER_TARGET: the agent addressed is one of the registry's workers, and  *)
(* the orchestrator's own name means nobody.                               *)
Addressed == ((Targets \cap Role) \ {SupervisorId}) \cup {NoTarget}

(* Mutant: only commands are looked at before the routing.                 *)
ConsequentialNever(text) == FALSE

(* The preflight: the text names something this release never does.        *)
Consequential(text) == ClassifyText(text) \in BlockedRisks

(* An utterance that is no command and passes the preflight is routed.     *)
Utterance(t, text) ==
  /\ Begin(t)
  /\ Recognize(text) = NoCommand
  /\ ~Consequential(text)
  /\ \/ /\ link = "open"
        /\ \E target \in Addressed :
             said' = [said EXCEPT ![t] = [text |-> text, target |-> target]]
        /\ Goto(t, "routing")
     \/ /\ link # "open"
        /\ Goto(t, "failed")
        /\ UNCHANGED said
  /\ UNCHANGED <<schedVars, job, link>>

(* STATUS, REPEAT and CONTINUE read state and answer.                      *)
AnswerCommand(t, text) ==
  /\ Begin(t)
  /\ Recognize(text) \in {"STATUS", "REPEAT", "CONTINUE"}
  /\ Emitting(t, "responding")
  /\ UNCHANGED <<schedVars, said, job, link>>

(* STOP_SPEAKING interrupts the response, which is acknowledged, and says  *)
(* nothing.                                                                *)
StopCommand(t, text) ==
  /\ Begin(t)
  /\ Recognize(text) = "STOP_SPEAKING"
  /\ Emitting(t, "silent")
  /\ UNCHANGED <<schedVars, said, job, link>>

LiveJobs == {j \in Sched!JobIds : ~Sched!Terminal(j)}

(* CANCEL_TASK cancels the task of the newest live job, and answers.       *)
CancelCommand(t, text) ==
  /\ Begin(t)
  /\ Recognize(text) = "CANCEL_TASK"
  /\ Emitting(t, "responding")
  /\ IF LiveJobs = {}
     THEN UNCHANGED schedVars
     ELSE \E j \in LiveJobs : /\ \A i \in LiveJobs : i <= j
                              /\ Sched!CancelTask(jobs[j].task)
  /\ UNCHANGED <<said, job, link>>

(* Mutant: the blocked job is left in the queue.                           *)
BlockJobInQueue ==
  LET blocked == [Sched!NewJob(Sched!NewId, SupervisorId, 1, 1, 1, Sched!NoJob, TRUE, NoKey)
                    EXCEPT !.state = "BLOCKED_POLICY"]
  IN  /\ Sched!HasRoom(SupervisorId)
      /\ jobs' = Append(jobs, blocked)
      /\ queue' = queue \cup {Sched!NewId}
      /\ UNCHANGED <<idempotency, clock>>

(* _blocked(): submit() and transition(BLOCKED_POLICY) without an await    *)
(* between them leave a job that is over and a queue as it was.            *)
BlockJob ==
  LET blocked == [Sched!NewJob(Sched!NewId, SupervisorId, 1, 1, 1, Sched!NoJob, TRUE, NoKey)
                    EXCEPT !.state = "BLOCKED_POLICY"]
  IN  /\ Sched!HasRoom(SupervisorId)
      /\ jobs' = Append(jobs, blocked)
      /\ UNCHANGED <<queue, idempotency, clock>>

(* QueueFull is not caught: the turn fails.                                *)
BlockedTurn(t) ==
  \/ /\ BlockJob
     /\ Emitting(t, "responding")
  \/ /\ ~Sched!HasRoom(SupervisorId)
     /\ Goto(t, "failed")
     /\ UNCHANGED schedVars

(* The preflight blocks the turn before it is routed.                      *)
Preflight(t, text) ==
  /\ Begin(t)
  /\ Recognize(text) = NoCommand
  /\ Consequential(text)
  /\ BlockedTurn(t)
  /\ UNCHANGED <<said, job, link>>

(* What a route needs a worker to be able to do.                           *)
Capability ==
  [research |-> "research_read", filesystem_read |-> "list_files",
   coding |-> "edit_workspace", browser |-> "open_local_url",
   hermes |-> "research_read", command |-> "unknown", blocked |-> "unknown"]

(* The route is not blocked, and the policy allows what it needs.          *)
Permitted(t, d) ==
  d.route # "blocked" /\ Allowed(Capability[d.route], said[t].text, d.risk)

Routed(t) == Decisions(said[t].text, said[t].target)

BlockRoute(t) ==
  /\ pc[t] = "routing"
  /\ \E d \in Routed(t) : ~Permitted(t, d)
  /\ BlockedTurn(t)
  /\ said' = [said EXCEPT ![t] = Nothing]
  /\ UNCHANGED <<job, overlapped, link>>

(* The route is allowed: the job is queued, and TASK_START is sent.        *)
Route(t, d) ==
  /\ pc[t] = "routing"
  /\ d \in Routed(t) /\ Permitted(t, d)
  /\ \/ /\ Sched!Submit(d.role, 1, 1, Sched!NoJob, TRUE, t)
        /\ job' = [job EXCEPT ![t] = Sched!NewId]
        /\ Emitting(t, "announced")
     \/ /\ ~Sched!HasRoom(d.role)
        /\ Goto(t, "failed")
        /\ UNCHANGED <<schedVars, job>>
  /\ said' = [said EXCEPT ![t] = Nothing]
  /\ UNCHANGED <<overlapped, link>>

(* start_next() starts the oldest startable job, whosever it is; when it   *)
(* starts none the turn answers that its task is queued and is over.       *)
Start(t) ==
  /\ pc[t] = "announced"
  /\ \/ Sched!StartNext /\ Emitting(t, "working")
     \/ Sched!NothingToStart /\ Goto(t, "silent") /\ UNCHANGED schedVars
  /\ UNCHANGED <<said, job, overlapped, link>>

(* Mutant: the result is spoken without asking whether the task is live.   *)
WorkSpeaksAnyway(t) ==
  /\ pc[t] = "working"
  /\ \/ Sched!Finish(job[t], "COMPLETED")
     \/ ~Sched!CanTransition(job[t], "COMPLETED") /\ UNCHANGED schedVars
  /\ Emitting(t, "completing")
  /\ UNCHANGED <<said, job, overlapped, link>>

(* Mutant: the job that was started is completed, not the turn's own.      *)
WorkCompletesAnyJob(t) ==
  /\ pc[t] = "working"
  /\ \E j \in Sched!Running : Sched!Finish(j, "COMPLETED")
  /\ Emitting(t, "completing")
  /\ UNCHANGED <<said, job, overlapped, link>>

(* Mutant: nobody tells the scheduler that the work is done.               *)
WorkIsNotRecorded(t) ==
  /\ pc[t] = "working"
  /\ Emitting(t, "responding")
  /\ UNCHANGED <<schedVars, said, job, overlapped, link>>

(* The result is there: a cancelled job's is dropped, and transition()     *)
(* raises for a job that is not running.                                   *)
Work(t) ==
  /\ pc[t] = "working"
  /\ \/ /\ jobs[job[t]].state = "CANCELLED"
        /\ Goto(t, "silent")
        /\ UNCHANGED schedVars
     \/ /\ Sched!Finish(job[t], "COMPLETED")
        /\ Emitting(t, "completing")
     \/ /\ jobs[job[t]].state # "CANCELLED"
        /\ ~Sched!CanTransition(job[t], "COMPLETED")
        /\ Goto(t, "failed")
        /\ UNCHANGED schedVars
  /\ UNCHANGED <<said, job, overlapped, link>>

(* TASK_COMPLETE is sent; the response is delivered.                       *)
Announce(t) ==
  /\ pc[t] = "completing"
  /\ Emitting(t, "responding")
  /\ UNCHANGED <<schedVars, said, job, overlapped, link>>

(* deliver() returns, or raises what it does not catch.                    *)
Responded(t) ==
  /\ pc[t] = "responding"
  /\ Goto(t, "done")
  /\ UNCHANGED <<schedVars, said, job, overlapped, link>>

(* The emit in which the turn was when the connection was lost raises;     *)
(* whatever it had done to its job stays.                                  *)
Raise(t) ==
  /\ link # "open"
  /\ pc[t] \in Active
  /\ Goto(t, Raised(pc[t]))
  /\ said' = [said EXCEPT ![t] = Nothing]
  /\ UNCHANGED <<schedVars, job, overlapped, link>>

(* cancel_task(), called by the reader loop for a TASK_CANCEL event.  One  *)
(* that arrived before the connection was lost is still read; to           *)
(* acknowledge it raises, and the loop ends.                               *)
TaskCancel(task) ==
  /\ link # "left"
  /\ Sched!CancelTask(task)
  /\ link' = IF link = "open" THEN "open" ELSE "left"
  /\ UNCHANGED <<pc, said, job, overlapped>>

(* The connection is lost; the reader loop may not know it yet.            *)
Lose ==
  /\ link = "open"
  /\ link' = "lost"
  /\ UNCHANGED <<schedVars, pc, said, job, overlapped>>

TurnStep(t) ==
  \/ BlockRoute(t)
  \/ \E d \in Routed(t) : Route(t, d)
  \/ Start(t)
  \/ Work(t)
  \/ Announce(t)
  \/ Responded(t)
  \/ Raise(t)

Next ==
  \/ \E t \in Turn, text \in Texts : Utterance(t, text)
  \/ \E t \in Turn, text \in Texts : AnswerCommand(t, text)
  \/ \E t \in Turn, text \in Texts : StopCommand(t, text)
  \/ \E t \in Turn, text \in Texts : CancelCommand(t, text)
  \/ \E t \in Turn, text \in Texts : Preflight(t, text)
  \/ \E t \in Turn : TurnStep(t)
  \/ \E task \in Sched!JobIds : TaskCancel(task)
  \/ Lose

(* The event loop resumes every task whose await is over, and every await  *)
(* of a turn ends: sends drain or raise, and a route generates a bounded   *)
(* answer.                                                                 *)
Fairness == \A t \in Turn : WF_vars(TurnStep(t))

Spec == Init /\ [][Next]_vars /\ Fairness

-----------------------------------------------------------------------------
(* Properties.                                                             *)

TypeOK ==
  /\ Sched!TypeOK
  /\ pc \in [Turn -> {"idle"} \cup Active \cup Over]
  /\ said \in [Turn -> [text : Texts \cup {Nothing.text}, target : Addressed]]
  /\ job \in [Turn -> Sched!JobIds \cup {NoJob}]
  /\ overlapped \in BOOLEAN
  /\ link \in {"open", "lost", "left"}

(* The queue, the pool and the bounds survive the way turns use them, also *)
(* the block that submits and ends a job between two awaits.               *)
SchedulerStaysSound ==
  /\ Sched!QueueHoldsExactlyTheWaiting
  /\ Sched!ConcurrencyBounded
  /\ Sched!QueueBounded

(* A turn announces and speaks a result only when its own job completed:   *)
(* the late result of a task that was cancelled at any of the turn's       *)
(* awaits, or of a job that another turn's scheduling held back, is not    *)
(* spoken ("Discard late voice responses").                                *)
OnlyCompletedWorkIsSpoken ==
  \A t \in Turn :
    (job[t] # NoJob /\ pc[t] \in {"completing", "responding", "done"})
    => jobs[job[t]].state = "COMPLETED"

(* A job is completed by the turn that submitted it and by no other, even  *)
(* when that turn's start_next() started somebody else's job.              *)
CompletedByItsOwnTurn ==
  \A j \in Sched!JobIds :
    jobs[j].state = "COMPLETED"
    => \E t \in Turn : job[t] = j /\ pc[t] \in {"completing", "responding", "done"}

(* As long as the user waits for each turn to end and the connection       *)
(* lasts, every job that a turn submitted reaches a terminal state:        *)
(* start_next() then finds the turn's own job, and nothing holds a slot.   *)
(* On a lost connection a job may stay as it is, and with it go the        *)
(* scheduler and everybody who could ask for the job.                      *)
JobsEndWithoutOverlap ==
  <>[](\/ overlapped
       \/ link # "open"
       \/ \A t \in Turn : job[t] # NoJob => Sched!Terminal(job[t]))

(* docs/liveagent_voice_pipeline_design.md, ">=99% jobs reach a correct    *)
(* terminal state": once all turns of a connection that lasts are over, no *)
(* job is waiting or running, since only a turn would ever start it,       *)
(* finish it or expire it.                                                 *)
NoJobLeftBehind ==
  (link = "open" /\ \A t \in Turn : pc[t] \notin Active) => LiveJobs = {}

(* Whatever the model answers and whomever the user addresses: an          *)
(* utterance that names something consequential gets no job at all (the    *)
(* risk a router declares would hide it from evaluate()), and one that     *)
(* only asks to read, sent to an agent by name, gets none of an agent that *)
(* changes something.                                                      *)
NothingConsequentialIsStarted ==
  [][\A t \in Turn : (job[t] = NoJob /\ job'[t] # NoJob) =>
       LET risk == ClassifyText(said[t].text)
       IN  /\ risk \notin BlockedRisks
           /\ (said[t].target # NoTarget /\ risk = "READ_ONLY")
              => jobs'[job'[t]].role \notin {"coding", "browser"}]_vars
=============================================================================
