# A TLA+ verification of the live voice agent

This directory holds TLA+ models of the voice agent in this repository, the TLC
configurations that check them on small instances, and theorems about them whose
proofs TLAPS checks. Paths such as `runtime/scheduler.py` are relative to the
repository root. `PROJECT.json` maps every definition to the lines it models and
lists the runs, the mutants, the hazards and the theorems.

    tlc -config JobScheduler.cfg MCJobScheduler         # one run
    tlapm JobSchedulerProofs.tla                        # one proof module

## 1. The system

A browser talks to a Python process (the Local Runtime) over one WebSocket: JSON
events and binary audio in both directions. For each connection the Runtime has
one handler coroutine, which reads messages in a loop and creates, per connection,
a `JobScheduler`, a `LocalOrchestrator`, a `ResponseCoordinator` and a
`VoiceSession`. Everything runs in one asyncio event loop, so interleaving
happens at awaits only, except for model calls in worker threads. In the browser
everything runs in one event loop too, except for the audio worklets, which are
reached through message ports.

| Component | State | Operations | Interacts with |
|---|---|---|---|
| Job scheduler, `runtime/scheduler.py` | jobs, queue, idempotency keys | submit, start_next, transition, heartbeat, expire, cancel_task, retry | called by the orchestrator |
| Orchestrator, `runtime/orchestrator.py` | last response; the turns in progress are coroutines | handle_turn, cancel_task | scheduler, policy, supervisor, response coordinator |
| Response coordinator, `runtime/response.py` | active response, revision | deliver, interrupt, abandon | TTS adapter, the socket's send lock |
| Voice session, `runtime/voice_session.py`, `audio_ingress.py`, `vad.py` | capture, queue, consumer task, VAD state | start_capture, accept_audio, end_capture, close | ASR adapter in a thread, orchestrator, response coordinator |
| Transcript stabiliser, `runtime/transcript.py` | stable prefix, last hypothesis, revision | update, finalize | voice session |
| Policy, `runtime/policy.py`; supervisor, `runtime/supervisor.py` | none | recognize, classify, evaluate; route | orchestrator |
| Speech recognition, `runtime/asr.py` | state of the recogniser | start_turn, accept_pcm, finish | voice session, in a thread |
| Speech synthesis, `runtime/tts.py`, and the services `scripts/kokoro-tts-service.py`, `scripts/qwen-tts-service.py` | threads; the services' counter and semaphore | synthesize, healthcheck; do_POST | response coordinator; HTTP between the two |
| Hermes adapter, `runtime/hermes.py` | circuit state, failures, budget | escalate | orchestrator (the server passes `None` today) |
| WebSocket handler, `server.py` | protocol version, voice session, sequence, turns in progress | one branch per event type | all of the above |
| Structured log, `runtime/structured_log.py` | bounded buffer, files | enqueue, drain, write | whoever logs |
| Hermes client, `src/protocol` | socket, state, sequence, timers | connect, disconnect, send, reconnect, heartbeat | event bus, handler |
| Release evaluation, `scripts/evaluate-release.py`, `runtime/evaluation.py`, `runtime/benchmark.py` | events read, scores | voice cases, text prompts, verdict | the gateway as a client; policy, supervisor |
| Playback, `src/audio/audioPlaybackQueue.ts`, `public/audio-playback-worklet.js` | active stream, generation, pending list, worklet ring | startStream, enqueueChunk, endStream, stop, prepare | voice controller, the audio thread |
| Capture, `src/audio/pcmCapture.ts`, `audioUplink.ts`, `voiceController.ts` | capture id, upload queue | start, stop, enqueue, drain | microphone worklet, client |
| Browser stores, `src/state` | task tree, agent state, transcript | event handlers | event bus |

### What is hard here, and what makes each part correct

* **Turns overlap.** `server.py` starts a task for each accepted utterance and
  does not wait for the previous one. Turns share one scheduler, and each calls
  `start_next()`, which starts the oldest startable job and not necessarily the
  caller's. A send raises when the connection is lost, which ends the turn and not its
  job. Correct: only the result of a job that completed is spoken; a job is completed by
  its own turn; while the connection lasts every job ends.
* **The scheduler records everything twice.** The queue repeats the QUEUED state,
  the key table repeats the jobs' keys. Every path out of a state has to keep
  both. Correct: the queue holds exactly the waiting jobs, bounds hold, terminal
  states are final, cancellation covers the cancellable part of one task.
* **Responses are interrupted at every await.** The next response, a barge-in, a
  stop command and a disconnection all take the floor from a coroutine that is
  waiting for synthesis or for a send. Correct: what lost the floor is never
  heard again, streams are closed, the floor is given back.
* **Audio is asynchronous to the last sample.** A stream can be stopped, ended or
  replaced before the worklet is there, before the watermark is reached, or while
  it drains. Correct: order is kept, a stopped stream is silent, a completed one
  is heard to the end and then gives the queue back.
* **Capture shares the reader loop** with interruption and cancellation, and its
  recogniser runs in a thread that cannot be cancelled. Correct: frames are accepted
  only while somebody consumes them; a turn that began ends; its transcript is what
  was said in it; the reader comes back from CAPTURE_END.
* **Reconnection** replaces sockets whose events still arrive, timers outlive their
  sockets, and each socket has a handler of its own. Correct: CLIENT_HELLO comes first on
  each, a capture ends with its connection, the client ends up connected.
* **Synthesis crosses a process border.** A call that is given up frees its coroutine and
  nothing else. Correct: places are counted and given back, and a request is refused only
  when all are taken.
* **Text decides what may be done.** A language model routes, a policy allows. Correct:
  nothing consequential is started, whatever the model says.
* **Small shared things**: the circuit breaker with concurrent calls, the log at its limit,
  the transcript under hypotheses that change their mind, an evaluator that reads a stream
  of events and has to stop at the right one.

## 2. The modules

| Module | Models | Extends or uses |
|---|---|---|
| `JobScheduler` | `runtime/scheduler.py` | |
| `MCJobScheduler` | instances for TLC | `JobScheduler` |
| `JobSchedulerProofs` | theorems about it | `JobScheduler`, TLAPS |
| `Orchestrator` | concurrent turns of `runtime/orchestrator.py` as `server.py` starts them | `Supervisor`, `INSTANCE JobScheduler` |
| `MCOrchestrator` | instance for TLC | `Orchestrator` |
| `OrchestratorProofs` | theorems about it | `Orchestrator`, `INSTANCE JobSchedulerProofs`, TLAPS |
| `SpeechWire` | abstract: who may be heard, on which stream | |
| `ResponseCoordinator` | `runtime/response.py` | `INSTANCE SpeechWire` (refinement) |
| `MCResponseCoordinator` | instances for TLC | `ResponseCoordinator` |
| `ResponseProofs` | theorems about it | `ResponseCoordinator`, TLAPS |
| `PlaybackQueue` | browser queue, backend, ports, worklet | |
| `MCPlaybackQueue` | instance for TLC | `PlaybackQueue` |
| `PlaybackProofs` | theorems about it | `PlaybackQueue`, TLAPS |
| `Utterances` | abstract: the events of a spoken turn | |
| `VoiceSession` | `voice_session.py`, `audio_ingress.py`, `vad.py` and the streaming recogniser of `asr.py`, under `runtime/` | `INSTANCE Utterances` (refinement) |
| `MCVoiceSession` | instances for TLC | `VoiceSession` |
| `VoiceProofs` | theorems about it | `VoiceSession`, TLAPS |
| `Policy` | `runtime/policy.py`, operators only | |
| `Supervisor` | routing of `runtime/supervisor.py`, operators only | `Policy` |
| `SpeechService` | `runtime/tts.py` and the two service scripts | |
| `MCSpeechService`, `SpeechProofs` | instance for TLC; theorems | `SpeechService`, TLAPS |
| `Connection` | `HermesClient.ts` and the handler of `server.py` | |
| `MCConnection` | instance for TLC | `Connection` |
| `ConnectionProofs` | theorems about it | `Connection`, TLAPS |
| `Transcript` | `runtime/transcript.py` | |
| `HermesCircuit` | `runtime/hermes.py` | |
| `StructuredLog` | `runtime/structured_log.py` | |
| `Evaluation` | `runtime/evaluation.py`, `runtime/benchmark.py`, operators only | `Supervisor` |
| `ReleaseEvaluation` | `scripts/evaluate-release.py` | `Evaluation` |
| `MCLibrary` | the last five components side by side, for TLC | `INSTANCE` of `Transcript`, `HermesCircuit`, `StructuredLog`, `ReleaseEvaluation` |
| `LibraryProofs` | theorems about the properties it checks | `MCLibrary`, TLAPS |

A definition whose comment begins with "Mutant:" is a plausible bug, written
beside the definition it would replace. No specification uses it: it is there to
show that a property would catch that bug.

### JobScheduler

The methods are synchronous, so each is one action. `jobs` is the dictionary in
insertion order; identifiers are positions. Only `submit()` appends to the queue
and it appends the newest identifier, so the queue is a *set* of identifiers
whose FIFO order is the order of the numbers. `cancel_task` with `_cancel_tree`
is the set `CancelSet(t)`; `expire` is the set `Overdue`; both move their jobs in
one step with `TransitionAll`, as `transition` does one by one. `retry` drops the
key before it submits: `RetryRefused` is the case in which `submit` then raises.
A known key returns the existing job and changes nothing, so it is no step. The
clock is `clock_ms()`.

### Orchestrator

Each turn has a `pc` that names its await: `routing` (the supervisor), `announced`
(TASK_START is being sent, the job is in the queue), `working` (the job that
`start_next` chose runs; the turn goes on to produce *its own* result),
`completing`, `responding`. The reader loop's TASK_CANCEL is `TaskCancel`, a spoken
cancellation `CancelCommand`. `_blocked`, which submits and blocks without an
await, is one action, and `QueueFull`, which no one catches, ends the turn as
`failed`. `link` is the connection. `Lose` may come at any time; from then on an emit raises
`ConnectionClosed`, which `guarded_turn` swallows. So a turn that calls `emit`
(`Emitting`), or is in one (`Raise`), ends where it is, and its job stays as it was. The
endings are `done` (the turn delivered its response, or raised while it announced or
delivered it), `silent` (it has nothing to say: stopped, queued, cancelled) and `failed` (it
raised before). The reader loop may still read one TASK_CANCEL that had arrived, whose
acknowledgement raises and ends the loop (`left`). An utterance is a text and the agent it is addressed to. Commands, the test for
consequential text before routing, the routes and `evaluate()` after it are those of
`Policy` and `Supervisor`; with `Backend = "qwen"` a turn may get any route that the model
can name.

### Policy and Supervisor

Both look for phrases and markers, so a text is the command it is, if any, and the set of
groups of markers that occur in it; the lists of phrases are data. `Decisions` is what
`route()` may return: what the rules say, and whatever valid route the model names.

### ResponseCoordinator and SpeechWire

`pc[d]` names the await a `deliver()` is in. Sends are made under a fair lock, so
the wire sees them in the order of the calls, and a send belongs to the action
that makes it. `Chunk`, `Complete` and `Fail` look at `Current(d)`, as the code
does before each of them; `Prepare` and `StartStream` do not, as the code does not.
`Crash` is an exception that `deliver()` does not catch. `Disconnect` is
`abandon()`, after which every send raises (`Drop`). `SpeechWire` states what a
listener relies on; the mapping is `floor <- active`, `taken <-` the responses that
were delivered.

### PlaybackQueue

The browser handles one message at a time and the socket is FIFO, so sending and
handling are one action; the two message ports are sequences (`down` for the node,
`up` for the main thread). `generation` moves as in the code (by 2 for
`startStream`, which calls `stop` first, by 1 for `stop`). `prepares` are the calls of
`prepare()` that have not settled; one that waits for `addModule()` creates its
node when it resumes, even if another has done so. The worklet's `handleMessage`
and `process` are `HandleMessage` and `Process`; a chunk stands for its samples.

### VoiceSession and Utterances

Three kinds of processes meet. The *reader* is the handler's loop: `CaptureStart`,
`Binary` and `CaptureEnd` are its calls of `start_capture`, `accept_audio` and
`end_capture`, and `reader` names the await it may be in: the None waits for room
(`putting`), the consumer is awaited (`joining`), the backpressure event is being sent
(`reporting`), during which the consumer goes on. The *consumer* is `_consume()`;
`todo` holds the detector's actions for the frame in hand, and each action of the
module runs as far as the next await. A *recogniser call* runs in a thread: `calls`
holds the one the consumer awaits (`live`) and the orphans of cancelled consumers, and
`StartTurn`, `AcceptPcm` and `Finish` are its steps between two points at which another
thread may run, since the model's lock covers one use of the model and not a call.

`Accept` and `ForceEnd` are the detector. A frame is its capture and its place in it;
whether it is loud is free, as is whether a recogniser call raises. What the model makes
of audio is the sequence of frames it has been fed, so that `text` says which frames
an STT_FINAL stands for; `said` records which frames the detector gave to the turn.
`close()` cancels the consumer and waits; since a cancelled task runs nothing but its
cancellation, this is one action. `Utterances` is the grammar of a turn's events as a
browser reads them.

### SpeechService

A call is followed at three places: the coroutine (`caller`), the Runtime's thread
(`thread`) and the service's handler (`handler`). `Deadline` and `Abandon` end the first
only. `Admit`, `Infer`, `Inferred`, `Leave` and `Reply` are `synthesize()` and `do_POST` of
the services; the two scripts differ in which failure has which status (`QwenStatus`,
`KokoroStatus`). `Die` is the death of the service's process, after which `Refused` is
possible, and `Cut` the loss of one connection, which the service does not notice before it
writes. `Broken` is what such an exchange may end in for the coroutine: `TtsUnavailable`; an
exception that nobody catches (`RemoteDisconnected`, `ConnectionResetError`); or, since
`read()` returns what there is of a body cut short, a `TtsError` for misaligned or empty
audio, and even the audio if it ends between two samples. The audio's other checks are of
headers and samples that the service has checked before it answers with 200. `Init` chooses the adapter.

### Connection

`ws`, `state`, `intentional`, `timer` and `beat` are the client's fields; `phase` is what
the browser knows of each socket, `up` what is on the way to the server, and `server[s]`
the handler of a socket. `close()` and the close event are apart, so that events of an old
socket meet a new one, as `Opened` and `Closed` show: they act on `this.ws`, whichever
socket they come from. The handler's loop takes one message at a time; what is left to do
of it is the list `todo`, whose steps are awaits. A voice session is a number and a capture
that runs is a member of `live`. `Init` also allows a peer that is not the browser (a tool
such as `scripts/smoke-gateway.py`), with one socket and any messages, so that the
branches of the loop that the browser never takes are there too.

### Transcript, HermesCircuit, StructuredLog

These follow their sources statement by statement. In `HermesCircuit` the calls of
`escalate()` overlap at the await of the transport. Log records are a category and, if
protected, a number. `DrainToSink` takes the batch out of the buffer and writes it; `write()`
may raise before any record of it, so that a record that left the buffer was either `written`
or is `lost`. `JobTree` is `reconstruct_job_tree()`, a fold, compared with its
definition (`TreeIsRight`) on all short logs.

### Evaluation and ReleaseEvaluation

`Evaluation` has the scores, thresholds and percentiles; `EditDistance` is the code's table
as a fold over its rows and is compared with the cheapest pairing of the two sequences,
`Percentile` with what a percentile is. `ReleaseEvaluation` is the client: it reads events
from `wire` until it believes the turn over, and decides. What the gateway sends of a turn is
what the modules above allow, of the events that the client looks at. A recording that a pause
cuts in two is two speeches, whose turns are two tasks of the gateway; so `wire` is two lists,
of what follows from the first speech and from the second, which arrive in any order once the
first final is there (`Comes`). `Second` has the ways they meet: the first response is over,
or yet to begin, when the second speech starts, and then `server.py:133` interrupts nothing
and both responses end as they would alone (`Answers`); the speech interrupts it (`Cuts` of
what it `Begun`); or the second turn does so later, by a command to stop or by a response
that replaces it, where the response that begins first may be either turn's. An empty final
starts no turn (`Nothing`), and a recognition may fail. Not modelled are recordings
cut into more than two turns, and the sixty seconds after which `production_text_sample()`
gives up on a prompt that goes on sending.

## 3. The runs

| Run | Question | Result |
|---|---|---|
| `JobScheduler` | Do queue, bounds, order, terminal states, cancellation and the key table survive any schedule? | holds |
| `Orchestrator` | Three turns, a connection that may be lost: what is spoken, who completes what, what may be started; does everything end if the connection lasts and turns do not overlap? | holds |
| `OrchestratorOverlap` | Does every job end when turns overlap and the connection lasts? (design document, line 254) | violated: a job stays running or queued when all turns are over |
| `Response` | Does the coordinator implement `SpeechWire`, close its streams, give the floor back, and rest the agent? | holds |
| `ResponseStreams` | Is every stream closed? (protocol document, line 263) | violated: interruption around the prologue |
| `Playback` | Order, silence, completeness and termination of playback | holds |
| `Voice` | Two captures: who serves the queue, do turns end with their own words, does the reader come back? | holds |
| `VoiceHandler` | Does the handler of a lost connection end? (protocol document, line 284) | violated: it waits for ever for room in a queue that nobody empties |
| `PlaybackStreams` | Does a stream play only its own audio? (protocol document, line 282) | violated: the refused stream's audio joins the one before |
| `Speech` | Do calls given up, refused, failing or cut off leave the service's places right, and is 429 answered only when it is full? | holds |
| `Connection` | Does the client end up connected and greeted, and do captures end with their connection? | holds |
| `Library` | Committed text, circuit breaker, log at its limit, verdict of a release evaluation | holds |

The design document is `docs/liveagent_voice_pipeline_design.md`, the protocol
document `docs/api-contracts/hermes-protocol.md`. The four violated properties say
what these documents say; the findings in `PROJECT.json` describe the behaviours.

### Bounds, and why they are enough

* `JobScheduler`: two agents with one and two slots in a pool of two, a global queue of
  two, one key, three jobs. The agent's single slot and the pool both bind, so that a busy
  agent's job is skipped; three jobs make chains and forks of parent and child, a retry of
  a retry, and a queue that is full when a retry is submitted. `MaxTime = 1` suffices for
  late heartbeats and deadlines. An action constraint (`FewerInputs`) leaves out inputs that
  differ in nothing the code looks at.
* `Orchestrator`: three turns, agents with one slot each in a pool and a queue
  of two: a turn can be skipped, refused and left behind.
* `Response`: two responses and two interrupters give every order of replacing and
  interrupting; `MaxRevision = 4` bounds how often `interrupt()` is called. Two chunks
  give a first, a later, and a missing one.
* `Playback`: a pending list of one and a ring of two are both smaller than what two
  streams send, so both overflow; two nodes are what two concurrent
  `prepare()` calls create. `MaxGeneration = 3` bounds the interruptions.
* `Voice`: two captures let a recogniser thread that outlived its consumer meet the
  consumer of the next capture. A queue of two is full while the consumer waits for the
  recogniser: frames overflow and the None has to wait. Onset and pre-roll of two
  frames, endpoint of one and utterances of at most four let five frames hold a turn
  ended by silence, by length and by the None, and chunks of two frames leave a rest for
  `finish()`. `VoiceHandler` needs one capture only.
* `Speech`: three calls meet two threads and two places, so that either can be short; one
  death separates a call refused from one cut off.
* `Connection`: four sockets are enough for every reconnection that one fault and one change
  of the URL lead to, as `Reconnects` confirms: a client out of sockets would not be served.
  Three messages of the tool are a greeting, a second one or a capture, and one more.
* `Library`: hypotheses of up to four characters, a letter and two boundaries, four of them:
  four characters are the shortest text with a space behind two agreed letters. Five
  escalations, a threshold of two and a budget of four: two calls fail, two more meet in the
  half-open circuit, and one is refused for want of budget; a log of ten, where 80 % and 90 %
  are different numbers, and one record more than it holds (`MaxEnqueues = 11`); three cases
  and two prompts with each way a recording is misheard or cut in two, also into nothing and
  a command. The components are independent, and each behaviour is one of one component.

### Fairness, and why the code justifies it

* `Orchestrator`: weak fairness of each turn's next step. The event loop resumes
  every task whose await is over, sends drain or raise, and a route produces a
  bounded answer. There is none for users, cancellations or the loss of the connection.
* `ResponseCoordinator`: weak fairness of each coroutine's next step. Synthesis has a
  timeout, audio is of bounded length, sends drain or raise. There is none for
  `Deliver`, `Interrupt`, `Crash` or `Disconnect`.
* `PlaybackQueue`: the ports deliver, the audio thread renders, and `prepare()`
  settles, which it does because it is called from a user gesture, which lets the
  `AudioContext` run. There is none for the server or the user.
* `VoiceSession`: the reader and the consumer are resumed, sends drain or raise, and a
  recogniser call, whose audio is bounded, returns. There is none for the messages of
  the browser, failures of the recogniser, the loss of the connection, or orphans.
* `SpeechService`: threads run, generation is bounded, and a socket times out.
* `Connection`: the browser dispatches events and timers, asyncio runs handlers, utterances
  end. There is none for users, tools or faults.

`CHECK_DEADLOCK FALSE` is in every configuration because each of these systems
may rightly stop: all jobs are over, all responses are given, nothing is left to play.

### Conditions in the properties

`CompletedIsHeard`, `RestIsSilent` and `PlaybackEnds` hold while no stream was refused
and no node was replaced (`Orderly`): the two flaws are shown by
`PlaybackStreams` and described under hazards, and beyond them these properties are
false. `UndisturbedStreamsClose`, `SettlesWhenUndisturbed` and `FloorIsGivenBack` say
which responses they are about (not superseded, not interrupted, not crashed); the
violated `NoStreamLeftOpen` is the first of these without the condition.
`JobsEndWithoutOverlap` and `NoJobLeftBehind` are about connections that last: when one is
lost, a turn ends with its job QUEUED or RUNNING (`server.py:99`), but the scheduler, which
is the connection's own, goes with it. `JobsEndWithoutOverlap` has in addition the
condition that `OrchestratorOverlap` shows to be needed.

`TurnsEnd` is about connections on which no capture failed: a failed one gives its turn
up. `FinalIsWhatWasSaid` holds until a consumer is cancelled while its thread runs: from
then on an orphan shares the recogniser with the next turn and may change what that turn's
STT_FINAL says (listed under hazards). `CapturingIsServed`, `TurnsEnd` and `ReaderReturns`
speak of the time the connection lasts; what happens after it is lost is `HandlerEnds`.

`CapturesEndWithTheirConnection` is about a browser that has not disconnected, or has done so
once and for good (`Undisturbed`). `handleOpen` greets on whatever socket is current, so that
after a disconnection the late open event of the old socket may greet the new one twice; the
handler then forgets a voice session (`server.py:183`) and its `finally` clause closes only the
last. An earlier form of the condition, that the client does not connect again at once, was
not enough: the proof of the property failed on two disconnections in a row, and TLC confirmed
the behaviour with `MaxDisconnects = 2`. `FullMeansFull` is about
the Kokoro service; the Qwen service reports a model's RuntimeError as a full queue.
`PassIsEarned` says that a prompt of a release that passes had no ERROR, and a recording that
was one turn had none. Of a recording cut in two the client stops at the first idle after a
TTS_END, which may be either response's, and closes the connection: an ERROR of the
other turn may come later and is never read (TLC refutes the property without this exception).
The same holds of what follows the acknowledgement of a command to stop.

`TypeOK` is checked where another invariant depends on it (`ResponseCoordinator`) and proved
for `JobScheduler`, `Orchestrator`, `ResponseCoordinator`, `PlaybackQueue`, `VoiceSession` and
`Connection`, as part of their inductive invariants.

### Where code and documents disagree without a run

* `docs/api-contracts/hermes-protocol.md:56` has the Runtime replay events with
  `seq > lastSeq`; `server.py` never reads `lastSeq` and counts each connection from 1.
* `scheduler.retry()` accepts a failed job that was retried before, so that one key may have
  two live jobs; the design document (line 164) wants keys to prevent repeated effects.
* The client's heartbeat is answered by the reader loop, so that an `end_capture()` of more
  than its five seconds closes a healthy connection (`Connection` has this as a fault).
* The policy fixtures expect that "Send this report by email" is blocked. `classify_fixture`
  blocks it since an unknown text asks for an unknown capability; `handle_turn` would route
  the same text and allow it to an agent that only reads.

## 4. What is proved

All theorems are for every value of the constants that the named assumptions admit:

* `BoundsAssumption` of `JobScheduler`: limits are positive numbers, as `AgentRegistry` and the
  constructor have them; `InputsAssumption`: types of what callers may pass.
* `SchedulerAssumption`, `TurnsAssumption` and `RegistryAssumption` of `Orchestrator`: the
  scheduler's bounds, finitely many turns, and a registry that has the orchestrator itself and
  each agent that a rule may choose.
* `NobodyAssumption` of `ResponseCoordinator`: no response is called `Nobody`.
* `VoiceAssumption`: sizes of the queue and windows of the detector are positive, the None of
  the queue is not a frame, and a recogniser without a streaming state can be told from one
  that has a list of frames.
* `PlaybackAssumption`: limits of the lists are positive, no stream is called `NoStream`.
* `ConnectionAssumption`: the bounds are numbers.
* `LimitsAssumption` of `SpeechService`: the service's limits are positive; the theorems that
  count are for a finite set of calls.
* `BoundsAssumption` of `MCLibrary`: budgets are numbers, the circuit's threshold is positive, a
  log holds ten records or more; the constructors refuse others. The corpus and the prompts
  of the release are definitions of that module; the proof uses of them what `CorpusIs` says,
  that they are lists of things that may be said and recognised.

No proof relies on the values that the configurations give to the bounds (`MaxJobs`,
`MaxCaptures`, `MaxChunks`, ...): what holds is not an effect of a small instance.

**JobSchedulerProofs.** `TypeCorrect` is inductive by itself. `QueueCorrect` needs it, and one
lemma per operator (`TransitionAll`, `Enqueue`). With it, a job that starts comes out of the
queue, was not running, and the two cardinalities compared by `start_next` are those of the
state before: that is `PoolBounded`. `QueuesBounded` is the same argument for `submit`, also
when `retry` calls it. `TerminalJobsAreFinal` and `AgentsAreFifo` are action properties: each
action is shown to keep them in a state where the invariants hold. `CancelScope`
(`CancelsOnlyTheCancellable`) is inductive over the set that a cancellation moves.
`KeysNameNewest`: what is accepted has the largest identifier and takes its key with it.
`CancelIsComplete` (`CancelReachesTheTree`) is about trees of any shape: `Visited` is a
recursive function over the jobs, and on the path from the root to a job that were not visited,
the first such job would have a visited parent (`BelowIsVisited`, a least counterexample in the
place of an induction).

**OrchestratorProofs.** The lemmas about the scheduler are used through `INSTANCE
JobSchedulerProofs`, with the turns as its keys; `_blocked`, which submits a job and ends it
without an await, is two of the scheduler's steps in one and is shown to keep its invariants by
itself (`BlockAdds`). `TurnSteps` then says what a step may do to turns and jobs (`TurnShape`),
so that the invariants look at five cases and not at the actions. The inductive invariant `Inv`
adds to the properties which awaits a turn is in with a job and in which without
(`JobsAreOwned`), and that what is being routed is no command and passed the test before
routing (`RoutedIsHarmless`). `OnlyCompletedIsSpoken` and `CompletedByOwner` hold together
only: a turn completes what is running as its own job, and a job that is over stays as it is
whatever the other turns start, finish or cancel. Since a turn that raises after its job
completed is `done`, and one that raises before is `failed`, both also hold of the turns that
a lost connection ends (`EmittingGoes`). `NoConsequentialStart` goes through the
tables of `Policy` and `Supervisor` for any route that the model may answer.

**ResponseProofs.** The inductive invariant `IInv` has five parts: `TypeOK`; `ActiveIsCurrent`;
`FloorShape` (what is active or cancelled has started, and a response under way that is not
active was disturbed); `StreamShape` (no stream before the prologue is over, one during
streaming, none open in the epilogue); `UndisturbedStreamsClose`. `FloorShape` and
`StreamShape` are needed since the last one is not inductive: without them nothing says that a
coroutine that is about to return normally has sent TTS_END. `ResponsesSettle` adds what the
interface shows (`ShownShape`), where `FloorShape` is needed again: `Prepare` announces
"speaking" without a look at who has the floor. `SpeaksByTheRules` is the refinement `Spec =>
Wire!Spec`: each action of the coordinator maps to a step of `SpeechWire` or to a stutter, for
any number of responses and interrupters.

**VoiceProofs.** The inductive invariant `VInv` relates the three processes. `CallsInv`: the
consumer awaits at most one call, of the operation that its place says. `CaptureInv`: a capture
is on only while the reader reads and the None is not on its way; the None is the last of the
queue; who has taken it is about to end. `TurnInv`: how far the events of the turn are, and
what of the detector's actions is left, by the consumer's place. `EndInv`: without a failure a
turn that has no STT_FINAL is the one in hand. `CapturingServed` and `ConsumersDoNotMeet`
follow from `CaptureInv`, `EveryTurnEnds` from `EndInv`; neither property is inductive without
the None's way through the queue. `RefinesUtterances` maps each step to one of `Utterances`,
where `TurnInv` gives the guards of the abstract steps.

`FinalsAreWhole` (`FinalIsWhatWasSaid`) follows every frame from the queue to the text, with
two more invariants. `FramesInv` is about the path to the detector and needs no recogniser: what
is queued is an unbroken run that, while the capture is on, ends with the newest frame
(`Queued`); what the consumer kept from before the turn (`Hand`: the pre-roll, in the detector
or in the turn's first list) is unbroken and behind all that was given to a turn (`Held`); the
queue goes on where the turn or, before it, the hand ends (`Leads`); and the frames of each turn
are unbroken and behind those of the turns before it (`Told`). A frame that is refused empties
the queue and ends the capture, so that no run goes on over the gap. `AsrInv` is about the
recogniser: by the operation of the call in flight and its step, what is transcribed, what is
pending and what the call has in hand are together what was said in the turn (`StartHas`,
`AcceptHas`, `FinishHas`), and between two calls the first two are (`Whole`). It holds until a
consumer is cancelled while its thread runs (`WholeInv`): that thread goes on to write to the
recogniser of the next turn. The property is inductive with neither alone: it says nothing of
a turn before its final, which is when a frame could be lost.

**PlaybackProofs.** `OrderIsKept`: the ring, the port and the pending list are one path, and
the invariant (`OrderInv`) says of the path as a whole that numbers of one stream ascend along
it and do not exceed what was sent of it (without which the next chunk need not be the
largest); nodes that do not exist yet are empty. `RestStaysSilent` and `DrainedWasHeard` are
about behaviours in which no stream was refused and no node replaced (`Orderly`), as the
properties are. Their invariant, `Told`, says: which of the preparations in progress may still
make the queue ready, and that at most one can (`Places`); that what was sent of the active
stream is heard, lost or on its way (`Streams`); and the shape of the path (`Path`): nothing on
it is of a later generation than the queue's (`Past`) or of a stream that is over (`Free`).
While the queue is not ready, a stop is behind everything that could be heard, and nothing is
there of the active stream (`Waiting`). Once it is ready, the port has at most configure, the
chunks that are left and the end behind what is stale, in this order (`Streaming`). That is why
a `drained` message with the queue's generation means that nothing is left: it is inductive
only together with the generations of all messages that are still on a port.

**ConnectionProofs.** `GreetingIsFirst` is inductive with one statement per socket, `Greeted`:
before a CAPTURE_START on the wire to a handler that was not greeted there is a greeting, there
is one as soon as the user can speak on that socket, and an unopened socket has nothing on its
way. `CapturesEnd` needs in addition that only one socket is under way (`Single`), that it gets
one greeting (`GreetedOnce`), and that the captures of its handler are of the session it has
(`OneSession`).

**LibraryProofs.** The parts of `MCLibrary` do not share state, so that a step of the whole is a
step of one (`StepOfOne`), and each invariant is of one part. `CircuitIsKnown` is inductive with
the types: a success resets all that a failure set, and a circuit becomes half-open only by a
call that is then on its way. `ProtectedRecordsAreKept` needs besides that what was written is
of what was accepted, without which a new record need not be behind it. One lemma each says
that the order survives a record behind the others (`AppendKeeps`), the removal of an
unprotected one (`RemoveKeeps`), which is the one that `EvictIndex` finds
(`EvictIndexEffect`), and the hand-over of the first ones to the sink, wherever its write
fails (`DrainKeeps`).
`CommittedTextStays` needs no invariant but the types. What it needs are the helpers' results
for texts of any length: `_common_prefix` counts characters that both texts have
(`CommonEffect`), and `_safe_commit_index` is at most that, or one more if a space follows
(`SafeEffect`). `PassesAreEarned` (`PassIsEarned`) is about the client of the release evaluation.
Its invariant, `ReleaseInv`, has three parts. In a case (`Voice`, `Awaits`) the first final is
the third event of the connection, read or still to come; and of a recording that is one turn,
what was read and what is on the wire are together what was sent (`OneTurn`). In a prompt
(`Typed`) they always are, with nothing of the prompt before it. And what was judged of the
turns before is right of what was sent in them (`Judged`). `TurnIsSent` is what the client
relies on. Of a recording, however it was cut, the first final comes before all else, so
that a case is judged by it in whatever order the two lists are read and whenever the client
leaves (`CaseIsJudged`). Of one turn, and so of a prompt, idle and the acknowledgement are the
last event: a prompt that is over by `PromptOver` has been read to its end (`PromptIsRead`),
and so has a case that was one turn, but for a command to stop. Word errors, key terms and
latencies play no part in it.

**SpeechProofs.** `PlacesAlwaysCounted` is for any finite set of calls. That the counter is a
cardinality is inductive only if `Send` does not overwrite a handler that holds a place, which
is what `ThreadsInv` is for: a thread that has not sent its request has no handler, and a call
not yet made has no thread. That one handler uses the model is carried as a statement about
pairs and counted at the end. `FullIsFull` turns the counter that `Admit` reads into the number
of the other calls in the service.

**Only model-checked.** Liveness (`JobsEndWithoutOverlap`, `FloorIsGivenBack`, `PlaybackEnds`,
`ReaderReturns`, `PlacesAreGivenBack`, `Reconnects`), which is out of the prover's reach. Every
invariant and every action property of the passing runs is a theorem. TLC evaluates the
assumptions of all modules, and compares `JobTree`, `EditDistance` and `Percentile` with their
definitions: what they compute for every input would be an induction over data. What the
run `Playback` does not reach at its bounds, a chunk cut by a full ring while no
stream was refused and no node replaced, only the theorem `DrainedWasHeard` covers.

## 5. What is not modelled, and why

* Words: phrase lists, prompts, clause segmentation, glossary, language. What is found in a
  text, or what a model makes of it, is a free choice where it steers control.
* Speech models: their outcomes (result, timeout, error, any other exception) are actions
  of the component that calls them.
* Incoming events of the browser: event bus, sequence check, stores, rendering.
* The microphone, the upload queue and push-to-talk (`pcmCapture.ts`, `audioUplink.ts`). By
  reading: a second `start()` while the first one waits for the microphone is not noticed,
  and the stream that is opened first is then never stopped.
* Trace identifiers, redaction, rotation of log files, confidence intervals, fixture shapes.
* Mock server, smoke and start-up scripts: straight-line programs.
* `playbackRingBuffer.ts`, which the playback path does not use.
* In `Orchestrator` the Hermes branch, since the server passes `hermes=None`.
* Metrics and `dispose()` of the playback queue, logging everywhere.

## 6. Plan

1. Composition: `Orchestrator` with `ResponseCoordinator`, so that `OnlyCompletedWorkIsSpoken`
   speaks of the wire.
2. `Capture`: `pcmCapture` with `audioUplink` and push-to-talk; the microphone is off
   when no capture is on.
3. The browser's incoming side: event bus, sequence check and the task tree.
