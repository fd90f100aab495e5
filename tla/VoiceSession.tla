---------------------------- MODULE VoiceSession ----------------------------
(***************************************************************************)
(* One connection's microphone (runtime/voice_session.py, with the bounded *)
(* queue of audio_ingress.py, the voice activity detector of vad.py and    *)
(* the streaming recogniser of asr.py).                                    *)
(*                                                                         *)
(* Three kinds of processes meet here.  The reader is the handler's loop   *)
(* over the socket, in server.py.  The consumer is a task that takes       *)
(* frames from the queue and awaits sends and recogniser calls.  A         *)
(* recogniser call runs in a thread of its own: when its consumer is       *)
(* cancelled the thread goes on, on the same recogniser, and is an orphan. *)
(*                                                                         *)
(* A frame is known by its capture and its place in it.  Whether it is     *)
(* loud, what the model makes of it, and whether a call raises, are free.  *)
(* Task.cancel() takes effect before the consumer runs again, so that      *)
(* close(), which cancels and waits, is one action.  What the socket had   *)
(* received before it was lost has been read by then.                      *)
(***************************************************************************)
EXTENDS Integers, Sequences, FiniteSets

CONSTANTS
  NoTurn,
  End,              (* the None that ends a capture                        *)
  NoState,          (* no streaming state: start_turn() has not been called *)
                    (* since finish()                                      *)
  QueueFrames,      (* SERVER_QUEUE_FRAMES                                 *)
  PreRoll, Onset, Endpoint, MaxUtterance,  (* of StreamingVad              *)
  ChunkFrames,      (* frames the model transcribes at a time              *)
  MaxCaptures,      (* bound: captures                                     *)
  MaxFrames         (* bound: frames of a capture                          *)

Frame == [capture: 1 .. MaxCaptures, index: 1 .. MaxFrames]

ASSUME VoiceAssumption ==
  /\ {QueueFrames, PreRoll, Onset, Endpoint, MaxUtterance, ChunkFrames} \subseteq Nat \ {0}
  /\ {MaxCaptures, MaxFrames} \subseteq Nat
  /\ NoTurn = 0 /\ End \notin Frame /\ NoState \notin Seq(Frame)

VARIABLES
  connected,
  reader,     (* where the handler's loop is                               *)
  capture,    (* captures started so far                                   *)
  frames,     (* frames of the newest one that arrived                     *)
  capturing,  (* CaptureState.CAPTURING                                    *)
  queue,      (* frames, and the None that ends a capture                  *)
  vad,        (* StreamingVad                                              *)
  consumer,   (* where the consumer is                                     *)
  todo,       (* actions of the frame it has in hand                       *)
  last,       (* it has taken the None                                     *)
  turn,       (* turn_id; the stabilizer goes with it                      *)
  calls,      (* recogniser calls: the live one is what the consumer       *)
              (* awaits, the others are orphans                            *)
  asr,        (* the recogniser                                            *)
  (* What the browser and the orchestrator got.                            *)
  stage, partials,
  text,       (* the frames the STT_FINAL of each turn stands for          *)
  said,       (* history: the frames the detector gave to each turn        *)
  (* History.                                                              *)
  failed,     (* captures that met an error or overran the queue           *)
  orphaned    (* a thread has outlived its consumer                        *)

net     == <<connected, capture, frames>>
ingress == <<capturing, queue>>
mind    == <<consumer, todo, last, turn, calls, orphaned>>
outcome == <<stage, partials, text, said>>
vars == <<connected, reader, capture, frames, capturing, queue, vad, consumer, todo, last,
          turn, calls, asr, stage, partials, text, said, failed, orphaned>>

ResetVad == [preRoll |-> <<>>, onset |-> 0, silence |-> 0, speech |-> 0, active |-> FALSE]

Init ==
  /\ connected = TRUE /\ reader = "reading"
  /\ capture = 0 /\ frames = 0
  /\ capturing = FALSE /\ queue = <<>>
  /\ vad = ResetVad
  /\ consumer = "done" /\ todo = <<>> /\ last = FALSE /\ turn = NoTurn /\ calls = {}
  /\ asr = [pending |-> <<>>, state |-> NoState]
  /\ stage = <<>> /\ partials = <<>> /\ text = <<>> /\ said = <<>>
  /\ failed = {} /\ orphaned = FALSE

-----------------------------------------------------------------------------
(* The reader.                                                             *)

Settled == {"returned", "changed", "raised"}

(* consumer.cancel().  A call whose thread has not begun may be cancelled  *)
(* with it; one that has begun goes on.                                    *)
CancelConsumer ==
  /\ \/ /\ \A c \in calls : c.live => c.at = "queued"
        /\ calls' = {c \in calls : ~c.live}
     \/ calls' = {[c EXCEPT !.live = FALSE] : c \in {c \in calls : c.at \notin Settled}}
  /\ orphaned' = (orphaned \/ calls' # {})

HasRoom == Len(queue) < QueueFrames

(* start_capture(): raises while a capture is on.                          *)
CaptureStart ==
  /\ connected /\ reader = "reading" /\ ~capturing /\ capture < MaxCaptures
  /\ capture' = capture + 1
  /\ frames' = 0
  /\ capturing' = TRUE /\ queue' = <<>>
  /\ vad' = ResetVad
  /\ turn' = NoTurn
  /\ consumer' = "waiting" /\ todo' = <<>> /\ last' = FALSE
  /\ CancelConsumer
  /\ UNCHANGED <<connected, reader, asr, outcome, failed>>

(* accept_audio(): a frame that does not fit ends the capture.  Outside a  *)
(* capture a frame is only an error event.                                 *)
Binary ==
  /\ connected /\ reader = "reading" /\ capturing /\ frames < MaxFrames
  /\ frames' = frames + 1
  /\ \/ /\ HasRoom
        /\ queue' = Append(queue, [capture |-> capture, index |-> frames + 1])
        /\ UNCHANGED <<capturing, reader, failed>>
     \/ /\ ~HasRoom
        /\ capturing' = FALSE /\ queue' = <<>>
        /\ reader' = "reporting"
        /\ failed' = failed \cup {capture}
  /\ UNCHANGED <<connected, capture, vad, mind, asr, outcome>>

(* close(): cancel a live consumer, wait for it, reset the ingress.        *)
Close ==
  /\ consumer' = "done" /\ todo' = <<>>
  /\ CancelConsumer
  /\ capturing' = FALSE /\ queue' = <<>>
  /\ UNCHANGED <<last, turn>>

(* The AUDIO_BACKPRESSURE event is out; until here the consumer went on.   *)
Backpressure ==
  /\ connected /\ reader = "reporting"
  /\ Close
  /\ reader' = "reading"
  /\ UNCHANGED <<net, vad, asr, outcome, failed>>

(* end_capture(): the None waits for room in the queue, and the reader for *)
(* the consumer.                                                           *)
CaptureEnd ==
  /\ connected /\ reader = "reading" /\ capturing
  /\ capturing' = FALSE
  /\ \/ /\ HasRoom
        /\ queue' = Append(queue, End)
        /\ reader' = "joining"
     \/ /\ ~HasRoom
        /\ reader' = "putting"
        /\ UNCHANGED queue
  /\ UNCHANGED <<net, vad, mind, asr, outcome, failed>>

PutEnd ==
  /\ reader = "putting" /\ HasRoom
  /\ queue' = Append(queue, End)
  /\ reader' = "joining"
  /\ UNCHANGED <<net, capturing, vad, mind, asr, outcome, failed>>

(* Mutant: end_capture() that does not wait for the consumer.              *)
JoinedAtOnce ==
  /\ reader = "joining"
  /\ reader' = "reading"
  /\ UNCHANGED <<net, ingress, vad, mind, asr, outcome, failed>>

Joined ==
  /\ reader = "joining" /\ consumer = "done"
  /\ reader' = "reading"
  /\ UNCHANGED <<net, ingress, vad, mind, asr, outcome, failed>>

Disconnect ==
  /\ connected
  /\ connected' = FALSE
  /\ UNCHANGED <<reader, capture, frames, ingress, vad, mind, asr, outcome, failed>>

(* The loop ends, or the send it was in raises: the handler's finally.     *)
Leave ==
  /\ ~connected /\ reader \in {"reading", "reporting"}
  /\ Close
  /\ reader' = "gone"
  /\ UNCHANGED <<net, vad, asr, outcome, failed>>

-----------------------------------------------------------------------------
(* StreamingVad.                                                           *)

LastOf(s, n) == IF Len(s) <= n THEN s ELSE SubSeq(s, Len(s) - n + 1, Len(s))

Audio(s) == [kind |-> "audio", frames |-> s]
Start == [kind |-> "start", frames |-> <<>>]
Stop  == [kind |-> "end", frames |-> <<>>]

(* accept(), while nobody speaks: the last frames are kept, and enough     *)
(* loud ones in a row begin a turn with what was kept.                     *)
Listen(f, loud) ==
  LET kept  == LastOf(Append(vad.preRoll, f), PreRoll)
      onset == IF loud THEN vad.onset + 1 ELSE 0
  IN  IF onset < Onset
      THEN [vad |-> [vad EXCEPT !.preRoll = kept, !.onset = onset], actions |-> <<>>]
      ELSE [vad |-> [vad EXCEPT !.preRoll = <<>>, !.onset = onset, !.active = TRUE,
                                !.speech = Len(kept)],
            actions |-> <<Start, Audio(kept)>>]

(* accept(), while somebody speaks: enough silence or too much speech ends *)
(* the turn.                                                               *)
Follow(f, loud) ==
  LET silence == IF loud THEN 0 ELSE vad.silence + 1
      speech  == vad.speech + 1
  IN  IF silence < Endpoint /\ speech < MaxUtterance
      THEN [vad |-> [vad EXCEPT !.silence = silence, !.speech = speech],
            actions |-> <<Audio(<<f>>)>>]
      ELSE [vad |-> [vad EXCEPT !.active = FALSE, !.onset = 0, !.silence = 0, !.speech = 0],
            actions |-> <<Audio(<<f>>), Stop>>]

Accept(f, loud) == IF vad.active THEN Follow(f, loud) ELSE Listen(f, loud)

(* Mutant: the end of the capture does not end the turn.                   *)
ForceEndForgets == [vad |-> [vad EXCEPT !.active = FALSE], actions |-> <<>>]

(* force_end(): the None has come.                                         *)
ForceEnd ==
  [vad |-> [vad EXCEPT !.active = FALSE], actions |-> IF vad.active THEN <<Stop>> ELSE <<>>]

-----------------------------------------------------------------------------
(* The recogniser: what a thread does between two points at which another  *)
(* may run.  The model's lock covers one use of the model, not a call.     *)

Call(op, s) == [op |-> op, frames |-> s, at |-> "queued", turn |-> turn, live |-> TRUE]

(* An orphan's result goes nowhere.                                        *)
Becomes(c, where, s) ==
  calls' = (calls \ {c}) \cup
    IF where \in Settled /\ ~c.live THEN {} ELSE {[c EXCEPT !.at = where, !.frames = s]}

StartTurn(c) ==
  \/ /\ c.at = "queued"
     /\ asr' = [asr EXCEPT !.pending = <<>>]
     /\ Becomes(c, "cleared", <<>>)
  \/ /\ c.at = "cleared"
     /\ asr' = [asr EXCEPT !.state = <<>>]
     /\ Becomes(c, "returned", <<>>)

(* A use of the state that finish() has cleared.                           *)
NoStateLeft(c) == asr.state = NoState /\ Becomes(c, "raised", <<>>) /\ UNCHANGED asr

Transcribe(c) ==
  /\ asr.state # NoState
  /\ asr' = [asr EXCEPT !.state = @ \o c.frames]
  /\ Becomes(c, "transcribed", <<>>)

AcceptPcm(c) ==
  \/ c.at \in {"queued", "holding"} /\ NoStateLeft(c)
  \/ /\ c.at = "queued" /\ asr.state # NoState
     /\ asr' = [asr EXCEPT !.pending = @ \o c.frames]
     /\ Becomes(c, "extended", <<>>)
  \/ /\ c.at \in {"extended", "transcribed"} /\ Len(asr.pending) >= ChunkFrames
     /\ asr' = [asr EXCEPT !.pending = SubSeq(@, ChunkFrames + 1, Len(@))]
     /\ Becomes(c, "holding", SubSeq(asr.pending, 1, ChunkFrames))
  \/ c.at = "holding" /\ Transcribe(c)
  \/ /\ c.at = "extended" /\ Len(asr.pending) < ChunkFrames
     /\ Becomes(c, "returned", <<>>)
     /\ UNCHANGED asr
  \/ c.at = "transcribed" /\ Len(asr.pending) < ChunkFrames /\ NoStateLeft(c)
  \/ /\ c.at = "transcribed" /\ Len(asr.pending) < ChunkFrames /\ asr.state # NoState
     /\ Becomes(c, "changed", <<>>)
     /\ UNCHANGED asr

(* Mutant: what is left of the audio is not transcribed.                   *)
FinishWithoutRest(c) ==
  \/ /\ c.at = "queued"
     /\ Becomes(c, "read", IF asr.state = NoState THEN <<>> ELSE asr.state)
     /\ UNCHANGED asr
  \/ /\ c.at = "read"
     /\ asr' = [pending |-> <<>>, state |-> NoState]
     /\ Becomes(c, "returned", c.frames)

(* finish(): flush what is pending, read the text, forget the state.       *)
Finish(c) ==
  \/ /\ c.at = "queued" /\ asr.state = NoState
     /\ Becomes(c, "returned", <<>>)
     /\ UNCHANGED asr
  \/ /\ c.at = "queued" /\ asr.state # NoState
     /\ Becomes(c, "holding", asr.pending)
     /\ UNCHANGED asr
  \/ c.at \in {"holding", "transcribed"} /\ NoStateLeft(c)
  \/ c.at = "holding" /\ Transcribe(c)
  \/ /\ c.at = "transcribed" /\ asr.state # NoState
     /\ Becomes(c, "read", asr.state)
     /\ UNCHANGED asr
  \/ /\ c.at = "read"
     /\ asr' = [pending |-> <<>>, state |-> NoState]
     /\ Becomes(c, "returned", c.frames)

ThreadRuns(c) ==
  /\ c \in calls
  /\ \/ c.op = "start" /\ StartTurn(c)
     \/ c.op = "accept" /\ AcceptPcm(c)
     \/ c.op = "finish" /\ Finish(c)
  /\ UNCHANGED <<net, reader, ingress, vad, consumer, todo, last, turn, outcome, failed, orphaned>>

(* The model raises: out of memory, not installed.                         *)
ThreadRaises(c) ==
  /\ c \in calls /\ c.at \notin Settled
  /\ Becomes(c, "raised", <<>>)
  /\ UNCHANGED <<net, reader, ingress, vad, consumer, todo, last, turn, asr, outcome, failed,
                 orphaned>>

-----------------------------------------------------------------------------
(* The consumer.                                                           *)

Await(c) == calls' = {d \in calls : ~d.live} \cup {c}

NoCall == calls' = {d \in calls : ~d.live}

(* The consumer goes on with what is left of the frame in hand, as far as  *)
(* its next await.  The detector is reset together with turn_id, so that   *)
(* it has no audio or end for a turn that is not there.                    *)
GoOn(rest, ends) ==
  \/ /\ rest = <<>>
     /\ consumer' = (IF ends THEN "done" ELSE "waiting")
     /\ todo' = <<>> /\ NoCall
     /\ UNCHANGED said
  \/ /\ rest # <<>> /\ Head(rest).kind = "audio"
     /\ consumer' = "recognising"
     /\ todo' = Tail(rest) /\ Await(Call("accept", Head(rest).frames))
     /\ said' = [said EXCEPT ![turn] = @ \o Head(rest).frames]
  \/ /\ rest # <<>> /\ Head(rest) = Stop
     /\ consumer' = "ending"
     /\ todo' = Tail(rest) /\ NoCall
     /\ UNCHANGED said

BeginTurn(rest) ==
  /\ turn' = Len(stage) + 1
  /\ stage' = Append(stage, "begun")
  /\ partials' = Append(partials, 0) /\ text' = Append(text, <<>>)
  /\ said' = Append(said, <<>>)
  /\ consumer' = "starting"
  /\ todo' = rest /\ NoCall

Begins(actions) == actions # <<>> /\ Head(actions) = Start

Handle(heard, ends) ==
  /\ vad' = heard.vad
  /\ \/ /\ Begins(heard.actions)
        /\ BeginTurn(Tail(heard.actions))
     \/ /\ ~Begins(heard.actions)
        /\ GoOn(heard.actions, ends)
        /\ UNCHANGED <<turn, stage, partials, text>>

Take ==
  /\ consumer = "waiting" /\ queue # <<>>
  /\ queue' = Tail(queue)
  /\ last' = (Head(queue) = End)
  /\ \/ Head(queue) = End /\ Handle(ForceEnd, TRUE)
     \/ Head(queue) # End /\ \E loud \in BOOLEAN : Handle(Accept(Head(queue), loud), FALSE)
  /\ UNCHANGED <<net, reader, capturing, asr, failed, orphaned>>

Tell(what) == connected /\ stage' = [stage EXCEPT ![turn] = what]

(* USER_SPEECH_START is out, and what was being said is interrupted.       *)
SpeechStart ==
  /\ consumer = "starting"
  /\ Tell("speech")
  /\ consumer' = "initialising" /\ Await(Call("start", <<>>))
  /\ UNCHANGED <<net, reader, ingress, vad, todo, last, turn, orphaned, asr, partials, text,
                 said, failed>>

Partial ==
  /\ connected /\ consumer = "revising"
  /\ partials' = [partials EXCEPT ![turn] = @ + 1]
  /\ GoOn(todo, last)
  /\ UNCHANGED <<net, reader, ingress, vad, last, turn, orphaned, asr, stage, text, failed>>

(* Mutant: the end of speech is not told.                                  *)
SpeechEndUntold ==
  /\ consumer = "ending"
  /\ connected
  /\ consumer' = "finishing" /\ Await(Call("finish", <<>>))
  /\ UNCHANGED <<net, reader, ingress, vad, todo, last, turn, orphaned, asr, outcome, failed>>

SpeechEnd ==
  /\ consumer = "ending"
  /\ Tell("ended")
  /\ consumer' = "finishing" /\ Await(Call("finish", <<>>))
  /\ UNCHANGED <<net, reader, ingress, vad, todo, last, turn, orphaned, asr, partials, text,
                 said, failed>>

Final ==
  /\ consumer = "finalising"
  /\ Tell("final")
  /\ turn' = NoTurn
  /\ GoOn(todo, last)
  /\ UNCHANGED <<net, reader, ingress, vad, last, orphaned, asr, partials, text, failed>>

(* The recogniser has answered.  A text that changed may still be empty,   *)
(* which makes no STT_PARTIAL.                                             *)
Answered(c) ==
  /\ c \in calls /\ c.live
  /\ \/ /\ c.at = "changed" \/ (c.at = "returned" /\ c.op # "finish")
        /\ GoOn(todo, last)
        /\ UNCHANGED <<text, failed>>
     \/ /\ c.at = "changed"
        /\ consumer' = "revising"
        /\ NoCall
        /\ UNCHANGED <<todo, text, said, failed>>
     \/ /\ c.at = "returned" /\ c.op = "finish"
        /\ consumer' = "finalising"
        /\ text' = [text EXCEPT ![turn] = c.frames]
        /\ NoCall
        /\ UNCHANGED <<todo, said, failed>>
     \/ /\ c.at = "raised"
        /\ consumer' = "failing"
        /\ failed' = failed \cup {capture}
        /\ NoCall
        /\ UNCHANGED <<todo, text, said>>
  /\ UNCHANGED <<net, reader, ingress, vad, last, turn, orphaned, asr, stage, partials>>

(* Mutant: the error is reported, and nothing is reset.                    *)
FailKeepsCapture ==
  /\ connected /\ consumer = "failing"
  /\ consumer' = "done" /\ todo' = <<>>
  /\ UNCHANGED <<net, reader, ingress, vad, last, turn, calls, orphaned, asr, outcome, failed>>

(* Mutant: the capture is over, but its frames stay in the queue.          *)
FailKeepsQueue ==
  /\ connected /\ consumer = "failing"
  /\ capturing' = FALSE
  /\ consumer' = "done" /\ todo' = <<>>
  /\ UNCHANGED <<net, reader, queue, vad, last, turn, calls, orphaned, asr, outcome, failed>>

(* The ERROR event is out; the ingress is reset.                           *)
Fail ==
  /\ connected /\ consumer = "failing"
  /\ capturing' = FALSE /\ queue' = <<>>
  /\ consumer' = "done" /\ todo' = <<>>
  /\ UNCHANGED <<net, reader, vad, last, turn, calls, orphaned, asr, outcome, failed>>

(* A send raises, and so does the ERROR event that reports it: the         *)
(* consumer ends and resets nothing.                                       *)
Die ==
  /\ ~connected
  /\ consumer \in {"starting", "revising", "ending", "finalising", "failing"}
  /\ consumer' = "done" /\ todo' = <<>>
  /\ UNCHANGED <<net, reader, ingress, vad, last, turn, calls, orphaned, asr, outcome, failed>>

Consume ==
  \/ Take
  \/ SpeechStart \/ Partial \/ SpeechEnd \/ Final
  \/ \E c \in calls : Answered(c)
  \/ Fail
  \/ Die

Next ==
  \/ CaptureStart
  \/ Binary
  \/ CaptureEnd
  \/ Backpressure
  \/ PutEnd
  \/ Joined
  \/ Disconnect
  \/ Leave
  \/ Consume
  \/ \E c \in calls : ThreadRuns(c)
  \/ \E c \in calls : ThreadRaises(c)

(* The event loop resumes whoever can run, sends drain or raise, and a     *)
(* recogniser call, which has a bounded amount of audio, returns.          *)
Fairness ==
  /\ WF_vars(PutEnd) /\ WF_vars(Joined) /\ WF_vars(Backpressure) /\ WF_vars(Leave)
  /\ WF_vars(Consume)
  /\ WF_vars(\E c \in calls : c.live /\ ThreadRuns(c))

Spec == Init /\ [][Next]_vars /\ Fairness

-----------------------------------------------------------------------------
(* Properties.                                                             *)

RecogniserCall ==
  [op: {"start", "accept", "finish"}, frames: Seq(Frame), turn: Nat, live: BOOLEAN,
   at: {"queued", "cleared", "extended", "holding", "transcribed", "read"} \cup Settled]

TypeOK ==
  /\ connected \in BOOLEAN
  /\ reader \in {"reading", "reporting", "putting", "joining", "gone"}
  /\ capture \in 0 .. MaxCaptures /\ frames \in 0 .. MaxFrames
  /\ capturing \in BOOLEAN /\ queue \in Seq(Frame \cup {End}) /\ Len(queue) <= QueueFrames
  /\ vad \in [preRoll: Seq(Frame), onset: 0 .. Onset, silence: 0 .. Endpoint,
              speech: 0 .. MaxUtterance + PreRoll, active: BOOLEAN]
  /\ consumer \in {"done", "waiting", "starting", "initialising", "recognising", "revising",
                   "ending", "finishing", "finalising", "failing"}
  /\ todo \in Seq([kind: {"audio", "end"}, frames: Seq(Frame)])
  /\ last \in BOOLEAN /\ turn \in 0 .. Len(stage)
  /\ calls \subseteq RecogniserCall /\ Cardinality({c \in calls : c.live}) <= 1
  /\ asr.pending \in Seq(Frame) /\ (asr.state = NoState \/ asr.state \in Seq(Frame))
  /\ stage \in Seq({"begun", "speech", "ended", "final"})
  /\ Len(partials) = Len(stage) /\ Len(text) = Len(stage) /\ Len(said) = Len(stage)
  /\ failed \subseteq 1 .. MaxCaptures /\ orphaned \in BOOLEAN

(* While the connection lasts, frames are accepted only as long as         *)
(* somebody consumes them: whichever way a consumer ends, by the None, an  *)
(* error or a cancellation, the capture ends with it.                      *)
CapturingIsServed == (connected /\ capturing) => consumer # "done"

(* A capture can only start once the consumer before it has ended, so that *)
(* no two consumers share the detector and the recogniser, although        *)
(* overflow, errors and CAPTURE_END may all close the capture at once.     *)
OneConsumer == (reader = "reading" /\ ~capturing) => consumer = "done"

(* Once CAPTURE_END has been handled, every turn that began has got its    *)
(* USER_SPEECH_END and STT_FINAL, also the one that was cut off by it, as  *)
(* long as no capture failed.                                              *)
TurnsEnd ==
  (connected /\ reader = "reading" /\ ~capturing /\ failed = {})
  => \A t \in DOMAIN stage : stage[t] = "final"

Follows(g, f) == g.capture > f.capture \/ (g.capture = f.capture /\ g.index > f.index)

(* What a turn's STT_FINAL stands for is all that was said in it and       *)
(* nothing else: the chunks the model takes, the rest that finish() has to *)
(* flush and what an earlier turn left behind do not show; and it is an    *)
(* unbroken run of frames of one capture, the pre-roll included, that has  *)
(* no frame in common with another turn's.                                 *)
FinalIsWhatWasSaid ==
  ~orphaned => \A t \in DOMAIN stage : stage[t] = "final" =>
    /\ text[t] = said[t] /\ said[t] # <<>>
    /\ \A i \in 1 .. Len(said[t]) - 1 :
         said[t][i + 1] = [said[t][i] EXCEPT !.index = @ + 1]
    /\ \A u \in 1 .. t - 1 :
         said[u] # <<>> => Follows(said[t][1], said[u][Len(said[u])])

(* USER_SPEECH_START, STT_PARTIAL, USER_SPEECH_END and STT_FINAL come in   *)
(* this order, of one turn at a time; a turn that was given up with its    *)
(* capture is never heard of again.                                        *)
Wire == INSTANCE Utterances

ImplementsUtterances == Wire!Spec

(* end_capture() keeps the reader waiting, but not for ever: there comes   *)
(* to be room for the None, and the consumer ends, also when it fails      *)
(* while the queue is full.                                                *)
ReaderReturns == (reader \in {"putting", "joining"}) ~> (reader = "reading" \/ ~connected)

(* docs/api-contracts/hermes-protocol.md, "On reconnect, partial           *)
(* microphone and TTS streams are abandoned": the handler of a connection  *)
(* that was lost comes to its finally clause, which abandons both.         *)
HandlerEnds == ~connected ~> reader = "gone"
=============================================================================
