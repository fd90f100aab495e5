----------------------------- MODULE VoiceProofs -----------------------------
(***************************************************************************)
(* What VoiceSession promises, for queues, windows and chunks of any       *)
(* length and any number of captures and frames: its types, that frames    *)
(* are accepted only while a consumer takes them and that there is only    *)
(* one of it, that every turn ends, that a final is of the frames of its   *)
(* own utterance and of all of them, and that the events the browser gets  *)
(* are those of Utterances.                                                *)
(***************************************************************************)
EXTENDS VoiceSession, FiniteSetTheorems, SequenceTheorems, TLAPS

(* A turn is followed by its audio; the end of it comes last.              *)
Busy == {"starting", "initialising", "recognising", "revising"}
Closing == {"ending", "finishing", "finalising"}

Action == [kind: {"audio", "end"}, frames: Seq(Frame)]

(* Where the consumer is, without the recogniser and the detector.         *)
NetTypes ==
  /\ connected \in BOOLEAN
  /\ reader \in {"reading", "reporting", "putting", "joining", "gone"}
  /\ capture \in 0 .. MaxCaptures /\ frames \in 0 .. MaxFrames
  /\ capturing \in BOOLEAN /\ (capturing => capture # 0)
  /\ queue \in Seq(Frame \cup {End}) /\ Len(queue) <= QueueFrames
  /\ failed \subseteq 1 .. MaxCaptures /\ orphaned \in BOOLEAN

ConsumerTypes ==
  /\ consumer \in {"done", "waiting", "failing"} \cup Busy \cup Closing
  /\ consumer # "done" => capture # 0
  /\ todo \in Seq(Action) /\ last \in BOOLEAN
  /\ turn \in 0 .. Len(stage)
  /\ stage \in Seq({"begun", "speech", "ended", "final"})
  /\ partials \in Seq(Nat) /\ text \in Seq(Seq(Frame)) /\ said \in Seq(Seq(Frame))
  /\ Len(partials) = Len(stage) /\ Len(text) = Len(stage) /\ Len(said) = Len(stage)

VadState ==
  [preRoll: Seq(Frame), onset: 0 .. Onset, silence: 0 .. Endpoint,
   speech: 0 .. MaxUtterance + PreRoll, active: BOOLEAN]

VadTypes ==
  /\ vad \in VadState /\ vad.silence < Endpoint
  /\ consumer # "done" /\ ~last /\ ~vad.active => vad.onset < Onset
  /\ vad.active => vad.speech < MaxUtterance \/ vad.speech <= PreRoll

Asr == [pending: Seq(Frame), state: {NoState} \cup Seq(Frame)]

CallTypes == calls \subseteq RecogniserCall /\ asr \in Asr

(* A live call is the one the consumer waits for.                          *)
Awaited == [initialising |-> "start", recognising |-> "accept", finishing |-> "finish"]

CallsInv ==
  /\ \A c \in calls : c.live => consumer \in DOMAIN Awaited /\ c.op = Awaited[consumer]
  /\ \A c \in calls : c.at = "changed" => c.op = "accept"
  /\ \A b, c \in calls : b.live /\ c.live => b = c

(* A capture is on only while the handler reads and the None is not on its *)
(* way; when it reads and no capture is on, the consumer has ended.        *)
CaptureInv ==
  /\ capturing =>
       /\ reader = "reading" /\ ~last
       /\ \A i \in DOMAIN queue : queue[i] # End
       /\ connected => consumer # "done"
  /\ reader = "reading" /\ ~capturing => consumer = "done"
  /\ \A i \in DOMAIN queue : queue[i] = End => i = Len(queue)
  /\ reader = "putting" => ~last /\ \A i \in DOMAIN queue : queue[i] # End
  /\ last => queue = <<>>
  /\ last => consumer \in Closing \cup {"failing", "done"}

(* How far the turn is that the consumer follows.                          *)
TurnInv ==
  /\ consumer \in Busy \cup Closing => turn # NoTurn
  /\ consumer = "starting" => stage[turn] = "begun"
  /\ consumer \in {"initialising", "recognising", "revising", "ending"} =>
       stage[turn] = "speech"
  /\ consumer \in {"finishing", "finalising"} => stage[turn] = "ended"
  /\ consumer = "waiting" /\ vad.active => turn # NoTurn /\ stage[turn] = "speech"
  /\ consumer \in {"starting", "initialising"} =>
       vad.active /\ \E s \in Seq(Frame) : todo = <<Audio(s)>>
  /\ consumer \in {"recognising", "revising"} =>
       \/ todo = <<>> /\ vad.active
       \/ todo = <<Stop>> /\ ~vad.active
  /\ consumer \in Closing => todo = <<>> /\ ~vad.active

(* No turn is left behind.                                                 *)
EndInv ==
  /\ consumer = "failing" \/ reader = "reporting" => failed # {}
  /\ connected /\ failed = {} =>
       \A t \in 1 .. Len(stage) : stage[t] # "final" =>
         /\ t = turn
         /\ consumer \in Busy \cup Closing \/ (consumer = "waiting" /\ vad.active)

-----------------------------------------------------------------------------
(* The consumer's next stop, by what is left of the frame in hand.         *)
LEMMA GoOnNothing ==
  ASSUME NEW ends, GoOn(<<>>, ends)
  PROVE  /\ consumer' = (IF ends THEN "done" ELSE "waiting")
         /\ todo' = <<>> /\ NoCall /\ UNCHANGED said
BY DEF GoOn

LEMMA GoOnStop ==
  ASSUME NEW ends, GoOn(<<Stop>>, ends)
  PROVE  consumer' = "ending" /\ todo' = <<>> /\ NoCall /\ UNCHANGED said
<1>1. /\ <<Stop>> # <<>> /\ Head(<<Stop>>) = Stop /\ Tail(<<Stop>>) = <<>>
      /\ Stop.kind # "audio"
  BY DEF Stop
<1> QED
  BY <1>1 DEF GoOn

Recognises(s, rest) ==
  /\ consumer' = "recognising" /\ todo' = rest
  /\ Await(Call("accept", s))
  /\ said' = [said EXCEPT ![turn] = @ \o s]

LEMMA GoOnAudio ==
  ASSUME NEW ends, NEW s, NEW rest,
         \/ rest = <<>> /\ GoOn(<<Audio(s)>>, ends)
         \/ rest = <<Stop>> /\ GoOn(<<Audio(s), Stop>>, ends)
  PROVE  Recognises(s, rest)
<1> USE DEF Recognises
<1>1. /\ <<Audio(s)>> # <<>> /\ Head(<<Audio(s)>>) = Audio(s) /\ Tail(<<Audio(s)>>) = <<>>
      /\ <<Audio(s), Stop>> # <<>> /\ Head(<<Audio(s), Stop>>) = Audio(s)
      /\ Tail(<<Audio(s), Stop>>) = <<Stop>>
  OBVIOUS
<1>2. Audio(s).kind = "audio" /\ Audio(s).frames = s /\ Audio(s) # Stop
  BY DEF Audio, Stop
<1> QED
  BY <1>1, <1>2 DEF GoOn

-----------------------------------------------------------------------------
(* The detector.                                                           *)
LEMMA Windows ==
  /\ QueueFrames \in Nat \ {0} /\ PreRoll \in Nat \ {0} /\ Onset \in Nat \ {0}
  /\ Endpoint \in Nat \ {0} /\ MaxUtterance \in Nat \ {0} /\ ChunkFrames \in Nat \ {0}
  /\ MaxCaptures \in Nat /\ MaxFrames \in Nat
  /\ NoTurn = 0 /\ End \notin Frame /\ NoState \notin Seq(Frame)
BY VoiceAssumption

LEMMA LastOfType ==
  ASSUME NEW s \in Seq(Frame), NEW n \in Nat \ {0}
  PROVE  LastOf(s, n) \in Seq(Frame) /\ Len(LastOf(s, n)) <= n
<1>1. CASE Len(s) <= n
  BY <1>1 DEF LastOf
<1>2. CASE ~(Len(s) <= n)
  <2>1. Len(s) \in Nat /\ Len(s) - n + 1 \in 1 .. Len(s) + 1
    BY <1>2
  <2>2. /\ SubSeq(s, Len(s) - n + 1, Len(s)) \in Seq(Frame)
        /\ Len(SubSeq(s, Len(s) - n + 1, Len(s))) = n
    BY <1>2, <2>1
  <2> QED
    BY <1>2, <2>2 DEF LastOf
<1> QED
  BY <1>1, <1>2

(* What the detector makes of a frame when it listens: it keeps the frame, *)
(* or begins a turn with what it kept.                                     *)
Kept(f) == LastOf(Append(vad.preRoll, f), PreRoll)

Nothing(heard, f) ==
  /\ heard.actions = <<>> /\ ~heard.vad.active /\ heard.vad.onset < Onset
  /\ heard.vad.preRoll = Kept(f)
Begun(heard, s, f) ==
  /\ heard.actions = <<Start, Audio(s)>> /\ heard.vad.active /\ heard.vad.speech <= PreRoll
  /\ s = Kept(f) /\ heard.vad.preRoll = <<>>

LEMMA ListenHears ==
  ASSUME vad \in VadState, vad.silence < Endpoint, ~vad.active, vad.onset < Onset,
         NEW f \in Frame, NEW loud \in BOOLEAN
  PROVE  LET heard == Listen(f, loud) IN
         /\ heard.vad \in VadState /\ heard.vad.silence < Endpoint
         /\ Nothing(heard, f) \/ \E s \in Seq(Frame) : Begun(heard, s, f)
<1> USE Windows
<1> DEFINE kept == LastOf(Append(vad.preRoll, f), PreRoll)
           onset == IF loud THEN vad.onset + 1 ELSE 0
<1>1. Append(vad.preRoll, f) \in Seq(Frame)
  BY DEF VadState
<1> HIDE DEF kept
<1>2. kept \in Seq(Frame) /\ Len(kept) <= PreRoll /\ Len(kept) \in Nat
  <2>1. kept \in Seq(Frame) /\ Len(kept) <= PreRoll
    BY <1>1, LastOfType DEF kept
  <2> QED
    BY <2>1
<1>3. onset \in 0 .. Onset
  BY DEF VadState
<1>4. CASE onset < Onset
  <2> DEFINE next == [vad EXCEPT !.preRoll = kept, !.onset = onset]
  <2>1. Listen(f, loud) = [vad |-> next, actions |-> <<>>]
    BY <1>4 DEF Listen, kept
  <2>2. /\ next \in VadState /\ next.silence < Endpoint /\ ~next.active /\ next.onset < Onset
        /\ next.preRoll = kept
    BY <1>2, <1>3, <1>4 DEF VadState
  <2> HIDE DEF next
  <2> QED
    BY <2>1, <2>2 DEF Nothing, Kept, kept
<1>5. CASE ~(onset < Onset)
  <2> DEFINE next == [vad EXCEPT !.preRoll = <<>>, !.onset = onset, !.active = TRUE,
                                 !.speech = Len(kept)]
  <2>1. Listen(f, loud) = [vad |-> next, actions |-> <<Start, Audio(kept)>>]
    BY <1>5 DEF Listen, kept
  <2>2. /\ next \in VadState /\ next.silence < Endpoint /\ next.active /\ next.speech <= PreRoll
        /\ next.preRoll = <<>>
    <3>1. <<>> \in Seq(Frame) /\ Len(kept) \in 0 .. MaxUtterance + PreRoll
      BY <1>2
    <3> QED
      BY <1>2, <1>3, <3>1 DEF VadState
  <2> HIDE DEF next
  <2> QED
    BY <1>2, <2>1, <2>2 DEF Begun, Kept, kept
<1> QED
  BY <1>4, <1>5

Quieted(a, b, c) == [vad EXCEPT !.active = FALSE, !.onset = a, !.silence = b, !.speech = c]

LEMMA QuietedType ==
  ASSUME vad \in VadState,
         NEW a \in 0 .. Onset, NEW b \in 0 .. Endpoint, NEW c \in 0 .. MaxUtterance + PreRoll
  PROVE  /\ Quieted(a, b, c) \in VadState /\ ~Quieted(a, b, c).active
         /\ Quieted(a, b, c).onset = a /\ Quieted(a, b, c).silence = b
         /\ Quieted(a, b, c).preRoll = vad.preRoll
BY DEF VadState, Quieted

(* What it makes of a frame when it follows a turn: more of it, or the end. *)
More(heard, f) ==
  /\ heard.actions = <<Audio(<<f>>)>> /\ heard.vad.active /\ heard.vad.speech < MaxUtterance
  /\ heard.vad.preRoll = vad.preRoll
Over(heard, f) ==
  /\ heard.actions = <<Audio(<<f>>), Stop>> /\ ~heard.vad.active /\ heard.vad.onset < Onset
  /\ heard.vad.preRoll = vad.preRoll

LEMMA FollowHears ==
  ASSUME vad \in VadState, vad.silence < Endpoint, vad.active,
         vad.speech < MaxUtterance \/ vad.speech <= PreRoll,
         NEW f \in Frame, NEW loud \in BOOLEAN
  PROVE  LET heard == Follow(f, loud) IN
         /\ heard.vad \in VadState /\ heard.vad.silence < Endpoint
         /\ More(heard, f) \/ Over(heard, f)
<1> USE Windows
<1> DEFINE silence == IF loud THEN 0 ELSE vad.silence + 1
           speech  == vad.speech + 1
<1>1. silence \in 0 .. Endpoint /\ speech \in 0 .. MaxUtterance + PreRoll
  BY DEF VadState
<1> HIDE DEF silence, speech
<1>2. CASE silence < Endpoint /\ speech < MaxUtterance
  <2> DEFINE next == [vad EXCEPT !.silence = silence, !.speech = speech]
  <2>1. Follow(f, loud) = [vad |-> next, actions |-> <<Audio(<<f>>)>>]
    BY <1>2 DEF Follow, silence, speech
  <2>2. /\ next \in VadState /\ next.silence < Endpoint
        /\ next.active /\ next.speech < MaxUtterance /\ next.preRoll = vad.preRoll
    BY <1>1, <1>2 DEF VadState
  <2> HIDE DEF next
  <2> QED
    BY <2>1, <2>2 DEF More
<1>3. CASE ~(silence < Endpoint /\ speech < MaxUtterance)
  <2>1. Follow(f, loud) = [vad |-> Quieted(0, 0, 0), actions |-> <<Audio(<<f>>), Stop>>]
    BY <1>3 DEF Follow, Quieted, silence, speech
  <2>2. 0 \in 0 .. Onset /\ 0 \in 0 .. Endpoint /\ 0 \in 0 .. MaxUtterance + PreRoll
    OBVIOUS
  <2>3. /\ Quieted(0, 0, 0) \in VadState /\ ~Quieted(0, 0, 0).active
        /\ Quieted(0, 0, 0).onset = 0 /\ Quieted(0, 0, 0).silence = 0
        /\ Quieted(0, 0, 0).preRoll = vad.preRoll
    BY <2>2, QuietedType
  <2> QED
    BY <2>1, <2>3 DEF Over
<1> QED
  BY <1>2, <1>3

-----------------------------------------------------------------------------
(* What the consumer does with what it takes from the queue: the None ends *)
(* it or the turn, a frame is nothing, begins a turn, goes on with it or   *)
(* ends it.                                                                *)
Idle ==
  /\ ~vad.active /\ ~vad'.active /\ todo' = <<>> /\ NoCall
  /\ UNCHANGED <<turn, outcome>>

EndsIdle == Idle /\ consumer' = "done" /\ last' /\ vad'.preRoll = vad.preRoll

CutsOff ==
  /\ vad.active /\ ~vad'.active /\ vad'.preRoll = vad.preRoll
  /\ consumer' = "ending" /\ todo' = <<>> /\ NoCall /\ last'
  /\ UNCHANGED <<turn, outcome>>

HearsNothing ==
  /\ Idle /\ consumer' = "waiting" /\ ~last' /\ vad'.onset < Onset
  /\ vad'.preRoll = Kept(Head(queue))

BeginsTurn(s) ==
  /\ ~vad.active /\ vad'.active /\ vad'.speech <= PreRoll
  /\ BeginTurn(<<Audio(s)>>) /\ ~last'
  /\ s = Kept(Head(queue)) /\ vad'.preRoll = <<>>

GoesOn(f) ==
  /\ vad.active /\ vad'.active /\ vad'.speech < MaxUtterance /\ Recognises(<<f>>, <<>>) /\ ~last'
  /\ f = Head(queue) /\ vad'.preRoll = vad.preRoll
  /\ UNCHANGED <<turn, stage, partials, text>>

EndsTurn(f) ==
  /\ vad.active /\ ~vad'.active /\ vad'.onset < Onset /\ Recognises(<<f>>, <<Stop>>) /\ ~last'
  /\ f = Head(queue) /\ vad'.preRoll = vad.preRoll
  /\ UNCHANGED <<turn, stage, partials, text>>

Taken ==
  \/ EndsIdle \/ CutsOff \/ HearsNothing
  \/ \E s \in Seq(Frame) : BeginsTurn(s)
  \/ \E f \in Frame : GoesOn(f) \/ EndsTurn(f)

LEMMA TakeHandles ==
  ASSUME NetTypes, ConsumerTypes, VadTypes, CaptureInv, Take
  PROVE  /\ queue # <<>> /\ queue' = Tail(queue) /\ consumer = "waiting" /\ ~last
         /\ last' = (Head(queue) = End)
         /\ vad' \in VadState /\ vad'.silence < Endpoint
         /\ Taken
         /\ UNCHANGED <<net, reader, capturing, asr, failed, orphaned>>
<1>1. /\ queue # <<>> /\ queue' = Tail(queue) /\ consumer = "waiting"
      /\ last' = (Head(queue) = End)
      /\ UNCHANGED <<net, reader, capturing, asr, failed, orphaned>>
  BY DEF Take
<1>2. ~last /\ (~vad.active => vad.onset < Onset) /\ vad \in VadState
  BY <1>1 DEF CaptureInv, VadTypes, Closing
<1>3. CASE Head(queue) = End
  <2>1. Handle(ForceEnd, TRUE) /\ last'
    BY <1>1, <1>3 DEF Take
  <2>2. /\ vad' = [vad EXCEPT !.active = FALSE]
        /\ vad' \in VadState /\ ~vad'.active /\ vad'.silence < Endpoint
        /\ vad'.preRoll = vad.preRoll
    BY <1>2, <2>1 DEF Handle, ForceEnd, VadState, VadTypes
  <2>3. CASE vad.active
    <3>1. ForceEnd.actions = <<Stop>> /\ ~Begins(<<Stop>>)
      BY <2>3 DEF ForceEnd, Begins, Stop, Start
    <3>2. GoOn(<<Stop>>, TRUE) /\ UNCHANGED <<turn, stage, partials, text>>
      BY <2>1, <3>1 DEF Handle
    <3>3. CutsOff
      BY <2>1, <2>2, <2>3, <3>2, GoOnStop DEF CutsOff, outcome
    <3> QED
      BY <1>1, <1>2, <2>2, <3>3 DEF Taken
  <2>4. CASE ~vad.active
    <3>1. ForceEnd.actions = <<>> /\ ~Begins(<<>>)
      BY <2>4 DEF ForceEnd, Begins
    <3>2. GoOn(<<>>, TRUE) /\ UNCHANGED <<turn, stage, partials, text>>
      BY <2>1, <3>1 DEF Handle
    <3>3. EndsIdle
      BY <2>1, <2>2, <2>4, <3>2, GoOnNothing DEF EndsIdle, Idle, outcome
    <3> QED
      BY <1>1, <1>2, <2>2, <3>3 DEF Taken
  <2> QED
    BY <2>3, <2>4
<1>4. CASE Head(queue) # End
  <2>1. PICK loud \in BOOLEAN : Handle(Accept(Head(queue), loud), FALSE)
    BY <1>4 DEF Take
  <2> DEFINE f == Head(queue)
             heard == Accept(f, loud)
  <2>2. ~last' /\ f \in Frame
    <3>1. f \in Frame \cup {End}
      BY <1>1 DEF NetTypes
    <3> QED
      BY <1>1, <1>4, <3>1
  <2>3. vad' = heard.vad
    BY <2>1 DEF Handle
  <2>4. CASE ~vad.active
    <3>1. /\ heard.vad \in VadState /\ heard.vad.silence < Endpoint
          /\ Nothing(heard, f) \/ \E s \in Seq(Frame) : Begun(heard, s, f)
      BY <1>2, <2>2, <2>4, ListenHears DEF Accept, VadTypes
    <3> HIDE DEF heard
    <3>2. CASE Nothing(heard, f)
      <4>1. heard.actions = <<>> /\ ~Begins(<<>>)
        BY <3>2 DEF Nothing, Begins
      <4>2. GoOn(<<>>, FALSE) /\ UNCHANGED <<turn, stage, partials, text>>
        BY <2>1, <4>1 DEF Handle, heard
      <4>3. HearsNothing
        BY <2>2, <2>3, <2>4, <3>2, <4>2, GoOnNothing DEF HearsNothing, Idle, Nothing, outcome
      <4> QED
        BY <1>1, <1>2, <2>3, <3>1, <4>3 DEF Taken
    <3>3. ASSUME NEW s \in Seq(Frame), Begun(heard, s, f)
          PROVE  BeginsTurn(s)
      <4>1. /\ heard.actions = <<Start, Audio(s)>> /\ Begins(heard.actions)
            /\ Tail(heard.actions) = <<Audio(s)>>
        BY <3>3 DEF Begun, Begins
      <4>2. BeginTurn(<<Audio(s)>>)
        BY <2>1, <4>1 DEF Handle, heard
      <4> QED
        BY <2>2, <2>3, <2>4, <3>3, <4>2 DEF BeginsTurn, Begun
    <3> QED
      BY <1>1, <1>2, <2>3, <3>1, <3>2, <3>3 DEF Taken
  <2>5. CASE vad.active
    <3>1. /\ heard.vad \in VadState /\ heard.vad.silence < Endpoint
          /\ More(heard, f) \/ Over(heard, f)
      BY <1>2, <2>2, <2>5, FollowHears DEF Accept, VadTypes
    <3> HIDE DEF heard, f
    <3>2. Audio(<<f>>) # Start
      BY DEF Audio, Start
    <3>3. CASE More(heard, f)
      <4>1. heard.actions = <<Audio(<<f>>)>> /\ ~Begins(heard.actions)
        BY <3>2, <3>3 DEF More, Begins
      <4>2. GoOn(<<Audio(<<f>>)>>, FALSE) /\ UNCHANGED <<turn, stage, partials, text>>
        BY <2>1, <4>1 DEF Handle, heard, f
      <4>3. GoesOn(f)
        BY <2>2, <2>3, <2>5, <3>3, <4>2, GoOnAudio DEF GoesOn, More, f
      <4> QED
        BY <1>1, <1>2, <2>2, <2>3, <3>1, <4>3 DEF Taken
    <3>4. CASE Over(heard, f)
      <4>1. heard.actions = <<Audio(<<f>>), Stop>> /\ ~Begins(heard.actions)
        BY <3>2, <3>4 DEF Over, Begins
      <4>2. GoOn(<<Audio(<<f>>), Stop>>, FALSE) /\ UNCHANGED <<turn, stage, partials, text>>
        BY <2>1, <4>1 DEF Handle, heard, f
      <4>3. EndsTurn(f)
        BY <2>2, <2>3, <2>5, <3>4, <4>2, GoOnAudio DEF EndsTurn, Over, f
      <4> QED
        BY <1>1, <1>2, <2>2, <2>3, <3>1, <4>3 DEF Taken
    <3> QED
      BY <3>1, <3>3, <3>4
  <2> QED
    BY <2>4, <2>5
<1> QED
  BY <1>3, <1>4

(* What the consumer does with what is left of a frame, or when the        *)
(* recogniser has answered.                                                *)
Resumes ==
  \/ /\ vad.active /\ todo = <<>>
     /\ consumer' = "waiting" /\ todo' = <<>> /\ NoCall /\ UNCHANGED said
  \/ /\ ~vad.active /\ todo = <<Stop>>
     /\ consumer' = "ending" /\ todo' = <<>> /\ NoCall /\ UNCHANGED said
  \/ /\ vad.active
     /\ \E s \in Seq(Frame) : todo = <<Audio(s)>> /\ Recognises(s, <<>>)

LEMMA GoOnResumes ==
  ASSUME CaptureInv, TurnInv, consumer \in {"initialising", "recognising", "revising"},
         GoOn(todo, last)
  PROVE  ~last /\ Resumes
<1>1. ~last
  BY DEF CaptureInv, Closing
<1>2. CASE todo = <<>> /\ vad.active
  BY <1>1, <1>2, GoOnNothing DEF Resumes
<1>3. CASE todo = <<Stop>> /\ ~vad.active
  BY <1>1, <1>3, GoOnStop DEF Resumes
<1>4. ASSUME NEW s \in Seq(Frame), todo = <<Audio(s)>>, vad.active
      PROVE  Resumes
  <2>1. GoOn(<<Audio(s)>>, last)
    BY <1>4
  <2>2. Recognises(s, <<>>)
    BY <2>1, GoOnAudio
  <2> QED
    BY <1>4, <2>2 DEF Resumes
<1> QED
  BY <1>1, <1>2, <1>3, <1>4 DEF TurnInv

Answers ==
  \/ /\ consumer \in {"initialising", "recognising"} /\ Resumes
     /\ UNCHANGED <<text, failed>>
  \/ /\ consumer = "recognising" /\ consumer' = "revising" /\ NoCall
     /\ UNCHANGED <<todo, text, said, failed>>
  \/ /\ consumer = "finishing" /\ consumer' = "finalising" /\ NoCall
     /\ \E s \in Seq(Frame) : text' = [text EXCEPT ![turn] = s]
     /\ UNCHANGED <<todo, said, failed>>
  \/ /\ consumer' = "failing" /\ NoCall
     /\ failed' = failed \cup {capture}
     /\ UNCHANGED <<todo, text, said>>

LEMMA AnsweredIs ==
  ASSUME CallTypes, CallsInv, CaptureInv, TurnInv, NEW c \in calls, Answered(c)
  PROVE  /\ consumer \in DOMAIN Awaited /\ Answers
         /\ UNCHANGED <<net, reader, ingress, vad, last, turn, orphaned, asr, stage, partials>>
<1>1. /\ consumer \in {"initialising", "recognising", "finishing"}
      /\ c.op = Awaited[consumer] /\ c.frames \in Seq(Frame)
      /\ consumer = "initialising" => c.op = "start"
      /\ consumer = "recognising" => c.op = "accept"
      /\ consumer = "finishing" => c.op = "finish"
      /\ c.at = "changed" => c.op = "accept"
  BY DEF Answered, CallsInv, Awaited, CallTypes, RecogniserCall
<1>2. UNCHANGED <<net, reader, ingress, vad, last, turn, orphaned, asr, stage, partials>>
  BY DEF Answered
<1>3. CASE /\ c.at = "changed" \/ (c.at = "returned" /\ c.op # "finish")
           /\ GoOn(todo, last)
           /\ UNCHANGED <<text, failed>>
  <2>1. consumer \in {"initialising", "recognising"}
    BY <1>1, <1>3
  <2> QED
    BY <1>1, <1>2, <1>3, <2>1, GoOnResumes DEF Answers, Awaited
<1>4. CASE ~(GoOn(todo, last) /\ UNCHANGED <<text, failed>>)
  BY <1>1, <1>2, <1>4 DEF Answered, Answers, Awaited
<1>5. CASE /\ GoOn(todo, last) /\ UNCHANGED <<text, failed>>
           /\ ~(c.at = "changed" \/ (c.at = "returned" /\ c.op # "finish"))
  BY <1>1, <1>2, <1>5 DEF Answered, Answers, Awaited
<1> QED
  BY <1>3, <1>4, <1>5

Finishes ==
  /\ connected /\ consumer = "finalising"
  /\ stage' = [stage EXCEPT ![turn] = "final"] /\ turn' = NoTurn
  /\ consumer' = (IF last THEN "done" ELSE "waiting")
  /\ todo' = <<>> /\ NoCall
  /\ UNCHANGED <<net, reader, ingress, vad, last, orphaned, asr, partials, text, said, failed>>

LEMMA FinalFinishes ==
  ASSUME TurnInv, Final
  PROVE  Finishes
<1>1. consumer = "finalising" /\ todo = <<>>
  BY DEF Final, TurnInv, Closing
<1>2. GoOn(<<>>, last)
  BY <1>1 DEF Final
<1> QED
  BY <1>1, <1>2, GoOnNothing DEF Final, Finishes, Tell

-----------------------------------------------------------------------------
(* The steps.                                                              *)
Types == NetTypes /\ ConsumerTypes /\ VadTypes /\ CallTypes

VInv == Types /\ CallsInv /\ CaptureInv /\ TurnInv /\ EndInv

LEMMA QueueAppend ==
  ASSUME NEW S, NEW q \in Seq(S), NEW e \in S
  PROVE  /\ Append(q, e) \in Seq(S) /\ Len(Append(q, e)) = Len(q) + 1
         /\ DOMAIN Append(q, e) = 1 .. Len(q) + 1 /\ DOMAIN q = 1 .. Len(q) /\ Len(q) \in Nat
         /\ \A i \in 1 .. Len(q) : Append(q, e)[i] = q[i]
         /\ Append(q, e)[Len(q) + 1] = e
OBVIOUS

LEMMA QueueTail ==
  ASSUME NEW S, NEW q \in Seq(S), q # <<>>
  PROVE  /\ Tail(q) \in Seq(S) /\ Len(Tail(q)) = Len(q) - 1 /\ Len(q) \in Nat \ {0}
         /\ DOMAIN Tail(q) = 1 .. Len(q) - 1 /\ DOMAIN q = 1 .. Len(q)
         /\ \A i \in 1 .. Len(q) - 1 : Tail(q)[i] = q[i + 1]
         /\ Head(q) = q[1] /\ q[1] \in S
OBVIOUS

LEMMA CaptureStep ==
  ASSUME VInv, [Next]_vars
  PROVE  CaptureInv'
<1> USE DEF CaptureInv, ingress, mind, net, Busy, Closing
<1> DEFINE Q == Frame \cup {End}
<1>q. queue \in Seq(Q) /\ NetTypes /\ CaptureInv /\ ConsumerTypes /\ VadTypes
  BY DEF VInv, Types, NetTypes
<1>1. CASE CaptureStart
  BY <1>1 DEF CaptureStart
<1>2. CASE Binary
  <2> DEFINE f == [capture |-> capture, index |-> frames + 1]
  <2>1. f \in Frame /\ f # End
    BY <1>2, <1>q, Windows DEF Binary, NetTypes, Frame
  <2> HIDE DEF f
  <2>2. CASE queue' = Append(queue, f) /\ UNCHANGED <<capturing, reader, failed>>
    BY <1>q, <1>2, <2>1, <2>2, QueueAppend DEF Binary
  <2>3. CASE ~capturing' /\ queue' = <<>> /\ reader' = "reporting"
    BY <1>q, <1>2, <2>3 DEF Binary
  <2> QED
    BY <1>2, <2>2, <2>3 DEF Binary, f
<1>3. CASE CaptureEnd
  <2>1. ~capturing' /\ ~last /\ \A i \in DOMAIN queue : queue[i] # End
    BY <1>3, <1>q DEF CaptureEnd
  <2>2. CASE queue' = Append(queue, End) /\ reader' = "joining"
    BY <1>q, <1>3, <2>1, <2>2, QueueAppend DEF CaptureEnd
  <2>3. CASE reader' = "putting" /\ UNCHANGED queue
    BY <1>q, <1>3, <2>1, <2>3 DEF CaptureEnd
  <2> QED
    BY <1>3, <2>2, <2>3 DEF CaptureEnd
<1>4. CASE Backpressure
  BY <1>q, <1>4 DEF Backpressure, Close
<1>5. CASE PutEnd
  BY <1>q, <1>5, QueueAppend DEF PutEnd
<1>6. CASE Joined
  BY <1>q, <1>6 DEF Joined
<1>7. CASE Disconnect
  BY <1>q, <1>7 DEF Disconnect
<1>8. CASE Leave
  BY <1>q, <1>8 DEF Leave, Close
<1>9. CASE Take
  <2>1. /\ queue # <<>> /\ queue' = Tail(queue) /\ consumer = "waiting" /\ ~last
        /\ last' = (Head(queue) = End) /\ Taken
        /\ UNCHANGED <<net, reader, capturing, asr, failed, orphaned>>
    BY <1>q, <1>9, TakeHandles
  <2>2. \/ consumer' \in {"waiting", "starting", "recognising"} /\ ~last'
        \/ consumer' \in {"ending", "done"} /\ last'
    BY <2>1 DEF Taken, EndsIdle, CutsOff, HearsNothing, BeginsTurn, BeginTurn, GoesOn, EndsTurn,
                Recognises
  <2>3. last' => queue' = <<>> /\ ~capturing
    <3> SUFFICES ASSUME last' PROVE queue' = <<>> /\ ~capturing
      OBVIOUS
    <3>0. Head(queue) = End
      BY <2>1
    <3>1. queue[1] = End /\ 1 \in DOMAIN queue
      BY <1>q, <2>1, <3>0, QueueTail
    <3>2. Len(queue) = 1
      BY <1>q, <3>1
    <3> QED
      BY <1>q, <2>1, <3>1, <3>2, QueueTail
  <2>4. /\ \A i \in DOMAIN queue' : queue'[i] = End => i = Len(queue')
        /\ (\A i \in DOMAIN queue : queue[i] # End) =>
             ~last' /\ \A i \in DOMAIN queue' : queue'[i] # End
    <3>1. /\ Len(queue') = Len(queue) - 1 /\ Len(queue) \in Nat \ {0}
          /\ DOMAIN queue' = 1 .. Len(queue) - 1 /\ DOMAIN queue = 1 .. Len(queue)
          /\ \A i \in 1 .. Len(queue) - 1 : queue'[i] = queue[i + 1]
          /\ Head(queue) = queue[1]
      BY <1>q, <2>1, QueueTail
    <3>2. ASSUME \A i \in DOMAIN queue : queue[i] # End PROVE ~last'
      <4>1. queue[1] # End
        BY <3>1, <3>2
      <4>2. Head(queue) # End
        BY <3>1, <4>1
      <4> QED
        BY <2>1, <4>2
    <3>3. ASSUME NEW i \in DOMAIN queue'
          PROVE  /\ queue'[i] = End => i = Len(queue')
                 /\ (\A j \in DOMAIN queue : queue[j] # End) => queue'[i] # End
      BY <1>q, <3>1
    <3> QED
      BY <3>2, <3>3
  <2> QED
    BY <1>q, <2>1, <2>2, <2>3, <2>4
<1>10. CASE SpeechStart
  BY <1>q, <1>10 DEF SpeechStart
<1>11. CASE Partial
  <2>1. ~last /\ consumer' \in {"waiting", "ending", "recognising"}
    BY <1>11, GoOnResumes DEF Partial, Resumes, Recognises, VInv
  <2> QED
    BY <1>q, <1>11, <2>1 DEF Partial
<1>12. CASE SpeechEnd
  BY <1>q, <1>12 DEF SpeechEnd
<1>13. CASE Final
  <2>1. Finishes
    BY <1>13, FinalFinishes DEF VInv
  <2> QED
    BY <1>q, <2>1 DEF Finishes
<1>14. ASSUME NEW c \in calls, Answered(c)
       PROVE  CaptureInv'
  <2>1. /\ consumer \in DOMAIN Awaited /\ Answers
        /\ UNCHANGED <<net, reader, ingress, vad, last, turn, orphaned, asr, stage, partials>>
    BY <1>14, AnsweredIs DEF VInv, Types
  <2>2. consumer \in {"initialising", "recognising", "finishing"}
    BY <2>1 DEF Awaited
  <2>3. \/ consumer' \in {"waiting", "ending", "recognising", "revising"} /\ ~last
        \/ consumer = "finishing" /\ consumer' = "finalising"
        \/ consumer' = "failing"
    BY <2>1, <1>q DEF Answers, Resumes, Recognises
  <2> QED
    BY <1>q, <2>1, <2>2, <2>3
<1>15. CASE Fail
  BY <1>q, <1>15 DEF Fail
<1>16. CASE Die
  BY <1>q, <1>16 DEF Die
<1>17. ASSUME NEW c \in calls, ThreadRuns(c) \/ ThreadRaises(c)
       PROVE  CaptureInv'
  BY <1>q, <1>17 DEF ThreadRuns, ThreadRaises
<1>18. CASE UNCHANGED vars
  BY <1>q, <1>18 DEF vars
<1> QED
  BY <1>1, <1>2, <1>3, <1>4, <1>5, <1>6, <1>7, <1>8, <1>9, <1>10, <1>11, <1>12, <1>13, <1>14,
     <1>15, <1>16, <1>17, <1>18 DEF Next, Consume

(* The turn that the consumer follows is as far as the browser was told.   *)
LEMMA TurnStep ==
  ASSUME VInv, [Next]_vars
  PROVE  TurnInv'
<1> USE DEF TurnInv, ingress, mind, net, outcome, Busy, Closing
<1>q. /\ NetTypes /\ CaptureInv /\ ConsumerTypes /\ VadTypes /\ CallTypes /\ CallsInv /\ TurnInv
      /\ NoTurn = 0
      /\ turn # NoTurn => turn \in DOMAIN stage /\ turn \in 1 .. Len(stage)
  BY Windows DEF VInv, Types, ConsumerTypes
<1>1. CASE CaptureStart
  BY <1>q, <1>1 DEF CaptureStart, ResetVad
<1>2. CASE Binary \/ CaptureEnd \/ PutEnd \/ Joined \/ Disconnect
  BY <1>q, <1>2 DEF Binary, CaptureEnd, PutEnd, Joined, Disconnect
<1>3. CASE Backpressure \/ Leave
  <2>1. consumer' = "done"
    BY <1>3 DEF Backpressure, Leave, Close
  <2> QED
    BY <2>1
<1>4. CASE Take
  <2>1. /\ consumer = "waiting" /\ Taken
    BY <1>q, <1>4, TakeHandles
  <2>2. CASE EndsIdle \/ HearsNothing
    BY <1>q, <2>2 DEF EndsIdle, HearsNothing, Idle
  <2>3. CASE CutsOff
    BY <1>q, <2>1, <2>3 DEF CutsOff
  <2>4. ASSUME NEW s \in Seq(Frame), BeginsTurn(s)
        PROVE  TurnInv'
    <3>1. /\ consumer' = "starting" /\ turn' = Len(stage) + 1 /\ stage'[turn'] = "begun"
          /\ todo' = <<Audio(s)>> /\ vad'.active
      BY <2>4 DEF BeginsTurn, BeginTurn, ConsumerTypes, VInv, Types
    <3>2. turn' # NoTurn
      BY <1>q, <3>1 DEF ConsumerTypes
    <3> QED
      BY <3>1, <3>2
  <2>5. ASSUME NEW f \in Frame, GoesOn(f) \/ EndsTurn(f)
        PROVE  TurnInv'
    BY <1>q, <2>1, <2>5 DEF GoesOn, EndsTurn, Recognises
  <2> QED
    BY <2>1, <2>2, <2>3, <2>4, <2>5 DEF Taken
<1>5. CASE SpeechStart
  <2>1. /\ consumer' = "initialising" /\ stage' = [stage EXCEPT ![turn] = "speech"]
        /\ UNCHANGED <<turn, todo, vad>> /\ consumer = "starting"
    BY <1>5 DEF SpeechStart, Tell
  <2>2. stage'[turn] = "speech"
    BY <1>q, <2>1 DEF ConsumerTypes
  <2> QED
    BY <1>q, <2>1, <2>2
<1>6. CASE Partial
  <2>1. Resumes /\ consumer = "revising" /\ UNCHANGED <<turn, stage, vad>>
    BY <1>6, GoOnResumes DEF Partial, VInv
  <2> QED
    BY <1>q, <2>1 DEF Resumes, Recognises
<1>7. CASE SpeechEnd
  <2>1. /\ consumer' = "finishing" /\ stage' = [stage EXCEPT ![turn] = "ended"]
        /\ UNCHANGED <<turn, todo, vad>> /\ consumer = "ending"
    BY <1>7 DEF SpeechEnd, Tell
  <2>2. stage'[turn] = "ended"
    BY <1>q, <2>1 DEF ConsumerTypes
  <2> QED
    BY <1>q, <2>1, <2>2
<1>8. CASE Final
  <2>1. Finishes
    BY <1>8, FinalFinishes DEF VInv
  <2> QED
    BY <1>q, <2>1 DEF Finishes
<1>9. ASSUME NEW c \in calls, Answered(c)
      PROVE  TurnInv'
  <2>1. Answers /\ UNCHANGED <<turn, stage, vad>>
    BY <1>9, AnsweredIs DEF VInv, Types
  <2> QED
    BY <1>q, <2>1 DEF Answers, Resumes, Recognises
<1>10. CASE Fail \/ Die
  BY <1>q, <1>10 DEF Fail, Die
<1>11. ASSUME NEW c \in calls, ThreadRuns(c) \/ ThreadRaises(c)
       PROVE  TurnInv'
  BY <1>q, <1>11 DEF ThreadRuns, ThreadRaises
<1>12. CASE UNCHANGED vars
  BY <1>q, <1>12 DEF vars
<1> QED
  BY <1>1, <1>2, <1>3, <1>4, <1>5, <1>6, <1>7, <1>8, <1>9, <1>10, <1>11, <1>12 DEF Next, Consume

(* What became of the calls: dropped, made, or run by their threads.       *)
LEMMA NoCallKeeps ==
  ASSUME CallsInv, NoCall
  PROVE  CallsInv'
BY DEF CallsInv, NoCall

LEMMA CancelKeeps ==
  ASSUME CallTypes, CallsInv, CancelConsumer
  PROVE  CallsInv'
<1>1. ASSUME NEW d \in calls'
      PROVE  ~d.live /\ (d.at = "changed" => d.op = "accept")
  <2>1. CASE calls' = {c \in calls : ~c.live}
    BY <1>1, <2>1 DEF CallsInv
  <2>2. CASE calls' = {[c EXCEPT !.live = FALSE] : c \in {c \in calls : c.at \notin Settled}}
    <3>1. PICK c \in calls : d = [c EXCEPT !.live = FALSE]
      BY <1>1, <2>2
    <3>2. c \in RecogniserCall
      BY DEF CallTypes
    <3> QED
      BY <3>1, <3>2 DEF RecogniserCall, CallsInv
  <2> QED
    BY <2>1, <2>2 DEF CancelConsumer
<1> QED
  BY <1>1 DEF CallsInv

LEMMA AwaitKeeps ==
  ASSUME CallsInv, NEW op, NEW s, Await(Call(op, s)),
         consumer' \in DOMAIN Awaited, op = Awaited[consumer']
  PROVE  CallsInv'
<1>1. /\ Call(op, s).live = TRUE /\ Call(op, s).op = op /\ Call(op, s).at = "queued"
  BY DEF Call
<1>2. calls' = {d \in calls : ~d.live} \cup {Call(op, s)}
  BY DEF Await
<1> QED
  BY <1>1, <1>2 DEF CallsInv

LEMMA BecomesKeeps ==
  ASSUME CallsInv, NEW c \in calls, NEW where, NEW s, Becomes(c, where, s),
         where = "changed" => c.op = "accept", UNCHANGED consumer,
         CallTypes
  PROVE  CallsInv'
<1> DEFINE d == [c EXCEPT !.at = where, !.frames = s]
<1>1. c \in RecogniserCall
  BY DEF CallTypes
<1>2. d.op = c.op /\ d.live = c.live /\ d.at = where
  BY <1>1 DEF RecogniserCall
<1>3. calls' \subseteq (calls \ {c}) \cup {d}
  BY DEF Becomes
<1> HIDE DEF d
<1> QED
  BY <1>2, <1>3 DEF CallsInv

Where ==
  {"queued", "cleared", "extended", "holding", "transcribed", "read"} \cup Settled

(* A thread's step moves its call on, and only an accept reports a change. *)
Moves(c) ==
  \E where \in Where, s \in Seq(Frame) :
    Becomes(c, where, s) /\ (where = "changed" => c.op = "accept")

LEMMA MovesTo ==
  ASSUME NEW c, NEW where \in Where, NEW s \in Seq(Frame), Becomes(c, where, s),
         where = "changed" => c.op = "accept"
  PROVE  Moves(c)
BY DEF Moves

LEMMA NoStateLeftMoves ==
  ASSUME asr \in Asr, NEW c, NoStateLeft(c)
  PROVE  Moves(c) /\ asr' \in Asr
<1>1. <<>> \in Seq(Frame) /\ "raised" \in Where
  BY DEF Where, Settled
<1> QED
  BY <1>1, MovesTo DEF NoStateLeft

LEMMA TranscribeMoves ==
  ASSUME asr \in Asr, NEW c, c.frames \in Seq(Frame), Transcribe(c)
  PROVE  Moves(c) /\ asr' \in Asr
<1>1. <<>> \in Seq(Frame) /\ "transcribed" \in Where
  BY DEF Where, Settled
<1>2. asr.state \o c.frames \in Seq(Frame)
  BY DEF Asr, Transcribe
<1>3. asr' \in Asr
  BY <1>2 DEF Asr, Transcribe
<1> QED
  BY <1>1, <1>3, MovesTo DEF Transcribe

LEMMA ThreadMoves ==
  ASSUME CallTypes, NEW c \in calls, ThreadRuns(c) \/ ThreadRaises(c)
  PROVE  /\ Moves(c) /\ asr' \in Asr
         /\ UNCHANGED <<net, reader, ingress, vad, consumer, todo, last, turn, outcome, failed,
                        orphaned>>
<1> USE DEF Where, Settled
<1>1. c.frames \in Seq(Frame) /\ asr \in Asr /\ <<>> \in Seq(Frame)
  BY DEF CallTypes, RecogniserCall, Asr
<1>2. UNCHANGED <<net, reader, ingress, vad, consumer, todo, last, turn, outcome, failed, orphaned>>
  BY DEF ThreadRuns, ThreadRaises
<1> SUFFICES Moves(c) /\ asr' \in Asr
  BY <1>2
<1>3. CASE ThreadRaises(c)
  BY <1>1, <1>3, MovesTo DEF ThreadRaises
<1>4. CASE c.op = "start" /\ StartTurn(c)
  <2>1. asr' \in Asr
    BY <1>1, <1>4 DEF StartTurn, Asr
  <2> QED
    BY <1>1, <1>4, <2>1, MovesTo DEF StartTurn
<1>5. CASE c.op = "accept" /\ AcceptPcm(c)
  <2>1. CASE c.at \in {"queued", "holding", "transcribed"} /\ NoStateLeft(c)
    BY <1>1, <2>1, NoStateLeftMoves
  <2>2. CASE /\ asr' = [asr EXCEPT !.pending = @ \o c.frames]
             /\ Becomes(c, "extended", <<>>)
    <3>1. asr.pending \o c.frames \in Seq(Frame)
      BY <1>1 DEF Asr
    <3>2. asr' = [asr EXCEPT !.pending = asr.pending \o c.frames]
      BY <2>2
    <3>3. asr' \in Asr
      BY <1>1, <3>1, <3>2 DEF Asr
    <3> QED
      BY <1>1, <2>2, <3>3, MovesTo
  <2>3. CASE /\ Len(asr.pending) >= ChunkFrames
             /\ asr' = [asr EXCEPT !.pending = SubSeq(@, ChunkFrames + 1, Len(@))]
             /\ Becomes(c, "holding", SubSeq(asr.pending, 1, ChunkFrames))
    <3>1. /\ asr.pending \in Seq(Frame) /\ Len(asr.pending) \in Nat /\ ChunkFrames \in Nat
      BY <1>1, Windows DEF Asr
    <3>2. /\ SubSeq(asr.pending, ChunkFrames + 1, Len(asr.pending)) \in Seq(Frame)
          /\ SubSeq(asr.pending, 1, ChunkFrames) \in Seq(Frame)
      BY <2>3, <3>1
    <3>3. asr' \in Asr
      BY <1>1, <2>3, <3>2 DEF Asr
    <3> DEFINE chunk == SubSeq(asr.pending, 1, ChunkFrames)
    <3>4. chunk \in Seq(Frame) /\ Becomes(c, "holding", chunk)
      BY <2>3, <3>2
    <3> HIDE DEF chunk
    <3> QED
      BY <3>3, <3>4, MovesTo
  <2>4. CASE Transcribe(c)
    BY <1>1, <2>4, TranscribeMoves
  <2>5. CASE UNCHANGED asr /\ (Becomes(c, "returned", <<>>) \/ Becomes(c, "changed", <<>>))
    BY <1>1, <1>5, <2>5, MovesTo
  <2> QED
    BY <1>5, <2>1, <2>2, <2>3, <2>4, <2>5 DEF AcceptPcm
<1>6. CASE c.op = "finish" /\ Finish(c)
  <2>1. CASE UNCHANGED asr /\ (Becomes(c, "returned", <<>>) \/ Becomes(c, "holding", asr.pending))
    BY <1>1, <2>1, MovesTo DEF Asr
  <2>2. CASE NoStateLeft(c)
    BY <1>1, <2>2, NoStateLeftMoves
  <2>3. CASE Transcribe(c)
    BY <1>1, <2>3, TranscribeMoves
  <2>4. CASE asr.state # NoState /\ Becomes(c, "read", asr.state) /\ UNCHANGED asr
    BY <1>1, <2>4, MovesTo DEF Asr
  <2>5. CASE /\ asr' = [pending |-> <<>>, state |-> NoState]
             /\ Becomes(c, "returned", c.frames)
    BY <1>1, <2>5, MovesTo DEF Asr
  <2> QED
    BY <1>6, <2>1, <2>2, <2>3, <2>4, <2>5 DEF Finish
<1> QED
  BY <1>3, <1>4, <1>5, <1>6 DEF ThreadRuns

(* The recogniser is called for the consumer that waits for it.            *)
LEMMA CallsStep ==
  ASSUME VInv, [Next]_vars
  PROVE  CallsInv'
<1> USE DEF Awaited, ingress, mind, net, outcome
<1>q. CallTypes /\ CallsInv
  BY DEF VInv, Types
<1>1. CASE CaptureStart
  BY <1>q, <1>1, CancelKeeps DEF CaptureStart
<1>2. CASE Binary \/ CaptureEnd \/ PutEnd \/ Joined \/ Disconnect
  BY <1>q, <1>2 DEF Binary, CaptureEnd, PutEnd, Joined, Disconnect, CallsInv
<1>3. CASE Backpressure \/ Leave
  BY <1>q, <1>3, CancelKeeps DEF Backpressure, Leave, Close
<1>4. CASE Take
  <2>1. Taken
    BY <1>4, TakeHandles DEF VInv, Types
  <2>2. CASE EndsIdle \/ HearsNothing \/ CutsOff
    BY <1>q, <2>2, NoCallKeeps DEF EndsIdle, HearsNothing, CutsOff, Idle
  <2>3. ASSUME NEW s \in Seq(Frame), BeginsTurn(s)
        PROVE  CallsInv'
    BY <1>q, <2>3, NoCallKeeps DEF BeginsTurn, BeginTurn
  <2>4. ASSUME NEW f \in Frame, GoesOn(f) \/ EndsTurn(f)
        PROVE  CallsInv'
    BY <1>q, <2>4, AwaitKeeps DEF GoesOn, EndsTurn, Recognises
  <2> QED
    BY <2>1, <2>2, <2>3, <2>4 DEF Taken
<1>5. CASE SpeechStart \/ SpeechEnd
  BY <1>q, <1>5, AwaitKeeps DEF SpeechStart, SpeechEnd
<1>6. ASSUME Resumes PROVE CallsInv'
  BY <1>q, <1>6, NoCallKeeps, AwaitKeeps DEF Resumes, Recognises
<1>7. CASE Partial
  BY <1>6, <1>7, GoOnResumes DEF Partial, VInv
<1>8. CASE Final
  BY <1>q, <1>8, FinalFinishes, NoCallKeeps DEF VInv, Finishes
<1>9. ASSUME NEW c \in calls, Answered(c)
      PROVE  CallsInv'
  BY <1>6, <1>9, <1>q, AnsweredIs, NoCallKeeps DEF VInv, Types, Answers
<1>10. CASE Fail \/ Die
  BY <1>q, <1>10 DEF Fail, Die, CallsInv
<1>11. ASSUME NEW c \in calls, ThreadRuns(c) \/ ThreadRaises(c)
       PROVE  CallsInv'
  BY <1>q, <1>11, ThreadMoves, BecomesKeeps DEF Moves
<1>12. CASE UNCHANGED vars
  BY <1>q, <1>12 DEF vars, CallsInv
<1> QED
  BY <1>1, <1>2, <1>3, <1>4, <1>5, <1>7, <1>8, <1>9, <1>10, <1>11, <1>12 DEF Next, Consume

(* Types.                                                                  *)
LEMMA CancelType ==
  ASSUME CallTypes, CancelConsumer
  PROVE  calls' \subseteq RecogniserCall
<1>1. CASE calls' = {c \in calls : ~c.live}
  BY <1>1 DEF CallTypes
<1>2. CASE calls' = {[c EXCEPT !.live = FALSE] : c \in {c \in calls : c.at \notin Settled}}
  <2>1. ASSUME NEW c \in calls PROVE [c EXCEPT !.live = FALSE] \in RecogniserCall
    BY DEF CallTypes, RecogniserCall
  <2> QED
    BY <1>2, <2>1
<1> QED
  BY <1>1, <1>2 DEF CancelConsumer

LEMMA AwaitType ==
  ASSUME CallTypes, NEW op \in {"start", "accept", "finish"}, NEW s \in Seq(Frame), turn \in Nat,
         Await(Call(op, s))
  PROVE  calls' \subseteq RecogniserCall
<1>1. Call(op, s) \in RecogniserCall
  BY DEF Call, RecogniserCall
<1> QED
  BY <1>1 DEF Await, CallTypes

LEMMA NoCallType ==
  ASSUME CallTypes, NoCall
  PROVE  calls' \subseteq RecogniserCall
BY DEF NoCall, CallTypes

LEMMA MovesType ==
  ASSUME CallTypes, NEW c \in calls, Moves(c)
  PROVE  calls' \subseteq RecogniserCall
<1>1. PICK where \in Where, s \in Seq(Frame) : Becomes(c, where, s)
  BY DEF Moves
<1> DEFINE d == [c EXCEPT !.at = where, !.frames = s]
<1>2. d \in RecogniserCall
  BY DEF CallTypes, RecogniserCall, Where
<1>3. calls' \subseteq (calls \ {c}) \cup {d}
  BY <1>1 DEF Becomes
<1> HIDE DEF d
<1> QED
  BY <1>2, <1>3 DEF CallTypes

LEMMA CallTypesStep ==
  ASSUME VInv, [Next]_vars
  PROVE  CallTypes'
<1> USE DEF ingress, mind, net, outcome
<1>q. CallTypes /\ turn \in Nat /\ <<>> \in Seq(Frame) /\ CallsInv /\ CaptureInv /\ TurnInv
  BY DEF VInv, Types, ConsumerTypes
<1>a. SUFFICES \/ calls' \subseteq RecogniserCall /\ UNCHANGED asr
               \/ calls' \subseteq RecogniserCall /\ asr' \in Asr
  BY <1>q DEF CallTypes
<1>1. CASE CaptureStart
  BY <1>q, <1>1, CancelType DEF CaptureStart
<1>2. CASE Binary \/ CaptureEnd \/ PutEnd \/ Joined \/ Disconnect
  BY <1>q, <1>2 DEF Binary, CaptureEnd, PutEnd, Joined, Disconnect, CallTypes
<1>3. CASE Backpressure \/ Leave
  BY <1>q, <1>3, CancelType DEF Backpressure, Leave, Close
<1>4. ASSUME NEW s \in Seq(Frame), NEW rest, Recognises(s, rest)
      PROVE  calls' \subseteq RecogniserCall
  BY <1>q, <1>4, AwaitType DEF Recognises
<1>5. CASE Take
  <2>1. Taken /\ UNCHANGED asr
    BY <1>5, TakeHandles DEF VInv, Types
  <2>2. CASE EndsIdle \/ HearsNothing \/ CutsOff
    BY <1>q, <2>1, <2>2, NoCallType DEF EndsIdle, HearsNothing, CutsOff, Idle
  <2>3. ASSUME NEW s \in Seq(Frame), BeginsTurn(s)
        PROVE  calls' \subseteq RecogniserCall
    BY <1>q, <2>3, NoCallType DEF BeginsTurn, BeginTurn
  <2>4. ASSUME NEW f \in Frame, GoesOn(f) \/ EndsTurn(f)
        PROVE  calls' \subseteq RecogniserCall
    <3>1. <<f>> \in Seq(Frame)
      OBVIOUS
    <3> QED
      BY <1>4, <2>4, <3>1 DEF GoesOn, EndsTurn
  <2> QED
    BY <2>1, <2>2, <2>3, <2>4 DEF Taken
<1>6. CASE SpeechStart \/ SpeechEnd
  BY <1>q, <1>6, AwaitType DEF SpeechStart, SpeechEnd
<1>7. ASSUME Resumes PROVE calls' \subseteq RecogniserCall
  BY <1>q, <1>4, <1>7, NoCallType DEF Resumes
<1>8. CASE Partial
  BY <1>q, <1>7, <1>8, GoOnResumes DEF Partial
<1>9. CASE Final
  BY <1>q, <1>9, FinalFinishes, NoCallType DEF Finishes
<1>10. ASSUME NEW c \in calls, Answered(c)
       PROVE  calls' \subseteq RecogniserCall /\ UNCHANGED asr
  BY <1>q, <1>7, <1>10, AnsweredIs, NoCallType DEF Answers
<1>11. CASE Fail \/ Die
  BY <1>q, <1>11 DEF Fail, Die, CallTypes
<1>12. ASSUME NEW c \in calls, ThreadRuns(c) \/ ThreadRaises(c)
       PROVE  calls' \subseteq RecogniserCall /\ asr' \in Asr
  BY <1>q, <1>12, ThreadMoves, MovesType
<1>13. CASE UNCHANGED vars
  BY <1>q, <1>13 DEF vars, CallTypes
<1> QED
  BY <1>1, <1>2, <1>3, <1>5, <1>6, <1>8, <1>9, <1>10, <1>11, <1>12, <1>13 DEF Next, Consume

LEMMA NetTypesStep ==
  ASSUME VInv, [Next]_vars
  PROVE  NetTypes'
<1> USE DEF NetTypes, ingress, mind, net, outcome, HasRoom
<1>q. /\ NetTypes /\ queue \in Seq(Frame \cup {End}) /\ CallsInv /\ CaptureInv /\ TurnInv
      /\ <<>> \in Seq(Frame \cup {End}) /\ Len(<<>>) = 0 /\ Len(queue) \in Nat
      /\ consumer # "done" => capture \in 1 .. MaxCaptures
      /\ capturing => capture \in 1 .. MaxCaptures
      /\ QueueFrames \in Nat /\ QueueFrames > 0 /\ MaxCaptures \in Nat /\ MaxFrames \in Nat
  BY Windows DEF VInv, Types, ConsumerTypes
<1>b. (orphaned \in BOOLEAN /\ CancelConsumer) => orphaned' \in BOOLEAN
  BY DEF CancelConsumer
<1>c. ASSUME queue' \in Seq(Frame \cup {End}), Len(queue') <= QueueFrames,
             connected' \in {connected, FALSE},
             UNCHANGED capturing \/ capturing' = FALSE,
             reader' \in {reader, "reading", "reporting", "putting", "joining", "gone"},
             frames' \in 0 .. MaxFrames, failed' \subseteq 1 .. MaxCaptures,
             orphaned' \in BOOLEAN, UNCHANGED capture
      PROVE  NetTypes'
  <2>1. connected' \in BOOLEAN
    BY <1>q, <1>c
  <2>2. capturing' \in BOOLEAN /\ (capturing' => capture' # 0)
    <3>1. capturing \in BOOLEAN /\ (capturing => capture # 0)
      BY <1>q
    <3>2. CASE UNCHANGED capturing
      BY <1>c, <3>1, <3>2
    <3>3. CASE capturing' = FALSE
      BY <3>3
    <3> QED
      BY <1>c, <3>2, <3>3
  <2> QED
    BY <1>q, <1>c, <2>1, <2>2
<1>1. CASE CaptureStart
  BY <1>q, <1>b, <1>1 DEF CaptureStart
<1>2. CASE Binary
  <2> DEFINE f == [capture |-> capture, index |-> frames + 1]
  <2>1. f \in Frame
    BY <1>q, <1>2 DEF Binary, Frame
  <2> HIDE DEF f
  <2>2. /\ Append(queue, f) \in Seq(Frame \cup {End})
        /\ Len(Append(queue, f)) = Len(queue) + 1
    BY <1>q, <2>1
  <2>3. frames' \in 0 .. MaxFrames
    BY <1>q, <1>2 DEF Binary
  <2>4. queue' \in Seq(Frame \cup {End}) /\ Len(queue') <= QueueFrames
    <3>1. CASE Len(queue) < QueueFrames /\ queue' = Append(queue, f)
      BY <1>q, <2>2, <3>1
    <3>2. CASE queue' = <<>>
      BY <1>q, <3>2
    <3> QED
      BY <1>2, <3>1, <3>2 DEF Binary, f
  <2>5. failed' \subseteq 1 .. MaxCaptures
    BY <1>q, <1>2 DEF Binary
  <2> QED
    BY <1>c, <1>q, <1>2, <2>3, <2>4, <2>5 DEF Binary
<1>3. CASE CaptureEnd \/ PutEnd
  <2>1. /\ Append(queue, End) \in Seq(Frame \cup {End})
        /\ Len(Append(queue, End)) = Len(queue) + 1
    BY <1>q
  <2>2. queue' \in Seq(Frame \cup {End}) /\ Len(queue') <= QueueFrames
    BY <1>q, <1>3, <2>1 DEF CaptureEnd, PutEnd
  <2> QED
    BY <1>c, <1>q, <1>3, <2>2 DEF CaptureEnd, PutEnd
<1>4. CASE Joined \/ Disconnect
  BY <1>c, <1>q, <1>4 DEF Joined, Disconnect
<1>5. ASSUME Close, UNCHANGED <<net, failed>>, reader' \in {"reading", "gone"}
      PROVE  NetTypes'
  <2>1. queue' = <<>> /\ capturing' = FALSE /\ orphaned' \in BOOLEAN
    BY <1>b, <1>q, <1>5 DEF Close
  <2>2. queue' \in Seq(Frame \cup {End}) /\ Len(queue') <= QueueFrames
    BY <1>q, <2>1
  <2> QED
    BY <1>c, <1>q, <1>5, <2>1, <2>2
<1>6. CASE Take
  <2>1. /\ queue # <<>> /\ queue' = Tail(queue)
        /\ UNCHANGED <<net, reader, capturing, asr, failed, orphaned>>
    BY <1>6, TakeHandles DEF VInv, Types
  <2>2. queue' \in Seq(Frame \cup {End}) /\ Len(queue') <= QueueFrames
    BY <1>q, <2>1
  <2> QED
    BY <1>c, <1>q, <2>1, <2>2
<1>7. CASE Fail
  <2>1. queue' = <<>> /\ capturing' = FALSE /\ UNCHANGED <<net, reader, failed, orphaned>>
    BY <1>7 DEF Fail
  <2>2. queue' \in Seq(Frame \cup {End}) /\ Len(queue') <= QueueFrames
    BY <1>q, <2>1
  <2> QED
    BY <1>c, <1>q, <2>1, <2>2
<1>8. ASSUME UNCHANGED <<net, reader, ingress, failed, orphaned>>
      PROVE  NetTypes'
  BY <1>q, <1>8
<1>9. ASSUME NEW c \in calls, Answered(c)
      PROVE  NetTypes'
  <2>1. consumer # "done"
    BY <1>9, AnsweredIs DEF VInv, Types, Awaited
  <2>2. failed' \subseteq 1 .. MaxCaptures
    BY <1>q, <1>9, <2>1 DEF Answered
  <2> QED
    BY <1>c, <1>q, <1>9, <2>2 DEF Answered
<1>10. ASSUME NEW c \in calls, ThreadRuns(c) \/ ThreadRaises(c)
       PROVE  NetTypes'
  BY <1>8, <1>10 DEF ThreadRuns, ThreadRaises
<1>11. CASE Backpressure \/ Leave
  BY <1>5, <1>11 DEF Backpressure, Leave
<1>12. CASE SpeechStart \/ Partial \/ SpeechEnd \/ Final \/ Die
  BY <1>8, <1>12 DEF SpeechStart, Partial, SpeechEnd, Final, Die
<1>13. CASE UNCHANGED vars
  BY <1>8, <1>13 DEF vars
<1> QED
  BY <1>1, <1>2, <1>3, <1>4, <1>6, <1>7, <1>9, <1>10, <1>11, <1>12, <1>13 DEF Next, Consume

LEMMA SeqUntouched ==
  ASSUME NEW S, NEW q \in Seq(S), NEW i, i \notin DOMAIN q, NEW e
  PROVE  [q EXCEPT ![i] = e] = q
OBVIOUS

LEMMA SeqUpdate ==
  ASSUME NEW S, NEW q \in Seq(S), NEW i, NEW e \in S
  PROVE  [q EXCEPT ![i] = e] \in Seq(S) /\ Len([q EXCEPT ![i] = e]) = Len(q)
<1>1. CASE i \in 1 .. Len(q)
  BY <1>1
<1>2. CASE i \notin DOMAIN q
  <2>1. [q EXCEPT ![i] = e] = q
    BY <1>2
  <2> QED
    BY <2>1
<1>3. DOMAIN q = 1 .. Len(q)
  OBVIOUS
<1> QED
  BY <1>1, <1>2, <1>3

LEMMA ActionTypes ==
  /\ <<>> \in Seq(Action) /\ <<Stop>> \in Seq(Action)
  /\ \A s \in Seq(Frame) : <<Audio(s)>> \in Seq(Action)
<1>1. Stop \in Action /\ \A s \in Seq(Frame) : Audio(s) \in Action
  BY DEF Stop, Audio, Action
<1> QED
  BY <1>1

LEMMA ConsumerTypesStep ==
  ASSUME VInv, [Next]_vars
  PROVE  ConsumerTypes'
<1> DEFINE Stages == {"begun", "speech", "ended", "final"}
           Turns == /\ turn \in 0 .. Len(stage)
                    /\ stage \in Seq(Stages)
                    /\ partials \in Seq(Nat) /\ text \in Seq(Seq(Frame))
                    /\ said \in Seq(Seq(Frame))
                    /\ Len(partials) = Len(stage) /\ Len(text) = Len(stage)
                    /\ Len(said) = Len(stage)
           Consumers == {"done", "waiting", "failing"} \cup Busy \cup Closing
<1> USE DEF ingress, mind, net, outcome
<1>q. /\ NetTypes /\ ConsumerTypes /\ VadTypes /\ CallTypes
      /\ CallsInv /\ CaptureInv /\ TurnInv /\ Turns
      /\ last \in BOOLEAN /\ todo \in Seq(Action) /\ consumer \in Consumers
      /\ consumer # "done" => capture # 0
  BY DEF VInv, Types, ConsumerTypes
<1>n. 0 \in 0 .. Len(stage) /\ NoTurn = 0
  BY <1>q, Windows
<1>c. ASSUME Turns', consumer' \in Consumers, todo' \in Seq(Action), last' \in BOOLEAN,
             consumer' # "done" => capture' # 0
      PROVE  ConsumerTypes'
  BY <1>c DEF ConsumerTypes
<1>s. ASSUME \/ UNCHANGED said
             \/ \E s \in Seq(Frame) : said' = [said EXCEPT ![turn] = @ \o s]
      PROVE  said' \in Seq(Seq(Frame)) /\ Len(said') = Len(said)
  <2>1. CASE UNCHANGED said
    BY <1>q, <2>1
  <2>2. ASSUME NEW s \in Seq(Frame), said' = [said EXCEPT ![turn] = @ \o s]
        PROVE  said' \in Seq(Seq(Frame)) /\ Len(said') = Len(said)
    <3>1. CASE turn \in DOMAIN said
      <4>0. said \in Seq(Seq(Frame))
        BY <1>q
      <4>1. said[turn] \o s \in Seq(Frame)
        BY <1>q, <3>1
      <4>2. said' = [said EXCEPT ![turn] = said[turn] \o s]
        BY <2>2
      <4> QED
        BY <4>0, <4>1, <4>2, SeqUpdate
    <3>2. CASE turn \notin DOMAIN said
      <4>0. said \in Seq(Seq(Frame))
        BY <1>q
      <4>1. said' = said
        BY <2>2, <3>2, <4>0, SeqUntouched
      <4> QED
        BY <1>q, <4>1
    <3> QED
      BY <3>1, <3>2
  <2> QED
    BY <1>s, <2>1, <2>2
<1>d. ASSUME UNCHANGED <<turn, stage, partials, text>>,
             \/ UNCHANGED said
             \/ \E s \in Seq(Frame) : said' = [said EXCEPT ![turn] = @ \o s]
      PROVE  Turns'
  <2>1. said' \in Seq(Seq(Frame)) /\ Len(said') = Len(said)
    BY <1>d, <1>s
  <2> QED
    BY <1>q, <1>d, <2>1
<1>e. ASSUME NEW to \in Stages, stage' = [stage EXCEPT ![turn] = to],
             turn' \in {turn, NoTurn}, UNCHANGED <<partials, text, said>>
      PROVE  Turns'
  <2>1. stage' \in Seq(Stages) /\ Len(stage') = Len(stage)
    <3>1. stage \in Seq(Stages)
      BY <1>q
    <3> QED
      BY <1>e, <3>1, SeqUpdate
  <2> QED
    BY <1>q, <1>n, <1>e, <2>1
<1> HIDE DEF Turns
<1>1. CASE CaptureStart
  <2>1. Turns'
    BY <1>q, <1>n, <1>1 DEF CaptureStart, Turns
  <2>2. /\ consumer' = "waiting" /\ todo' = <<>> /\ last' = FALSE /\ capture' = capture + 1
    BY <1>1 DEF CaptureStart
  <2>3. capture' # 0
    BY <1>q, <2>2 DEF NetTypes
  <2> QED
    BY <1>c, <2>1, <2>2, <2>3, ActionTypes
<1>2. CASE Binary \/ CaptureEnd \/ PutEnd \/ Joined \/ Disconnect
  <2>1. UNCHANGED <<mind, outcome, capture>>
    BY <1>2 DEF Binary, CaptureEnd, PutEnd, Joined, Disconnect
  <2> QED
    BY <1>c, <1>d, <1>q, <2>1
<1>3. CASE Backpressure \/ Leave
  <2>1. UNCHANGED <<last, turn, outcome>> /\ consumer' = "done" /\ todo' = <<>>
    BY <1>3 DEF Backpressure, Leave, Close
  <2> QED
    BY <1>c, <1>d, <1>q, <2>1, ActionTypes
<1>4. CASE Take
  <2>1. /\ consumer = "waiting" /\ UNCHANGED capture /\ Taken
        /\ last' = (Head(queue) = End)
    BY <1>4, <1>q, TakeHandles
  <2>2. last' \in BOOLEAN /\ capture' # 0
    BY <2>1, <1>q
  <2>3. CASE EndsIdle \/ HearsNothing \/ CutsOff
    BY <1>c, <1>d, <2>2, <2>3, ActionTypes DEF EndsIdle, HearsNothing, CutsOff, Idle, Closing
  <2>4. ASSUME NEW s \in Seq(Frame), BeginsTurn(s)
        PROVE  ConsumerTypes'
    <3>1. /\ turn' = Len(stage) + 1 /\ stage' = Append(stage, "begun")
          /\ partials' = Append(partials, 0) /\ text' = Append(text, <<>>)
          /\ said' = Append(said, <<>>) /\ consumer' = "starting" /\ todo' = <<Audio(s)>>
      BY <2>4 DEF BeginsTurn, BeginTurn
    <3>2. <<>> \in Seq(Frame) /\ "begun" \in Stages
      OBVIOUS
    <3>3. /\ stage' \in Seq(Stages) /\ Len(stage') = Len(stage) + 1 /\ Len(stage) \in Nat
          /\ partials' \in Seq(Nat) /\ Len(partials') = Len(partials) + 1
          /\ text' \in Seq(Seq(Frame)) /\ Len(text') = Len(text) + 1
          /\ said' \in Seq(Seq(Frame)) /\ Len(said') = Len(said) + 1
      BY <1>q, <3>1, <3>2, QueueAppend DEF Turns
    <3>4. Turns'
      BY <1>q, <3>1, <3>3 DEF Turns
    <3> QED
      BY <1>c, <2>2, <3>1, <3>4, ActionTypes DEF Busy
  <2>5. ASSUME NEW f \in Frame, GoesOn(f) \/ EndsTurn(f)
        PROVE  ConsumerTypes'
    <3>1. /\ UNCHANGED <<turn, stage, partials, text>> /\ consumer' = "recognising"
          /\ todo' \in {<<>>, <<Stop>>} /\ said' = [said EXCEPT ![turn] = @ \o <<f>>]
      BY <2>5 DEF GoesOn, EndsTurn, Recognises
    <3>2. <<f>> \in Seq(Frame)
      OBVIOUS
    <3>3. Turns'
      BY <1>d, <3>1, <3>2
    <3> QED
      BY <1>c, <2>2, <3>1, <3>3, ActionTypes DEF Busy
  <2> QED
    BY <2>1, <2>3, <2>4, <2>5 DEF Taken
<1>5. CASE SpeechStart \/ SpeechEnd
  <2>1. /\ consumer # "done" /\ consumer' \in {"initialising", "finishing"}
        /\ UNCHANGED <<todo, last, turn, capture, partials, text, said>>
        /\ \E to \in Stages : stage' = [stage EXCEPT ![turn] = to]
    BY <1>5 DEF SpeechStart, SpeechEnd, Tell
  <2> QED
    BY <1>c, <1>e, <1>q, <2>1 DEF Busy, Closing
<1>6. ASSUME Resumes, UNCHANGED <<capture, last>>, consumer # "done"
      PROVE  /\ consumer' \in Consumers /\ todo' \in Seq(Action) /\ last' \in BOOLEAN
             /\ consumer' # "done" => capture' # 0
  BY <1>q, <1>6, ActionTypes DEF Resumes, Recognises, Busy, Closing
<1>7. CASE Partial
  <2>1. /\ Resumes /\ UNCHANGED <<capture, last, turn, stage, text>> /\ consumer # "done"
        /\ partials' = [partials EXCEPT ![turn] = @ + 1]
    BY <1>7, <1>q, GoOnResumes DEF Partial
  <2>2. \/ UNCHANGED said
        \/ \E s \in Seq(Frame) : said' = [said EXCEPT ![turn] = @ \o s]
    BY <2>1 DEF Resumes, Recognises
  <2>3. partials' \in Seq(Nat) /\ Len(partials') = Len(partials)
    <3>0. partials \in Seq(Nat)
      BY <1>q DEF Turns
    <3>1. CASE turn \in DOMAIN partials
      <4>1. partials' = [partials EXCEPT ![turn] = partials[turn] + 1]
        BY <2>1
      <4>2. partials[turn] + 1 \in Nat
        BY <1>q, <3>1 DEF Turns
      <4> QED
        BY <3>0, <4>1, <4>2, SeqUpdate
    <3>2. CASE turn \notin DOMAIN partials
      <4>1. partials' = partials
        BY <2>1, <3>0, <3>2, SeqUntouched
      <4> QED
        BY <1>q, <4>1 DEF Turns
    <3> QED
      BY <3>1, <3>2
  <2>4. Turns'
    <3>1. said' \in Seq(Seq(Frame)) /\ Len(said') = Len(said)
      BY <1>s, <2>2
    <3> QED
      BY <1>q, <2>1, <2>3, <3>1 DEF Turns
  <2> QED
    BY <1>c, <1>6, <2>1, <2>4
<1>8. CASE Final
  <2>1. Finishes
    BY <1>8, <1>q, FinalFinishes
  <2>2. Turns'
    BY <1>e, <2>1 DEF Finishes
  <2> QED
    BY <1>c, <1>q, <2>1, <2>2, ActionTypes DEF Finishes
<1>9. ASSUME NEW c \in calls, Answered(c)
      PROVE  ConsumerTypes'
  <2>1. /\ Answers /\ consumer \in DOMAIN Awaited
        /\ UNCHANGED <<capture, last, turn, stage, partials>>
    BY <1>9, <1>q, AnsweredIs
  <2>2. consumer # "done"
    BY <2>1 DEF Awaited
  <2>3. CASE Resumes /\ UNCHANGED text
    <3>1. Turns'
      BY <1>d, <2>1, <2>3 DEF Resumes, Recognises
    <3> QED
      BY <1>c, <1>6, <2>1, <2>2, <2>3, <3>1
  <2>4. CASE /\ consumer' \in {"revising", "failing"} /\ UNCHANGED <<todo, text, said>>
    BY <1>c, <1>d, <1>q, <2>1, <2>2, <2>4 DEF Busy
  <2>5. CASE /\ consumer' = "finalising" /\ UNCHANGED <<todo, said>>
             /\ \E s \in Seq(Frame) : text' = [text EXCEPT ![turn] = s]
    <3>1. text' \in Seq(Seq(Frame)) /\ Len(text') = Len(text)
      <4>1. text \in Seq(Seq(Frame))
        BY <1>q DEF Turns
      <4>2. PICK s \in Seq(Frame) : text' = [text EXCEPT ![turn] = s]
        BY <2>5
      <4>3. /\ [text EXCEPT ![turn] = s] \in Seq(Seq(Frame))
            /\ Len([text EXCEPT ![turn] = s]) = Len(text)
        <5> HIDE DEF outcome
        <5>1. s \in Seq(Frame)
          OBVIOUS
        <5> QED
          BY <4>1, <5>1, SeqUpdate
      <4> QED
        BY <4>2, <4>3
    <3>2. Turns'
      BY <1>q, <2>1, <2>5, <3>1 DEF Turns
    <3> QED
      BY <1>c, <1>q, <2>1, <2>2, <2>5, <3>2 DEF Closing
  <2> QED
    BY <2>1, <2>3, <2>4, <2>5 DEF Answers
<1>10. CASE Fail \/ Die
  <2>1. UNCHANGED <<last, turn, outcome, capture>> /\ consumer' = "done" /\ todo' = <<>>
    BY <1>10 DEF Fail, Die
  <2> QED
    BY <1>c, <1>d, <1>q, <2>1, ActionTypes
<1>11. ASSUME NEW c \in calls, ThreadRuns(c) \/ ThreadRaises(c)
       PROVE  ConsumerTypes'
  <2>1. UNCHANGED <<consumer, todo, last, turn, capture, outcome>>
    BY <1>11 DEF ThreadRuns, ThreadRaises
  <2> QED
    BY <1>c, <1>d, <1>q, <2>1
<1>12. CASE UNCHANGED vars
  BY <1>c, <1>d, <1>q, <1>12 DEF vars
<1> QED
  BY <1>1, <1>2, <1>3, <1>4, <1>5, <1>7, <1>8, <1>9, <1>10, <1>11, <1>12 DEF Next, Consume

LEMMA VadTypesStep ==
  ASSUME VInv, [Next]_vars
  PROVE  VadTypes'
<1> USE DEF ingress, mind, net, outcome
<1>q. VadTypes /\ CaptureInv /\ TurnInv /\ CallsInv
  BY DEF VInv, Types
<1>c. ASSUME UNCHANGED vad, consumer' # "done" => consumer # "done" /\ UNCHANGED last
      PROVE  VadTypes'
  BY <1>q, <1>c DEF VadTypes
<1>1. CASE CaptureStart
  <2>1. vad' = ResetVad
    BY <1>1 DEF CaptureStart
  <2>2. <<>> \in Seq(Frame) /\ 0 \in 0 .. Onset /\ 0 \in 0 .. Endpoint
        /\ 0 \in 0 .. MaxUtterance + PreRoll /\ 0 < Onset /\ 0 < Endpoint
    BY Windows
  <2> QED
    BY <2>1, <2>2 DEF ResetVad, VadTypes, VadState
<1>2. CASE Binary \/ CaptureEnd \/ PutEnd \/ Joined \/ Disconnect
  BY <1>c, <1>2 DEF Binary, CaptureEnd, PutEnd, Joined, Disconnect
<1>3. CASE Backpressure \/ Leave
  BY <1>c, <1>3 DEF Backpressure, Leave, Close
<1>4. CASE Take
  <2>1. vad' \in VadState /\ vad'.silence < Endpoint /\ Taken
    BY <1>4, TakeHandles DEF VInv, Types
  <2>2. CASE EndsIdle
    BY <2>1, <2>2 DEF VadTypes, EndsIdle, Idle
  <2>3. CASE CutsOff
    BY <2>1, <2>3 DEF VadTypes, CutsOff
  <2>4. CASE HearsNothing
    BY <2>1, <2>4 DEF VadTypes, HearsNothing, Idle
  <2>5. ASSUME NEW s \in Seq(Frame), BeginsTurn(s) PROVE VadTypes'
    BY <2>1, <2>5 DEF VadTypes, BeginsTurn
  <2>6. ASSUME NEW f \in Frame, GoesOn(f) PROVE VadTypes'
    BY <2>1, <2>6 DEF VadTypes, GoesOn
  <2>7. ASSUME NEW f \in Frame, EndsTurn(f) PROVE VadTypes'
    BY <2>1, <2>7 DEF VadTypes, EndsTurn
  <2> QED
    BY <2>1, <2>2, <2>3, <2>4, <2>5, <2>6, <2>7 DEF Taken
<1>5. CASE SpeechStart \/ Partial \/ SpeechEnd
  BY <1>c, <1>5 DEF SpeechStart, Partial, SpeechEnd
<1>6. CASE Final
  BY <1>c, <1>6 DEF Final
<1>7. ASSUME NEW c \in calls, Answered(c)
      PROVE  VadTypes'
  <2>1. consumer # "done" /\ UNCHANGED <<vad, last>>
    BY <1>7, AnsweredIs DEF VInv, Types, Awaited
  <2> QED
    BY <1>c, <2>1
<1>8. CASE Fail \/ Die
  BY <1>c, <1>8 DEF Fail, Die
<1>9. ASSUME NEW c \in calls, ThreadRuns(c) \/ ThreadRaises(c)
      PROVE  VadTypes'
  BY <1>c, <1>9 DEF ThreadRuns, ThreadRaises
<1>10. CASE UNCHANGED vars
  BY <1>c, <1>10 DEF vars
<1> QED
  BY <1>1, <1>2, <1>3, <1>4, <1>5, <1>6, <1>7, <1>8, <1>9, <1>10 DEF Next, Consume

(* A turn that has begun is final, or is the one that the consumer follows. *)
LEMMA EndStep ==
  ASSUME VInv, [Next]_vars
  PROVE  EndInv'
<1> USE DEF ingress, mind, net, outcome
<1> DEFINE Following == consumer \in Busy \cup Closing \/ (consumer = "waiting" /\ vad.active)
           Ended(t) == stage[t] # "final" => t = turn /\ Following
<1>q. /\ NetTypes /\ ConsumerTypes /\ VadTypes /\ CallTypes
      /\ CallsInv /\ CaptureInv /\ TurnInv /\ EndInv
      /\ consumer = "failing" \/ reader = "reporting" => failed # {}
      /\ connected /\ failed = {} => \A t \in 1 .. Len(stage) : Ended(t)
  BY DEF VInv, Types, EndInv
<1>n. stage \in Seq({"begun", "speech", "ended", "final"}) /\ turn \in 0 .. Len(stage)
      /\ NoTurn = 0
  BY <1>q, Windows DEF ConsumerTypes
<1>b. \/ consumer = "waiting" /\ vad.active
      \/ consumer \in Busy \cup Closing \/ consumer = "failing"
      \/ connected /\ failed = {} => \A t \in 1 .. Len(stage) : stage[t] = "final"
  BY <1>q
<1>d. ASSUME consumer' = "failing" \/ reader' = "reporting" => failed' # {},
             connected' /\ failed' = {} => \A t \in 1 .. Len(stage') : Ended(t)'
      PROVE  EndInv'
  BY <1>d DEF EndInv
<1>e. ASSUME UNCHANGED <<connected, reader, failed, turn, Len(stage)>>,
             \A t \in 1 .. Len(stage) : stage'[t] = stage[t] \/ t = turn,
             consumer' # "failing", Following'
      PROVE  EndInv'
  BY <1>q, <1>d, <1>e
<1>f. ASSUME UNCHANGED <<consumer, vad, turn, stage>>,
             connected' => connected, failed \subseteq failed',
             reader' = "reporting" => failed' # {}
      PROVE  EndInv'
  BY <1>q, <1>d, <1>f
<1>g. ASSUME UNCHANGED stage, reader' # "reporting", consumer' # "failing",
             connected' => connected, failed \subseteq failed',
             connected /\ failed = {} => \A t \in 1 .. Len(stage) : stage[t] = "final"
      PROVE  EndInv'
  BY <1>d, <1>g
<1>h. ASSUME connected' => connected, failed \subseteq failed', failed' # {} \/ ~connected',
             consumer' = "failing" \/ reader' = "reporting" => failed' # {}
      PROVE  EndInv'
  BY <1>d, <1>h
<1>1. CASE CaptureStart
  BY <1>b, <1>g, <1>q, <1>1 DEF CaptureStart, CaptureInv, Busy, Closing
<1>2. CASE Binary
  <2>1. UNCHANGED <<consumer, vad, turn, stage, connected>>
    BY <1>2 DEF Binary
  <2>2. CASE UNCHANGED <<reader, failed>>
    BY <1>f, <1>q, <2>1, <2>2
  <2>3. CASE failed' = failed \cup {capture}
    BY <1>f, <1>q, <2>1, <2>3
  <2> QED
    BY <1>2, <2>2, <2>3 DEF Binary
<1>3. CASE CaptureEnd \/ PutEnd \/ Joined \/ Disconnect
  BY <1>f, <1>q, <1>3 DEF CaptureEnd, PutEnd, Joined, Disconnect
<1>4. CASE Backpressure \/ Leave
  BY <1>h, <1>q, <1>4 DEF Backpressure, Leave, Close
<1>5. CASE Take
  <2>1. consumer = "waiting" /\ Taken /\ UNCHANGED <<connected, reader, failed>>
    BY <1>5, <1>q, TakeHandles
  <2>2. CASE EndsIdle \/ HearsNothing
    BY <1>b, <1>d, <1>q, <2>1, <2>2 DEF EndsIdle, HearsNothing, Idle, Busy, Closing
  <2>3. CASE CutsOff
    BY <1>e, <2>1, <2>3 DEF CutsOff, Closing
  <2>4. ASSUME NEW s \in Seq(Frame), BeginsTurn(s)
        PROVE  EndInv'
    <3>1. /\ turn' = Len(stage) + 1 /\ stage' = Append(stage, "begun")
          /\ consumer' = "starting" /\ ~vad.active
      BY <2>4 DEF BeginsTurn, BeginTurn
    <3>2. Len(stage') = Len(stage) + 1 /\ \A t \in 1 .. Len(stage) : stage'[t] = stage[t]
      BY <1>n, <3>1
    <3>3. connected /\ failed = {} => \A t \in 1 .. Len(stage) : stage[t] = "final"
      BY <1>b, <2>1, <3>1 DEF Busy, Closing
    <3>4. \A t \in 1 .. Len(stage') : t \in 1 .. Len(stage) \/ t = turn'
      BY <1>n, <3>1, <3>2
    <3>5. Following'
      BY <3>1 DEF Busy
    <3> HIDE DEF Following
    <3>6. connected' /\ failed' = {} => \A t \in 1 .. Len(stage') : Ended(t)'
      BY <2>1, <3>2, <3>3, <3>4, <3>5
    <3> QED
      BY <1>d, <1>q, <2>1, <3>1, <3>6
  <2>5. ASSUME NEW f \in Frame, GoesOn(f) \/ EndsTurn(f)
        PROVE  EndInv'
    BY <1>e, <2>1, <2>5 DEF GoesOn, EndsTurn, Recognises, Busy
  <2> QED
    BY <2>1, <2>2, <2>3, <2>4, <2>5 DEF Taken
<1>6. CASE SpeechStart \/ SpeechEnd
  <2>1. /\ UNCHANGED <<connected, reader, failed, turn>>
        /\ consumer' \in {"initialising", "finishing"}
        /\ \E to : stage' = [stage EXCEPT ![turn] = to]
    BY <1>6 DEF SpeechStart, SpeechEnd, Tell
  <2>2. Len(stage') = Len(stage) /\ \A t \in 1 .. Len(stage) : stage'[t] = stage[t] \/ t = turn
    BY <1>n, <2>1
  <2>3. Following' /\ consumer' # "failing"
    BY <2>1 DEF Busy, Closing
  <2> QED
    BY <1>e, <2>1, <2>2, <2>3
<1>7. ASSUME Resumes
      PROVE  Following' \/ vad' # vad
  BY <1>7 DEF Resumes, Recognises, Busy, Closing
<1>8. ASSUME Resumes PROVE consumer' # "failing"
  BY <1>8 DEF Resumes, Recognises
<1>9. CASE Partial
  <2>1. Resumes /\ UNCHANGED <<vad, connected, reader, failed, turn, stage>>
    BY <1>9, <1>q, GoOnResumes DEF Partial
  <2> QED
    BY <1>e, <1>7, <1>8, <2>1
<1>10. CASE Final
  <2>1. Finishes
    BY <1>10, <1>q, FinalFinishes
  <2>2. Len(stage') = Len(stage)
        /\ \A t \in 1 .. Len(stage) : stage'[t] = stage[t] \/ (t = turn /\ stage'[t] = "final")
    BY <1>n, <2>1 DEF Finishes
  <2>3. connected' /\ failed' = {} => \A t \in 1 .. Len(stage') : stage'[t] = "final"
    BY <1>q, <2>1, <2>2 DEF Finishes
  <2> QED
    BY <1>d, <1>q, <2>1, <2>3 DEF Finishes
<1>11. ASSUME NEW c \in calls, Answered(c)
       PROVE  EndInv'
  <2>1. /\ Answers /\ UNCHANGED <<vad, connected, reader, turn, stage>>
    BY <1>11, <1>q, AnsweredIs
  <2>2. CASE Resumes /\ UNCHANGED failed
    BY <1>e, <1>7, <1>8, <2>1, <2>2
  <2>3. CASE consumer' \in {"revising", "finalising"} /\ UNCHANGED failed
    BY <1>e, <2>1, <2>3 DEF Busy, Closing
  <2>4. CASE failed' = failed \cup {capture}
    BY <1>h, <2>1, <2>4
  <2> QED
    BY <2>1, <2>2, <2>3, <2>4 DEF Answers
<1>12. CASE Fail \/ Die
  BY <1>h, <1>q, <1>12 DEF Fail, Die
<1>13. ASSUME NEW c \in calls, ThreadRuns(c) \/ ThreadRaises(c)
       PROVE  EndInv'
  BY <1>f, <1>q, <1>13 DEF ThreadRuns, ThreadRaises
<1>14. CASE UNCHANGED vars
  BY <1>f, <1>q, <1>14 DEF vars
<1> QED
  BY <1>1, <1>2, <1>3, <1>4, <1>5, <1>6, <1>9, <1>10, <1>11, <1>12, <1>13, <1>14
     DEF Next, Consume

-----------------------------------------------------------------------------
LEMMA InitHolds ==
  ASSUME Init
  PROVE  VInv
<1> USE DEF Init, Busy, Closing
<1>1. NetTypes
  <2>1. <<>> \in Seq(Frame \cup {End}) /\ Len(<<>>) = 0
    OBVIOUS
  <2>2. 0 \in 0 .. MaxCaptures /\ 0 \in 0 .. MaxFrames /\ 0 <= QueueFrames
    BY Windows
  <2> QED
    BY <2>1, <2>2 DEF NetTypes
<1>2. ConsumerTypes
  <2>1. /\ <<>> \in Seq({"begun", "speech", "ended", "final"}) /\ <<>> \in Seq(Nat)
        /\ <<>> \in Seq(Seq(Frame)) /\ Len(<<>>) = 0 /\ NoTurn \in 0 .. 0
    BY Windows
  <2> QED
    BY <2>1, ActionTypes DEF ConsumerTypes
<1>3. VadTypes
  <2>1. <<>> \in Seq(Frame) /\ 0 \in 0 .. Onset /\ 0 \in 0 .. Endpoint
        /\ 0 \in 0 .. MaxUtterance + PreRoll /\ 0 < Onset /\ 0 < Endpoint
    BY Windows
  <2> QED
    BY <2>1 DEF VadTypes, VadState, ResetVad
<1>4. CallTypes
  BY DEF CallTypes, Asr
<1>5. CallsInv /\ CaptureInv
  BY DEF CallsInv, CaptureInv
<1>6. TurnInv
  BY DEF TurnInv, ResetVad
<1>7. EndInv
  BY DEF EndInv
<1> QED
  BY <1>1, <1>2, <1>3, <1>4, <1>5, <1>6, <1>7 DEF VInv, Types

LEMMA Invariant == Spec => []VInv
<1>1. Init => VInv
  BY InitHolds
<1>2. VInv /\ [Next]_vars => VInv'
  BY NetTypesStep, ConsumerTypesStep, VadTypesStep, CallTypesStep, CallsStep, CaptureStep,
     TurnStep, EndStep DEF VInv, Types
<1> QED
  BY <1>1, <1>2, PTL DEF Spec

(* The consumer, the detector, the recogniser and the queue have the types *)
(* of voice_session.py's, the detector's windows bound its counters, the   *)
(* queue is never longer than SERVER_QUEUE_FRAMES, and the consumer awaits *)
(* one call at a time.                                                     *)
THEOREM TypesHold == Spec => []TypeOK
<1>1. VInv => TypeOK
  <2> SUFFICES ASSUME VInv PROVE TypeOK
    OBVIOUS
  <2>1. Cardinality({c \in calls : c.live}) <= 1
    <3> DEFINE L == {c \in calls : c.live}
    <3>1. CASE L = {}
      BY <3>1, FS_EmptySet
    <3>2. ASSUME NEW c \in L PROVE Cardinality(L) <= 1
      <4>1. L = {c}
        BY DEF VInv, CallsInv
      <4>2. Cardinality({c}) = 1
        BY FS_Singleton
      <4> QED
        BY <4>1, <4>2
    <3> QED
      BY <3>1, <3>2
  <2>2. /\ asr.pending \in Seq(Frame) /\ (asr.state = NoState \/ asr.state \in Seq(Frame))
        /\ calls \subseteq RecogniserCall
    BY DEF VInv, Types, CallTypes, Asr
  <2>3. vad \in VadState
    BY DEF VInv, Types, VadTypes
  <2>4. NetTypes /\ ConsumerTypes
    BY DEF VInv, Types
  <2> QED
    BY <2>1, <2>2, <2>3, <2>4
       DEF TypeOK, NetTypes, ConsumerTypes, VadState, Action, Busy, Closing
<1> QED
  BY <1>1, Invariant, PTL

(* A capture ends with its consumer, whichever way the consumer ends.      *)
THEOREM CapturingServed == Spec => []CapturingIsServed
<1>1. VInv => CapturingIsServed
  BY DEF VInv, CaptureInv, CapturingIsServed
<1> QED
  BY <1>1, Invariant, PTL

(* When a capture may be started, the consumer before it has ended.        *)
THEOREM ConsumersDoNotMeet == Spec => []OneConsumer
<1>1. VInv => OneConsumer
  BY DEF VInv, CaptureInv, OneConsumer
<1> QED
  BY <1>1, Invariant, PTL

(* After a CAPTURE_END, no turn is without its STT_FINAL, unless a capture *)
(* failed.                                                                 *)
THEOREM EveryTurnEnds == Spec => []TurnsEnd
<1>1. VInv => TurnsEnd
  <2> SUFFICES ASSUME VInv, connected, reader = "reading", ~capturing, failed = {}
               PROVE  \A t \in DOMAIN stage : stage[t] = "final"
    BY DEF TurnsEnd
  <2>1. consumer = "done"
    BY DEF VInv, CaptureInv
  <2>2. DOMAIN stage = 1 .. Len(stage)
    BY DEF VInv, Types, ConsumerTypes
  <2> QED
    BY <2>1, <2>2 DEF VInv, EndInv, Busy, Closing
<1> QED
  BY <1>1, Invariant, PTL

(* What the browser is sent of the turns is what Utterances allows.        *)
LEMMA WireStep ==
  ASSUME VInv, [Next]_vars
  PROVE  [Wire!Next]_<<turn, stage, partials>>
<1> USE DEF ingress, mind, net, outcome, Busy, Closing, Wire!Next
<1>q. /\ NetTypes /\ ConsumerTypes /\ VadTypes /\ CallTypes
      /\ CallsInv /\ CaptureInv /\ TurnInv
  BY DEF VInv, Types
<1>1. CASE CaptureStart
  BY <1>1 DEF CaptureStart, Wire!GiveUp
<1>2. CASE Binary \/ CaptureEnd \/ PutEnd \/ Joined \/ Disconnect
  BY <1>2 DEF Binary, CaptureEnd, PutEnd, Joined, Disconnect
<1>3. CASE Backpressure \/ Leave
  BY <1>3 DEF Backpressure, Leave, Close
<1>4. CASE Take
  <2>1. Taken
    BY <1>4, <1>q, TakeHandles
  <2>2. ASSUME NEW s \in Seq(Frame), BeginsTurn(s)
        PROVE  Wire!Begin
    BY <2>2 DEF BeginsTurn, BeginTurn, Wire!Begin
  <2> QED
    BY <2>1, <2>2 DEF Taken, EndsIdle, CutsOff, HearsNothing, Idle, GoesOn, EndsTurn
<1>5. CASE SpeechStart
  BY <1>5, <1>q DEF SpeechStart, Tell, TurnInv, Wire!SpeechStart, Wire!Advance
<1>6. CASE Partial
  BY <1>6, <1>q DEF Partial, TurnInv, Wire!Partial
<1>7. CASE SpeechEnd
  BY <1>7, <1>q DEF SpeechEnd, Tell, TurnInv, Wire!SpeechEnd, Wire!Advance
<1>8. CASE Final
  BY <1>8, <1>q, FinalFinishes DEF Finishes, TurnInv, Wire!Final, Wire!Advance
<1>9. ASSUME NEW c \in calls, Answered(c)
      PROVE  UNCHANGED <<turn, stage, partials>>
  BY <1>9 DEF Answered
<1>10. CASE Fail \/ Die
  BY <1>10 DEF Fail, Die
<1>11. ASSUME NEW c \in calls, ThreadRuns(c) \/ ThreadRaises(c)
       PROVE  UNCHANGED <<turn, stage, partials>>
  BY <1>11 DEF ThreadRuns, ThreadRaises
<1>12. CASE UNCHANGED vars
  BY <1>12 DEF vars
<1> QED
  BY <1>1, <1>2, <1>3, <1>4, <1>5, <1>6, <1>7, <1>8, <1>9, <1>10, <1>11, <1>12 DEF Next, Consume

(* VoiceSession implements Utterances: whatever the queue, the detector,   *)
(* failing recognisers and lost connections do, the events of a turn come  *)
(* in the order of its grammar, and none after the next turn has begun.    *)
THEOREM RefinesUtterances == Spec => ImplementsUtterances
<1>1. Init => Wire!Init
  BY DEF Init, Wire!Init
<1>2. VInv /\ [Next]_vars => [Wire!Next]_(Wire!vars)
  BY WireStep DEF Wire!vars
<1> QED
  BY <1>1, <1>2, Invariant, PTL DEF Spec, ImplementsUtterances, Wire!Spec

-----------------------------------------------------------------------------
(* The frames of a turn.  A list is unbroken if its frames come one after  *)
(* the other in one capture, and ahead of another if its frames follow all *)
(* of the other's.  A queue may end with the None.                         *)
Item == Frame \cup {End}

Succeeds(g, f, d) == g.capture = f.capture /\ g.index = f.index + d

Unbroken(s) ==
  \A i, j \in DOMAIN s : (i < j /\ s[i] # End /\ s[j] # End) => Succeeds(s[j], s[i], j - i)

Ahead(q, s) == \A i \in DOMAIN q, j \in DOMAIN s : q[i] # End => Follows(q[i], s[j])

(* The frames came with the first n of capture k, or in an earlier one.    *)
Arrived(s, k, n) ==
  \A i \in DOMAIN s : s[i] # End => s[i].capture < k \/ (s[i].capture = k /\ s[i].index <= n)

At(f, k, n) == f.capture = k /\ f.index = n

(* A part of a list has what the list has.                                 *)
LEMMA PartKeeps ==
  ASSUME NEW s \in Seq(Item), NEW t \in Seq(Item), NEW d \in Nat,
         d + Len(t) <= Len(s), \A i \in 1 .. Len(t) : t[i] = s[i + d]
  PROVE  /\ Unbroken(s) => Unbroken(t)
         /\ \A k, n : Arrived(s, k, n) => Arrived(t, k, n)
         /\ \A x : Ahead(s, x) => Ahead(t, x)
         /\ \A x : Ahead(x, s) => Ahead(x, t)
<1>1. /\ DOMAIN t = 1 .. Len(t) /\ DOMAIN s = 1 .. Len(s) /\ Len(t) \in Nat /\ Len(s) \in Nat
      /\ \A i \in DOMAIN t : i \in Nat /\ i + d \in DOMAIN s /\ t[i] = s[i + d]
  OBVIOUS
<1>2. ASSUME Unbroken(s) PROVE Unbroken(t)
  <2> SUFFICES ASSUME NEW i \in DOMAIN t, NEW j \in DOMAIN t, i < j, t[i] # End, t[j] # End
               PROVE  Succeeds(t[j], t[i], j - i)
    BY DEF Unbroken
  <2>1. PICK a \in DOMAIN s : a = i + d /\ t[i] = s[a]
    BY <1>1
  <2>2. PICK b \in DOMAIN s : b = j + d /\ t[j] = s[b]
    BY <1>1
  <2>3. a < b /\ b - a = j - i
    BY <1>1, <2>1, <2>2
  <2>4. Succeeds(s[b], s[a], b - a)
    BY <1>2, <2>1, <2>2, <2>3 DEF Unbroken
  <2> QED
    BY <2>1, <2>2, <2>3, <2>4
<1>3. ASSUME NEW k, NEW n, Arrived(s, k, n) PROVE Arrived(t, k, n)
  BY <1>1, <1>3 DEF Arrived
<1>4. ASSUME NEW x, Ahead(s, x) PROVE Ahead(t, x)
  BY <1>1, <1>4 DEF Ahead
<1>5. ASSUME NEW x, Ahead(x, s) PROVE Ahead(x, t)
  BY <1>1, <1>5 DEF Ahead
<1> QED
  BY <1>2, <1>3, <1>4, <1>5

LEMMA TailKeeps ==
  ASSUME NEW q \in Seq(Item), q # <<>>
  PROVE  /\ Unbroken(q) => Unbroken(Tail(q))
         /\ \A k, n : Arrived(q, k, n) => Arrived(Tail(q), k, n)
         /\ \A x : Ahead(q, x) => Ahead(Tail(q), x)
         /\ \A x : Ahead(q, x) => Ahead(<<Head(q)>>, x)
         /\ \A k, n : Arrived(q, k, n) => Arrived(<<Head(q)>>, k, n)
         /\ (Unbroken(q) /\ Head(q) # End) => Ahead(Tail(q), <<Head(q)>>)
<1> DEFINE t == Tail(q)
           h == <<Head(q)>>
<1>1. /\ t \in Seq(Item) /\ Len(t) = Len(q) - 1 /\ Len(q) \in Nat \ {0}
      /\ DOMAIN t = 1 .. Len(q) - 1 /\ DOMAIN q = 1 .. Len(q)
      /\ \A i \in 1 .. Len(q) - 1 : t[i] = q[i + 1]
      /\ Head(q) = q[1] /\ q[1] \in Item
  BY QueueTail
<1>2. h \in Seq(Item) /\ Len(h) = 1 /\ h[1] = q[1] /\ DOMAIN h = 1 .. 1
  BY <1>1
<1> HIDE DEF t, h
<1>3. 1 + Len(t) <= Len(q) /\ \A i \in 1 .. Len(t) : t[i] = q[i + 1]
  BY <1>1
<1>4. 0 + Len(h) <= Len(q) /\ \A i \in 1 .. Len(h) : h[i] = q[i + 0]
  BY <1>1, <1>2
<1>5. ASSUME Unbroken(q), q[1] # End PROVE Ahead(t, h)
  <2> SUFFICES ASSUME NEW i \in DOMAIN t, t[i] # End PROVE Follows(t[i], h[1])
    BY <1>2 DEF Ahead
  <2>1. i \in Nat \ {0} /\ i + 1 \in DOMAIN q /\ 1 \in DOMAIN q /\ t[i] = q[i + 1]
    BY <1>1
  <2>2. PICK j \in DOMAIN q : j = i + 1
    BY <2>1
  <2>3. Succeeds(q[j], q[1], j - 1)
    BY <1>5, <2>1, <2>2 DEF Unbroken
  <2>4. q[1] \in Frame
    BY <1>1, <1>5 DEF Item
  <2> QED
    BY <1>2, <2>1, <2>2, <2>3, <2>4 DEF Succeeds, Follows, Frame
<1> QED
  <2>1. /\ Unbroken(q) => Unbroken(t)
        /\ \A k, n : Arrived(q, k, n) => Arrived(t, k, n)
        /\ \A x : Ahead(q, x) => Ahead(t, x)
    BY <1>1, <1>3, PartKeeps
  <2>2. /\ \A x : Ahead(q, x) => Ahead(h, x)
        /\ \A k, n : Arrived(q, k, n) => Arrived(h, k, n)
    BY <1>1, <1>2, <1>4, PartKeeps
  <2> QED
    BY <1>1, <1>5, <2>1, <2>2 DEF t, h

LEMMA LastOfKeeps ==
  ASSUME NEW s \in Seq(Frame), s # <<>>, NEW m \in Nat \ {0}
  PROVE  /\ LastOf(s, m) # <<>> /\ LastOf(s, m)[Len(LastOf(s, m))] = s[Len(s)]
         /\ Unbroken(s) => Unbroken(LastOf(s, m))
         /\ \A k, n : Arrived(s, k, n) => Arrived(LastOf(s, m), k, n)
         /\ \A x : Ahead(s, x) => Ahead(LastOf(s, m), x)
         /\ \A x : Ahead(x, s) => Ahead(x, LastOf(s, m))
<1>1. CASE Len(s) <= m
  BY <1>1 DEF LastOf
<1>2. CASE ~(Len(s) <= m)
  <2> DEFINE t == LastOf(s, m)
             d == Len(s) - m
  <2>1. Len(s) \in Nat /\ d \in Nat /\ d + 1 \in 1 .. Len(s)
    BY <1>2
  <2>2. t = SubSeq(s, d + 1, Len(s))
    BY <1>2 DEF LastOf
  <2>3. t \in Seq(Frame) /\ Len(t) = m /\ \A i \in 1 .. m : t[i] = s[i + d]
    BY <1>2, <2>1, <2>2
  <2> HIDE DEF t
  <2>4. t # <<>> /\ t[Len(t)] = s[Len(s)]
    BY <2>1, <2>3
  <2>5. s \in Seq(Item) /\ t \in Seq(Item)
    BY <2>3 DEF Item
  <2>6. d + Len(t) <= Len(s) /\ \A i \in 1 .. Len(t) : t[i] = s[i + d]
    BY <2>1, <2>3
  <2> HIDE DEF d
  <2>7. /\ Unbroken(s) => Unbroken(t)
        /\ \A k, n : Arrived(s, k, n) => Arrived(t, k, n)
        /\ \A x : Ahead(s, x) => Ahead(t, x)
        /\ \A x : Ahead(x, s) => Ahead(x, t)
    BY <2>1, <2>5, <2>6, PartKeeps
  <2> QED
    BY <2>4, <2>7 DEF t
<1> QED
  BY <1>1, <1>2

LEMMA AppendUnbroken ==
  ASSUME NEW q \in Seq(Item), NEW e \in Item, Unbroken(q),
         (q # <<>> /\ e # End) => q[Len(q)] # End /\ Succeeds(e, q[Len(q)], 1)
  PROVE  Unbroken(Append(q, e))
<1> DEFINE p == Append(q, e)
<1>1. /\ p \in Seq(Item) /\ DOMAIN p = 1 .. Len(q) + 1 /\ DOMAIN q = 1 .. Len(q) /\ Len(q) \in Nat
      /\ \A i \in 1 .. Len(q) : p[i] = q[i]
      /\ p[Len(q) + 1] = e
  BY QueueAppend
<1> HIDE DEF p
<1>2. ASSUME NEW i \in DOMAIN p, NEW j \in DOMAIN p, i < j, p[i] # End, p[j] # End
      PROVE  Succeeds(p[j], p[i], j - i)
  <2>1. i \in DOMAIN q /\ p[i] = q[i]
    BY <1>1, <1>2
  <2>2. CASE j \in DOMAIN q
    BY <1>1, <1>2, <2>1, <2>2 DEF Unbroken
  <2>3. CASE j = Len(q) + 1
    <3>1. p[j] = e /\ q # <<>> /\ Len(q) \in DOMAIN q
      BY <1>1, <2>1, <2>3
    <3>2. q[Len(q)] # End /\ Succeeds(e, q[Len(q)], 1)
      BY <1>2, <3>1
    <3>3. CASE i = Len(q)
      BY <1>1, <2>1, <2>3, <3>1, <3>2, <3>3
    <3>4. CASE i < Len(q)
      <4>1. Succeeds(q[Len(q)], q[i], Len(q) - i)
        BY <1>2, <2>1, <3>1, <3>2, <3>4 DEF Unbroken
      <4>2. q[i] \in Frame
        BY <1>1, <1>2, <2>1 DEF Item
      <4>3. q[Len(q)].index = q[i].index + (Len(q) - i) /\ e.index = q[Len(q)].index + 1
        BY <3>2, <4>1 DEF Succeeds
      <4>4. q[i].index \in Int /\ Len(q) \in Int /\ i \in Int
        BY <1>1, <2>1, <4>2 DEF Frame
      <4>5. e.index = q[i].index + (j - i)
        BY <2>3, <4>3, <4>4
      <4> QED
        BY <2>1, <3>1, <3>2, <4>1, <4>5 DEF Succeeds
    <3> QED
      BY <1>1, <2>1, <3>3, <3>4
  <2> QED
    BY <1>1, <2>2, <2>3
<1> QED
  BY <1>2 DEF Unbroken, p

LEMMA AppendKeeps ==
  ASSUME NEW q \in Seq(Item), NEW e \in Item
  PROVE  /\ \A k, n : Arrived(q, k, n) /\ Arrived(<<e>>, k, n) => Arrived(Append(q, e), k, n)
         /\ \A x : Ahead(q, x) /\ Ahead(<<e>>, x) => Ahead(Append(q, e), x)
         /\ \A x : Ahead(x, q) /\ Ahead(x, <<e>>) => Ahead(x, Append(q, e))
<1> DEFINE p == Append(q, e)
           o == <<e>>
<1>1. /\ p \in Seq(Item) /\ DOMAIN p = 1 .. Len(q) + 1 /\ DOMAIN q = 1 .. Len(q) /\ Len(q) \in Nat
      /\ \A i \in 1 .. Len(q) : p[i] = q[i]
      /\ p[Len(q) + 1] = e
  BY QueueAppend
<1>2. 1 \in DOMAIN o /\ o[1] = e
  OBVIOUS
<1> HIDE DEF p, o
<1>3. \A i \in DOMAIN p : (i \in DOMAIN q /\ p[i] = q[i]) \/ p[i] = o[1]
  BY <1>1, <1>2
<1>4. ASSUME NEW k, NEW n, Arrived(q, k, n), Arrived(o, k, n) PROVE Arrived(p, k, n)
  BY <1>2, <1>3, <1>4 DEF Arrived
<1>5. ASSUME NEW x, Ahead(q, x), Ahead(o, x) PROVE Ahead(p, x)
  BY <1>2, <1>3, <1>5 DEF Ahead
<1>6. ASSUME NEW x, Ahead(x, q), Ahead(x, o) PROVE Ahead(x, p)
  BY <1>2, <1>3, <1>6 DEF Ahead
<1> QED
  BY <1>4, <1>5, <1>6 DEF p, o

LEMMA ArrivedStays ==
  ASSUME NEW q \in Seq(Item), NEW k \in Nat, NEW n \in Nat, Arrived(q, k, n)
  PROVE  Arrived(q, k, n + 1) /\ Arrived(q, k + 1, 0)
<1>1. ASSUME NEW i \in DOMAIN q, q[i] # End
      PROVE  q[i].capture \in Nat /\ q[i].index \in Nat
  <2>1. q[i] \in Frame
    BY <1>1 DEF Item
  <2> QED
    BY <2>1 DEF Frame
<1> QED
  BY <1>1 DEF Arrived

LEMMA EmptyKeeps ==
  /\ Unbroken(<<>>) /\ \A k, n : Arrived(<<>>, k, n)
  /\ \A x : Ahead(<<>>, x) /\ Ahead(x, <<>>)
BY DEF Unbroken, Arrived, Ahead

(* The consumer's hand h, with what it has not given to the recogniser:    *)
(* it is behind the queue and ahead of all turns.                          *)
Held(h, q, ss, k, n) ==
  /\ Unbroken(h) /\ Arrived(h, k, n) /\ Ahead(q, h)
  /\ \A u \in DOMAIN ss : Ahead(h, ss[u])

(* The queue of a capture that is on ends with the newest frame.           *)
Queued(q, k, n, on) ==
  /\ Unbroken(q) /\ Arrived(q, k, n)
  /\ (on /\ q # <<>>) => At(q[Len(q)], k, n)

(* The queue goes on with r, which is up to date if the queue is empty.    *)
Leads(r, q, k, n, on) ==
  r # <<>> =>
    /\ (q # <<>> /\ q[1] # End) => Succeeds(q[1], r[Len(r)], 1)
    /\ (q = <<>> /\ on) => At(r[Len(r)], k, n)

(* The turns are behind the queue, one after the other.                    *)
Told(ss, q, k, n) ==
  \A u \in DOMAIN ss :
    /\ Unbroken(ss[u]) /\ Arrived(ss[u], k, n) /\ Ahead(q, ss[u])
    /\ \A t \in DOMAIN ss : u < t => Ahead(ss[t], ss[u])

(* The queue and the capture change, and what was behind the queue is.     *)
Passes(q, k, n, q2, k2, n2) ==
  \A x \in Seq(Frame) : Arrived(x, k, n) /\ Ahead(q, x) => Arrived(x, k2, n2) /\ Ahead(q2, x)

LEMMA PassesKeeps ==
  ASSUME NEW q, NEW k, NEW n, NEW q2, NEW k2, NEW n2, Passes(q, k, n, q2, k2, n2),
         NEW ss \in Seq(Seq(Frame))
  PROVE  /\ Told(ss, q, k, n) => Told(ss, q2, k2, n2)
         /\ \A h \in Seq(Frame) : Held(h, q, ss, k, n) => Held(h, q2, ss, k2, n2)
<1>1. \A u \in DOMAIN ss : ss[u] \in Seq(Frame)
  OBVIOUS
<1> QED
  BY <1>1 DEF Passes, Told, Held

LEMMA SamePasses ==
  ASSUME NEW q, NEW k, NEW n
  PROVE  Passes(q, k, n, q, k, n)
BY DEF Passes

LEMMA FrameItem == Seq(Frame) \subseteq Seq(Item)
<1> SUFFICES ASSUME NEW s \in Seq(Frame) PROVE s \in Seq(Item)
  OBVIOUS
<1> QED
  BY DEF Item

(* A frame arrives.                                                        *)
LEMMA QueueGrows ==
  ASSUME NEW q \in Seq(Item), NEW k \in Nat, NEW n \in Nat, Queued(q, k, n, TRUE),
         \A i \in DOMAIN q : q[i] # End, NEW f \in Frame, At(f, k, n + 1)
  PROVE  /\ Queued(Append(q, f), k, n + 1, TRUE)
         /\ Passes(q, k, n, Append(q, f), k, n + 1)
         /\ \A r \in Seq(Frame) : Leads(r, q, k, n, TRUE) => Leads(r, Append(q, f), k, n + 1, TRUE)
<1> DEFINE p == Append(q, f)
           o == <<f>>
<1>0. f \in Item /\ f # End /\ f.capture = k /\ f.index = n + 1
  BY Windows DEF Item, At
<1>1. /\ p \in Seq(Item) /\ Len(p) = Len(q) + 1 /\ DOMAIN q = 1 .. Len(q) /\ Len(q) \in Nat
      /\ \A i \in 1 .. Len(q) : p[i] = q[i]
      /\ p[Len(q) + 1] = f
  BY <1>0, QueueAppend
<1>2. Arrived(o, k, n + 1) /\ Arrived(q, k, n + 1)
  BY <1>0, ArrivedStays DEF Arrived, Queued
<1>3. q # <<>> => q[Len(q)] # End /\ Succeeds(f, q[Len(q)], 1)
  BY <1>0, <1>1 DEF Queued, At, Succeeds
<1>4. Unbroken(p) /\ Arrived(p, k, n + 1)
  BY <1>0, <1>2, <1>3, AppendUnbroken, AppendKeeps DEF Queued
<1>5. Queued(p, k, n + 1, TRUE)
  BY <1>0, <1>1, <1>4 DEF Queued, At
<1>6. ASSUME NEW x \in Seq(Frame), Arrived(x, k, n), Ahead(q, x)
      PROVE  Arrived(x, k, n + 1) /\ Ahead(p, x)
  <2>1. Ahead(o, x)
    <3> SUFFICES ASSUME NEW j \in DOMAIN x PROVE Follows(f, x[j])
      BY DEF Ahead
    <3>1. x[j] \in Frame /\ x[j] # End
      BY Windows
    <3>2. x[j].capture < k \/ (x[j].capture = k /\ x[j].index <= n)
      BY <1>6, <3>1 DEF Arrived
    <3>3. x[j].capture \in Nat /\ x[j].index \in Nat
      BY <3>1 DEF Frame
    <3> QED
      BY <1>0, <3>2, <3>3 DEF Follows
  <2>2. Arrived(x, k, n + 1)
    BY <1>6, ArrivedStays, FrameItem
  <2>3. Ahead(p, x)
    BY <1>0, <1>6, <2>1, AppendKeeps
  <2> QED
    BY <2>2, <2>3
<1>7. ASSUME NEW r \in Seq(Frame), Leads(r, q, k, n, TRUE)
      PROVE  Leads(r, p, k, n + 1, TRUE)
  <2> SUFFICES ASSUME r # <<>> PROVE Succeeds(p[1], r[Len(r)], 1)
    BY <1>1 DEF Leads
  <2>1. CASE q = <<>>
    BY <1>0, <1>1, <1>7, <2>1 DEF Leads, At, Succeeds
  <2>2. CASE q # <<>>
    <3>1. p[1] = q[1] /\ q[1] # End
      BY <1>1, <2>2
    <3> QED
      BY <1>7, <2>2, <3>1 DEF Leads
  <2> QED
    BY <2>1, <2>2
<1> QED
  BY <1>5, <1>6, <1>7 DEF p, Passes

(* The None arrives.                                                       *)
LEMMA QueueEnds ==
  ASSUME NEW q \in Seq(Item), NEW k \in Nat, NEW n \in Nat, NEW on,
         \A i \in DOMAIN q : q[i] # End
  PROVE  /\ Queued(q, k, n, on) => Queued(Append(q, End), k, n, FALSE)
         /\ Passes(q, k, n, Append(q, End), k, n)
         /\ \A r \in Seq(Frame) : Leads(r, q, k, n, on) => Leads(r, Append(q, End), k, n, FALSE)
<1> DEFINE p == Append(q, End)
           o == <<End>>
<1>0. End \in Item
  BY DEF Item
<1>1. /\ p \in Seq(Item) /\ Len(p) = Len(q) + 1 /\ DOMAIN q = 1 .. Len(q) /\ Len(q) \in Nat
      /\ \A i \in 1 .. Len(q) : p[i] = q[i]
      /\ p[Len(q) + 1] = End
  BY <1>0, QueueAppend
<1>2. Arrived(o, k, n) /\ \A x : Ahead(o, x)
  BY DEF Arrived, Ahead
<1>3. ASSUME Queued(q, k, n, on) PROVE Queued(p, k, n, FALSE)
  <2>1. Unbroken(p) /\ Arrived(p, k, n)
    BY <1>0, <1>2, <1>3, AppendUnbroken, AppendKeeps DEF Queued
  <2> QED
    BY <2>1 DEF Queued
<1>4. Passes(q, k, n, p, k, n)
  BY <1>0, <1>2, AppendKeeps DEF Passes
<1>5. ASSUME NEW r \in Seq(Frame), Leads(r, q, k, n, on)
      PROVE  Leads(r, p, k, n, FALSE)
  <2>1. p[1] = End \/ (q # <<>> /\ p[1] = q[1])
    BY <1>1
  <2>2. p # <<>>
    BY <1>1
  <2> QED
    BY <1>5, <2>1, <2>2 DEF Leads
<1> QED
  BY <1>3, <1>4, <1>5 DEF p

(* The queue is emptied, perhaps for the next capture.                     *)
LEMMA QueueEmpties ==
  ASSUME NEW q, NEW k \in Nat, NEW n \in Nat
  PROVE  /\ \A on : Queued(<<>>, k, n, on) /\ Queued(<<>>, k, n + 1, on)
                    /\ Queued(<<>>, k + 1, 0, on)
         /\ Passes(q, k, n, <<>>, k, n) /\ Passes(q, k, n, <<>>, k, n + 1)
         /\ Passes(q, k, n, <<>>, k + 1, 0)
         /\ \A r, l, m : Leads(r, <<>>, l, m, FALSE)
<1>1. ASSUME NEW x \in Seq(Frame), Arrived(x, k, n)
      PROVE  Arrived(x, k, n + 1) /\ Arrived(x, k + 1, 0)
  BY <1>1, ArrivedStays, FrameItem
<1> QED
  BY <1>1, EmptyKeeps DEF Queued, Passes, Leads

(* The consumer takes a frame, or the None.                                *)
LEMMA QueueShrinks ==
  ASSUME NEW q \in Seq(Item), NEW k, NEW n, NEW on, q # <<>>, Queued(q, k, n, on)
  PROVE  /\ Queued(Tail(q), k, n, on)
         /\ Passes(q, k, n, Tail(q), k, n)
         /\ \A x : Ahead(q, x) => Ahead(Tail(q), x) /\ Ahead(<<Head(q)>>, x)
         /\ Arrived(<<Head(q)>>, k, n)
         /\ Head(q) # End =>
              /\ Ahead(Tail(q), <<Head(q)>>)
              /\ \A r \in Seq(Frame) :
                   r # <<>> /\ r[Len(r)] = Head(q) => Leads(r, Tail(q), k, n, on)
<1> DEFINE t == Tail(q)
           h == Head(q)
<1>1. /\ t \in Seq(Item) /\ Len(t) = Len(q) - 1 /\ Len(q) \in Nat \ {0} /\ DOMAIN q = 1 .. Len(q)
      /\ \A i \in 1 .. Len(q) - 1 : t[i] = q[i + 1]
      /\ h = q[1] /\ q[1] \in Item
  BY QueueTail
<1>2. /\ Unbroken(t) /\ Arrived(t, k, n) /\ Arrived(<<h>>, k, n)
      /\ \A x : Ahead(q, x) => Ahead(t, x) /\ Ahead(<<h>>, x)
      /\ h # End => Ahead(t, <<h>>)
  BY TailKeeps DEF Queued
<1> HIDE DEF t, h
<1>3. t # <<>> => t[Len(t)] = q[Len(q)] /\ t[1] = q[2] /\ 2 \in DOMAIN q
  BY <1>1
<1>4. t = <<>> => Len(q) = 1
  BY <1>1
<1>5. Queued(t, k, n, on)
  BY <1>1, <1>2, <1>3 DEF Queued
<1>6. Passes(q, k, n, t, k, n)
  BY <1>2 DEF Passes
<1>7. ASSUME h # End, NEW r \in Seq(Frame), r # <<>>, r[Len(r)] = h
      PROVE  Leads(r, t, k, n, on)
  <2>1. ASSUME t # <<>>, t[1] # End PROVE Succeeds(t[1], h, 1)
    <3>1. Succeeds(q[2], q[1], 2 - 1)
      BY <1>1, <1>3, <1>7, <2>1 DEF Unbroken, Queued
    <3> QED
      BY <1>1, <1>3, <2>1, <3>1
  <2>2. ASSUME t = <<>>, on PROVE At(h, k, n)
    BY <1>1, <1>4, <2>2 DEF Queued
  <2> QED
    BY <1>7, <2>1, <2>2 DEF Leads
<1> QED
  BY <1>2, <1>5, <1>6, <1>7 DEF t, h

(* The frame that the queue goes on with is kept before the turn.          *)
LEMMA KeptKeeps ==
  ASSUME NEW q \in Seq(Item), q # <<>>, Head(q) # End, NEW h \in Seq(Frame),
         NEW ss \in Seq(Seq(Frame)), NEW k \in Nat, NEW n \in Nat, NEW on,
         Queued(q, k, n, on), Held(h, q, ss, k, n), Leads(h, q, k, n, on),
         Told(ss, q, k, n), NEW m \in Nat \ {0}
  PROVE  LET p == LastOf(Append(h, Head(q)), m) IN
         /\ p \in Seq(Frame) /\ p # <<>>
         /\ Held(p, Tail(q), ss, k, n) /\ Leads(p, Tail(q), k, n, on)
<1> DEFINE f == Head(q)
           o == <<f>>
           a == Append(h, f)
           p == LastOf(a, m)
<1>1. f \in Frame /\ f \in Item /\ f # End /\ f = q[1]
  BY QueueTail, Windows DEF Item
<1>2. h \in Seq(Item) /\ a \in Seq(Frame) /\ a # <<>> /\ a[Len(a)] = f
  <2> HIDE DEF f
  <2>1. a \in Seq(Frame) /\ Len(a) = Len(h) + 1 /\ Len(h) \in Nat /\ a[Len(h) + 1] = f
    BY <1>1, QueueAppend
  <2> HIDE DEF a
  <2> QED
    BY <2>1, FrameItem
<1>3. /\ Arrived(o, k, n) /\ Ahead(Tail(q), o) /\ Ahead(Tail(q), h)
      /\ \A x : Ahead(q, x) => Ahead(o, x)
  BY <1>1, QueueShrinks DEF Held
<1> HIDE DEF f, o
<1>4. h # <<>> => h[Len(h)] # End /\ Succeeds(f, h[Len(h)], 1)
  <2> SUFFICES ASSUME h # <<>> PROVE h[Len(h)] # End /\ Succeeds(f, h[Len(h)], 1)
    OBVIOUS
  <2>1. h[Len(h)] \in Frame
    OBVIOUS
  <2> QED
    BY <1>1, <2>1, Windows DEF Leads
<1>5. Unbroken(a)
  BY <1>1, <1>2, <1>4, AppendUnbroken DEF Held
<1>6. Arrived(a, k, n) /\ Ahead(Tail(q), a) /\ \A u \in DOMAIN ss : Ahead(a, ss[u])
  BY <1>1, <1>2, <1>3, AppendKeeps DEF Held, Told, o
<1> HIDE DEF a
<1>7. /\ p # <<>> /\ p[Len(p)] = f /\ p \in Seq(Frame)
      /\ Unbroken(p) /\ Arrived(p, k, n) /\ Ahead(Tail(q), p)
      /\ \A u \in DOMAIN ss : Ahead(p, ss[u])
  BY <1>2, <1>5, <1>6, LastOfKeeps, LastOfType
<1> HIDE DEF p
<1>8. Leads(p, Tail(q), k, n, on)
  BY <1>1, <1>7, QueueShrinks DEF f
<1> QED
  BY <1>7, <1>8 DEF Held, p, a, f

(* A turn goes on with what is ahead of all the turns that came before.    *)
LEMMA ToldGrows ==
  ASSUME NEW ss \in Seq(Seq(Frame)), ss # <<>>, NEW s \in Seq(Frame),
         NEW q, NEW k, NEW n, Told(ss, q, k, n),
         Unbroken(s), Arrived(s, k, n), Ahead(q, s),
         \A u \in DOMAIN ss : u < Len(ss) => Ahead(s, ss[u])
  PROVE  Told([ss EXCEPT ![Len(ss)] = s], q, k, n)
<1> DEFINE tt == [ss EXCEPT ![Len(ss)] = s]
<1>1. /\ DOMAIN tt = DOMAIN ss /\ DOMAIN ss = 1 .. Len(ss) /\ Len(ss) \in Nat \ {0}
      /\ tt[Len(ss)] = s /\ \A u \in DOMAIN ss : u # Len(ss) => tt[u] = ss[u]
  OBVIOUS
<1> HIDE DEF tt
<1>2. ASSUME NEW u \in DOMAIN ss
      PROVE  /\ Unbroken(tt[u]) /\ Arrived(tt[u], k, n) /\ Ahead(q, tt[u])
             /\ \A t \in DOMAIN ss : u < t => Ahead(tt[t], tt[u])
  <2>1. CASE u = Len(ss)
    BY <1>1, <2>1
  <2>2. CASE u # Len(ss)
    <3>1. u < Len(ss) /\ tt[u] = ss[u]
      BY <1>1, <2>2
    <3> QED
      BY <1>1, <3>1 DEF Told
  <2> QED
    BY <2>1, <2>2
<1> QED
  BY <1>1, <1>2 DEF Told, tt

LEMMA ToldBegins ==
  ASSUME NEW ss \in Seq(Seq(Frame)), NEW q, NEW k, NEW n, Told(ss, q, k, n)
  PROVE  /\ Told(Append(ss, <<>>), q, k, n)
         /\ \A h : Held(h, q, ss, k, n) => Held(h, q, Append(ss, <<>>), k, n)
<1> DEFINE tt == Append(ss, <<>>)
<1>1. /\ DOMAIN tt = 1 .. Len(ss) + 1 /\ DOMAIN ss = 1 .. Len(ss) /\ Len(ss) \in Nat
      /\ \A u \in 1 .. Len(ss) : tt[u] = ss[u]
      /\ tt[Len(ss) + 1] = <<>>
  <2>1. <<>> \in Seq(Frame)
    OBVIOUS
  <2> QED
    BY <2>1, QueueAppend
<1> HIDE DEF tt
<1>2. \A u \in DOMAIN tt : (u \in DOMAIN ss /\ tt[u] = ss[u]) \/ (u = Len(ss) + 1 /\ tt[u] = <<>>)
  BY <1>1
<1>3. \A h : Held(h, q, ss, k, n) => Held(h, q, tt, k, n)
  BY <1>2, EmptyKeeps DEF Held
<1>4. ASSUME NEW u \in DOMAIN tt
      PROVE  /\ Unbroken(tt[u]) /\ Arrived(tt[u], k, n) /\ Ahead(q, tt[u])
             /\ \A t \in DOMAIN tt : u < t => Ahead(tt[t], tt[u])
  BY <1>2, <1>4, EmptyKeeps DEF Told
<1> QED
  BY <1>3, <1>4 DEF Told, tt

-----------------------------------------------------------------------------
(* What the consumer has of the capture.  Its hand is what it kept before  *)
(* the turn, in the detector or already in the turn's first list; the next *)
(* frame of the queue goes on with the turn, or with the hand.             *)
Opening == consumer \in {"starting", "initialising"}
Hand == IF Opening THEN todo[1].frames ELSE vad.preRoll
Run  == IF vad.active /\ ~Opening THEN said[turn] ELSE Hand
Live == consumer \notin {"done", "failing"}

Speaking ==
  \/ consumer \in {"recognising", "revising"} \cup Closing
  \/ consumer = "waiting" /\ vad.active

FramesInv ==
  /\ turn \in {NoTurn, Len(stage)}
  /\ vad.active => vad.preRoll = <<>>
  /\ Opening => Hand # <<>> /\ said[turn] = <<>>
  /\ Speaking => said[turn] # <<>>
  /\ Live => Held(Hand, queue, said, capture, frames)
  /\ Live => Leads(Run, queue, capture, frames, capturing)
  /\ Queued(queue, capture, frames, capturing)
  /\ Told(said, queue, capture, frames)

LEMMA HandType ==
  ASSUME VInv
  PROVE  /\ Hand \in Seq(Frame) /\ said \in Seq(Seq(Frame)) /\ vad.preRoll \in Seq(Frame)
         /\ Live => Run \in Seq(Frame)
         /\ queue \in Seq(Item) /\ capture \in Nat /\ frames \in Nat
         /\ Opening => todo = <<Audio(Hand)>>
<1>q. /\ NetTypes /\ ConsumerTypes /\ VadTypes /\ TurnInv
  BY DEF VInv, Types
<1>1. said \in Seq(Seq(Frame)) /\ queue \in Seq(Item) /\ capture \in Nat /\ frames \in Nat
  BY <1>q, Windows DEF NetTypes, ConsumerTypes, Item
<1>2. Hand \in Seq(Frame) /\ vad.preRoll \in Seq(Frame) /\ (Opening => todo = <<Audio(Hand)>>)
  <2>1. CASE Opening
    <3>1. PICK s \in Seq(Frame) : todo = <<Audio(s)>>
      BY <1>q, <2>1 DEF TurnInv, Opening
    <3>2. Hand = s
      BY <2>1, <3>1 DEF Hand, Audio
    <3> QED
      BY <1>q, <3>1, <3>2 DEF VadTypes, VadState
  <2>2. CASE ~Opening
    BY <1>q, <2>2 DEF VadTypes, VadState, Hand
  <2> QED
    BY <2>1, <2>2
<1>3. ASSUME Live, vad.active, ~Opening PROVE said[turn] \in Seq(Frame)
  <2>1. turn # NoTurn
    BY <1>q, <1>3 DEF Live, Opening, TurnInv, Busy, Closing, ConsumerTypes
  <2>2. turn \in 1 .. Len(said)
    BY <1>q, <2>1, Windows DEF ConsumerTypes
  <2> QED
    BY <1>1, <2>2
<1> QED
  BY <1>1, <1>2, <1>3 DEF Run

(* A step that gives nothing to a turn.                                    *)
LEMMA FramesKeep ==
  ASSUME VInv, FramesInv,
         Passes(queue, capture, frames, queue', capture', frames'),
         Queued(queue', capture', frames', capturing'),
         UNCHANGED said, Len(stage') = Len(stage), turn' \in {turn, NoTurn},
         vad'.active => vad'.preRoll = <<>>,
         Opening' => Opening /\ turn' = turn,
         Speaking' => Speaking /\ turn' = turn,
         Live' => Live /\ Hand' = Hand,
         Live' => Leads(Run', queue', capture', frames', capturing')
  PROVE  FramesInv'
<1>1. /\ Hand \in Seq(Frame) /\ said \in Seq(Seq(Frame))
  BY HandType
<1>2. Told(said, queue', capture', frames')
  BY <1>1, PassesKeeps DEF FramesInv
<1>3. Live' => Held(Hand', queue', said, capture', frames')
  BY <1>1, PassesKeeps DEF FramesInv
<1>4. Opening' => Live'
  BY DEF Opening, Live
<1> QED
  BY <1>2, <1>3, <1>4 DEF FramesInv

(* One that leaves the queue alone, too.                                   *)
LEMMA FramesStill ==
  ASSUME VInv, FramesInv, UNCHANGED <<capture, frames, capturing, queue, vad, said>>,
         Len(stage') = Len(stage), turn' \in {turn, NoTurn},
         Opening' => Opening /\ turn' = turn,
         Speaking' => Speaking /\ turn' = turn,
         Live' => Live /\ Hand' = Hand /\ Run' = Run
  PROVE  FramesInv'
<1>1. /\ Passes(queue, capture, frames, queue', capture', frames')
      /\ Queued(queue', capture', frames', capturing')
  BY SamePasses DEF FramesInv
<1>2. /\ vad'.active => vad'.preRoll = <<>>
      /\ Live' => Leads(Run', queue', capture', frames', capturing')
  BY DEF FramesInv
<1> QED
  BY <1>1, <1>2, FramesKeep

LEMMA FramesTake ==
  ASSUME VInv, FramesInv, Take
  PROVE  FramesInv'
<1> USE DEF net
<1>q. /\ NetTypes /\ ConsumerTypes /\ VadTypes /\ CaptureInv /\ TurnInv
  BY DEF VInv, Types
<1>1. /\ queue # <<>> /\ queue' = Tail(queue) /\ consumer = "waiting" /\ Taken
      /\ last' = (Head(queue) = End)
      /\ UNCHANGED <<capture, frames, capturing>>
  BY <1>q, TakeHandles
<1>2. Live /\ ~Opening /\ Hand = vad.preRoll /\ (Speaking <=> vad.active)
  BY <1>1 DEF Live, Opening, Speaking, Hand, Closing
<1>3. /\ Hand \in Seq(Frame) /\ said \in Seq(Seq(Frame)) /\ queue \in Seq(Item)
      /\ Run \in Seq(Frame) /\ capture \in Nat /\ frames \in Nat /\ PreRoll \in Nat \ {0}
  BY <1>2, HandType, Windows
<1>4. /\ Passes(queue, capture, frames, queue', capture', frames')
      /\ Queued(queue', capture', frames', capturing')
  BY <1>1, <1>3, QueueShrinks DEF FramesInv
<1>5. /\ Held(Hand, queue, said, capture, frames)
      /\ Leads(Run, queue, capture, frames, capturing)
      /\ Queued(queue, capture, frames, capturing) /\ Told(said, queue, capture, frames)
  BY <1>2 DEF FramesInv
<1>6. CASE EndsIdle
  BY <1>2, <1>4, <1>6, FramesKeep
     DEF EndsIdle, Idle, outcome, Opening, Speaking, Live, Closing
<1>7. CASE CutsOff
  <2>1. /\ UNCHANGED said /\ turn' = turn /\ Len(stage') = Len(stage) /\ consumer' = "ending"
        /\ ~vad'.active /\ vad'.preRoll = vad.preRoll /\ vad.preRoll = <<>> /\ vad.active
    BY <1>7 DEF CutsOff, outcome, FramesInv
  <2>2. ~Opening' /\ Speaking /\ Hand' = Hand /\ Run' = <<>>
    BY <1>2, <2>1 DEF Opening, Hand, Run
  <2>3. Leads(Run', queue', capture', frames', capturing')
    BY <2>2 DEF Leads
  <2> QED
    BY <1>2, <1>4, <2>1, <2>2, <2>3, FramesKeep
<1>8. ASSUME Head(queue) # End, ~vad.active
      PROVE  LET s == Kept(Head(queue)) IN
             /\ s \in Seq(Frame) /\ s # <<>>
             /\ Held(s, queue', said, capture, frames)
             /\ Leads(s, queue', capture, frames, capturing)
  <2>1. Run = Hand
    BY <1>8 DEF Run
  <2> QED
    BY <1>1, <1>2, <1>3, <1>5, <1>8, <2>1, KeptKeeps DEF Kept
<1>9. Told(said, queue', capture, frames)
  BY <1>1, <1>3, <1>4, <1>5, PassesKeeps
<1>10. CASE HearsNothing
  <2>1. /\ UNCHANGED <<said, stage, turn>> /\ consumer' = "waiting" /\ ~vad'.active /\ ~vad.active
        /\ vad'.preRoll = Kept(Head(queue)) /\ Head(queue) # End
    BY <1>1, <1>10 DEF HearsNothing, Idle, outcome
  <2>2. ~Opening' /\ ~Speaking' /\ Hand' = Kept(Head(queue)) /\ Run' = Hand'
    BY <2>1 DEF Opening, Speaking, Hand, Run, Closing
  <2>3. /\ Held(Hand', queue', said, capture, frames)
        /\ Leads(Run', queue', capture, frames, capturing)
    BY <1>8, <2>1, <2>2
  <2> QED
    BY <1>1, <1>4, <1>9, <2>1, <2>2, <2>3 DEF FramesInv
<1>11. ASSUME NEW s \in Seq(Frame), BeginsTurn(s)
       PROVE  FramesInv'
  <2>1. /\ said' = Append(said, <<>>) /\ Len(stage') = Len(stage) + 1 /\ turn' = Len(stage) + 1
        /\ consumer' = "starting" /\ todo' = <<Audio(s)>> /\ ~vad.active /\ vad'.preRoll = <<>>
        /\ s = Kept(Head(queue)) /\ Head(queue) # End
    <3>1. stage' = Append(stage, "begun") /\ BeginsTurn(s)
      BY <1>11 DEF BeginsTurn, BeginTurn
    <3>2. Len(stage') = Len(stage) + 1
      BY <1>q, <3>1 DEF ConsumerTypes
    <3> QED
      BY <1>1, <3>1, <3>2 DEF BeginsTurn, BeginTurn
  <2>2. Opening' /\ ~Speaking' /\ Hand' = s /\ Run' = s
    BY <2>1 DEF Opening, Speaking, Hand, Run, Closing, Audio
  <2>3. /\ s # <<>> /\ Held(s, queue', said, capture, frames)
        /\ Leads(s, queue', capture, frames, capturing)
    BY <1>8, <2>1
  <2>4. Told(said', queue', capture, frames) /\ Held(s, queue', said', capture, frames)
    BY <1>3, <1>9, <2>1, <2>3, ToldBegins
  <2>5. said'[turn'] = <<>>
    <3>1. <<>> \in Seq(Frame) /\ Len(said) = Len(stage)
      BY <1>q DEF ConsumerTypes
    <3> QED
      BY <1>3, <2>1, <3>1, QueueAppend
  <2> QED
    BY <1>1, <1>4, <2>1, <2>2, <2>3, <2>4, <2>5 DEF FramesInv
<1>12. ASSUME NEW f \in Frame, GoesOn(f) \/ EndsTurn(f)
       PROVE  FramesInv'
  <2> DEFINE a == Append(said[turn], f)
  <2>1. /\ vad.active /\ UNCHANGED <<turn, stage>> /\ consumer' = "recognising"
        /\ said' = [said EXCEPT ![turn] = said[turn] \o <<f>>] /\ f = Head(queue)
        /\ vad'.preRoll = vad.preRoll /\ vad.preRoll = <<>> /\ f # End
    BY <1>12, Windows DEF GoesOn, EndsTurn, Recognises, FramesInv
  <2>2. Run = said[turn] /\ turn = Len(said) /\ said # <<>> /\ turn \in DOMAIN said
    <3>1. turn # NoTurn /\ turn = Len(stage)
      BY <1>q, <1>1, <2>1 DEF TurnInv, FramesInv
    <3>2. turn = Len(said) /\ turn \in Nat \ {0}
      BY <1>q, <3>1, Windows DEF ConsumerTypes
    <3> QED
      BY <1>2, <1>3, <2>1, <3>2 DEF Run
  <2>3. /\ a \in Seq(Frame) /\ a # <<>> /\ a[Len(a)] = f /\ a = said[turn] \o <<f>>
    <3>1. said[turn] \in Seq(Frame)
      BY <1>3, <2>2
    <3>2. /\ a \in Seq(Frame) /\ Len(a) = Len(said[turn]) + 1 /\ Len(said[turn]) \in Nat
          /\ a[Len(said[turn]) + 1] = f
      BY <3>1, QueueAppend
    <3>3. a = said[turn] \o <<f>>
      BY <3>1
    <3> HIDE DEF a
    <3> QED
      BY <3>2, <3>3
  <2>4. said[turn] # <<>> /\ said[turn] \in Seq(Frame) /\ said[turn] \in Seq(Item) /\ f \in Item
    BY <1>2, <1>3, <2>1, <2>2, FrameItem DEF FramesInv, Item
  <2>5. Unbroken(a)
    <3>1. said[turn][Len(said[turn])] # End
      BY <2>4, Windows
    <3>2. Succeeds(f, said[turn][Len(said[turn])], 1)
      BY <1>1, <1>5, <2>1, <2>2, <2>4, <1>3, QueueTail DEF Leads
    <3> QED
      BY <1>5, <2>2, <2>4, <3>1, <3>2, AppendUnbroken DEF Told
  <2>6. /\ Arrived(<<f>>, capture, frames) /\ Ahead(queue', <<f>>)
        /\ \A x : Ahead(queue, x) => Ahead(<<f>>, x)
    BY <1>1, <1>3, <1>5, <2>1, QueueShrinks
  <2>7. /\ Arrived(a, capture, frames) /\ Ahead(queue', a)
        /\ \A u \in DOMAIN said : u < Len(said) => Ahead(a, said[u])
    <3>1. Arrived(said[turn], capture, frames) /\ Ahead(queue', said[turn])
      BY <1>9, <2>2 DEF Told
    <3>2. Arrived(a, capture, frames) /\ Ahead(queue', a)
      BY <2>4, <2>6, <3>1, AppendKeeps
    <3>3. ASSUME NEW u \in DOMAIN said, u < Len(said) PROVE Ahead(a, said[u])
      <4>1. Ahead(said[turn], said[u]) /\ Ahead(<<f>>, said[u])
        BY <1>5, <2>2, <2>6, <3>3 DEF Told
      <4> QED
        BY <2>4, <4>1, AppendKeeps
    <3> QED
      BY <3>2, <3>3
  <2>8. said' = [said EXCEPT ![Len(said)] = a]
    BY <2>1, <2>2, <2>3
  <2> HIDE DEF a
  <2>9. Told(said', queue', capture, frames) /\ said'[turn] = a
    BY <1>3, <1>9, <2>2, <2>3, <2>5, <2>7, <2>8, ToldGrows
  <2>10. ~Opening' /\ Hand' = <<>> /\ Run' \in {a, <<>>}
    BY <2>1, <2>9 DEF Opening, Hand, Run
  <2>11. Held(<<>>, queue', said', capture, frames)
    BY EmptyKeeps DEF Held
  <2>12. Leads(Run', queue', capture, frames, capturing)
    <3>1. Leads(a, queue', capture, frames, capturing)
      BY <1>1, <1>3, <1>5, <2>1, <2>3, QueueShrinks
    <3>2. Leads(<<>>, queue', capture, frames, capturing)
      BY DEF Leads
    <3> QED
      BY <2>10, <3>1, <3>2
  <2> QED
    BY <1>1, <1>4, <2>1, <2>3, <2>9, <2>10, <2>11, <2>12 DEF FramesInv
<1> QED
  BY <1>1, <1>6, <1>7, <1>10, <1>11, <1>12 DEF Taken

LEMMA FramesStep ==
  ASSUME VInv, FramesInv, [Next]_vars
  PROVE  FramesInv'
<1> USE DEF ingress, mind, net, outcome
<1>q. /\ NetTypes /\ ConsumerTypes /\ VadTypes /\ CallTypes /\ CallsInv /\ CaptureInv /\ TurnInv
  BY DEF VInv, Types
<1>t. /\ Hand \in Seq(Frame) /\ said \in Seq(Seq(Frame)) /\ (Live => Run \in Seq(Frame))
      /\ queue \in Seq(Item) /\ capture \in Nat /\ frames \in Nat
  BY HandType
<1>1. CASE CaptureStart
  <2>1. /\ capture' = capture + 1 /\ frames' = 0 /\ queue' = <<>> /\ vad' = ResetVad
        /\ turn' = NoTurn /\ consumer' = "waiting" /\ UNCHANGED <<stage, said>>
    BY <1>1 DEF CaptureStart
  <2>2. ~Opening' /\ ~Speaking' /\ Hand' = <<>> /\ Run' = <<>> /\ ~vad'.active
    BY <2>1 DEF Opening, Speaking, Hand, Run, Closing, ResetVad
  <2>3. /\ Passes(queue, capture, frames, queue', capture', frames')
        /\ Queued(queue', capture', frames', capturing')
    BY <1>t, <2>1, QueueEmpties
  <2>4. Told(said, queue', capture', frames')
    BY <1>t, <2>3, PassesKeeps DEF FramesInv
  <2>5. /\ Held(<<>>, queue', said, capture', frames')
        /\ Leads(<<>>, queue', capture', frames', capturing')
    BY EmptyKeeps DEF Held, Leads
  <2> QED
    BY <2>1, <2>2, <2>3, <2>4, <2>5 DEF FramesInv
<1>2. CASE Binary
  <2> DEFINE f == [capture |-> capture, index |-> frames + 1]
  <2>1. /\ capturing /\ frames' = frames + 1 /\ frames < MaxFrames
        /\ UNCHANGED <<capture, vad, consumer, todo, turn, said, stage>>
    BY <1>2 DEF Binary
  <2>2. /\ UNCHANGED <<Opening, Speaking, Live, Hand, Run>>
    BY <2>1 DEF Opening, Speaking, Live, Hand, Run
  <2>3. f \in Frame /\ At(f, capture, frames + 1)
    BY <1>q, <2>1, Windows DEF NetTypes, Frame, At
  <2> HIDE DEF f
  <2>4. CASE queue' = Append(queue, f) /\ UNCHANGED capturing
    <3>1. \A i \in DOMAIN queue : queue[i] # End
      BY <1>q, <2>1 DEF CaptureInv
    <3>2. /\ Passes(queue, capture, frames, queue', capture', frames')
          /\ Queued(queue', capture', frames', capturing')
          /\ Live => Leads(Run, queue', capture', frames', capturing')
      BY <1>t, <2>1, <2>3, <2>4, <3>1, QueueGrows DEF FramesInv
    <3> QED
      BY <2>1, <2>2, <3>2, FramesKeep DEF FramesInv
  <2>5. CASE queue' = <<>> /\ ~capturing'
    <3>1. capturing' = FALSE
      BY <1>2, <2>5 DEF Binary
    <3>2. /\ Passes(queue, capture, frames, queue', capture', frames')
          /\ Queued(queue', capture', frames', capturing')
          /\ Leads(Run, queue', capture', frames', capturing')
      BY <1>t, <2>1, <2>5, <3>1, QueueEmpties
    <3> QED
      BY <2>1, <2>2, <3>2, FramesKeep DEF FramesInv
  <2> QED
    BY <1>2, <2>4, <2>5 DEF Binary, f
<1>3. CASE CaptureEnd \/ PutEnd
  <2>1. /\ UNCHANGED <<capture, frames, vad, consumer, todo, turn, said, stage>>
        /\ capturing' = FALSE
        /\ \A i \in DOMAIN queue : queue[i] # End
    BY <1>3, <1>q DEF CaptureEnd, PutEnd, CaptureInv, NetTypes
  <2>2. /\ UNCHANGED <<Opening, Speaking, Live, Hand, Run>>
    BY <2>1 DEF Opening, Speaking, Live, Hand, Run
  <2>3. CASE queue' = Append(queue, End)
    <3>1. /\ Passes(queue, capture, frames, queue', capture', frames')
          /\ Queued(queue', capture', frames', capturing')
          /\ Live => Leads(Run, queue', capture', frames', capturing')
      BY <1>t, <2>1, <2>3, QueueEnds DEF FramesInv
    <3> QED
      BY <2>1, <2>2, <3>1, FramesKeep DEF FramesInv
  <2>4. CASE UNCHANGED queue
    <3>1. /\ Passes(queue, capture, frames, queue', capture', frames')
          /\ Queued(queue', capture', frames', capturing')
          /\ Live => Leads(Run, queue', capture', frames', capturing')
      BY <2>1, <2>4, SamePasses DEF FramesInv, Queued, Leads
    <3> QED
      BY <2>1, <2>2, <3>1, FramesKeep DEF FramesInv
  <2> QED
    BY <1>3, <2>3, <2>4 DEF CaptureEnd, PutEnd
<1>4. CASE Joined \/ Disconnect \/ UNCHANGED vars
  <2>1. UNCHANGED <<capture, frames, capturing, queue, vad, consumer, todo, turn, said, stage>>
    BY <1>4 DEF Joined, Disconnect, vars
  <2> QED
    BY <2>1 DEF FramesInv, Opening, Speaking, Live, Hand, Run
<1>5. CASE Backpressure \/ Leave \/ Fail
  <2>1. /\ consumer' = "done" /\ queue' = <<>> /\ capturing' = FALSE
        /\ UNCHANGED <<capture, frames, vad, turn, said, stage>>
    BY <1>5 DEF Backpressure, Leave, Fail, Close
  <2>2. /\ Passes(queue, capture, frames, queue', capture', frames')
        /\ Queued(queue', capture', frames', capturing')
    BY <1>t, <2>1, QueueEmpties
  <2>3. ~Opening' /\ ~Speaking' /\ ~Live'
    BY <2>1 DEF Opening, Speaking, Live, Closing
  <2> QED
    BY <2>1, <2>2, <2>3, FramesKeep DEF FramesInv
<1>6. CASE Die
  <2>1. /\ consumer' = "done"
        /\ UNCHANGED <<capture, frames, capturing, queue, vad, turn, said, stage>>
    BY <1>6 DEF Die
  <2>2. ~Opening' /\ ~Speaking' /\ ~Live'
    BY <2>1 DEF Opening, Speaking, Live, Closing
  <2> QED
    BY <2>1, <2>2, FramesStill
<1>7. CASE Take
  BY <1>7, FramesTake
<1>8. CASE SpeechStart
  <2>1. /\ consumer = "starting" /\ consumer' = "initialising"
        /\ stage' = [stage EXCEPT ![turn] = "speech"]
        /\ UNCHANGED <<capture, frames, capturing, queue, vad, todo, turn, said>>
    BY <1>8 DEF SpeechStart, Tell
  <2>2. Len(stage') = Len(stage)
    BY <1>q, <2>1 DEF ConsumerTypes
  <2>3. Opening /\ ~Speaking' /\ Live /\ Hand' = Hand /\ Run' = Run
    BY <2>1 DEF Opening, Speaking, Live, Hand, Run, Closing
  <2> QED
    BY <2>1, <2>2, <2>3, FramesStill
<1>9. ASSUME consumer \in {"recognising", "revising"}, Resumes,
             UNCHANGED <<capture, frames, capturing, queue, vad, turn, stage>>
      PROVE  FramesInv'
  <2>1. /\ consumer' \in {"waiting", "ending"} /\ UNCHANGED said
        /\ consumer' = "waiting" => vad.active
    <3>1. \A s : todo # <<Audio(s)>>
      BY <1>q, <1>9 DEF TurnInv, Audio, Stop
    <3> QED
      BY <1>9, <3>1 DEF Resumes
  <2>2. /\ ~Opening' /\ ~Opening /\ Speaking /\ Live /\ Hand' = Hand /\ Run' = Run
    BY <1>9, <2>1 DEF Opening, Speaking, Live, Hand, Run
  <2> QED
    BY <1>9, <2>1, <2>2, FramesStill
<1>10. ASSUME consumer = "initialising", Resumes,
              UNCHANGED <<capture, frames, capturing, queue, vad, turn, stage>>
       PROVE  FramesInv'
  <2>1. Opening /\ todo = <<Audio(Hand)>> /\ Live /\ vad.active
    BY <1>q, <1>10, HandType DEF Opening, Live, TurnInv
  <2>2. Recognises(Hand, <<>>)
    <3>1. todo # <<>> /\ todo # <<Stop>> /\ \A s : todo = <<Audio(s)>> => s = Hand
      BY <2>1 DEF Audio, Stop
    <3> QED
      BY <1>10, <3>1 DEF Resumes
  <2>3. turn = Len(said) /\ said # <<>> /\ turn \in DOMAIN said /\ said[turn] = <<>> /\ Hand # <<>>
    <3>1. turn # NoTurn /\ turn = Len(stage)
      BY <1>q, <1>10 DEF TurnInv, FramesInv, Busy
    <3>2. turn = Len(said) /\ turn \in Nat \ {0}
      BY <1>q, <3>1, Windows DEF ConsumerTypes
    <3> QED
      BY <1>t, <2>1, <3>2 DEF FramesInv
  <2>4. said' = [said EXCEPT ![Len(said)] = Hand] /\ consumer' = "recognising"
    <3>1. said[turn] \o Hand = Hand
      BY <1>t, <2>3
    <3> QED
      BY <2>2, <2>3, <3>1 DEF Recognises
  <2>5. Held(Hand, queue, said, capture, frames)
    BY <2>1 DEF FramesInv
  <2>6. Told(said', queue', capture', frames') /\ said'[turn] = Hand
    BY <1>t, <1>10, <2>3, <2>4, <2>5, ToldGrows DEF FramesInv, Held
  <2>7. /\ ~Opening' /\ Hand' = <<>> /\ Run' = Hand /\ Run = Hand
    BY <1>10, <2>1, <2>4, <2>6 DEF Opening, Hand, Run, FramesInv
  <2>8. Held(<<>>, queue', said', capture', frames')
    BY EmptyKeeps DEF Held
  <2>9. Leads(Run', queue', capture', frames', capturing')
    BY <1>10, <2>1, <2>7 DEF FramesInv
  <2> QED
    BY <1>10, <2>3, <2>6, <2>7, <2>8, <2>9 DEF FramesInv
<1>11. CASE Partial
  BY <1>9, <1>11, <1>q, GoOnResumes DEF Partial
<1>12. CASE SpeechEnd
  <2>1. /\ consumer = "ending" /\ consumer' = "finishing"
        /\ stage' = [stage EXCEPT ![turn] = "ended"]
        /\ UNCHANGED <<capture, frames, capturing, queue, vad, todo, turn, said>>
    BY <1>12 DEF SpeechEnd, Tell
  <2>2. Len(stage') = Len(stage)
    BY <1>q, <2>1 DEF ConsumerTypes
  <2>3. ~Opening' /\ ~Opening /\ Speaking /\ Live /\ Hand' = Hand /\ Run' = Run
    BY <2>1 DEF Opening, Speaking, Live, Hand, Run, Closing
  <2> QED
    BY <2>1, <2>2, <2>3, FramesStill
<1>13. CASE Final
  <2>1. /\ consumer = "finalising" /\ consumer' \in {"waiting", "done"} /\ ~vad.active
        /\ stage' = [stage EXCEPT ![turn] = "final"] /\ turn' = NoTurn
        /\ UNCHANGED <<capture, frames, capturing, queue, vad, said>>
    BY <1>13, <1>q, FinalFinishes DEF Finishes, TurnInv, Closing
  <2>2. Len(stage') = Len(stage)
    BY <1>q, <2>1 DEF ConsumerTypes
  <2>3. ~Opening' /\ ~Opening /\ ~Speaking' /\ Live /\ Hand' = Hand /\ Run' = Run
    BY <2>1 DEF Opening, Speaking, Live, Hand, Run, Closing
  <2> QED
    BY <2>1, <2>2, <2>3, FramesStill
<1>14. ASSUME NEW c \in calls, Answered(c)
       PROVE  FramesInv'
  <2>1. /\ consumer \in {"initialising", "recognising", "finishing"} /\ Answers
        /\ UNCHANGED <<capture, frames, capturing, queue, vad, turn, stage>>
    BY <1>q, <1>14, AnsweredIs DEF Awaited
  <2>2. CASE consumer \in {"initialising", "recognising"} /\ Resumes
    BY <1>9, <1>10, <2>1, <2>2
  <2>3. CASE /\ UNCHANGED <<todo, said>>
             /\ \/ consumer = "recognising" /\ consumer' = "revising"
                \/ consumer = "finishing" /\ consumer' = "finalising"
                \/ consumer' = "failing"
    <3>1. /\ ~Opening' /\ (Live' => ~Opening /\ Live /\ Hand' = Hand /\ Run' = Run)
          /\ Speaking' => Speaking
      BY <2>1, <2>3 DEF Opening, Speaking, Live, Hand, Run, Closing
    <3> QED
      BY <2>1, <2>3, <3>1, FramesStill DEF Live, Opening
  <2> QED
    BY <2>1, <2>2, <2>3 DEF Answers
<1>15. ASSUME NEW c \in calls, ThreadRuns(c) \/ ThreadRaises(c)
       PROVE  FramesInv'
  <2>1. UNCHANGED <<capture, frames, capturing, queue, vad, consumer, todo, turn, said, stage>>
    BY <1>15 DEF ThreadRuns, ThreadRaises
  <2> QED
    BY <2>1 DEF FramesInv, Opening, Speaking, Live, Hand, Run
<1> QED
  BY <1>1, <1>2, <1>3, <1>4, <1>5, <1>6, <1>7, <1>8, <1>11, <1>12, <1>13, <1>14, <1>15
     DEF Next, Consume

-----------------------------------------------------------------------------
(* The recogniser has all that was said: in its state and what is pending, *)
(* or in the hands of the call that is under way.  A thread that outlives  *)
(* its consumer spoils it.                                                 *)
Whole(s) == asr.state # NoState /\ asr.state \o s = said[turn]

StartHas(c) ==
  /\ c.at \in {"cleared", "returned"} => asr.pending = <<>>
  /\ c.at = "returned" => asr.state = <<>>

AcceptHas(c) ==
  /\ c.at = "queued" => Whole(asr.pending \o c.frames)
  /\ c.at = "holding" => Whole(c.frames \o asr.pending)
  /\ c.at \in {"extended", "transcribed", "returned", "changed"} => Whole(asr.pending)

FinishHas(c) ==
  /\ c.at = "queued" => Whole(asr.pending)
  /\ c.at = "holding" => Whole(c.frames)
  /\ c.at = "transcribed" => Whole(<<>>)
  /\ c.at \in {"read", "returned"} => c.frames = said[turn]

CallHas(c) ==
  /\ c.live
  /\ c.op = "start" => StartHas(c)
  /\ c.op = "accept" => AcceptHas(c)
  /\ c.op = "finish" => FinishHas(c)

Finals == \A t \in DOMAIN stage : stage[t] = "final" => text[t] = said[t] /\ said[t] # <<>>

AsrInv ==
  /\ \A c \in calls : CallHas(c)
  /\ consumer \in {"revising", "ending"} \/ (consumer = "waiting" /\ vad.active) =>
       Whole(asr.pending)
  /\ consumer = "finalising" => text[turn] = said[turn]
  /\ Finals

WholeInv == ~orphaned => AsrInv

(* As long as no thread has outlived its consumer.                         *)
LEMMA NoOrphans ==
  ASSUME VInv, AsrInv
  PROVE  /\ {d \in calls : ~d.live} = {} /\ (NoCall => calls' = {})
         /\ calls # {} => consumer \in DOMAIN Awaited
         /\ \A c \in calls : calls \ {c} = {}
         /\ CancelConsumer /\ ~orphaned' => calls' = {}
<1>1. \A c \in calls : c.live
  BY DEF AsrInv, CallHas
<1>2. {d \in calls : ~d.live} = {}
  BY <1>1
<1>3. calls # {} => consumer \in DOMAIN Awaited
  BY <1>1 DEF VInv, CallsInv
<1>4. \A c \in calls : calls \ {c} = {}
  BY <1>1 DEF VInv, CallsInv
<1>5. CancelConsumer /\ ~orphaned' => calls' = {}
  BY DEF CancelConsumer
<1> QED
  BY <1>2, <1>3, <1>4, <1>5 DEF NoCall

LEMMA Concat ==
  ASSUME NEW a \in Seq(Frame), NEW b \in Seq(Frame), NEW c \in Seq(Frame)
  PROVE  (a \o b) \o c = a \o (b \o c) /\ a \o <<>> = a /\ <<>> \o a = a
OBVIOUS

LEMMA Chunked ==
  ASSUME NEW p \in Seq(Frame), NEW n \in Nat, n <= Len(p)
  PROVE  SubSeq(p, 1, n) \o SubSeq(p, n + 1, Len(p)) = p
<1>1. /\ 1 \in 1 .. Len(p) + 1 /\ n \in 1 - 1 .. Len(p) /\ Len(p) \in n .. Len(p)
      /\ SubSeq(p, 1, Len(p)) = p
  OBVIOUS
<1> QED
  BY <1>1, ConcatAdjacentSubSeq

(* A step of the only thread there is.                                     *)
LEMMA BecomesHas ==
  ASSUME VInv, AsrInv, NEW c \in calls, NEW where, NEW s, Becomes(c, where, s)
  PROVE  /\ c.live /\ c \in RecogniserCall /\ consumer \in DOMAIN Awaited
         /\ \A d \in calls' : d.op = c.op /\ d.at = where /\ d.frames = s /\ d.live
<1>1. c.live /\ c \in RecogniserCall /\ consumer \in DOMAIN Awaited
  BY NoOrphans DEF AsrInv, CallHas, VInv, Types, CallTypes
<1>2. calls' \subseteq {[c EXCEPT !.at = where, !.frames = s]}
  BY <1>1, NoOrphans DEF Becomes
<1> DEFINE e == [c EXCEPT !.at = where, !.frames = s]
<1>3. e.op = c.op /\ e.at = where /\ e.frames = s /\ e.live = c.live
  BY <1>1 DEF RecogniserCall
<1> QED
  BY <1>1, <1>2, <1>3

LEMMA StartsHave ==
  ASSUME VInv, AsrInv, NEW c \in calls, c.op = "start", StartTurn(c)
  PROVE  \A d \in calls' : CallHas(d)'
<1>q. asr \in Asr /\ StartHas(c)
  BY DEF VInv, Types, CallTypes, AsrInv, CallHas
<1>1. CASE /\ asr' = [asr EXCEPT !.pending = <<>>]
           /\ Becomes(c, "cleared", <<>>)
  <2>1. \A d \in calls' : d.op = "start" /\ d.at = "cleared" /\ d.live
    BY <1>1, BecomesHas
  <2>2. asr'.pending = <<>>
    BY <1>q, <1>1 DEF Asr
  <2> QED
    BY <2>1, <2>2 DEF CallHas, StartHas
<1>2. CASE /\ c.at = "cleared"
           /\ asr' = [asr EXCEPT !.state = <<>>]
           /\ Becomes(c, "returned", <<>>)
  <2>1. \A d \in calls' : d.op = "start" /\ d.at = "returned" /\ d.live
    BY <1>2, BecomesHas
  <2>2. asr'.pending = <<>> /\ asr'.state = <<>>
    BY <1>q, <1>2 DEF Asr, StartHas
  <2> QED
    BY <2>1, <2>2 DEF CallHas, StartHas
<1> QED
  BY <1>1, <1>2 DEF StartTurn

(* Moving pending audio to a chunk and a chunk to the state loses nothing. *)
LEMMA AcceptsHave ==
  ASSUME VInv, AsrInv, NEW c \in calls, c.op = "accept", AcceptPcm(c),
         UNCHANGED <<turn, said>>
  PROVE  \A d \in calls' : CallHas(d)'
<1>q. asr \in Asr /\ AcceptHas(c) /\ c.frames \in Seq(Frame) /\ ChunkFrames \in Nat
  BY Windows DEF VInv, Types, CallTypes, AsrInv, CallHas, RecogniserCall
<1>p. asr.pending \in Seq(Frame) /\ (asr.state # NoState => asr.state \in Seq(Frame))
  BY <1>q DEF Asr
<1>1. CASE NoStateLeft(c)
  <2>1. \A d \in calls' : d.op = "accept" /\ d.at = "raised" /\ d.live
    BY <1>1, BecomesHas DEF NoStateLeft
  <2> QED
    BY <2>1 DEF CallHas, AcceptHas
<1>2. CASE /\ c.at = "queued" /\ asr.state # NoState
           /\ asr' = [asr EXCEPT !.pending = @ \o c.frames]
           /\ Becomes(c, "extended", <<>>)
  <2>1. \A d \in calls' : d.op = "accept" /\ d.at = "extended" /\ d.live
    BY <1>2, BecomesHas
  <2>2. asr'.pending = asr.pending \o c.frames /\ asr'.state = asr.state
    BY <1>q, <1>2 DEF Asr
  <2>3. Whole(asr.pending)'
    BY <1>q, <1>2, <2>2 DEF AcceptHas, Whole
  <2> QED
    BY <2>1, <2>3 DEF CallHas, AcceptHas
<1>3. CASE /\ c.at \in {"extended", "transcribed"} /\ Len(asr.pending) >= ChunkFrames
           /\ asr' = [asr EXCEPT !.pending = SubSeq(@, ChunkFrames + 1, Len(@))]
           /\ Becomes(c, "holding", SubSeq(asr.pending, 1, ChunkFrames))
  <2> DEFINE chunk == SubSeq(asr.pending, 1, ChunkFrames)
             rest == SubSeq(asr.pending, ChunkFrames + 1, Len(asr.pending))
  <2>1. \A d \in calls' : d.op = "accept" /\ d.at = "holding" /\ d.frames = chunk /\ d.live
    <3>1. Becomes(c, "holding", chunk)
      BY <1>3
    <3> HIDE DEF chunk
    <3> QED
      BY <3>1, BecomesHas
  <2>2. asr'.pending = rest /\ asr'.state = asr.state
    <3>1. asr' = [asr EXCEPT !.pending = rest]
      BY <1>3
    <3> HIDE DEF rest
    <3> QED
      BY <1>q, <3>1 DEF Asr
  <2>3. chunk \o rest = asr.pending
    <3>1. ChunkFrames <= Len(asr.pending)
      BY <1>q, <1>p, <1>3
    <3> QED
      BY <1>q, <1>p, <3>1, Chunked
  <2> HIDE DEF chunk, rest
  <2>4. asr'.state # NoState /\ asr'.state \o (chunk \o asr'.pending) = said'[turn']
    BY <1>q, <1>3, <2>2, <2>3 DEF AcceptHas, Whole
  <2> QED
    BY <2>1, <2>4 DEF CallHas, AcceptHas, Whole
<1>4. CASE c.at = "holding" /\ Transcribe(c)
  <2>1. \A d \in calls' : d.op = "accept" /\ d.at = "transcribed" /\ d.live
    BY <1>4, BecomesHas DEF Transcribe
  <2>2. /\ asr'.pending = asr.pending /\ asr'.state = asr.state \o c.frames
        /\ asr.state \in Seq(Frame)
    BY <1>q, <1>p, <1>4 DEF Transcribe, Asr
  <2>3. asr'.state # NoState
    <3>1. asr.state \o c.frames \in Seq(Frame)
      BY <1>q, <2>2
    <3> QED
      BY <2>2, <3>1, Windows
  <2>4. asr'.state \o asr'.pending = asr.state \o (c.frames \o asr.pending)
    <3>1. \A a, b, d \in Seq(Frame) : (a \o b) \o d = a \o (b \o d)
      BY Concat
    <3>2. (asr.state \o c.frames) \o asr.pending = asr.state \o (c.frames \o asr.pending)
      BY <1>q, <1>p, <2>2, <3>1, Zenon
    <3> QED
      BY <2>2, <3>2
  <2>5. Whole(asr.pending)'
    BY <1>q, <1>4, <2>3, <2>4 DEF AcceptHas, Whole
  <2> QED
    BY <2>1, <2>5 DEF CallHas, AcceptHas
<1>5. CASE /\ c.at \in {"extended", "transcribed"} /\ UNCHANGED asr
           /\ Becomes(c, "returned", <<>>) \/ Becomes(c, "changed", <<>>)
  <2>1. \A d \in calls' : d.op = "accept" /\ d.at \in {"returned", "changed"} /\ d.live
    BY <1>5, BecomesHas
  <2>2. Whole(asr.pending)'
    BY <1>q, <1>5 DEF AcceptHas, Whole
  <2> QED
    BY <2>1, <2>2 DEF CallHas, AcceptHas
<1> QED
  BY <1>1, <1>2, <1>3, <1>4, <1>5 DEF AcceptPcm

(* finish() reads the text once the rest is in it.                         *)
LEMMA FinishesHave ==
  ASSUME VInv, AsrInv, NEW c \in calls, c.op = "finish", Finish(c),
         UNCHANGED <<turn, said>>
  PROVE  \A d \in calls' : CallHas(d)'
<1>q. asr \in Asr /\ FinishHas(c) /\ c.frames \in Seq(Frame)
  BY DEF VInv, Types, CallTypes, AsrInv, CallHas, RecogniserCall
<1>p. asr.pending \in Seq(Frame) /\ (asr.state # NoState => asr.state \in Seq(Frame))
  BY <1>q DEF Asr
<1>1. CASE c.at = "queued" /\ asr.state = NoState
  BY <1>q, <1>1 DEF FinishHas, Whole
<1>2. CASE /\ c.at = "queued" /\ Becomes(c, "holding", asr.pending) /\ UNCHANGED asr
  <2>1. \A d \in calls' : d.op = "finish" /\ d.at = "holding" /\ d.frames = asr.pending /\ d.live
    BY <1>2, BecomesHas
  <2>2. asr'.state # NoState /\ asr'.state \o asr.pending = said'[turn']
    BY <1>q, <1>2 DEF FinishHas, Whole
  <2> QED
    BY <2>1, <2>2 DEF CallHas, FinishHas, Whole
<1>3. CASE NoStateLeft(c)
  <2>1. \A d \in calls' : d.op = "finish" /\ d.at = "raised" /\ d.live
    BY <1>3, BecomesHas DEF NoStateLeft
  <2> QED
    BY <2>1 DEF CallHas, FinishHas
<1>4. CASE c.at = "holding" /\ Transcribe(c)
  <2>1. \A d \in calls' : d.op = "finish" /\ d.at = "transcribed" /\ d.live
    BY <1>4, BecomesHas DEF Transcribe
  <2>2. asr'.state = asr.state \o c.frames /\ asr.state \in Seq(Frame)
    BY <1>q, <1>p, <1>4 DEF Transcribe, Asr
  <2>3. asr'.state \in Seq(Frame)
    BY <1>q, <2>2
  <2>4. asr'.state # NoState /\ asr'.state \o <<>> = asr.state \o c.frames
    BY <2>2, <2>3, Windows, Concat
  <2>5. Whole(<<>>)'
    BY <1>q, <1>4, <2>4 DEF FinishHas, Whole
  <2> QED
    BY <2>1, <2>5 DEF CallHas, FinishHas
<1>5. CASE /\ c.at = "transcribed" /\ asr.state # NoState
           /\ Becomes(c, "read", asr.state)
           /\ UNCHANGED asr
  <2>1. \A d \in calls' : d.op = "finish" /\ d.at = "read" /\ d.frames = asr.state /\ d.live
    BY <1>5, BecomesHas
  <2>2. asr.state = said'[turn']
    <3>1. asr.state \o <<>> = asr.state
      BY <1>p, <1>5, Concat
    <3> QED
      BY <1>q, <1>5, <3>1 DEF FinishHas, Whole
  <2> QED
    BY <2>1, <2>2 DEF CallHas, FinishHas
<1>6. CASE c.at = "read" /\ Becomes(c, "returned", c.frames)
  <2>1. \A d \in calls' : d.op = "finish" /\ d.at = "returned" /\ d.frames = c.frames /\ d.live
    BY <1>6, BecomesHas
  <2>2. c.frames = said'[turn']
    BY <1>q, <1>6 DEF FinishHas
  <2> QED
    BY <2>1, <2>2 DEF CallHas, FinishHas
<1> QED
  BY <1>1, <1>2, <1>3, <1>4, <1>5, <1>6 DEF Finish

LEMMA ThreadsHave ==
  ASSUME VInv, AsrInv, NEW c \in calls, ThreadRuns(c) \/ ThreadRaises(c)
  PROVE  AsrInv'
<1>1. UNCHANGED <<vad, consumer, turn, stage, text, said>> /\ consumer \in DOMAIN Awaited
  BY NoOrphans DEF ThreadRuns, ThreadRaises, outcome
<1>2. \A d \in calls' : CallHas(d)'
  <2>1. CASE ThreadRaises(c)
    <3>1. \A d \in calls' : d.at = "raised" /\ d.live
      BY <2>1, BecomesHas DEF ThreadRaises
    <3> QED
      BY <3>1 DEF CallHas, StartHas, AcceptHas, FinishHas
  <2>2. CASE ThreadRuns(c)
    BY <1>1, <2>2, StartsHave, AcceptsHave, FinishesHave DEF ThreadRuns
  <2> QED
    BY <2>1, <2>2
<1>3. Finals'
  BY <1>1 DEF AsrInv, Finals
<1> QED
  BY <1>1, <1>2, <1>3 DEF AsrInv, Awaited

(* The consumer calls the recogniser for the turn, or with the turn's      *)
(* frames.                                                                 *)
LEMMA AwaitHas ==
  ASSUME VInv, AsrInv, NEW op, NEW s, Await(Call(op, s))
  PROVE  \A d \in calls' : d.op = op /\ d.frames = s /\ d.at = "queued" /\ d.live
<1>1. calls' = {Call(op, s)}
  BY NoOrphans DEF Await
<1> QED
  BY <1>1 DEF Call

LEMMA AsrTake ==
  ASSUME VInv, FramesInv, AsrInv, Take
  PROVE  AsrInv'
<1>q. /\ NetTypes /\ ConsumerTypes /\ VadTypes /\ CallTypes /\ CaptureInv /\ TurnInv
  BY DEF VInv, Types
<1>1. consumer = "waiting" /\ Taken /\ UNCHANGED asr /\ queue # <<>>
  BY <1>q, TakeHandles
<1>2. calls = {} /\ (NoCall => calls' = {})
  BY <1>1, NoOrphans DEF Awaited
<1>3. CASE EndsIdle \/ HearsNothing
  BY <1>1, <1>2, <1>3 DEF EndsIdle, HearsNothing, Idle, outcome, AsrInv, Finals
<1>4. CASE CutsOff
  BY <1>1, <1>2, <1>4 DEF CutsOff, outcome, AsrInv, Finals, Whole
<1>5. ASSUME NEW s \in Seq(Frame), BeginsTurn(s)
      PROVE  AsrInv'
  <2>1. /\ consumer' = "starting" /\ calls' = {}
        /\ stage' = Append(stage, "begun") /\ text' = Append(text, <<>>)
        /\ said' = Append(said, <<>>)
    BY <1>2, <1>5 DEF BeginsTurn, BeginTurn
  <2>2. /\ DOMAIN stage' = 1 .. Len(stage) + 1 /\ DOMAIN stage = 1 .. Len(stage) /\ Len(stage) \in Nat
        /\ \A t \in 1 .. Len(stage) :
             stage'[t] = stage[t] /\ text'[t] = text[t] /\ said'[t] = said[t]
        /\ stage'[Len(stage) + 1] = "begun"
    BY <1>q, <2>1 DEF ConsumerTypes
  <2>3. Finals'
    BY <2>2 DEF AsrInv, Finals
  <2> QED
    BY <2>1, <2>3 DEF AsrInv
<1>6. ASSUME NEW f \in Frame, GoesOn(f) \/ EndsTurn(f)
      PROVE  AsrInv'
  <2>1. /\ vad.active /\ UNCHANGED <<turn, stage, text>> /\ consumer' = "recognising"
        /\ said' = [said EXCEPT ![turn] = @ \o <<f>>] /\ Await(Call("accept", <<f>>))
    BY <1>6 DEF GoesOn, EndsTurn, Recognises
  <2>2. /\ turn \in DOMAIN stage /\ turn \in DOMAIN said /\ stage[turn] = "speech"
        /\ said \in Seq(Seq(Frame)) /\ DOMAIN said = DOMAIN stage
    BY <1>q, <1>1, <2>1, Windows DEF TurnInv, ConsumerTypes
  <2>3. said'[turn] = said[turn] \o <<f>> /\ \A t \in DOMAIN said : t # turn => said'[t] = said[t]
    BY <2>1, <2>2
  <2>4. Whole(asr.pending) /\ asr \in Asr
    BY <1>q, <1>1, <2>1 DEF AsrInv, CallTypes
  <2>5. asr.state \o (asr.pending \o <<f>>) = said'[turn]
    <3>1. <<f>> \in Seq(Frame) /\ asr.state \in Seq(Frame) /\ asr.pending \in Seq(Frame)
      BY <2>4 DEF Asr, Whole
    <3>2. (asr.state \o asr.pending) \o <<f>> = asr.state \o (asr.pending \o <<f>>)
      BY <3>1, Concat, Zenon
    <3> QED
      BY <2>3, <2>4, <3>2 DEF Whole
  <2>6. \A d \in calls' : CallHas(d)'
    <3>1. \A d \in calls' : d.op = "accept" /\ d.frames = <<f>> /\ d.at = "queued" /\ d.live
      BY <2>1, AwaitHas
    <3>2. asr'.state # NoState /\ asr'.state \o (asr'.pending \o <<f>>) = said'[turn']
      BY <1>1, <2>1, <2>4, <2>5 DEF Whole
    <3> QED
      BY <3>1, <3>2 DEF CallHas, AcceptHas, Whole
  <2>7. Finals'
    BY <2>1, <2>2, <2>3 DEF AsrInv, Finals
  <2> QED
    BY <2>1, <2>6, <2>7 DEF AsrInv
<1> QED
  BY <1>1, <1>3, <1>4, <1>5, <1>6 DEF Taken

(* Going on with the frame in hand needs all of what was said before.      *)
LEMMA AsrResumes ==
  ASSUME VInv, FramesInv, AsrInv, Resumes, UNCHANGED <<vad, turn, stage, text, asr>>,
         \/ consumer \in {"recognising", "revising"} /\ Whole(asr.pending)
         \/ consumer = "initialising" /\ asr.pending = <<>> /\ asr.state = <<>>
  PROVE  AsrInv'
<1>q. ConsumerTypes /\ TurnInv /\ (NoCall => calls' = {})
  BY NoOrphans DEF VInv, Types
<1>1. CASE consumer \in {"recognising", "revising"} /\ Whole(asr.pending)
  <2>1. \A s : todo # <<Audio(s)>>
    BY <1>q, <1>1 DEF TurnInv, Audio, Stop
  <2>2. UNCHANGED said /\ consumer' \in {"waiting", "ending"} /\ calls' = {}
    BY <1>q, <2>1 DEF Resumes
  <2>3. Whole(asr.pending)' /\ Finals'
    BY <1>1, <2>2 DEF Whole, AsrInv, Finals
  <2> QED
    BY <2>2, <2>3 DEF AsrInv
<1>2. CASE consumer = "initialising" /\ asr.pending = <<>> /\ asr.state = <<>>
  <2>1. PICK s \in Seq(Frame) : Recognises(s, <<>>)
    <3>1. \E s \in Seq(Frame) : todo = <<Audio(s)>>
      BY <1>q, <1>2 DEF TurnInv
    <3>2. todo # <<>> /\ todo # <<Stop>>
      BY <3>1 DEF Audio, Stop
    <3> QED
      BY <3>2 DEF Resumes
  <2>2. /\ turn \in DOMAIN stage /\ turn \in DOMAIN said /\ stage[turn] = "speech"
        /\ said \in Seq(Seq(Frame)) /\ DOMAIN said = DOMAIN stage /\ said[turn] = <<>>
    BY <1>q, <1>2, Windows DEF TurnInv, ConsumerTypes, Busy, FramesInv, Opening
  <2>3. said'[turn] = s /\ \A t \in DOMAIN said : t # turn => said'[t] = said[t]
    BY <2>1, <2>2, Concat DEF Recognises
  <2>4. asr'.state # NoState /\ asr'.state \o (asr'.pending \o s) = said'[turn']
    <3>1. <<>> \in Seq(Frame)
      OBVIOUS
    <3>2. <<>> # NoState
      BY <3>1, Windows
    <3> QED
      BY <1>2, <2>3, <3>1, <3>2, Concat
  <2>5. \A d \in calls' : CallHas(d)'
    <3>1. \A d \in calls' : d.op = "accept" /\ d.frames = s /\ d.at = "queued" /\ d.live
      BY <2>1, AwaitHas DEF Recognises
    <3> QED
      BY <2>4, <3>1 DEF CallHas, AcceptHas, Whole
  <2>6. Finals'
    BY <2>2, <2>3 DEF AsrInv, Finals
  <2> QED
    BY <2>1, <2>5, <2>6 DEF AsrInv, Recognises
<1> QED
  BY <1>1, <1>2

LEMMA AsrAnswered ==
  ASSUME VInv, FramesInv, AsrInv, NEW c \in calls, Answered(c)
  PROVE  AsrInv'
<1>q. /\ CallTypes /\ CallsInv /\ CaptureInv /\ TurnInv /\ ConsumerTypes
      /\ c \in RecogniserCall /\ (NoCall => calls' = {})
  BY NoOrphans DEF VInv, Types, CallTypes
<1>1. /\ consumer \in {"initialising", "recognising", "finishing"} /\ c.op = Awaited[consumer]
      /\ c.at = "changed" => c.op = "accept"
      /\ UNCHANGED <<vad, turn, asr, stage>> /\ CallHas(c)
  BY <1>q DEF Answered, CallsInv, Awaited, AsrInv
<1>2. CASE /\ c.at = "changed" \/ (c.at = "returned" /\ c.op # "finish")
           /\ GoOn(todo, last)
           /\ UNCHANGED text
  <2>1. consumer \in {"initialising", "recognising"}
    BY <1>1, <1>2 DEF Awaited
  <2>2. Resumes
    BY <1>q, <1>2, <2>1, GoOnResumes
  <2>3. \/ consumer = "recognising" /\ Whole(asr.pending)
        \/ consumer = "initialising" /\ asr.pending = <<>> /\ asr.state = <<>>
    BY <1>1, <1>2, <2>1 DEF Awaited, CallHas, AcceptHas, StartHas
  <2> QED
    BY <1>1, <1>2, <2>2, <2>3, AsrResumes
<1>3. CASE c.at = "changed" /\ consumer' = "revising" /\ NoCall /\ UNCHANGED <<text, said>>
  <2>1. Whole(asr.pending)' /\ calls' = {}
    BY <1>q, <1>1, <1>3 DEF CallHas, AcceptHas, Whole
  <2> QED
    BY <1>1, <1>3, <2>1 DEF AsrInv, Finals
<1>4. CASE /\ c.at = "returned" /\ c.op = "finish" /\ consumer' = "finalising"
           /\ text' = [text EXCEPT ![turn] = c.frames] /\ NoCall /\ UNCHANGED said
  <2>1. /\ turn \in DOMAIN text /\ stage[turn] = "ended" /\ DOMAIN text = DOMAIN stage
        /\ text \in Seq(Seq(Frame))
    BY <1>q, <1>1, <1>4, Windows DEF TurnInv, ConsumerTypes, Awaited, Closing
  <2>2. text'[turn] = c.frames /\ \A t \in DOMAIN text : t # turn => text'[t] = text[t]
    BY <1>4, <2>1
  <2>3. c.frames = said[turn]
    BY <1>1, <1>4 DEF CallHas, FinishHas
  <2>4. Finals'
    BY <1>1, <1>4, <2>1, <2>2 DEF AsrInv, Finals
  <2> QED
    BY <1>q, <1>1, <1>4, <2>2, <2>3, <2>4 DEF AsrInv
<1>5. CASE c.at = "raised" /\ consumer' = "failing" /\ NoCall /\ UNCHANGED <<text, said>>
  BY <1>q, <1>1, <1>5 DEF AsrInv, Finals
<1> QED
  BY <1>2, <1>3, <1>4, <1>5 DEF Answered

LEMMA AsrStep ==
  ASSUME VInv, FramesInv, WholeInv, [Next]_vars
  PROVE  WholeInv'
<1> SUFFICES ASSUME ~orphaned' PROVE AsrInv'
  BY DEF WholeInv
<1> USE DEF ingress, mind, net, outcome
<1>0. ~orphaned
  BY DEF Next, Consume, CaptureStart, Binary, CaptureEnd, Backpressure, PutEnd, Joined, Disconnect,
         Leave, Close, Take, SpeechStart, Partial, SpeechEnd, Final, Answered, Fail, Die,
         ThreadRuns, ThreadRaises, CancelConsumer, vars
<1>q. /\ NetTypes /\ ConsumerTypes /\ VadTypes /\ CallTypes /\ CallsInv /\ CaptureInv /\ TurnInv
      /\ AsrInv
  BY <1>0 DEF VInv, Types, WholeInv
<1>1. CASE CaptureStart
  <2>1. /\ calls' = {} /\ consumer' = "waiting" /\ ~vad'.active /\ UNCHANGED <<stage, text, said>>
    BY <1>q, <1>1, NoOrphans DEF CaptureStart, ResetVad
  <2> QED
    BY <1>q, <2>1 DEF AsrInv, Finals
<1>2. CASE Backpressure \/ Leave
  <2>1. /\ calls' = {} /\ consumer' = "done" /\ UNCHANGED <<stage, text, said>>
    BY <1>q, <1>2, NoOrphans DEF Backpressure, Leave, Close
  <2> QED
    BY <1>q, <2>1 DEF AsrInv, Finals
<1>3. CASE Binary \/ CaptureEnd \/ PutEnd \/ Joined \/ Disconnect \/ UNCHANGED vars
  <2>1. UNCHANGED <<vad, consumer, turn, calls, asr, stage, text, said>>
    BY <1>3 DEF Binary, CaptureEnd, PutEnd, Joined, Disconnect, vars
  <2> QED
    BY <1>q, <2>1 DEF AsrInv, Finals, CallHas, StartHas, AcceptHas, FinishHas, Whole
<1>4. CASE Fail \/ Die
  <2>1. consumer' = "done" /\ UNCHANGED <<turn, calls, asr, stage, text, said>>
    BY <1>4 DEF Fail, Die
  <2> QED
    BY <1>q, <2>1 DEF AsrInv, Finals, CallHas, StartHas, AcceptHas, FinishHas, Whole
<1>5. CASE Take
  BY <1>q, <1>5, AsrTake
<1>6. CASE SpeechStart \/ SpeechEnd
  <2>1. /\ \/ consumer' = "initialising" /\ Await(Call("start", <<>>))
              /\ stage' = [stage EXCEPT ![turn] = "speech"]
           \/ consumer = "ending" /\ consumer' = "finishing" /\ Await(Call("finish", <<>>))
              /\ stage' = [stage EXCEPT ![turn] = "ended"]
        /\ UNCHANGED <<turn, asr, text, said>>
    BY <1>6 DEF SpeechStart, SpeechEnd, Tell
  <2>2. Finals'
    <3>1. \A t \in DOMAIN stage' : stage'[t] = "final" => t \in DOMAIN stage /\ stage[t] = "final"
      BY <1>q, <2>1 DEF ConsumerTypes
    <3> QED
      BY <1>q, <2>1, <3>1 DEF AsrInv, Finals
  <2>3. CASE consumer' = "initialising" /\ Await(Call("start", <<>>))
    <3>1. \A d \in calls' : d.op = "start" /\ d.at = "queued" /\ d.live
      BY <1>q, <2>3, AwaitHas
    <3> QED
      BY <2>2, <2>3, <3>1 DEF AsrInv, CallHas, StartHas
  <2>4. CASE consumer = "ending" /\ consumer' = "finishing" /\ Await(Call("finish", <<>>))
    <3>1. \A d \in calls' : d.op = "finish" /\ d.at = "queued" /\ d.live
      BY <1>q, <2>4, AwaitHas
    <3>2. Whole(asr.pending)'
      BY <1>q, <2>1, <2>4 DEF AsrInv, Whole
    <3> QED
      BY <2>2, <2>4, <3>1, <3>2 DEF AsrInv, CallHas, FinishHas
  <2> QED
    BY <2>1, <2>3, <2>4
<1>7. CASE Partial
  <2>1. /\ Resumes /\ consumer = "revising" /\ UNCHANGED <<vad, turn, stage, text, asr>>
    BY <1>7, <1>q, GoOnResumes DEF Partial
  <2>2. Whole(asr.pending)
    BY <1>q, <2>1 DEF AsrInv
  <2> QED
    BY <1>q, <2>1, <2>2, AsrResumes
<1>8. CASE Final
  <2>1. Finishes
    BY <1>8, <1>q, FinalFinishes
  <2>2. /\ calls' = {} /\ consumer' \in {"waiting", "done"} /\ ~vad'.active
        /\ consumer = "finalising" /\ stage' = [stage EXCEPT ![turn] = "final"]
        /\ UNCHANGED <<text, said>>
    BY <1>q, <2>1, NoOrphans DEF Finishes, TurnInv, Closing
  <2>3. text[turn] = said[turn] /\ said[turn] # <<>>
    BY <1>q, <2>2 DEF AsrInv, FramesInv, Speaking, Closing
  <2>4. Finals'
    <3>1. \A t \in DOMAIN stage' : t \in DOMAIN stage /\ (t = turn \/ stage'[t] = stage[t])
      BY <1>q, <2>2 DEF ConsumerTypes
    <3> QED
      BY <1>q, <2>2, <2>3, <3>1 DEF AsrInv, Finals
  <2> QED
    BY <2>2, <2>4 DEF AsrInv
<1>9. ASSUME NEW c \in calls, Answered(c)
      PROVE  AsrInv'
  BY <1>9, <1>q, AsrAnswered
<1>10. ASSUME NEW c \in calls, ThreadRuns(c) \/ ThreadRaises(c)
       PROVE  AsrInv'
  BY <1>10, <1>q, ThreadsHave
<1> QED
  BY <1>1, <1>2, <1>3, <1>4, <1>5, <1>6, <1>7, <1>8, <1>9, <1>10 DEF Next, Consume

-----------------------------------------------------------------------------
(* The STT_FINAL of a turn stands for all of its frames, which are an      *)
(* unbroken run of one capture behind every other turn's: for queues,      *)
(* windows and chunks of any length, whatever the overflows, errors and    *)
(* lost connections, as long as no thread has outlived its consumer.       *)
THEOREM FinalsAreWhole == Spec => []FinalIsWhatWasSaid
<1>1. Init => FramesInv /\ WholeInv
  <2> SUFFICES ASSUME Init PROVE FramesInv /\ WholeInv
    OBVIOUS
  <2>1. FramesInv
    BY EmptyKeeps
       DEF Init, ResetVad, FramesInv, Opening, Speaking, Live, Closing, Queued, Told
  <2>2. WholeInv
    BY DEF Init, WholeInv, AsrInv, Finals
  <2> QED
    BY <2>1, <2>2
<1>2. VInv /\ FramesInv /\ WholeInv /\ [Next]_vars => FramesInv' /\ WholeInv'
  BY FramesStep, AsrStep
<1>3. VInv /\ FramesInv /\ WholeInv => FinalIsWhatWasSaid
  <2> SUFFICES ASSUME VInv, FramesInv, WholeInv, ~orphaned,
                      NEW t \in DOMAIN stage, stage[t] = "final"
               PROVE  /\ text[t] = said[t] /\ said[t] # <<>>
                      /\ \A i \in 1 .. Len(said[t]) - 1 :
                           said[t][i + 1] = [said[t][i] EXCEPT !.index = @ + 1]
                      /\ \A u \in 1 .. t - 1 :
                           said[u] # <<>> => Follows(said[t][1], said[u][Len(said[u])])
    BY DEF FinalIsWhatWasSaid
  <2>1. text[t] = said[t] /\ said[t] # <<>>
    BY DEF WholeInv, AsrInv, Finals
  <2>2. said \in Seq(Seq(Frame)) /\ t \in DOMAIN said /\ t \in Nat /\ Told(said, queue, capture, frames)
    BY DEF VInv, Types, ConsumerTypes, FramesInv
  <2>3. ASSUME NEW i \in 1 .. Len(said[t]) - 1
        PROVE  said[t][i + 1] = [said[t][i] EXCEPT !.index = @ + 1]
    <3> DEFINE s == said[t]
    <3>1. s \in Seq(Frame) /\ Unbroken(s)
      BY <2>2 DEF Told
    <3> HIDE DEF s
    <3>2. i \in DOMAIN s /\ i + 1 \in DOMAIN s /\ i < i + 1 /\ i \in Nat
      BY <2>3, <3>1 DEF s
    <3>3. PICK j \in DOMAIN s : j = i + 1
      BY <3>2
    <3>4. s[i] \in Frame /\ s[j] \in Frame
      BY <3>1, <3>2
    <3>5. Succeeds(s[j], s[i], j - i)
      <4>1. s[i] # End /\ s[j] # End /\ i \in DOMAIN s /\ i < j
        BY <3>2, <3>3, <3>4, Windows
      <4> QED
        BY <3>1, <4>1 DEF Unbroken
    <3>6. s[j] = [s[i] EXCEPT !.index = @ + 1]
      <4>1. j - i = 1
        BY <3>2, <3>3
      <4> QED
        BY <3>4, <3>5, <4>1 DEF Succeeds, Frame
    <3> QED
      BY <3>3, <3>6 DEF s
  <2>4. ASSUME NEW u \in 1 .. t - 1, said[u] # <<>>
        PROVE  Follows(said[t][1], said[u][Len(said[u])])
    <3>1. u \in DOMAIN said /\ u < t
      BY <2>2
    <3>2. Ahead(said[t], said[u]) /\ said[t] \in Seq(Frame) /\ said[u] \in Seq(Frame)
      BY <2>2, <3>1 DEF Told
    <3>3. 1 \in DOMAIN said[t] /\ Len(said[u]) \in DOMAIN said[u] /\ said[t][1] \in Frame
      BY <2>1, <2>4, <3>2
    <3> QED
      BY <3>2, <3>3, Windows DEF Ahead
  <2> QED
    BY <2>1, <2>3, <2>4
<1> QED
  BY <1>1, <1>2, <1>3, Invariant, PTL DEF Spec
=============================================================================
