------------------------- MODULE ReleaseEvaluation --------------------------
(***************************************************************************)
(* scripts/evaluate-release.py: a client that plays a corpus to the        *)
(* gateway, one connection per case, then writes a list of prompts on one  *)
(* connection, reads until each turn is over, and decides whether the      *)
(* release passes.                                                         *)
(*                                                                         *)
(* The gateway is what it sends of a turn (runtime/response.py, server.py, *)
(* runtime/orchestrator.py): only the events that the client looks at.     *)
(***************************************************************************)
EXTENDS Evaluation

CONSTANTS
  Corpus,      (* cases: language, text, keyTerms, command, route, and     *)
               (* heard, the sequences of finals a recogniser may make of  *)
               (* the recording: a pause cuts it into two turns            *)
  Prompts,     (* texts of production_text_sample()                        *)
  RouteFixtures, PolicyFixtures,
               (* texts with the route or the decision that they expect    *)
  MinTurns,    (* turns that the decision asks for: 20                     *)
  Delay        (* latencies of the first audio, in milliseconds            *)

VARIABLES
  stage,     (* "voice", "text", "decide", or the verdict: "pass", "fail"  *)
  turn,      (* case or prompt at hand                                     *)
  reading,   (* its turn was begun                                         *)
  wire,      (* events on the way to the client: those of the first        *)
             (* speech of a recording, or of a prompt, and those of the    *)
             (* second speech                                              *)
  events,    (* events read in this turn                                   *)
  scores,    (* of the cases                                               *)
  legal,     (* legalTerminal of the prompts                               *)
  (* History.                                                              *)
  told       (* of each case and prompt: what was heard, and whether no    *)
             (* ERROR was sent                                             *)

vars == <<stage, turn, reading, wire, events, scores, legal, told>>

NoneLeft == <<<<>>, <<>>>>

Init ==
  /\ stage = "voice" /\ turn = 1 /\ reading = FALSE /\ wire = NoneLeft
  /\ events = <<>> /\ scores = <<>> /\ legal = <<>> /\ told = <<>>

Event(type, about) == [type |-> type, about |-> about]
Final(text) == Event("STT_FINAL", text)
Ack == Event("COMMAND_ACK", "ACCEPTED")
TtsEnd(outcome) == Event("TTS_END", outcome)
Failure == Event("ERROR", "")
Idle == Event("AGENT_STATE", "idle")

Holds(type, seq) == \E i \in DOMAIN seq : seq[i].type = type

(* An empty final, of which no turn is started.                            *)
Nothing == [command |-> NoCommand, marks |-> {}, units |-> <<>>]

(* What a turn of this text makes the gateway send.  A command to stop is  *)
(* acknowledged.  A response is spoken, or its speech fails, or the turn   *)
(* fails as a whole; without a speech service it is idle at once.          *)
Answers(text) ==
  CASE text = Nothing -> {<<>>}
    [] Recognize(text) = "STOP_SPEAKING" -> {<<Ack>>}
    [] OTHER -> { <<TtsEnd("COMPLETED"), Idle>>, <<TtsEnd("FAILED"), Failure, Idle>>,
                  <<Failure>>, <<Idle>> }

(* The same of a response that is interrupted or replaced by another one:  *)
(* it is no more the active one, so it does not get to its idle state.     *)
Begun(text) ==
  IF text = Nothing \/ Recognize(text) = "STOP_SPEAKING" THEN {}
  ELSE { <<>>, <<TtsEnd("COMPLETED")>>, <<TtsEnd("FAILED"), Failure>>, <<Failure>> }

(* The interruption of a response that has sent this: it ends the stream,  *)
(* if there is one.                                                        *)
Cuts(sent) ==
  {<<Ack>>} \cup IF Holds("TTS_END", sent) THEN {} ELSE {<<TtsEnd("INTERRUPTED"), Ack>>}

(* The second speech is recognised and answered, or its recognition fails. *)
Ends(text) == {<<Failure>>} \cup {<<Final(text)>> \o a : a \in Answers(text)}

(* What is sent after the first final: of the response to it, and of the   *)
(* second speech.  The speech finds no response to interrupt, as that is   *)
(* over or is yet to begin; it interrupts the response; or its own turn    *)
(* does so later, by a response or by a command to stop.  Of two responses *)
(* the one that begins first may be the one that is replaced.              *)
Second(first, second) ==
  { <<a, e>> : a \in Answers(first),
               e \in Ends(second) \cup {<<Final(second)>> \o b : b \in Begun(second)} }
  \cup UNION { { <<b, c \o e>> : c \in Cuts(b), e \in Ends(second) }
               \cup { <<b, <<Final(second)>> \o a>> :
                         a \in CASE second = Nothing -> {}
                                 [] Recognize(second) = "STOP_SPEAKING" -> Cuts(b)
                                 [] OTHER -> Answers(second) } : b \in Begun(first) }

(* A recording of which nothing is heard may have failed to be recognised. *)
Turn(heard) ==
  CASE Len(heard) = 0 -> {NoneLeft, <<<<Failure>>, <<>>>>}
    [] Len(heard) = 1 -> {<<<<Final(heard[1])>> \o a, <<>>>> : a \in Answers(heard[1])}
    [] OTHER -> {<<<<Final(heard[1])>> \o s[1], s[2]>> : s \in Second(heard[1], heard[2])}

Clean(sent) == ~Holds("ERROR", sent)

Told(heard, sent) ==
  [heard |-> heard, clean |-> Clean(sent[1]) /\ Clean(sent[2])]

Hello == <<Event("AGENT_MANIFEST", ""), Idle>>

-----------------------------------------------------------------------------
(* run_voice_case(): connect, shake hands, send the recording.             *)
OpenCase ==
  /\ stage = "voice" /\ ~reading /\ turn \in DOMAIN Corpus
  /\ \E heard \in Corpus[turn].heard : \E sent \in Turn(heard) :
       wire' = sent /\ told' = Append(told, Told(heard, sent))
  /\ reading' = TRUE /\ events' = Hello
  /\ UNCHANGED <<stage, turn, scores, legal>>

(* The turn is over when the client has read its idle state after TTS_END, *)
(* or the acknowledgement of the command that it expects.                  *)
CaseOver(case, seen) ==
  \/ case.command = "STOP_SPEAKING" /\ Holds("COMMAND_ACK", seen)
  \/ \E i, j \in DOMAIN seen : i <= j /\ seen[i].type = "TTS_END" /\ seen[j] = Idle

CaseScore(case, seen) ==
  LET finals == {i \in DOMAIN seen : seen[i].type = "STT_FINAL"}
      hypothesis == IF finals = {} THEN Nothing ELSE seen[Min(finals)].about
      answered == IF case.command = "STOP_SPEAKING" THEN Contains(seen, Ack)
                  ELSE Contains(seen, TtsEnd("COMPLETED"))
  IN  Score(case, hypothesis, Recognize(hypothesis), Deterministic(hypothesis, NoTarget).route,
            answered /\ ~Holds("ERROR", seen))

(* The tasks of the gateway send as they come to it: the second speech     *)
(* after the first final, and from then on in any order.                   *)
Comes(k) == wire[k] # <<>> /\ (k = 2 /\ wire[1] # <<>> => Head(wire[1]).type # "STT_FINAL")

(* When the case is over the connection is closed, whatever is on the way. *)
ReadCase ==
  /\ stage = "voice" /\ reading
  /\ \E k \in {1, 2} :
       /\ Comes(k)
       /\ LET seen == Append(events, Head(wire[k]))
              over == CaseOver(Corpus[turn], seen)
          IN  /\ reading' = ~over
              /\ wire' = IF over THEN NoneLeft ELSE [wire EXCEPT ![k] = Tail(@)]
              /\ events' = IF over THEN <<>> ELSE seen
              /\ scores' = IF over THEN Append(scores, CaseScore(Corpus[turn], seen)) ELSE scores
              /\ turn' = IF over THEN turn + 1 ELSE turn
  /\ UNCHANGED <<stage, legal, told>>

(* production_text_sample(), after the last case.                          *)
StartPrompts ==
  /\ stage = "voice" /\ turn > Len(Corpus)
  /\ stage' = "text" /\ turn' = 1
  /\ UNCHANGED <<reading, wire, events, scores, legal, told>>

SendPrompt ==
  /\ stage = "text" /\ ~reading /\ turn \in DOMAIN Prompts
  /\ \E sent \in Turn(<<Prompts[turn]>>) :
       /\ wire' = [wire EXCEPT ![1] = @ \o sent[1]]
       /\ told' = Append(told, Told(<<Prompts[turn]>>, sent))
  /\ reading' = TRUE /\ events' = <<>>
  /\ UNCHANGED <<stage, turn, scores, legal>>

PromptOver(seen) ==
  Holds("COMMAND_ACK", seen) \/ (Holds("TTS_END", seen) /\ Last(seen) = Idle)

Legal(seen) ==
  ~Holds("ERROR", seen) /\ (Holds("COMMAND_ACK", seen) \/ Contains(seen, TtsEnd("COMPLETED")))

ReadPrompt ==
  /\ stage = "text" /\ reading /\ wire[1] # <<>>
  /\ LET seen == Append(events, Head(wire[1]))
         over == PromptOver(seen)
     IN  /\ reading' = ~over
         /\ events' = IF over THEN <<>> ELSE seen
         /\ legal' = IF over THEN Append(legal, Legal(seen)) ELSE legal
         /\ turn' = IF over THEN turn + 1 ELSE turn
  /\ wire' = [wire EXCEPT ![1] = Tail(@)]
  /\ UNCHANGED <<stage, scores, told>>

(* Nothing comes for ten seconds: recv() raises.  (The sixty seconds of a  *)
(* prompt that goes on sending are not modelled.)                          *)
GiveUp ==
  /\ reading /\ wire = NoneLeft
  /\ stage' = "fail" /\ reading' = FALSE /\ events' = <<>>
  /\ UNCHANGED <<turn, wire, scores, legal, told>>

(* deterministic_fixture_checks()                                          *)
FixturesPass ==
  /\ \A f \in RouteFixtures : Deterministic(f.text, NoTarget).route = f.route
  /\ \A f \in PolicyFixtures : ClassifyFixture(f.text) = f.decision

LatencyPass(delays) ==
  delays # <<>> /\ TwiceMedian(delays) <= 2 * 3000 /\ Percentile(delays, 95) <= 8000

(* The decision; others is that of the soak and the GPU.                   *)
Decide ==
  /\ stage = "text" /\ turn > Len(Prompts)
  /\ \E others \in BOOLEAN, delays \in BoundedSeq(Delay, Len(scores)) :
       stage' = IF /\ ReleaseThresholds(scores)
                   /\ FixturesPass /\ others /\ LatencyPass(delays)
                   /\ Len(scores) + Len(legal) >= MinTurns
                   /\ \A i \in DOMAIN scores : scores[i].terminal
                   /\ \A i \in DOMAIN legal : legal[i]
                THEN "pass" ELSE "fail"
  /\ UNCHANGED <<turn, reading, wire, events, scores, legal, told>>

Next == OpenCase \/ ReadCase \/ StartPrompts \/ SendPrompt \/ ReadPrompt \/ GiveUp \/ Decide

Spec == Init /\ [][Next]_vars

-----------------------------------------------------------------------------
(* A release that passes has earned it: whatever the recogniser made of a  *)
(* recording, in whatever order the events of its two turns come, and      *)
(* although the client stops reading as soon as it believes a turn over,   *)
(* each case was recognised as the command and the route it stands for, by *)
(* its first final, and each prompt was judged by its own answer: nothing  *)
(* of a prompt is left on the wire when the next one begins.  No prompt    *)
(* failed and no recording that was one turn; of a recording cut into two  *)
(* the client may leave before an ERROR of the other turn, and so it may   *)
(* after the acknowledgement of a command to stop.                         *)
PassIsEarned ==
  /\ (stage = "text" /\ ~reading) => wire = NoneLeft
  /\ stage = "pass" =>
       /\ \A i \in DOMAIN Corpus :
            /\ told[i].heard # <<>>
            /\ Corpus[i].command \in {"none", Recognize(told[i].heard[1])}
            /\ Corpus[i].route \in {"none", Deterministic(told[i].heard[1], NoTarget).route}
            /\ told[i].clean \/ Len(told[i].heard) > 1 \/ Corpus[i].command = "STOP_SPEAKING"
       /\ \A i \in DOMAIN told \ DOMAIN Corpus : told[i].clean
=============================================================================
