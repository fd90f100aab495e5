----------------------------- MODULE Utterances -----------------------------
(***************************************************************************)
(* What the browser may rely on when it follows a spoken turn by its       *)
(* events: USER_SPEECH_START, any number of STT_PARTIAL, USER_SPEECH_END,  *)
(* STT_FINAL, in this order, of one turn at a time.  A turn may be given   *)
(* up at any point; no event of it comes after that.                       *)
(***************************************************************************)
EXTENDS Naturals, Sequences

CONSTANT NoTurn

VARIABLES
  turn,     (* the turn events may be sent of: a position of stage         *)
  stage,    (* how far each turn is; turns are numbered as they begin      *)
  partials  (* STT_PARTIAL events of each turn                             *)

vars == <<turn, stage, partials>>

Init == turn = NoTurn /\ stage = <<>> /\ partials = <<>>

Begin ==
  /\ stage' = Append(stage, "begun")
  /\ partials' = Append(partials, 0)
  /\ turn' = Len(stage) + 1

GiveUp == turn' = NoTurn /\ UNCHANGED <<stage, partials>>

Advance(from, to) ==
  /\ turn # NoTurn /\ stage[turn] = from
  /\ stage' = [stage EXCEPT ![turn] = to]
  /\ UNCHANGED partials

SpeechStart == Advance("begun", "speech") /\ UNCHANGED turn

Partial ==
  /\ turn # NoTurn /\ stage[turn] = "speech"
  /\ partials' = [partials EXCEPT ![turn] = @ + 1]
  /\ UNCHANGED <<turn, stage>>

SpeechEnd == Advance("speech", "ended") /\ UNCHANGED turn

Final == Advance("ended", "final") /\ turn' = NoTurn

Next == Begin \/ GiveUp \/ SpeechStart \/ Partial \/ SpeechEnd \/ Final

Spec == Init /\ [][Next]_vars
=============================================================================
