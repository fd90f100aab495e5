----------------------------- MODULE SpeechWire -----------------------------
(***************************************************************************)
(* What a listener may rely on: one response at a time has the floor, a    *)
(* response gets it once, and audio is sent by the response that has it,   *)
(* on a stream that has been opened and not closed.  A response that lost  *)
(* the floor, to a later one or to an interruption, is never heard again.  *)
(***************************************************************************)
EXTENDS Naturals

CONSTANTS Response, Nobody

VARIABLES
  floor,   (* the response that may be heard, or Nobody                    *)
  taken,   (* responses that have had the floor                            *)
  opened,  (* responses whose TTS_START has been sent                      *)
  closed,  (* responses whose TTS_END has been sent                        *)
  sent     (* binary chunks sent for each response                         *)

vars == <<floor, taken, opened, closed, sent>>

Init ==
  /\ floor = Nobody
  /\ taken = {} /\ opened = {} /\ closed = {}
  /\ sent = [d \in Response |-> 0]

TakeFloor(d) ==
  /\ d \notin taken
  /\ floor' = d
  /\ taken' = taken \cup {d}
  /\ UNCHANGED <<opened, closed, sent>>

Yield ==
  /\ floor' = Nobody
  /\ UNCHANGED <<taken, opened, closed, sent>>

Open(d) ==
  /\ d \in taken \ opened
  /\ opened' = opened \cup {d}
  /\ UNCHANGED <<floor, taken, closed, sent>>

Speak(d) ==
  /\ floor = d
  /\ d \in opened \ closed
  /\ sent' = [sent EXCEPT ![d] = @ + 1]
  /\ UNCHANGED <<floor, taken, opened, closed>>

(* A stream is closed by the response that has the floor, which may lose   *)
(* it with that.                                                           *)
Close(d) ==
  /\ floor = d
  /\ closed' = closed \cup {d}
  /\ floor' \in {d, Nobody}
  /\ UNCHANGED <<taken, opened, sent>>

Next ==
  \/ Yield
  \/ \E d \in Response : TakeFloor(d) \/ Open(d) \/ Speak(d) \/ Close(d)

Spec == Init /\ [][Next]_vars
=============================================================================
