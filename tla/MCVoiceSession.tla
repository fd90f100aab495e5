--------------------------- MODULE MCVoiceSession ---------------------------
(* A microphone that is opened twice, with short windows and a short queue. *)
EXTENDS VoiceSession, TLC
=============================================================================
