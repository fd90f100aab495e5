-------------------------- MODULE MCSpeechService ---------------------------
(* Instance of SpeechService for TLC.                                      *)
EXTENDS SpeechService, TLC

CONSTANTS c1, c2, c3
=============================================================================
