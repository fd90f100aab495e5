----------------------- MODULE MCResponseCoordinator -----------------------
(* Two responses, the reader loop and the voice activity detector.         *)
EXTENDS ResponseCoordinator

CONSTANTS d1, d2, reader, vad
=============================================================================
