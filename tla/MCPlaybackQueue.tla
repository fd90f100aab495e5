-------------------------- MODULE MCPlaybackQueue --------------------------
(* Two streams: one to be interrupted or to drain, and its successor.      *)
EXTENDS PlaybackQueue

CONSTANTS s1, s2
=============================================================================
