--------------------------- MODULE MCVoiceSession ---------------------------
(* Small instance: with three utterances one is in flight while two wait.   *)
EXTENDS VoiceSession
=============================================================================
