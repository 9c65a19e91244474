--------------------------- MODULE MCVoiceSession ---------------------------
(* Instances of VoiceSession for TLC.  The engines are interchangeable:    *)
(* every one of them may be the session's.                                 *)
EXTENDS VoiceSession
=============================================================================
