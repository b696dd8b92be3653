--------------------------- MODULE MCVoiceCapture ---------------------------
(* VoiceCapture with the code's queue of three and a window of three       *)
(* chunks: enough for a read to fail at the first, a middle and the last.  *)
EXTENDS VoiceCapture
=============================================================================
