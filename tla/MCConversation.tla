--------------------------- MODULE MCConversation ---------------------------
(* Conversation with responses in two pieces and the code's queue of two.  *)
EXTENDS Conversation

\* After two tasks were in the handler at once nothing is promised: the run
\* does not go on from there.
Defined == ~undefined
=============================================================================
