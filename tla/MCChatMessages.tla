----------------------------- MODULE MCChatMessages -----------------------------
(* One message: messages share nothing but the order in which a restart takes them. *)
EXTENDS ChatMessagesRefinement

CONSTANT m1
=============================================================================
