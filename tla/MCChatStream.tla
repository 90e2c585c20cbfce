---------------------------- MODULE MCChatStream ----------------------------
(* A small instance of ChatStream for TLC.                                 *)
EXTENDS ChatStream
=============================================================================
