---------------------------- MODULE MCChatPanel ----------------------------
(* An instance of ChatPanel for TLC. *)
EXTENDS ChatPanel
=============================================================================
