----------------------------- MODULE MCCodexTurn -----------------------------
(* Two sessions, two turns, a text of a few bytes. *)
EXTENDS CodexTurn
=============================================================================
