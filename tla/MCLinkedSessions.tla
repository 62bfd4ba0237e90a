-------------------------- MODULE MCLinkedSessions --------------------------
(* The board of the run: the synthesis goes on to one of the researchers,  *)
(* and what that one makes of it would go back.                            *)
EXTENDS LinkedSessions

CONSTANTS a, b, s

BoardLinks == {<<s, a>>, <<a, s>>}
=============================================================================
