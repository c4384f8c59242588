----------------------------- MODULE MCConsole -----------------------------
(* Two message levels, screens of a few cells, a log of three characters.  *)
EXTENDS Console
CONSTANTS plain, nl, blank, junk
=============================================================================
