------------------------------- MODULE MCDreams -------------------------------
(* One note that may be archived: what a run does to a note depends on no other.  *)
EXTENDS Dreams
=============================================================================
