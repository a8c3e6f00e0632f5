------------------------------ MODULE MCNoteStore ------------------------------
(* A client touches one path and its lock, so one path is enough. A writer    *)
(* that comes back while another one waits makes the chain of promises grow   *)
(* at one end as it shrinks at the other; the creator is a tool that makes    *)
(* the note again after a deletion.                                           *)
EXTENDS NoteStore
=============================================================================
