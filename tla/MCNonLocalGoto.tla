--------------------------- MODULE MCNonLocalGoto ---------------------------
(* Small instances of non-local GOTO. *)
EXTENDS GotoPrograms

\* All programs, with the choice of GotoPrograms left aside.
AnySpec == Init /\ recursive = {} /\ [][Next /\ UNCHANGED recursive]_<<vars, recursive>>
=============================================================================
