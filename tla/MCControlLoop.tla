--------------------------- MODULE MCControlLoop ---------------------------
(***************************************************************************)
(* Small instances of ControlLoop.  The thresholds are the defaults of the *)
(* code; one unit of time is one second.                                   *)
(***************************************************************************)
EXTENDS ControlLoop

MCWindows == TriggerContext
=============================================================================
