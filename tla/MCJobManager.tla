---------------------------- MODULE MCJobManager ----------------------------
(***************************************************************************)
(* A small instance of JobManager: a mutating job with a cleanup, one that *)
(* only reads, and a mutating one again.                                   *)
(***************************************************************************)
EXTENDS JobManager

Reads    == [mutating |-> FALSE, cleanup |-> FALSE]
Demo     == [mutating |-> TRUE, cleanup |-> FALSE]
Lab      == [mutating |-> TRUE, cleanup |-> TRUE]

MCActions == <<{Lab}, {Reads, Lab}, {Demo}>>
=============================================================================
