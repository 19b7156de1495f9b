------------------------- MODULE MCWorkloadObserver -------------------------
(***************************************************************************)
(* A small instance of WorkloadObserver.                                   *)
(***************************************************************************)
EXTENDS WorkloadObserver
=============================================================================
