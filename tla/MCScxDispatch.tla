--------------------------- MODULE MCScxDispatch ---------------------------
(***************************************************************************)
(* A small instance of ScxDispatch: enough batch tasks to keep their queue *)
(* from ever running empty on the CPU there is.                            *)
(***************************************************************************)
EXTENDS ScxDispatch

MCMayBe == [t \in Tasks |-> CASE t = "l1" -> {"latency"}
                              [] t \in {"b1", "b2"} -> {"batch"}
                              [] OTHER -> {"background"}]
=============================================================================
