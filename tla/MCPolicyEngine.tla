--------------------------- MODULE MCPolicyEngine ---------------------------
(***************************************************************************)
(* Small instances of PolicyEngine: the actions of the v3.1 configuration  *)
(* (cpu.max, memory.high, the qdisc of a veth), and one that sets cpu.max  *)
(* twice.  All of these read back as they were written.                    *)
(***************************************************************************)
EXTENDS PolicyEngine, TLC

MCActionFile == <<"cpu", "memory", "veth">>
MCActionValue == <<"cap", "high", "tbf">>

\* Two actions on one file.
MCActionFileTwice == <<"cpu", "cpu", "veth">>
MCActionValueTwice == <<"cap", "low", "tbf">>

MCValues == {"", "def", "cap", "low", "high", "op", "noqueue", "tbf"}

MCInitial == [f \in Files |-> IF f = "veth" THEN "noqueue" ELSE "def"]

\* Operators write "op" to the control files, and anything counts as a root
\* qdisc; memory.high is nobody else's.
MCEnvValues == [f \in Files |-> IF f = "memory" THEN {} ELSE {"op"}]

MCReadback == [v \in MCValues |-> v]

\* The ids of events are only compared.
RequestSymmetry == Permutations(Requests)

MCAccepted == [v \in MCValues |-> {v}]
=============================================================================
