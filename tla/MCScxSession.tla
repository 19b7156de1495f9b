---------------------------- MODULE MCScxSession ----------------------------
(***************************************************************************)
(* Small instances of ScxSession: two schedulers, two loads, two polls per *)
(* loop.                                                                   *)
(***************************************************************************)
EXTENDS ScxSession

\* "stats" is treated like class_map in every respect.
MCMaps == <<"class_map", "gate_state_map">>
=============================================================================
