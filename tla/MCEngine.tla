-------------------------------- MODULE MCEngine --------------------------------
(***************************************************************************)
(* Engine for TLC: two projects, two threads for clients, two watchers; to *)
(* see what a watcher does, one of each.                                   *)
(***************************************************************************)
EXTENDS Engine

AllKinds == {"open", "analyze", "check", "query", "timeline", "rename"}
AllFaults == {"open", "save", "panic", "watch"}
=============================================================================
