---------------------------- MODULE MCController ----------------------------
(* A required check that is listed twice and one whose run does not say that   *)
(* it is required; every front end, service and way to build the monitor.      *)
EXTENDS Controller

MCBoard == <<[name |-> "test", required |-> TRUE], [name |-> "lint", required |-> FALSE],
             [name |-> "test", required |-> TRUE]>>

Built(front, service, from) == [front |-> front, service |-> service, source |-> from]
MCCompositions ==
  {Built("bot", "stub", "nothing"), Built("bot", "executor", "client"),
   Built("bot", "orchestrator", "factory"), Built("bot", "orchestrator", "github"),
   Built("runtime", "orchestrator", "github")}
=============================================================================
