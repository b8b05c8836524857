------------------------------ MODULE MCAgentTools ------------------------------
(***************************************************************************)
(* Tool calls of one session: the way of their results through             *)
(* AgentSession, and what ToolResults makes of what they say. Converting a *)
(* result reads nothing of the session but the call it belongs to, and the *)
(* session nothing of its text: so they are not interleaved. A behaviour   *)
(* is one of the session, or one conversion.                               *)
(***************************************************************************)
EXTENDS AgentSession, ToolResults, ToolMessages

ToolsInit == Init /\ (ResultsIdle \/ ResultsInit)

ToolsNext ==
  \/ tool = "none" /\ Next /\ UNCHANGED resultVars
  \/ ResultsNext /\ UNCHANGED vars

ToolsSpec == ToolsInit /\ [][ToolsNext]_<<vars, resultVars>> /\ RunnerFairness

=================================================================================
