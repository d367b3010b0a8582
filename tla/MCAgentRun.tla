------------------------------ MODULE MCAgentRun ------------------------------
(***************************************************************************)
(* What a question passes through, for TLC: the widget, the keys its token *)
(* is verified with, the registry of tools, the agent's loop, the database *)
(* tool and a REST connector's breaker under it, the connectors an admin   *)
(* registers, and what is kept of it all.  They share no variable, so each *)
(* is explored from its own initial states with the others at rest.        *)
(*                                                                         *)
(* The agent: two calls the caller may make, one it may not, one that      *)
(* names no tool; six steps and five tool calls, so that either ceiling    *)
(* can be the first, as the last step's call is never made; bills of up to *)
(* two against a ceiling of three, so that the cost may reach it exactly   *)
(* or pass it.                                                             *)
(***************************************************************************)
EXTENDS AgentRun, Ask, LiveData, Chunking, Integrations, KeyCache, Breaker, Retention, Widget

VARIABLE part  \* the component that is looked at

pathVars ==
  <<part, vars, askVars, liveVars, chunkVars, connVars, keysVars, breakerVars, retentionVars,
    widgetVars>>

\* Where there are several initial states, one is enough for a part at rest.
Resting ==
  /\ part # "ask" => door = "agent" /\ allowed = {} /\ safeSlug = [s \in Numbers |-> Database]
  /\ part # "live" => ~trained /\ table = {} /\ columns = {"device_id"} /\ maxRows = MaxValues
  /\ part # "connectors" => connector[FirstRow].slug = {Database} /\ connector[FirstRow].kind = {"sql"}

PathInit ==
  /\ part \in {"run", "ask", "live", "chunks", "connectors", "keys", "breaker", "retention", "widget"}
  /\ Init /\ AskInit /\ LiveInit /\ ConnInit
  /\ Resting
  /\ ChunkInit /\ KeysInit /\ BreakerInit /\ RetentionInit /\ WidgetInit

\* The part's step, and all the variables but the part's.
Only(name, others) == part = name /\ UNCHANGED <<part, others>>

PathNext ==
  \/ Only("run", <<askVars, liveVars, chunkVars, connVars, keysVars, breakerVars, retentionVars, widgetVars>>)
     /\ Next
  \/ Only("ask", <<vars, liveVars, chunkVars, connVars, keysVars, breakerVars, retentionVars, widgetVars>>)
     /\ AskNext
  \/ Only("live", <<vars, askVars, chunkVars, connVars, keysVars, breakerVars, retentionVars, widgetVars>>)
     /\ LiveNext
  \/ Only("chunks", <<vars, askVars, liveVars, connVars, keysVars, breakerVars, retentionVars, widgetVars>>)
     /\ ChunkNext
  \/ Only("connectors", <<vars, askVars, liveVars, chunkVars, keysVars, breakerVars, retentionVars, widgetVars>>)
     /\ ConnNext
  \/ Only("keys", <<vars, askVars, liveVars, chunkVars, connVars, breakerVars, retentionVars, widgetVars>>)
     /\ KeysNext
  \/ Only("breaker", <<vars, askVars, liveVars, chunkVars, connVars, keysVars, retentionVars, widgetVars>>)
     /\ BreakerNext
  \/ Only("retention", <<vars, askVars, liveVars, chunkVars, connVars, keysVars, breakerVars, widgetVars>>)
     /\ RetentionNext
  \/ Only("widget", <<vars, askVars, liveVars, chunkVars, connVars, keysVars, breakerVars, retentionVars>>)
     /\ WidgetNext

PathSpec == PathInit /\ [][PathNext]_pathVars

PathTypeOK ==
  /\ TypeOK /\ AskTypeOK /\ LiveTypeOK /\ ChunkTypeOK /\ ConnTypeOK
  /\ KeysTypeOK /\ BreakerTypeOK /\ RetentionTypeOK /\ WidgetTypeOK
=============================================================================
