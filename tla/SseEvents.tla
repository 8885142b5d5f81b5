------------------------------ MODULE SseEvents ------------------------------
(***************************************************************************)
(* The events of one generation and the order they may come in.  The       *)
(* events an agent sends while it works (step_progress, node_created,      *)
(* similarity_check, verification_result) are all "progress" here.         *)
(***************************************************************************)
EXTENDS Naturals, Sequences

CONSTANT NumAgents   \* the agents run one after the other, 1..NumAgents

ASSUME AgentsAssumption == NumAgents \in Nat \ {0}

Agent == 1..NumAgents
AgentEventType == {"agent_started", "progress", "agent_completed", "agent_failed"}
RunEventType == {"started", "domain_exists", "completed", "failed"}

\* Events of the whole run carry agent 0.
SseEvent == [type : AgentEventType, agent : Agent] \cup [type : RunEventType, agent : {0}]

AgentEvent(type, k) == [type |-> type, agent |-> k]
RunEvent(type) == [type |-> type, agent |-> 0]
=============================================================================
