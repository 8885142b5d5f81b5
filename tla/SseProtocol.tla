----------------------------- MODULE SseProtocol -----------------------------
(***************************************************************************)
(* What a reader of the generation stream may rely on: the order in which  *)
(* the events of one generation appear in the page's log.                  *)
(***************************************************************************)
EXTENDS SseEvents

VARIABLE log         \* the events the reader has of the generation it follows

First == {RunEvent("started"), RunEvent("domain_exists")}

\* The events that may come right after event e.
After(e) ==
    CASE e.type = "started" -> {AgentEvent("agent_started", 1)}
      [] e.type \in {"agent_started", "progress"} ->
            {AgentEvent(t, e.agent) : t \in {"progress", "agent_completed", "agent_failed"}}
      [] e.type = "agent_completed" ->
            IF e.agent < NumAgents THEN {AgentEvent("agent_started", e.agent + 1)}
                                   ELSE {RunEvent("completed")}
      [] e.type = "agent_failed" -> {RunEvent("failed")}
      [] OTHER -> {}

Allowed(events) == IF events = << >> THEN First ELSE After(events[Len(events)])

Init == log = << >>

\* The reader starts to follow another generation, or stops following any.
Reset == log' = << >>

Read == \E e \in Allowed(log) : log' = Append(log, e)

Next == Reset \/ Read

Spec == Init /\ [][Next]_log
=============================================================================
