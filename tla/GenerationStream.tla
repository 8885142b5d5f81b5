-------------------------- MODULE GenerationStream --------------------------
(***************************************************************************)
(* Domain generation over server-sent events: the page DomainGenerator,    *)
(* the handler generate_domain_sse and the task it spawns for each         *)
(* request, AgentOrchestrator::generate_domain.                            *)
(*                                                                         *)
(* The task sends events into a channel of Capacity slots; the connection  *)
(* drains it to the page.  A send waits while the channel is full and      *)
(* returns at once when the receiver is gone.  The task outlives the page: *)
(* cancelling closes the connection and leaves the task running, so the    *)
(* next generation may run beside it against the same graph.               *)
(*                                                                         *)
(* The first agent (DomainArchitect) is modelled write by write.  Of the   *)
(* others only the events and the outcome matter here.                     *)
(***************************************************************************)
EXTENDS SseEvents, FiniteSets

CONSTANTS
    MaxRuns,      \* generations the user starts (bound)
    Capacity,     \* slots of the event channel
    NumLevels,    \* levels the architect creates
    MaxProgress,  \* progress events of each later agent (bound)
    MayMiss       \* may the search miss the domain that exists already?

ASSUME StreamAssumption ==
    /\ MaxRuns \in Nat \ {0}
    /\ Capacity \in Nat \ {0}
    /\ NumLevels \in Nat
    /\ MaxProgress \in Nat
    /\ MayMiss \in BOOLEAN

Run == 1..MaxRuns
NoRun == 0

VARIABLES
    \* the page
    pageState,    \* PageState, or "away" while the page is not mounted
    abortRef,     \* the run whose abort function is kept, or NoRun
    log,          \* generationEvents
    completedAgents,
    \* the page's requests
    starts,       \* how many runs were started; the last one is on display
    fetch,        \* [Run -> Fetch]
    \* the tasks
    pc,           \* what the task does next, once everything in out is sent
    agent,        \* the agent at work
    progress,     \* progress events the agent has sent
    out,          \* events the task is sending, in order
    outcome,      \* how generate_domain returned
    registry,     \* AgentContext: the domain and the number of levels in it
    \* the connection
    chan,         \* the event channel
    rx,           \* is its receiver alive?
    \* the graph
    domain,       \* is there a Domain node made by this run?
    linked        \* levels attached to it

pageVars == <<pageState, abortRef, log, completedAgents>>
requestVars == <<starts, fetch>>
taskVars == <<pc, agent, progress, out, outcome, registry>>
connVars == <<chan, rx>>
graphVars == <<domain, linked>>
vars == <<pageVars, requestVars, taskVars, connVars, graphVars>>

PageState ==
    {"away", "loading", "similar_domains", "form", "generating", "completed", "error"}
\* "closed": a terminal event was read; "ended": the stream ended without one.
Fetch == {"none", "requested", "open", "closed", "ended", "aborted", "broken"}
Live == {"requested", "open"}
TaskStep == {"none", "check", "architect", "levels", "work", "ended"}
Result == {"none", "ok", "err", "killed"}

TypeOK ==
    /\ pageState \in PageState
    /\ abortRef \in Run \cup {NoRun}
    /\ log \in Seq(SseEvent)
    /\ completedAgents \in 0..NumAgents
    /\ starts \in 0..MaxRuns
    /\ fetch \in [Run -> Fetch]
    /\ pc \in [Run -> TaskStep]
    /\ agent \in [Run -> Agent]
    /\ progress \in [Run -> 0..MaxProgress]
    /\ out \in [Run -> Seq(SseEvent)]
    /\ outcome \in [Run -> Result]
    /\ registry \in [Run -> [domain : BOOLEAN, levels : 0..NumLevels]]
    /\ chan \in [Run -> Seq(SseEvent)]
    /\ \A r \in Run : Len(chan[r]) <= Capacity
    /\ rx \in [Run -> BOOLEAN]
    /\ domain \in [Run -> BOOLEAN]
    /\ linked \in [Run -> 0..NumLevels]

Init ==
    /\ pageState = "loading"
    /\ abortRef = NoRun
    /\ log = << >>
    /\ completedAgents = 0
    /\ starts = 0
    /\ fetch = [r \in Run |-> "none"]
    /\ pc = [r \in Run |-> "none"]
    /\ agent = [r \in Run |-> 1]
    /\ progress = [r \in Run |-> 0]
    /\ out = [r \in Run |-> << >>]
    /\ outcome = [r \in Run |-> "none"]
    /\ registry = [r \in Run |-> [domain |-> FALSE, levels |-> 0]]
    /\ chan = [r \in Run |-> << >>]
    /\ rx = [r \in Run |-> FALSE]
    /\ domain = [r \in Run |-> FALSE]
    /\ linked = [r \in Run |-> 0]

-----------------------------------------------------------------------------
(* The page. *)

\* The search for similar domains answers or fails.
fetchSimilarDomains ==
    /\ pageState = "loading"
    /\ pageState' \in {"similar_domains", "form"}
    /\ UNCHANGED <<abortRef, log, completedAgents, requestVars, taskVars, connVars, graphVars>>

handleProceedToForm ==
    /\ pageState = "similar_domains"
    /\ pageState' = "form"
    /\ UNCHANGED <<abortRef, log, completedAgents, requestVars, taskVars, connVars, graphVars>>

\* The error page's retry button.
Retry ==
    /\ pageState = "error"
    /\ pageState' = "form"
    /\ UNCHANGED <<abortRef, log, completedAgents, requestVars, taskVars, connVars, graphVars>>

\* Mutant of handleStartGeneration: the counter of the last run is kept.
StartWithoutReset ==
    /\ pageState = "form"
    /\ starts < MaxRuns
    /\ pageState' = "generating"
    /\ log' = << >>
    /\ starts' = starts + 1
    /\ abortRef' = starts + 1
    /\ fetch' = [fetch EXCEPT ![starts + 1] = "requested"]
    /\ UNCHANGED <<completedAgents, taskVars, connVars, graphVars>>

handleStartGeneration ==
    /\ pageState = "form"
    /\ starts < MaxRuns
    /\ pageState' = "generating"
    /\ log' = << >>
    /\ completedAgents' = 0
    /\ starts' = starts + 1
    /\ abortRef' = starts + 1
    /\ fetch' = [fetch EXCEPT ![starts + 1] = "requested"]
    /\ UNCHANGED <<taskVars, connVars, graphVars>>

\* controller.abort(): the fetch rejects, unless it is already over.
Abort(r) ==
    fetch' = IF r \in Run /\ fetch[r] \in Live THEN [fetch EXCEPT ![r] = "aborted"] ELSE fetch

\* Mutant of handleCancelGeneration: the request goes on behind the form.
CancelWithoutAbort ==
    /\ pageState = "generating"
    /\ abortRef' = NoRun
    /\ pageState' = "form"
    /\ UNCHANGED <<log, completedAgents, starts, fetch, taskVars, connVars, graphVars>>

handleCancelGeneration ==
    /\ pageState = "generating"
    /\ Abort(abortRef)
    /\ abortRef' = NoRun
    /\ pageState' = "form"
    /\ UNCHANGED <<log, completedAgents, starts, taskVars, connVars, graphVars>>

\* The page is unmounted (its effect's cleanup aborts) ...
Unmount ==
    /\ pageState # "away"
    /\ Abort(abortRef)
    /\ pageState' = "away"
    /\ abortRef' = NoRun
    /\ log' = << >>
    /\ completedAgents' = 0
    /\ UNCHANGED <<starts, taskVars, connVars, graphVars>>

\* ... and mounted again, with fresh state.
Mount ==
    /\ pageState = "away"
    /\ pageState' = "loading"
    /\ UNCHANGED <<abortRef, log, completedAgents, requestVars, taskVars, connVars, graphVars>>

\* onError: the response is not ok, or the connection breaks.
onError(r) ==
    /\ fetch[r] \in Live
    /\ fetch' = [fetch EXCEPT ![r] = "broken"]
    /\ pageState' = "error"
    /\ UNCHANGED <<abortRef, log, completedAgents, starts, taskVars, connVars, graphVars>>

Terminal == {"completed", "failed"}

\* Mutant of NextPageState: only the success is handled.
NextPageStateNoFailure(e) == IF e.type = "completed" THEN "completed" ELSE pageState

NextPageState(e) ==
    CASE e.type = "completed" -> "completed"
      [] e.type = "failed" -> "error"
      [] OTHER -> pageState

\* onEvent, and onComplete after a terminal event.
ReadEvent(r) ==
    /\ fetch[r] = "open"
    /\ rx[r]
    /\ chan[r] # << >>
    /\ LET e == Head(chan[r])
       IN  /\ log' = Append(log, e)
           /\ completedAgents' =
                IF e.type = "agent_completed" THEN completedAgents + 1 ELSE completedAgents
           /\ pageState' = NextPageState(e)
           /\ abortRef' = IF e.type \in Terminal THEN NoRun ELSE abortRef
           /\ fetch' = IF e.type \in Terminal THEN [fetch EXCEPT ![r] = "closed"] ELSE fetch
    /\ chan' = [chan EXCEPT ![r] = Tail(@)]
    /\ UNCHANGED <<starts, taskVars, rx, graphVars>>

\* The sender is dropped when the task is over.
Over(r) == pc[r] = "ended" /\ out[r] = << >>

\* Mutant of ReadEnd: the reader goes on although the stream is done.
ReadEndIgnored(r) ==
    /\ fetch[r] = "open"
    /\ Over(r)
    /\ UNCHANGED vars

\* The reader sees the end of the stream: onComplete only.
ReadEnd(r) ==
    /\ fetch[r] = "open"
    /\ rx[r]
    /\ chan[r] = << >>
    /\ Over(r)
    /\ fetch' = [fetch EXCEPT ![r] = "ended"]
    /\ abortRef' = NoRun
    /\ UNCHANGED <<pageState, log, completedAgents, starts, taskVars, connVars, graphVars>>

-----------------------------------------------------------------------------
(* The handler and the connection. *)

\* The request passes validation, the provider is there: a task is spawned.
\* It may reach the server although the page has aborted it by then.
generate_domain_sse(r) ==
    /\ fetch[r] \in {"requested", "aborted", "broken"}
    /\ pc[r] = "none"
    /\ pc' = [pc EXCEPT ![r] = "check"]
    /\ rx' = [rx EXCEPT ![r] = TRUE]
    /\ fetch' = IF fetch[r] = "requested" THEN [fetch EXCEPT ![r] = "open"] ELSE fetch
    /\ UNCHANGED <<pageVars, starts, agent, progress, out, outcome, registry, chan, graphVars>>

\* The server notices that the page is gone and drops the stream.
Disconnect(r) ==
    /\ rx[r]
    /\ fetch[r] \notin Live
    /\ rx' = [rx EXCEPT ![r] = FALSE]
    /\ chan' = [chan EXCEPT ![r] = << >>]
    /\ UNCHANGED <<pageVars, requestVars, taskVars, graphVars>>

\* Mutant of send_event: a send into a channel without receiver waits.
send_event_waits(r) ==
    /\ out[r] # << >>
    /\ rx[r]
    /\ Len(chan[r]) < Capacity
    /\ chan' = [chan EXCEPT ![r] = Append(@, Head(out[r]))]
    /\ out' = [out EXCEPT ![r] = Tail(@)]
    /\ UNCHANGED <<pageVars, requestVars, pc, agent, progress, outcome, registry, rx, graphVars>>

\* Mutant of send_event: the send does not wait for a free slot.
send_event_unbounded(r) ==
    /\ out[r] # << >>
    /\ chan' = IF rx[r] THEN [chan EXCEPT ![r] = Append(@, Head(out[r]))] ELSE chan
    /\ out' = [out EXCEPT ![r] = Tail(@)]
    /\ UNCHANGED <<pageVars, requestVars, pc, agent, progress, outcome, registry, rx, graphVars>>

send_event(r) ==
    /\ out[r] # << >>
    /\ IF rx[r] THEN /\ Len(chan[r]) < Capacity
                     /\ chan' = [chan EXCEPT ![r] = Append(@, Head(out[r]))]
                ELSE UNCHANGED chan
    /\ out' = [out EXCEPT ![r] = Tail(@)]
    /\ UNCHANGED <<pageVars, requestVars, pc, agent, progress, outcome, registry, rx, graphVars>>

-----------------------------------------------------------------------------
(* AgentOrchestrator::generate_domain. *)

\* The task runs on once its last send has returned.
At(r, step) == pc[r] = step /\ out[r] = << >>

Return(r, res) ==
    /\ pc' = [pc EXCEPT ![r] = "ended"]
    /\ outcome' = [outcome EXCEPT ![r] = res]

Emit(r, events) == out' = [out EXCEPT ![r] = events]

DomainExists == \E r \in Run : domain[r]

\* The similarity search fails: `?` returns without an event.
check_domain_exists_fails(r) ==
    /\ At(r, "check")
    /\ Return(r, "err")
    /\ UNCHANGED <<pageVars, requestVars, agent, progress, out, registry, connVars, graphVars>>

check_domain_exists_finds(r) ==
    /\ At(r, "check")
    /\ DomainExists
    /\ Return(r, "err")
    /\ Emit(r, <<RunEvent("domain_exists")>>)
    /\ UNCHANGED <<pageVars, requestVars, agent, progress, registry, connVars, graphVars>>

\* No domain is near enough: there is none, its description lowers its score,
\* or a node with another label takes the only slot of the search.
check_domain_exists_passes(r) ==
    /\ At(r, "check")
    /\ ~DomainExists \/ MayMiss
    /\ pc' = [pc EXCEPT ![r] = "architect"]
    /\ Emit(r, <<RunEvent("started"), AgentEvent("agent_started", 1), AgentEvent("progress", 1)>>)
    /\ UNCHANGED <<pageVars, requestVars, agent, progress, outcome, registry, connVars, graphVars>>

\* DomainArchitectStep: the Domain node, the avatar job (its event is only
\* sent when the job was queued), then the announcement of the levels.
ArchitectCreatesDomain(r) ==
    /\ At(r, "architect")
    /\ domain' = [domain EXCEPT ![r] = TRUE]
    /\ registry' = [registry EXCEPT ![r].domain = TRUE]
    /\ \E n \in {2, 3} : Emit(r, [i \in 1..n |-> AgentEvent("progress", 1)])
    /\ pc' = [pc EXCEPT ![r] = "levels"]
    /\ UNCHANGED <<pageVars, requestVars, agent, progress, outcome, connVars, linked>>

\* Mutant of ArchitectCreatesLevel: the relationship may fail unnoticed.
ArchitectIgnoresLinkError(r) ==
    /\ At(r, "levels")
    /\ registry[r].levels < NumLevels
    /\ linked' \in {linked, [linked EXCEPT ![r] = @ + 1]}
    /\ registry' = [registry EXCEPT ![r].levels = @ + 1]
    /\ Emit(r, <<AgentEvent("progress", 1)>>)
    /\ UNCHANGED <<pageVars, requestVars, pc, agent, progress, outcome, connVars, domain>>

\* A Domain_Level node and its HAS_DOMAIN_LEVEL relationship.
ArchitectCreatesLevel(r) ==
    /\ At(r, "levels")
    /\ registry[r].levels < NumLevels
    /\ linked' = [linked EXCEPT ![r] = @ + 1]
    /\ registry' = [registry EXCEPT ![r].levels = @ + 1]
    /\ Emit(r, <<AgentEvent("progress", 1)>>)
    /\ UNCHANGED <<pageVars, requestVars, pc, agent, progress, outcome, connVars, domain>>

\* A later agent sends an event while it works.
AgentWorks(r) ==
    /\ At(r, "work")
    /\ progress[r] < MaxProgress
    /\ progress' = [progress EXCEPT ![r] = @ + 1]
    /\ Emit(r, <<AgentEvent("progress", agent[r])>>)
    /\ UNCHANGED <<pageVars, requestVars, pc, agent, outcome, registry, connVars, graphVars>>

\* execute() of the agent at work has nothing left to do.
MaySucceed(r) ==
    \/ At(r, "levels") /\ registry[r].levels = NumLevels
    \/ At(r, "work")

\* execute() returned Ok: the loop goes on with the next agent.
NextAgent(r) ==
    /\ MaySucceed(r)
    /\ agent[r] < NumAgents
    /\ agent' = [agent EXCEPT ![r] = @ + 1]
    /\ progress' = [progress EXCEPT ![r] = 0]
    /\ pc' = [pc EXCEPT ![r] = "work"]
    /\ Emit(r, <<AgentEvent("agent_completed", agent[r]),
                 AgentEvent("agent_started", agent[r] + 1)>>)
    /\ UNCHANGED <<pageVars, requestVars, outcome, registry, connVars, graphVars>>

Complete(r) ==
    /\ MaySucceed(r)
    /\ agent[r] = NumAgents
    /\ Return(r, "ok")
    /\ Emit(r, <<AgentEvent("agent_completed", agent[r]), RunEvent("completed")>>)
    /\ UNCHANGED <<pageVars, requestVars, agent, progress, registry, connVars, graphVars>>

\* Mutant of FailureEvents: the order of the two events is swapped.
FailureEventsSwapped(k) == <<RunEvent("failed"), AgentEvent("agent_failed", k)>>

FailureEvents(k) == <<AgentEvent("agent_failed", k), RunEvent("failed")>>

\* execute() returned Err.  The write that failed may have been committed.
AgentFails(r) ==
    /\ \/ At(r, "architect")
       \/ At(r, "levels") /\ registry[r].levels < NumLevels
       \/ At(r, "work")
    /\ domain' \in {domain, IF pc[r] = "architect" THEN [domain EXCEPT ![r] = TRUE] ELSE domain}
    /\ linked' \in {linked, IF pc[r] = "levels" THEN [linked EXCEPT ![r] = @ + 1] ELSE linked}
    /\ Return(r, "err")
    /\ Emit(r, FailureEvents(agent[r]))
    /\ UNCHANGED <<pageVars, requestVars, agent, progress, registry, connVars>>

\* The server process stops and takes its tasks and connections with it.
ServerRestarts ==
    LET running == {r \in Run : pc[r] # "none" /\ ~Over(r)}
    IN  /\ running # {}
        /\ pc' = [r \in Run |-> IF r \in running THEN "ended" ELSE pc[r]]
        /\ out' = [r \in Run |-> << >>]
        /\ outcome' = [r \in Run |-> IF r \in running THEN "killed" ELSE outcome[r]]
        /\ rx' = [r \in Run |-> FALSE]
        /\ chan' = [r \in Run |-> << >>]
        /\ UNCHANGED <<pageVars, requestVars, agent, progress, registry, graphVars>>

-----------------------------------------------------------------------------

TaskStepOf(r) ==
    \/ send_event(r)
    \/ check_domain_exists_fails(r)
    \/ check_domain_exists_finds(r)
    \/ check_domain_exists_passes(r)
    \/ ArchitectCreatesDomain(r)
    \/ ArchitectCreatesLevel(r)
    \/ AgentWorks(r)
    \/ NextAgent(r)
    \/ Complete(r)
    \/ AgentFails(r)

UserStep ==
    \/ handleProceedToForm
    \/ Retry
    \/ handleStartGeneration
    \/ handleCancelGeneration
    \/ Unmount
    \/ Mount

\* The browser reads what the connection brings, and notices when it is dead.
ReaderStep(r) == ReadEvent(r) \/ ReadEnd(r)
BrokenStream(r) == fetch[r] = "open" /\ ~rx[r] /\ onError(r)

Next ==
    \/ UserStep
    \/ fetchSimilarDomains
    \/ \E r \in Run :
        \/ TaskStepOf(r)
        \/ ReaderStep(r)
        \/ onError(r)
        \/ generate_domain_sse(r)
        \/ Disconnect(r)
    \/ ServerRestarts

Spec == Init /\ [][Next]_vars

\* A spawned task runs on, a request reaches the server or fails, the browser
\* reads the stream and the server notices a closed connection.  The user
\* need not do anything.
Fairness ==
    \A r \in Run :
        /\ WF_vars(TaskStepOf(r))
        /\ WF_vars(ReaderStep(r))
        /\ WF_vars(BrokenStream(r))
        /\ WF_vars(fetch[r] = "requested" /\ (generate_domain_sse(r) \/ onError(r)))
        /\ WF_vars(Disconnect(r))

FairSpec == Spec /\ Fairness

-----------------------------------------------------------------------------
(* Properties. *)

\* The page reads at most one stream, the one it shows and can still abort:
\* cancelling, retrying and leaving never leave an older stream behind that
\* writes into the page (handleCancelGeneration, the effect's cleanup).
OneStream ==
    \A r \in Run : fetch[r] \in Live =>
        pageState = "generating" /\ abortRef = r /\ r = starts

Completions(events) == Cardinality({i \in 1..Len(events) : events[i].type = "agent_completed"})

\* While a stream is read, every agent the task has finished is counted
\* exactly once: on the page, in the channel, or about to be sent.
ProgressIsExact ==
    \A r \in Run : fetch[r] = "open" /\ rx[r] =>
        completedAgents + Completions(chan[r]) + Completions(out[r])
            = IF outcome[r] = "ok" THEN NumAgents ELSE agent[r] - 1

\* "Domain Generated!" is shown only when the generation on display ran all
\* of its agents, and its domain is in the graph with all its levels.
CompletedIsReal ==
    pageState = "completed" =>
        /\ outcome[starts] = "ok"
        /\ domain[starts]
        /\ linked[starts] = NumLevels
        /\ completedAgents = NumAgents

\* The page's log follows the protocol of the event stream.
Protocol == INSTANCE SseProtocol
FollowsProtocol == Protocol!Spec

\* A task never hangs: neither on a slow page nor on one that has left.
TaskEnds == \A r \in Run : pc[r] # "none" ~> Over(r)

\* The page does not wait for a stream that is gone: while "generating" is
\* shown the stream eventually ends, one way or the other.
StreamEnds == \A r \in Run : fetch[r] \in Live ~> fetch[r] \notin Live

\* A page that is connected when an agent fails eventually stops showing
\* "generating" for that run, without the user's help (FailureEvents, onEvent).
FailureIsShown ==
    \A r \in Run :
        (fetch[r] = "open" /\ \E i \in 1..Len(out[r]) : out[r][i].type = "failed")
            ~> (pageState # "generating" \/ starts # r)

\* What handlers.rs:38 says of the stream ("`failed` - Workflow failed"): a
\* stream that ends without a terminal event is not one of a failed workflow.
FailureIsAnnounced ==
    \A r \in Run : fetch[r] = "ended" => outcome[r] # "err"

\* What orchestrator.rs:16 says of its threshold: generation is blocked when
\* a similar domain exists.
SimilarDomainBlocks == Cardinality({r \in Run : domain[r]}) <= 1
=============================================================================
