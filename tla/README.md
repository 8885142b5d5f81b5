# Atlas of Us: a verification project

Atlas of Us builds a graph of "domains" (chess, gardening, ...): a `Domain` node
has five `Domain_Level` nodes, which require `Knowledge`, `Skill`, `Trait` and
`Milestone` nodes.  Component nodes are shared between domains.  Most of the
graph is written by programs that ask a language model what to write, and it is
written by several of them at once, without transactions that span two queries.
This directory models those writers in TLA+, checks them with TLC and proves
their invariants and refinements with TLAPS.

Paths below are relative to `src/`; `worker/` abbreviates
`apis/atlas_domain_worker/src/` and `rest/` abbreviates
`apis/atlas_of_us_rest_api/src/`.  `PROJECT.json` gives, for every definition that
models code, the lines it models, and for every property a mutation of the code
that breaks it.

## 1. The system

| Component | State it keeps | Operations | Talks to |
|---|---|---|---|
| Domain worker, `worker/handler.rs` and `worker/processors/` | none of its own between invocations; inside one: the batch, the record at hand, the decision, the element id | receive a batch; per record: search, decide, create the node, generalize, assign to a level | SQS (messages), Neo4j, embedding service, LLM |
| Queue (SQS and the Lambda event source mapping) | messages, receive counts, visibility | send, receive, expire, acknowledge, redrive | REST API (producer), worker (consumer) |
| Generation over SSE, `rest/domains/agent/handlers.rs`, `orchestrator.rs` | a spawned task per request, its `AgentContext` (the registry of what was created), a channel of 64 events | check for a similar domain, run seven agents in order, send events | Neo4j, LLM, the page that reads the stream |
| Agent steps, `rest/domains/agent/steps/` | the registry | concept passes (conceptualize, search, verify, generate, create, link), level distribution, prerequisites | Neo4j, LLM |
| Asynchronous producer, `generate_domain_async` | none | create the domain and five levels, conceptualize, queue one job per node | Neo4j, LLM, SQS |
| Graph services, `rest/domains/graph/services/` | the graph | create and update a domain, create nodes and relationships, search | Neo4j |
| Auth, `rest/domains/auth/` | `Person` nodes | signup, login | Neo4j |
| Page `DomainGenerator.tsx`, `http-service.ts` | page state, events so far, the abort function | start, cancel, read events | SSE stream |
| Profile, S3, image generation, batch jobs, other pages | - | reads and one-off writes | - |

What is hard here: delivery is at least once and a batch fails as a whole;
search-then-create is not atomic; a job carries element ids that another request
may delete; every call to a service may fail between two writes; the SSE task
outlives the page that started it; a decision of an early pass is carried out by
a late one; and what the language model answers is arbitrary.

What makes each component correct:

* Worker and queue: no job is lost, no success is reported for a node that is
  attached to nothing, a success carries out what was decided, a node is reused
  only if the search that found it allows to, a retried job reuses what its first try left behind, the
  hierarchy of generalizations has no cycle and joins nodes of one type, every
  job leaves the queue.
* Generation over SSE and its page: the page follows one stream, its log is a
  legal sequence of events of one generation, a task never hangs, an end or a
  failure reaches the page, "Domain Generated!" is shown only for a domain that
  is complete.
* Agent steps: a node gets the properties written for its concept, the registry
  knows all that was created and nothing that does not exist, generalizations
  lead to older nodes, a component is attached to the level the LLM gave, a
  `REQUIRES_*` joins the types its name says, what is reported was written, and
  an agent that fails wrote no relationship.
* Producer: what it says is queued is on the queue or its failure was logged, and
  no worker attaches anything to a level that cannot be reached from the domain.
* Graph services: an update that succeeds leaves no level of before it, one that
  fails adds none; a request that meets no failure and no other request writes
  all it was asked for; a requirement goes to the level it was given for.
* Auth: somebody whose signup succeeded can log in, with their own password.

## 2. Modules

| Module | Role |
|---|---|
| `DomainWorker` | worker, queue, and the part of the graph they write |
| `DomainWorkerProofs` | type correctness; no job is lost; `DomainWorker` implements `JobQueue` |
| `DomainWorkerGraphProofs` | the hierarchy is acyclic; relationships are well typed; a success is real |
| `DomainWorkerOutcomeProofs` | a reuse was decided on, a success carries out its decision, no duplicates |
| `SseEvents`, `SseProtocol` | the events of a generation, and the abstract specification of the page's log |
| `GenerationStream` | page, handler, task, channel and the first agent; implements `SseProtocol` |
| `GenerationStreamProofs` | one stream, exact progress, completion is real; `GenerationStream` implements `SseProtocol` |
| `JobQueue` | abstract specification of what queue and worker promise; `DomainWorker` implements it |
| `AsyncGeneration` | the asynchronous producer, composed with `DomainWorker` |
| `AsyncGenerationProofs` | what is attached is reachable; the answer accounts for every job; the worker's theorems beside the producer |
| `ConceptAgent` | the knowledge, skill, trait and milestone agents, pass by pass |
| `ConceptAgentProofs` | all invariants of `ConceptAgent` that hold |
| `RelationshipAgents` | the domain architect, the level distributor and the prerequisite mapper |
| `RelationshipAgentsProofs` | all properties of `RelationshipAgents` |
| `RestRequests` | `create_domain`, `update_domain`, `signup` and `login`, several at a time |
| `RestRequestsProofs` | all invariants of `RestRequests` |
| `MC...` | instances for TLC, one per component module |

### DomainWorker

One action per call that can interleave or fail.  `Receive`, `VisibilityExpires`,
`MoveToDLQ` and the deletion in `ReturnOk` are SQS and the event source mapping,
modelled from how the worker depends on them.  `pc[w]` is the call an invocation
makes next: at `"record"` the loop of `handle_sqs_event` looks at the record
`pos[w]` of `batch[w]`; `Search` is the similarity search with
`decide_concept_action`, whose answer (`plan[w]`) is nondeterministic in the band
where the LLM is asked; `CreateNode`, `create_generalization` and `AssignLevel`
are the three writes of the processors.  Each has a `...Fails` twin, because each
returns an error of its own kind and `is_retryable_error` tells them apart:
`Fail` returns `Err` for the batch or goes on with the next record.  A failed
write may have been committed.  A node is identified by the delivery
(`Receipt`: message and receive count) whose `CREATE` made it, a requirement
remembers the delivery that made it, since `CREATE` makes a new one each time.
`DeleteLevels` is the `DETACH DELETE` of `update_domain`: queued jobs name levels
that are gone afterwards.  `result` is what the invocations log.

Names, scores and the LLM's answers are constants (`Score`, `GeneratedName`);
descriptions, embeddings and prompts have no counterpart.

Two properties are about steps.  The relationship to a reused node is written
several calls after the search, when other invocations have added nodes that may
be nearer; so `ReuseIsJustified` speaks of the step in which an invocation comes to
attach a node, and of the graph in that step.  `DecisionIsCarriedOut` speaks of the
step that makes a delivery a success, and compares the graph with `plan[w]`.

`JobQueue` is what a producer may rely on, without batches, visibility timeouts,
invocations and the graph: a job is delivered at most `MaxReceives` times, is
removed only when a delivery has settled it, is given up only when all
deliveries are used up, and neither is undone.  The refinement mapping (`Promise`)
takes `status` to the state of a job (visible and in flight are both pending),
`receives` to its tries, and calls a job settled when some delivery of it has a
settled `result`.  A late acknowledgement of a job that is in flight again maps
to `Remove`, an overlapping delivery that ends late to `Settle`.

### AsyncGeneration

`ppc` is the call `generate_domain_async` makes next: the domain, then for each of
five levels its creation and its link, the LLM call, and one message per concept
in the order knowledge, skills, traits, milestones.  The producer's `QueueJob` is
`SendMessage` of `DomainWorker`, so that jobs are queued only with levels that
exist by then, while the workers already run the first of them.  A failed send is
logged and passed over (`logged`), and may have been accepted.  The handler's
future is dropped at any call (`HandlerDropped`).  `DeleteLinkedLevels` is
`update_domain` seen from here: it finds levels through the domain, so not the one
that is created and not linked yet.

### GenerationStream

`pageState`, `abortRef`, `log` and `completedAgents` are the page's React state;
`fetch[r]` is the request of run `r`; `chan[r]`, `rx[r]` its channel; `pc[r]`,
`agent[r]`, `out[r]` the spawned task, which sends what is in `out[r]` before it
goes on (`send_event` waits for a free slot, and returns at once when the
receiver is gone).  `DomainArchitectStep` is modelled write by write, the later
agents by their events and outcome.  `ServerRestarts` ends all tasks and
connections.  The page is modelled for one domain name.  Progress events of all
kinds are one event, `progress`, and each later agent sends at most `MaxProgress`
of them.

`SseProtocol` says what a reader may rely on: the first event is `started` or
`domain_exists`, an agent's events come between its `agent_started` and its
`agent_completed` or `agent_failed`, agents come in order, `failed` follows
`agent_failed`, `completed` follows the last agent, and nothing follows these.
The page's `log` is its only variable, so the refinement mapping is the identity
on it; a reset of the page maps to `Reset`.

### ConceptAgent

A task is one call of `execute()`.  `pc[t]` is the pass; `concepts`, `similar`,
`verified`, `props` and `created` are the vectors the passes hand to each other,
filled one element per step, so that other tasks run between any two calls.
`verified[t][i].id` is the element id the decision carries; `NotAnId` stands for
any string that is none (the empty one, or a name).  `InFlight` is
`buffer_unordered(BATCH_SIZE)`.  The node's field `of` stands for all properties
other than the name: it says for which concept they were written.  An element id
is a position in `node`, which only grows.

### RelationshipAgents

The agents before and after `ConceptAgent`, which appears as one step that leaves
some registry (`Registries`), entries without a usable id included.  The two
mappers first analyze: for each type one answer of the LLM, each entry of which
is translated with `find_element_id` (first entry of that name and type) and, for
levels, with `FindLevel` (first level whose name contains the word of that
number).  Only then do they write, one query per relationship, passing over those
that fail (`failed`) and tracking the others (`tracked`, the context's
`level_requirements` and `prerequisites`).  `words` is what the level lookup can
confuse: the level words in the domain's own name.  `said` keeps the number the
LLM gave for a property to refer to.  Proficiencies, reasons and the texts of
prompts are left out.

### RestRequests

A scenario is a set of requests that are in progress together.  Each query is a
step; it fails before or after it took effect, after which the code returns an
error, skips the level or the requirement, or carries on, as it does at that
place.  `ids[r]` is `level_element_ids`, which `process_level_requirements` indexes;
`skipped` remembers the levels that are missing from it.  `MERGE` of a component is
two steps (look, create), since no uniqueness constraint is declared.  `before[r]`
are the requests that had ended when `r` began: properties use it to say which
requests were concurrent.  `signup` looks for the name and the phone number,
hashes, and creates the person; `login` reads.  Passwords stand for their hashes.

## 3. Runs

| Run | Instance | Shows |
|---|---|---|
| `worker_delivery` | 2 invocations (one without an API key), a trait job and a malformed message, 2 deliveries, a trait in the moderate band and a near node of another type, fairness | types; no job is deleted unprocessed; success means linked; a redelivered job makes no duplicate; traits never generalize; every job drains; the worker implements `JobQueue` |
| `worker_decisions` | 2 writing invocations, two Knowledge jobs for one concept, which the LLM may rename, and a milestone, a Knowledge node in the moderate band, a search limit of 2 | a reused node was a hit of the delivery's own search and allowed by thresholds or LLM; generalizations join existing nodes of one type; a success has carried out its decision |
| `worker_dropped` (violation) | 1 invocation, 1 message | failed jobs are deleted, not sent to the DLQ |
| `async_endtoend` | producer, 2 workers, 2 jobs for one concept, an LLM that may rename it, a seed in the moderate band, update at any time | whatever is attached is reachable; every job the answer counts is accounted for; generalizations form no cycle; success means linked |
| `stream_page` | 2 generations, small channel | one stream; exact progress; completion is real; the log follows `SseProtocol` |
| `stream_liveness` | 1 generation, 3 agents, fairness | tasks end; streams end; failures are shown |
| `stream_announced` (violation) | | a generation that fails in its first check ends without `failed` |
| `stream_duplicate` (violation) | 2 generations | cancel and start again creates the domain twice |
| `agent_passes` | 2 agents (five combinations of types), up to 2 concepts each, any names, repeated concepts included | properties go to their concept; registry complete; links real; generalizations lead to older nodes |
| `agent_registry` (violation) | as above | an LLM decision to reuse leaves a name where an element id should be |
| `relationships` | 2 registries (a name shared by three types, an entry without an id, a repeated name), 6 level numbers, 3 kinds of domain name, 2 relationships per agent | reported relationships exist when they are reported and are well typed; a component goes to the level given; a failing agent wrote nothing; one failure stops no other |
| `rest_interleaved` | 5 scenarios: two creates of one name, create and update, two updates of one domain, invalid bodies, three signups with a login | a successful update leaves no level of a request answered before it; an error adds nothing; undisturbed requests are complete; who signed up can log in |

Why the bounds are enough.  In the worker, what can go wrong needs two deliveries
of one message (the first leaves something behind), two invocations that overlap,
or two records in a batch (one aborts the other); each instance has the ones its
properties are about.  The code's search limit is 3; the worker's runs with few
nodes take 2, so that nodes of other types can push one out of the result.  Five levels are the code's; the
suggested levels include none, 0 and a value above the range.  In the stream,
two generations are enough for one to outlive its page while the next runs;
a channel smaller than the events of one agent makes sends wait.  In the
agents, two concepts are enough for properties to be swapped, for a concept to
be listed twice and for two concepts to share a missing target.  In
`RelationshipAgents` two relationships are enough for one query to fail before
another; the level numbers are one below, one above, both ends, 0 and the
middle.  In `RestRequests` two requests on one domain, with two and three levels,
are enough for one to find the levels of the other, and for a skipped level to
have successors.  One delivery per job is enough in `async_endtoend`, which asks
how producer, workers and updates interleave; redelivery is the question of the
worker's own runs.

`CHECK_DEADLOCK FALSE` is set where the system may stop: when all messages have
left the queue, and when all agents have ended.  The page can always be left and
opened again, so its runs check for deadlock; so do `relationships` and
`rest_interleaved`, where only ended agents and requests stutter.

`NoDuplicateNodes` depends on a name scoring at least `auto_reuse` against the
node it named.  The worker embeds the name alone, so the instance uses 100.  The
agents of the REST API embed name and description, so that this is not given
there; the instance of `ConceptAgent` has one name of each kind.

### Fairness

`DomainWorker`: weak fairness of a running invocation's steps and of `Receive`
(the mapping polls while there is something visible), of `VisibilityExpires` and
`MoveToDLQ` (timers of SQS).  Nothing obliges anybody to send a job, and an
invocation may be lost at any time, so a job may use up all its deliveries: it
then reaches the dead-letter queue.  `GenerationStream`: weak fairness of each
task (the runtime schedules it, calls have timeouts and return), of the
browser's reader, of a broken connection being noticed on both sides, and of a
request arriving or failing.  The user is never obliged to act.

### What the violations show

1. `handler.rs:49` and `:87` say that malformed and non-retryable messages go to
   the dead-letter queue.  The handler returns `Ok(())`, which deletes them.  The
   run shows it for the non-retryable ones; a malformed message takes the same
   path to `Ok(())`.
   A failed similarity search counts as non-retryable, although it is
   the same outage that is retried when `create_node` meets it.
2. `generate_domain` returns before any `failed` event when the search for a
   similar domain fails, or when it finds one; the page stays on "generating".
3. The check for a similar domain and the creation are two calls, and cancelling
   does not stop the task: the same domain can be created twice.
4. `parse_verification_response` keeps the node's name as its element id.  The
   levels and prerequisites of such a node match nothing and are skipped.

Observed while modelling, without a run: the page counts agents out of six
(`DomainGenerator.tsx:369,396`) while there are seven (`orchestrator.rs:87`);
redelivered milestone jobs create the milestone again, against
`database/agents/2d_milestone_generator.md:72-73`; if the LLM lists a concept
twice and renames it, and another generation creates a near node between the two
searches, an agent can make a node generalize to itself, because pass 7 finds
its source by name (this is why `GeneralizationsPointBack` is stated for lists
without repetition).  Further:

* `create_level_requirement` does not look whether its `MATCH` found anything
  (`worker/processors/common.rs:250`), so a job logs an assigned level
  (`node_job.rs:130`) that `update_domain` has deleted.
* The level lookup searches the level's whole name, which begins with that of the
  domain (`level_distributor.rs:134`): in "Scrum Master", level 5 is found in the
  first level.  `LevelAsSaid` is therefore stated for names without a level word.
* `update_domain` deletes progress of nodes labelled `User` (`domain.rs:577`);
  `signup` creates `Person:L3`.
* A level whose query fails in `create_domain` or `update_domain` is skipped, and
  since requirements are addressed by index, its requirements go to the next level
  and so on (`RequirementOnItsLevel` is stated up to the number of skipped
  levels).
* When fetching the row fails, `create_domain` takes the name for free;
  `update_domain` renames without looking.
* Nothing opposes a cycle of prerequisites, which
  `database/agents/3_relationship_mapper.md:113` forbids to an agent that works by
  hand.
* `generate_domain_async` does not look for a similar domain, and its answer
  counts jobs whose sending failed.

## 4. Proofs

Every invariant and action property of the passing runs, and both refinements,
are also theorems.  They hold for every value of the constants that satisfies the
`ASSUME`s of the modules: any sets of messages, workers, seeds and names, any
score function, any bound on receives, batch size and search limit; any number of
runs, agents, levels and any channel capacity; any number of agents at work, any
names, level numbers and registries; any set of concurrent requests with any
bodies.

The assumptions say what the code's types say, and little more.
`FiniteAssumption`: finitely many messages and seeds, so that the nearer nodes of
a search can be counted.  `AgentAssumption`: the nodes there
are beforehand were made by no task of the model.  `ScenarioAssumption`: a body
has the shape that `serde` accepts (`CreateDomainRequest`, `UpdateDomainRequest`).
`RegistryAssumption` is justified below.  One theorem, `NoDuplicates`, has further
hypotheses, which it states itself.

The proofs of a component have one invariant, a conjunction of named parts; one
lemma per action (or per kind of step) shows that it is kept, and each theorem
reads its property off the invariant.

### Worker and queue

* `TypeOKCorrect` (`DomainWorkerProofs`).  `TypeOK` is not inductive: that the loop
  index lies in the batch and that `elem[w]` is an element id when it is
  assigned are needed to type the next state.  The inductive invariant adds what
  each value of `pc` implies for `batch`, `pos`, `plan` and `elem`.
* `NoJobLost`: `AckedIsSettled`.  The strengthening says that every record before
  `pos[w]` in every running batch has a settled result, that no delivery is held
  by two invocations or twice in a batch (so nobody else overwrites its result),
  and that a delivery of the future has none; then
  `ReturnOk` deletes only messages with a settled delivery, stale acknowledgements
  included.
* `QueuePromiseKept`: `KeepsQueuePromise`, the refinement of `JobQueue`.  Under the
  invariant of `NoJobLost` each action maps to one step of the abstract queue or to
  a stutter: `ReturnOk` to `Remove` of what it deletes (settled, by that
  invariant), the end of a record to `Settle` or, when another delivery had
  settled the job, to nothing, the expiry of a visibility timeout to nothing.
* `NoCircularGeneralization` (`DomainWorkerGraphProofs`): `GeneralizationsAcyclic`.
  Between the search and the `CREATE` of one invocation others add nodes and
  relationships, so "the target is older" cannot be read off the graph.  The
  inductive invariant says that the graph stays acyclic even with the
  relationships that running invocations are still to create (`Planned`).  Such a
  relationship enters it at the search, when its source does not exist yet and so
  nothing leads to it: adding it closes no cycle, and carrying it out later
  changes nothing.  This needs that deliveries of the future have made no node
  (`FutureIsAbsent`) and what an invocation knows at each call (`Knows`).
* `GeneralizationsTyped`, `RequirementsTyped`: from what `decide_concept_action` may
  return after the label filter, carried to the writes by the same invariant.
* `SuccessIsReal` (`DomainWorkerGraphProofs`): `SuccessIsLinked`, which asks for the
  level nearest to the suggestion and does not mention `determine_level`; that the
  latter returns that level is the lemma `LevelIsWanted`.  The invariant carries the
  choice of a node to the write of its requirement, several calls later
  (`Chosen`), and says that a delivery with a requirement is over (`MadeByEnded`),
  so that no node appears later under its id.
* `ReuseWasDecided` (`DomainWorkerOutcomeProofs`): `ReuseIsJustified`.  Three calls lead
  to the assignment (`ComesToAssign`), and two of them attach the node just created.
  For the third, `SearchJustifies` shows that a hit which `decide_concept_action` lets a
  job reuse satisfies `MayReuse`, which knows nothing of the search: fewer than `Limit`
  nodes of any type are nearer, and it is the best of its type with `auto_reuse` or
  was left to the LLM.
* `SuccessCarriesOutDecision`: `DecisionIsCarriedOut`.  `Follows(w)` says how much of its
  decision an invocation has carried out at each call, whatever the others write in
  between; with `MadeByEnded` the requirement written last is the only one of its
  delivery.
* `NoDuplicates`: `NoDuplicateNodes`.  Search and `CREATE` are two calls, hence the
  hypotheses: one invocation that can write (`OneWriter`; others have no API key),
  and names that tell
  (`NamesTell`: a name scores at least `auto_reuse` against itself and more than
  against any other, the LLM keeps the name, a name belongs to one type, the seeds
  hold no duplicate).  The instance of `worker_delivery` satisfies all of them.  They are
  what the deployment, the embedding and the LLM must provide, and not more than the
  code needs: several namesakes of other types, for example, would fill the
  `Limit` places of the search result, since the index holds all types.  The strengthening says that every node is a seed or the node of its job,
  and that between search and `CREATE` there is none like the one to be made.

### Asynchronous producer

* `AttachedIsReachable` (`AsyncGenerationProofs`): `RequirementsReachable`.  A worker
  attaches to any level that exists, so one must know that none is unlinked once
  something is queued: all levels are linked but the one between its two queries
  (`LevelsAreLinked`), nothing is queued before `ppc` has left the levels
  (`SentAfterLinking`), and only what was sent is received.
* `ReplyAccountsForAll`: `EveryJobIsAccountedFor`, from what the sending loop has been through
  (`TriedIsQueued`).
* `AsyncWorkersCorrect`, `AsyncPromiseKept`: the invariants and the refinement
  of the worker hold in the composition.  The producer's steps are `SendMessage`,
  steps on levels, or steps of its own, and the worker's lemmas are stated so that
  they apply to a graph whose levels another actor adds.
* `AsyncTypeCorrect`: `AsyncTypeOK`.

### Generation over SSE

* `PageFollowsOneStream` (`GenerationStreamProofs`): `OneStream`.  The strengthening
  says that requests are used in order and unused ones are untouched.
* `PageFollowsProtocol`: `FollowsProtocol`, the refinement of `SseProtocol`.  What the
  page shows next was emitted many steps ago, so the invariant speaks of
  everything on the way: the page's log, the channel and what the task is about
  to send are, put together, a legal sequence (`Ordered`) whose last event agrees
  with the task's `pc` and `agent` (`Follow`).  Emitting appends an allowed event to
  it, sending and receiving move an event inside it, and reading the next event
  is then a step of the protocol.  A request that has not reached the server finds
  an empty log (`FreshInv`).
* `ProgressCounted`: `ProgressIsExact`, by counting the completions in the same three
  pieces.
* `CompletionIsEarned`: `CompletedIsReal`.  A `completed` in that sequence means that
  the task ended with success (part of `Follow`), and a task that did has linked all
  levels (`TaskInv`); what is shown as completed takes no further step
  (`CompletedInv`).
* `StreamTypeCorrect`: `TypeOK`.

### Component agents

The invariant of `ConceptAgentProofs` is a conjunction of statements about one
task each; a step of another task only lets the graph grow, which none of them
minds.

* `PropertiesMatch`: `PropertiesBelongToConcept`.  The node at hand is created with
  the next element of the vector of properties, which has no entry for
  concepts that are reused.  The strengthening (`PropsInv`) says that the m-th entry
  belongs to the m-th decision that needs a node, none left out, and pass 6 starts
  only when no call is pending.
* `ContextIsComplete`: `RegistryIsComplete`.  While a task runs, its entries so far
  (`Entries`) are its nodes, once each, and the reused concepts (`CountInv`).
* `RecordedLinksAreReal`: `LinksAreReal`, from the labels of all ids a task holds
  (`NodeInv`).
* `GeneralizationsLeadBack`: `GeneralizationsPointBack`.  Pass 7 finds its source by
  name; the strengthening (`CreatedInv`) says that the nodes of pass 6 are newer
  than every target, which passes 3 and 4 had resolved, and, in a list without
  repetition, that the entry of that name is the one created for it.
* `AgentTypeCorrect`: `TypeOK`.

### Relationship agents

`RelationshipAgentsProofs` proves all six properties of `RelationshipAgents`
(`TypeOKCorrect`, `ReportedRelationshipsExist`, `NoMistypedRelationship`,
`FailedAgentWroteNothing`, `AssignedAsSaid`, `EveryRelationshipIsTried`) from one
inductive invariant.  Beyond the properties themselves it says what each agent
can have written at each `pc` (`Phases`: nothing while it analyzes), that the
levels are registered in their order (`LevelsInOrder`), and that what was found
has the type asked for or no id (`FoundWellTyped`), which together with "no
component has the id 0" makes the write of an entry without an id match nothing.
Two lemmas say what the lookups return: `FindElementId` from the assumption on
registries (`RegistryAssumption`: an entry has the id of a node of its type or none,
which is what `ConceptAgent` leaves behind), `FindLevelIsLevel` from the order of
the levels.  `ReportedRelationshipsExist` is about steps: `TrackedIsReal` says that
what a step tracks is in the graph after it (`NewlyTracked`), also when the level
was deleted before the write, and that what was tracked goes only with its level
(`TrackedRemains`, part of the invariant).

### Requests

The invariant of `RestRequestsProofs` says of each request where it is in its
lists and what it has left in the graph; a step of another request adds to the
graph or, in an update, takes levels away with their requirements.

* `RequirementsPlaced`: `RequirementOnItsLevel`.  `IdsInv` gives the arithmetic of
  skipped levels: the k-th element of `ids` is the level at k plus the number of
  skipped levels up to it.  `RequiresInv` says which element of `ids` a requirement was
  written for, `ItemInv` that the node at hand is the one listed.
* `UpdatesReplace`: `UpdateReplaces`.  It is almost inductive; it needs that a
  request that was answered stays answered and adds no level (`LevelInv`).
* `ErrorsAddNothing`: `ErrorAddsNothing`.  Whoever has a level or a requirement is
  past the last point at which an error is returned (`LevelInv`, `RequiresInv`).
* `UndisturbedCompletes`: `UndisturbedIsComplete`.  Everything an undisturbed
  request has passed is there (`DoneInv`), on the level of the same number since
  none was skipped, and once (`OnceInv`, since a requirement is written when the
  request is at its place, and only then).
* `SignupsLogIn`: `SignedUpCanLogIn`.  `SignupInv` says that two signups of one name
  that both made a person overlapped, `LoginInv` that a login with the right
  password is refused only when there is a second person of that name.
* `RestTypeCorrect`: `TypeOK`.

### What is only model-checked

Liveness under fairness (`EveryJobDrains`, `TaskEnds`, `StreamEnds`,
`FailureIsShown`) is out of the prover's reach and stays with TLC, as do the four
runs that find a violation.

## 5. Not modelled

* `update_node`, `update_relationship` and `delete_relationship`: one query on one id
  each, with nothing to interleave inside.
* Tokens and the middleware that checks them: a token is a signed answer, the
  server keeps no state about it.
* The deletion of progress in `update_domain`: its label matches no node (see above).
* The avatar's job: nothing that is modelled depends on it.
* That two overlapping updates mix their levels, or that a failed one leaves the
  domain without any, is modelled; no property excludes it, since the code does
  it.
* An error answer whose body is still being read when the user aborts: the
  failed read is caught (`http-service.ts:368`), so `onError` is called after the
  abort.  No property depends on it.
* The change of the route parameter in `DomainGenerator`, and the debounced
  search of `DomainCreator`.
* Prompts, LLM and embedding clients (callers see an answer or an error),
  routing, configuration, S3, image generation, read-only queries, rendering,
  batch jobs and the generated Cypher under `database/`: pure I/O or data.

## 6. Plan

Done: all modules above, their runs, and the proof of every invariant, action
property and refinement that a passing run checks.

Left to model: the two searches of the pages whose answers may arrive out of
order (`DomainGenerator.tsx:66`, `DomainCreator.tsx`).

Left to prove about what is there: that the registries `ConceptAgent` leaves satisfy
`RegistryAssumption` of `RelationshipAgents`, as an invariant of the former, so that
the two sets of theorems compose.
