---------------------------- MODULE DomainWorker ----------------------------
(***************************************************************************)
(* The node-generation worker: a Lambda function fed by an SQS queue.      *)
(*                                                                         *)
(* Several invocations (Worker) run concurrently.  Each one receives a     *)
(* batch of messages, processes the records in order (handler.rs) and      *)
(* writes nodes and relationships to one shared Neo4j graph (processors/). *)
(* Between two calls of one invocation any other invocation may run, so    *)
(* every call that reads or writes the graph is an action of its own.      *)
(* Every call may fail; a failed write may or may not have been committed. *)
(*                                                                         *)
(* The queue is external: at-least-once delivery, a visibility timeout     *)
(* that may expire while the message is being processed, and a redrive     *)
(* policy that moves a message received MaxReceives times to the DLQ.      *)
(***************************************************************************)
EXTENDS Integers, Sequences, FiniteSets

CONSTANTS
    Message,         \* SQS messages
    Worker,          \* concurrent Lambda invocations
    MaxReceives,     \* maxReceiveCount of the queue's redrive policy
    BatchSize,       \* batch size of the event source mapping
    Malformed,       \* messages without a body, or whose body does not parse
    NodeTypeOf,      \* NodeGenerationJob.node_type
    NameOf,          \* NodeGenerationJob.node_name
    SuggestedLevel,  \* NodeGenerationJob.suggested_level
    NoLevel,         \* its None
    Concept,         \* node names
    Score,           \* similarity of two names, in percent
    GeneratedName,   \* the names the LLM may put in the generated properties
    Seed,            \* nodes that are in the graph beforehand
    SeedNode,        \* their label and name
    NoNode,          \* stands for an absent node, and for no element id
    Limit,           \* the limit passed to find_similar_by_text
    Keyless          \* invocations deployed without ANTHROPIC_API_KEY

NodeType == {"Knowledge", "Skill", "Trait", "Milestone"}

\* A delivery of a message: the message and its approximate receive count.
Receipt == Message \X (1..MaxReceives)

\* A node is identified by the delivery whose CREATE made it.
ElementId == Seed \cup Receipt

NodeRecord == [label : NodeType, name : Concept]

DomainLevels == 1..5

ASSUME BoundsAssumption ==
    /\ MaxReceives \in Nat \ {0}
    /\ BatchSize \in Nat \ {0}
    /\ Limit \in Nat \ {0}
    /\ Keyless \subseteq Worker

ASSUME JobAssumption ==
    /\ Malformed \subseteq Message
    /\ NodeTypeOf \in [Message -> NodeType]
    /\ NameOf \in [Message -> Concept]
    /\ SuggestedLevel \in [Message -> (0..255) \cup {NoLevel}]
    /\ NoLevel \notin 0..255

\* The messages and the nodes of the graph can be counted.
ASSUME FiniteAssumption == IsFiniteSet(Message) /\ IsFiniteSet(Seed)

ASSUME GraphAssumption ==
    /\ Score \in [Concept \X Concept -> 0..100]
    /\ GeneratedName \in [Concept -> SUBSET Concept]
    /\ SeedNode \in [Seed -> NodeRecord]
    /\ Seed \cap Receipt = {}
    /\ NoNode \notin NodeRecord \cup ElementId

VARIABLES
    \* the queue
    status,       \* [Message -> Status]
    receives,     \* how often each message was received
    \* the invocations
    pc,           \* which call the invocation makes next
    batch,        \* the records of the invocation's event
    pos,          \* the record being processed
    plan,         \* ConceptDecision of that record
    elem,         \* element id to assign to a level
    \* the graph
    node,         \* [ElementId -> node, or NoNode]
    generalizes,  \* GENERALIZES_TO relationships
    requires,     \* REQUIRES_* relationships
    levels,       \* the Domain_Level nodes the queued jobs name that still exist
    \* what the invocations logged
    result        \* outcome of each delivery

queueVars == <<status, receives>>
workerVars == <<pc, batch, pos, plan, elem>>
graphVars == <<node, generalizes, requires, levels>>
vars == <<queueVars, workerVars, graphVars, result>>

Status == {"unsent", "visible", "inflight", "deleted", "dlq"}
Step == {"idle", "record", "create", "generalize", "assign"}
Outcome == {"pending", "ok", "skipped", "dropped", "retry"}
Target == ElementId \cup {NoNode}
ConceptDecision ==
    [kind : {"use_existing", "create_new", "create_and_generalize"}, target : Target]
CreateNew == [kind |-> "create_new", target |-> NoNode]

\* A relationship remembers the delivery that created it: CREATE makes a new
\* one each time it runs, and a delivery runs it at most once.
Requirement ==
    [level : DomainLevels, kind : NodeType, node : ElementId, by : Receipt]

TypeOK ==
    /\ status \in [Message -> Status]
    /\ receives \in [Message -> 0..MaxReceives]
    /\ pc \in [Worker -> Step]
    /\ batch \in [Worker -> Seq(Receipt)]
    /\ pos \in [Worker -> Nat \ {0}]
    /\ plan \in [Worker -> ConceptDecision]
    /\ elem \in [Worker -> Target]
    /\ node \in [ElementId -> NodeRecord \cup {NoNode}]
    /\ generalizes \subseteq ElementId \X ElementId
    /\ requires \subseteq Requirement
    /\ levels \subseteq DomainLevels
    /\ result \in [Receipt -> Outcome]

\* All but the levels of the domain.
InitButLevels ==
    /\ status = [m \in Message |-> "unsent"]
    /\ receives = [m \in Message |-> 0]
    /\ pc = [w \in Worker |-> "idle"]
    /\ batch = [w \in Worker |-> << >>]
    /\ pos = [w \in Worker |-> 1]
    /\ plan = [w \in Worker |-> CreateNew]
    /\ elem = [w \in Worker |-> NoNode]
    /\ node = [id \in ElementId |-> IF id \in Seed THEN SeedNode[id] ELSE NoNode]
    /\ generalizes = {}
    /\ requires = {}
    /\ result = [r \in Receipt |-> "pending"]

\* The jobs name five levels, and these are in the graph before the first job.
Init == InitButLevels /\ levels = DomainLevels

-----------------------------------------------------------------------------
(* The queue. *)

\* queue_node_generation: the REST API puts a job on the queue.
SendMessage(m) ==
    /\ status[m] = "unsent"
    /\ status' = [status EXCEPT ![m] = "visible"]
    /\ UNCHANGED <<receives, workerVars, graphVars, result>>

Receivable == {m \in Message : status[m] = "visible" /\ receives[m] < MaxReceives}

\* The event source mapping starts an invocation with a batch of records.
Receive(w) ==
    /\ pc[w] = "idle"
    /\ \E n \in 1..BatchSize : \E ms \in [1..n -> Receivable] :
        /\ \A i, j \in 1..n : ms[i] = ms[j] => i = j
        /\ batch' = [batch EXCEPT ![w] =
                        [i \in 1..n |-> <<ms[i], receives[ms[i]] + 1>>]]
        /\ LET received == {ms[i] : i \in 1..n}
           IN  /\ status' = [m \in Message |->
                                IF m \in received THEN "inflight" ELSE status[m]]
               /\ receives' = [m \in Message |->
                                IF m \in received THEN receives[m] + 1 ELSE receives[m]]
    /\ pc' = [pc EXCEPT ![w] = "record"]
    /\ pos' = [pos EXCEPT ![w] = 1]
    /\ UNCHANGED <<plan, elem, graphVars, result>>

\* The visibility timeout runs out, whether or not somebody still works on m.
VisibilityExpires(m) ==
    /\ status[m] = "inflight"
    /\ status' = [status EXCEPT ![m] = "visible"]
    /\ UNCHANGED <<receives, workerVars, graphVars, result>>

\* The redrive policy.
MoveToDLQ(m) ==
    /\ status[m] = "visible"
    /\ receives[m] = MaxReceives
    /\ status' = [status EXCEPT ![m] = "dlq"]
    /\ UNCHANGED <<receives, workerVars, graphVars, result>>

-----------------------------------------------------------------------------
(* handle_sqs_event: the loop over the records. *)

Current(w) == batch[w][pos[w]]
Job(w) == Current(w)[1]
HasRecord(w) == pc[w] = "record" /\ pos[w] <= Len(batch[w])
WellFormed(w) == HasRecord(w) /\ Job(w) \notin Malformed

\* The loop goes on with the next record.
NextRecord(w, outcome) ==
    /\ result' = [result EXCEPT ![Current(w)] = outcome]
    /\ pc' = [pc EXCEPT ![w] = "record"]
    /\ pos' = [pos EXCEPT ![w] = @ + 1]
    /\ plan' = [plan EXCEPT ![w] = CreateNew]
    /\ elem' = [elem EXCEPT ![w] = NoNode]
    /\ UNCHANGED batch

EndInvocation(w) ==
    /\ pc' = [pc EXCEPT ![w] = "idle"]
    /\ batch' = [batch EXCEPT ![w] = << >>]
    /\ pos' = [pos EXCEPT ![w] = 1]
    /\ plan' = [plan EXCEPT ![w] = CreateNew]
    /\ elem' = [elem EXCEPT ![w] = NoNode]

\* The invocation returns Err: nothing is deleted, the rest of the batch is
\* not looked at, and every message of the batch is delivered again.
ReturnErr(w) ==
    /\ result' = [result EXCEPT ![Current(w)] = "retry"]
    /\ EndInvocation(w)

is_retryable_error(e) == e \in {"Neo4j", "Embedding", "Llm"}

\* Mutant of Fail: the error is logged and the loop goes on.
FailContinues(w, e) ==
    NextRecord(w, IF is_retryable_error(e) THEN "retry" ELSE "dropped")

\* process_job returned Err(e).
Fail(w, e) ==
    IF is_retryable_error(e) THEN ReturnErr(w) ELSE NextRecord(w, "dropped")

\* Mutant of SkipMalformed: the loop does not get past the record.
SkipMalformedStuck(w) ==
    /\ HasRecord(w)
    /\ Job(w) \in Malformed
    /\ result' = [result EXCEPT ![Current(w)] = "skipped"]
    /\ UNCHANGED <<queueVars, workerVars, graphVars>>

SkipMalformed(w) ==
    /\ HasRecord(w)
    /\ Job(w) \in Malformed
    /\ NextRecord(w, "skipped")
    /\ UNCHANGED <<queueVars, graphVars>>

LlmMissing(w) ==
    /\ WellFormed(w)
    /\ w \in Keyless
    /\ Fail(w, "Configuration")
    /\ UNCHANGED <<queueVars, graphVars>>

\* The handler returns Ok(()) and the event source mapping deletes the batch.
\* A receipt handle that is not the latest one may or may not still delete.
ReturnOk(w) ==
    /\ pc[w] = "record"
    /\ pos[w] > Len(batch[w])
    /\ LET acked == {batch[w][i] : i \in 1..Len(batch[w])}
           latest == {m \in Message : <<m, receives[m]>> \in acked}
           stale == {m \in Message : \E r \in acked : r[1] = m} \ latest
       IN  \E deleted \in SUBSET stale :
             status' = [m \in Message |->
                 IF m \in latest \cup deleted /\ status[m] \in {"visible", "inflight"}
                 THEN "deleted" ELSE status[m]]
    /\ EndInvocation(w)
    /\ UNCHANGED <<receives, graphVars, result>>

\* The invocation times out, crashes, or cannot reach Neo4j at its start.
InvocationLost(w) ==
    /\ pc[w] # "idle"
    /\ EndInvocation(w)
    /\ UNCHANGED <<queueVars, graphVars, result>>

-----------------------------------------------------------------------------
(* Similarity search and decision. *)

Present == {id \in ElementId : node[id] # NoNode}
ScoreOf(name, id) == Score[<<name, node[id].name>>]

\* The index returns Limit nearest nodes of any label; ties are arbitrary.
NearestSets(name) ==
    {near \in SUBSET Present :
        /\ Cardinality(near) <= Limit
        /\ near # Present => Cardinality(near) = Limit
        /\ \A a \in near, b \in Present \ near : ScoreOf(name, a) >= ScoreOf(name, b)}

\* Mutant of WithLabel: the search is not filtered.
WithoutLabel(near, label) == near

\* The label is filtered afterwards.
WithLabel(near, label) == {id \in near : node[id].label = label}

AutoReuse(label) == IF label = "Trait" THEN 85 ELSE 95
AutoCreate(label) == IF label = "Trait" THEN 65 ELSE 70

\* Mutant of TopMatches: the similar nodes are not sorted.
TopMatchesUnsorted(name, hits) == hits

\* The first of the similar nodes, which are sorted by descending score.
TopMatches(name, hits) ==
    {id \in hits : \A other \in hits : ScoreOf(name, id) >= ScoreOf(name, other)}

AsksLlm(name, label, hits) ==
    \E top \in TopMatches(name, hits) :
        /\ ScoreOf(name, top) < AutoReuse(label)
        /\ ScoreOf(name, top) >= AutoCreate(label)

\* Mutant of decide_concept_action: the high band is missing.
decide_without_auto_reuse(name, label, hits) ==
    IF AsksLlm(name, label, hits)
    THEN [kind : {"use_existing", "create_and_generalize"}, target : hits] \cup {CreateNew}
    ELSE {CreateNew}

\* The decisions that decide_concept_action may return.  In the moderate band
\* the LLM chooses: any similar node to reuse or to generalize to, or none.
decide_concept_action(name, label, hits) ==
    LET reuse == {id \in TopMatches(name, hits) : ScoreOf(name, id) >= AutoReuse(label)}
        asked == IF AsksLlm(name, label, hits) THEN hits ELSE {}
    IN  [kind : {"use_existing"}, target : reuse \cup asked]
        \cup [kind : {"create_and_generalize"}, target : asked]
        \cup (IF reuse = {} THEN {CreateNew} ELSE {})

\* The first two steps of process() for Knowledge, Skill and Trait.
Search(w) ==
    /\ WellFormed(w)
    /\ w \notin Keyless
    /\ NodeTypeOf[Job(w)] # "Milestone"
    /\ \E near \in NearestSets(NameOf[Job(w)]) :
       \E d \in decide_concept_action(NameOf[Job(w)], NodeTypeOf[Job(w)],
                                      WithLabel(near, NodeTypeOf[Job(w)])) :
        /\ plan' = [plan EXCEPT ![w] = d]
        /\ elem' = [elem EXCEPT ![w] = IF d.kind = "use_existing" THEN d.target ELSE NoNode]
        /\ pc' = [pc EXCEPT ![w] = IF d.kind = "use_existing" THEN "assign" ELSE "create"]
    /\ UNCHANGED <<queueVars, batch, pos, graphVars, result>>

\* The embedding service or the index query fails during the search.
SearchFails(w) ==
    /\ WellFormed(w)
    /\ w \notin Keyless
    /\ NodeTypeOf[Job(w)] # "Milestone"
    /\ Fail(w, "Similarity")
    /\ UNCHANGED <<queueVars, graphVars>>

\* The LLM that is asked in the moderate band fails or answers no valid JSON.
VerificationFails(w) ==
    /\ WellFormed(w)
    /\ w \notin Keyless
    /\ NodeTypeOf[Job(w)] # "Milestone"
    /\ \E near \in NearestSets(NameOf[Job(w)]) :
        AsksLlm(NameOf[Job(w)], NodeTypeOf[Job(w)], WithLabel(near, NodeTypeOf[Job(w)]))
    /\ \E e \in {"Llm", "InvalidData"} : Fail(w, e)
    /\ UNCHANGED <<queueVars, graphVars>>

\* Milestones are always created, without a search.
StartMilestone(w) ==
    /\ WellFormed(w)
    /\ w \notin Keyless
    /\ NodeTypeOf[Job(w)] = "Milestone"
    /\ plan' = [plan EXCEPT ![w] = CreateNew]
    /\ pc' = [pc EXCEPT ![w] = "create"]
    /\ UNCHANGED <<queueVars, batch, pos, elem, graphVars, result>>

-----------------------------------------------------------------------------
(* Writing to the graph. *)

\* Mutant of Generalizing: every processor generalizes.
GeneralizingAlways(w) == plan[w].kind = "create_and_generalize"

\* Only the Knowledge and Skill processors act on CreateAndGeneralize.
Generalizing(w) ==
    /\ plan[w].kind = "create_and_generalize"
    /\ NodeTypeOf[Job(w)] \in {"Knowledge", "Skill"}

NewNode(w) ==
    \E name \in GeneratedName[NameOf[Job(w)]] :
        node' = [node EXCEPT ![Current(w)] =
                    [label |-> NodeTypeOf[Job(w)], name |-> name]]

\* Mutant of CreateNode: the element id of the new node is not kept.
CreateNodeIdLost(w) ==
    /\ pc[w] = "create"
    /\ NewNode(w)
    /\ pc' = [pc EXCEPT ![w] = IF Generalizing(w) THEN "generalize" ELSE "assign"]
    /\ UNCHANGED <<queueVars, batch, pos, plan, elem, generalizes, requires, levels, result>>

\* generate_properties and create_node.
CreateNode(w) ==
    /\ pc[w] = "create"
    /\ NewNode(w)
    /\ elem' = [elem EXCEPT ![w] = Current(w)]
    /\ pc' = [pc EXCEPT ![w] = IF Generalizing(w) THEN "generalize" ELSE "assign"]
    /\ UNCHANGED <<queueVars, batch, pos, plan, generalizes, requires, levels, result>>

\* A call before the CREATE fails, or the CREATE itself; in the latter case
\* the node may be in the graph although the caller sees the error.
CreateNodeFails(w) ==
    /\ pc[w] = "create"
    /\ \/ /\ \E e \in {"Llm", "InvalidData", "Embedding", "Neo4j"} : Fail(w, e)
          /\ UNCHANGED node
       \/ /\ Fail(w, "Neo4j")
          /\ NewNode(w)
    /\ UNCHANGED <<queueVars, generalizes, requires, levels>>

\* Mutant of AddGeneralization: a relationship in each direction.
AddGeneralizationBothWays(w) ==
    generalizes' = generalizes \cup {<<elem[w], plan[w].target>>, <<plan[w].target, elem[w]>>}

AddGeneralization(w) ==
    generalizes' = generalizes \cup {<<elem[w], plan[w].target>>}

create_generalization(w) ==
    /\ pc[w] = "generalize"
    /\ AddGeneralization(w)
    /\ pc' = [pc EXCEPT ![w] = "assign"]
    /\ UNCHANGED <<queueVars, batch, pos, plan, elem, node, requires, levels, result>>

\* Mutant of GeneralizationFails: the error of the query is ignored.
GeneralizationErrorIgnored(w) ==
    /\ pc[w] = "generalize"
    /\ AddGeneralization(w) \/ UNCHANGED generalizes
    /\ pc' = [pc EXCEPT ![w] = "assign"]
    /\ UNCHANGED <<queueVars, batch, pos, plan, elem, node, requires, levels, result>>

GeneralizationFails(w) ==
    /\ pc[w] = "generalize"
    /\ Fail(w, "Neo4j")
    /\ AddGeneralization(w) \/ UNCHANGED generalizes
    /\ UNCHANGED <<queueVars, node, requires, levels>>

\* Mutant of determine_level: the number is not clamped.
determine_level_unclamped(suggested) == IF suggested = NoLevel THEN 3 ELSE suggested

determine_level(suggested) ==
    IF suggested = NoLevel THEN 3
    ELSE IF suggested < 1 THEN 1
    ELSE IF suggested > 5 THEN 5
    ELSE suggested

LevelOf(m) == determine_level(SuggestedLevel[m])

\* create_level_requirement: MATCH level, MATCH node, CREATE.  When the level
\* is gone the query matches nothing and still succeeds.
AddRequirement(w) ==
    requires' =
        IF LevelOf(Job(w)) \in levels
        THEN requires \cup {[level |-> LevelOf(Job(w)), kind |-> NodeTypeOf[Job(w)],
                             node |-> elem[w], by |-> Current(w)]}
        ELSE requires

\* The last step of process().
AssignLevel(w) ==
    /\ pc[w] = "assign"
    /\ AddRequirement(w)
    /\ NextRecord(w, "ok")
    /\ UNCHANGED <<queueVars, node, generalizes, levels>>

\* Mutant of AssignLevelFails: the error of the query is ignored.
AssignLevelErrorIgnored(w) ==
    /\ pc[w] = "assign"
    /\ NextRecord(w, "ok")
    /\ AddRequirement(w) \/ UNCHANGED requires
    /\ UNCHANGED <<queueVars, node, generalizes, levels>>

AssignLevelFails(w) ==
    /\ pc[w] = "assign"
    /\ Fail(w, "Neo4j")
    /\ AddRequirement(w) \/ UNCHANGED requires
    /\ UNCHANGED <<queueVars, node, generalizes, levels>>

\* A job names all five levels: generate_domain_async queues nothing before
\* create_domain_and_levels has made them.
\*
\* update_domain of the REST API runs its DETACH DELETE on the domain's levels;
\* the levels it makes instead have element ids that no queued job names.
DeleteLevels ==
    /\ levels # {}
    /\ levels' = {}
    /\ requires' = {}
    /\ UNCHANGED <<queueVars, workerVars, node, generalizes, result>>

-----------------------------------------------------------------------------

WorkerStep(w) ==
    \/ SkipMalformed(w)
    \/ LlmMissing(w)
    \/ Search(w)
    \/ SearchFails(w)
    \/ VerificationFails(w)
    \/ StartMilestone(w)
    \/ CreateNode(w)
    \/ CreateNodeFails(w)
    \/ create_generalization(w)
    \/ GeneralizationFails(w)
    \/ AssignLevel(w)
    \/ AssignLevelFails(w)
    \/ ReturnOk(w)

Next ==
    \/ \E m \in Message : SendMessage(m) \/ VisibilityExpires(m) \/ MoveToDLQ(m)
    \/ \E w \in Worker : Receive(w) \/ WorkerStep(w) \/ InvocationLost(w)
    \/ DeleteLevels

Spec == Init /\ [][Next]_vars

\* A running invocation goes on, the mapping keeps polling, timeouts expire
\* and the redrive policy is applied.  Nothing makes anybody send a job.
Fairness ==
    /\ \A w \in Worker : WF_vars(WorkerStep(w)) /\ WF_vars(Receive(w))
    /\ \A m \in Message : WF_vars(VisibilityExpires(m)) /\ WF_vars(MoveToDLQ(m))

FairSpec == Spec /\ Fairness

-----------------------------------------------------------------------------
(* Properties. *)

Settled == {"ok", "skipped", "dropped"}

\* A message leaves the queue for good only after some delivery of it ran to
\* its end: a retryable failure, an aborted batch, a crash or an expired
\* visibility timeout never loses a job (handle_sqs_event).
AckedIsSettled ==
    \A m \in Message : status[m] = "deleted" =>
        \E r \in 1..receives[m] : result[<<m, r>>] \in Settled

\* Level l is the one a job wants: the nearest to its suggestion, which may be
\* any number of eight bits, or the third if it has none.
Distance(a, b) == IF a < b THEN b - a ELSE a - b
Wants(m, l) ==
    IF SuggestedLevel[m] = NoLevel
    THEN l = 3
    ELSE \A k \in DomainLevels : Distance(SuggestedLevel[m], l) <= Distance(SuggestedLevel[m], k)

\* A delivery that is logged as a success has attached a node to the level its
\* job wants, and the node it created if it created one, as long as that level
\* is still there: no orphan is reported as a success, and no suggestion out
\* of range ends on another level or on none (process, determine_level).
SuccessIsLinked ==
    \A r \in Receipt, l \in levels : result[r] = "ok" /\ Wants(r[1], l) =>
        \E e \in requires :
            /\ e.by = r
            /\ e.level = l
            /\ node[r] # NoNode => e.node = r

\* A REQUIRES_<type> relationship leads to an existing node of that type,
\* although the similarity index holds nodes of all types.
RequirementsWellTyped ==
    \A e \in requires :
        /\ node[e.node] # NoNode
        /\ node[e.node].label = e.kind
        /\ e.kind = NodeTypeOf[e.by[1]]

\* No set of nodes generalizes in a circle: however the searches and writes of
\* the invocations interleave, GENERALIZES_TO leads from a node to one that
\* was in the graph before it (create_generalization).
Acyclic(edges) ==
    \A S \in SUBSET ElementId :
        (\A a \in S : \E b \in S : <<a, b>> \in edges) => S = {}

GeneralizationsAcyclic == Acyclic(generalizes)

\* GENERALIZES_TO joins two existing nodes of the same label, Knowledge or
\* Skill, and starts at a node that a job created: Traits and Milestones never
\* generalize, whatever the LLM answers.
GeneralizationsWellTyped ==
    \A g \in generalizes :
        /\ g[1] \in Receipt
        /\ node[g[1]] # NoNode /\ node[g[2]] # NoNode
        /\ node[g[1]].label = node[g[2]].label
        /\ node[g[1]].label \in {"Knowledge", "Skill"}

\* A job m may reuse node id, in the graph as it is.  The search can find it: it
\* has the type asked for and is among the Limit nearest nodes of any type.
\* Either it reaches auto_reuse and nothing of its type is nearer; or the LLM is
\* asked, which takes that the best node of the type lies between the two
\* thresholds.
MayReuse(m, id) ==
    LET type == NodeTypeOf[m]
        score(other) == ScoreOf(NameOf[m], other)
        alike == {other \in Present : node[other].label = type}
    IN  /\ id \in alike
        /\ Cardinality({other \in Present : score(other) > score(id)}) < Limit
        /\ \/ /\ score(id) >= AutoReuse(type)
              /\ \A other \in alike : score(other) <= score(id)
           \/ /\ \A other \in alike : score(other) < AutoReuse(type)
              /\ \E other \in alike : score(other) >= AutoCreate(type)

\* When an invocation comes to attach a node that its delivery did not create,
\* the thresholds, or the LLM where they leave it the choice, allow to reuse that
\* very node, in the graph as the search of this delivery sees it: what was read
\* for an earlier record or found by another invocation counts for nothing.  It
\* never does so for a Milestone nor after creating a node
\* (decide_concept_action, process).
ReuseIsJustified ==
    [][\A w \in Worker :
        pc[w] # "assign" /\ pc'[w] = "assign" /\ elem'[w] # Current(w) =>
            /\ NodeTypeOf[Job(w)] # "Milestone"
            /\ node[Current(w)] = NoNode
            /\ MayReuse(Job(w), elem'[w])]_vars

\* The generalizations that the decision at hand asks for: Traits and Milestones
\* have none.
Generalizations(w) ==
    IF plan[w].kind = "create_and_generalize" /\ NodeTypeOf[Job(w)] \in {"Knowledge", "Skill"}
    THEN {<<Current(w), plan[w].target>>}
    ELSE {}

\* When the delivery at hand becomes a success its decision is carried out, all of
\* it and nothing else: it created a node unless it reused one, made the
\* generalization it decided on and no other, and attached the node that it
\* created or chose.
SuccessFollowsPlan(w) ==
    LET r == Current(w)
        reuses == plan[w].kind = "use_existing"
    IN  pos[w] <= Len(batch[w]) /\ result[r] # "ok" /\ result'[r] = "ok" =>
            /\ node'[r] = NoNode <=> reuses
            /\ {g \in generalizes' : g[1] = r} = Generalizations(w)
            /\ \A e \in requires' : e.by = r => e.node = IF reuses THEN plan[w].target ELSE r

\* So it is for every delivery, whatever other invocations wrote since its search
\* and earlier deliveries of the job left behind (process).
DecisionIsCarriedOut == [][\A w \in Worker : SuccessFollowsPlan(w)]_vars

\* As long as one invocation at most can write (all others are Keyless) a
\* redelivered job finds the node that its failed delivery left behind and
\* reuses it: no two Knowledge, Skill or Trait nodes have the same name.
NoDuplicateNodes ==
    \A a, b \in Present :
        node[a] = node[b] /\ node[a].label # "Milestone" => a = b

\* Every job that is sent is eventually deleted from the queue or in the DLQ.
EveryJobDrains ==
    \A m \in Message : status[m] = "visible" ~> status[m] \in {"deleted", "dlq"}

\* The abstract queue of jobs that the worker and SQS implement.
Promise == INSTANCE JobQueue WITH
    JobId <- Message,
    state <- [m \in Message |->
                CASE status[m] \in {"visible", "inflight"} -> "pending"
                  [] status[m] = "deleted" -> "removed"
                  [] status[m] = "dlq" -> "dead"
                  [] OTHER -> "unsent"],
    tries <- receives,
    settled <- {m \in Message : \E r \in 1..MaxReceives : result[<<m, r>>] \in Settled}

\* With all its batches, timeouts, duplicates and crashes, delivery is that of
\* JobQueue: a job is removed only once it is settled, given up only after
\* MaxReceives deliveries, and neither is ever undone (handle_sqs_event).
KeepsQueuePromise == Promise!Spec

\* What the comments at handler.rs:49 and handler.rs:87 say of malformed
\* messages and of non-retryable failures: a message that was never processed
\* successfully goes to the DLQ and is not deleted.
DroppedGoesToDLQ ==
    \A m \in Message : status[m] = "deleted" =>
        \E r \in 1..receives[m] : result[<<m, r>>] = "ok"
=============================================================================
