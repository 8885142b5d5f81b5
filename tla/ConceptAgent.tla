---------------------------- MODULE ConceptAgent ----------------------------
(***************************************************************************)
(* The four agents that fill a domain: KnowledgeGeneratorStep,             *)
(* SkillGeneratorStep, TraitGeneratorStep and MilestoneGeneratorStep.      *)
(*                                                                         *)
(* A task is one call of execute().  It works in passes: ask the LLM for   *)
(* concepts, search the graph for each, decide what to do with each,       *)
(* create the missing general nodes, have the properties of the new nodes  *)
(* generated, create them, and link the specific ones to the general ones. *)
(* A pass goes over all concepts before the next one starts, so a decision *)
(* is old when it is carried out.  Tasks of several generations run        *)
(* concurrently against one graph, and each of their calls may fail.       *)
(*                                                                         *)
(* Trait has no pass 4 and 7; Milestone searches for nothing.              *)
(***************************************************************************)
EXTENDS Naturals, Sequences, FiniteSets

CONSTANTS
    Task,          \* concurrent calls of execute()
    Agents,        \* the combinations of agents to run: functions from Task to Label
    Name,          \* names of nodes
    NoName,        \* no name
    Score,         \* similarity of a text with a node of some name, in percent
    GeneratedName, \* the names the LLM may put into the properties of a concept
    MaxConcepts,   \* length of the LLM's concept list (bound)
    SeedNode       \* the nodes that are in the graph beforehand

Label == {"Knowledge", "Skill", "Trait", "Milestone"}
NoTask == "none"

\* A node: its name, the concept that its description and other properties
\* were written for, and the task that created it.
NodeRecord == [label : Label, name : Name, of : Name, by : Task \cup {NoTask}]

ASSUME AgentAssumption ==
    /\ Agents \subseteq [Task -> Label]
    /\ NoTask \notin Task
    /\ NoName \notin Name
    /\ Score \in [Name \X Name -> 0..100]
    /\ GeneratedName \in [Name -> SUBSET Name]
    /\ MaxConcepts \in Nat
    /\ SeedNode \in Seq(NodeRecord)
    /\ \A k \in DOMAIN SeedNode : SeedNode[k].by = NoTask

VARIABLES
    label,         \* the agent each task is a call of
    pc,            \* the pass it is in
    concepts,      \* the LLM's list
    similar,       \* what the searches found, one set per concept
    verified,      \* the decisions, one per concept
    props,         \* generated properties, in the order they arrived
    created,       \* the nodes of the pass at hand, as CreatedNode records
    pos,           \* the concept pass 7 is at
    registry,      \* the task's nodes in AgentContext.domain_graph
    links,         \* its generalizations there
    node,          \* the nodes of the graph; an element id is a position here
    generalizes    \* the GENERALIZES_TO relationships

taskVars == <<label, pc, concepts, similar, verified, props, created, pos>>
contextVars == <<registry, links>>
graphVars == <<node, generalizes>>
vars == <<taskVars, contextVars, graphVars>>

\* A string that is no element id: an empty one, or a name.
NotAnId == 0
Id == 1..Len(node)
AnyId == Id \cup {NotAnId}

Pass == {"conceptualize", "search", "verify", "targets", "properties", "create",
         "generalize", "ok", "err"}
VerifiedConcept ==
    [name : Name, action : {"create_new", "use_existing", "create_and_generalize"},
     id : AnyId, general : Name \cup {NoName}, needs_creation : BOOLEAN]
CreatedNode == [name : Name, id : AnyId, was_reused : BOOLEAN]
ConceptList == UNION {[1..n -> Name] : n \in 0..MaxConcepts}

TypeOK ==
    /\ label \in [Task -> Label]
    /\ pc \in [Task -> Pass]
    /\ concepts \in [Task -> ConceptList]
    /\ similar \in [Task -> Seq(SUBSET Id)]
    /\ verified \in [Task -> Seq(VerifiedConcept)]
    /\ props \in [Task -> Seq([idx : 1..MaxConcepts, name : Name])]
    /\ created \in [Task -> Seq(CreatedNode)]
    /\ pos \in [Task -> 1..(MaxConcepts + 1)]
    /\ registry \in [Task -> Seq(CreatedNode)]
    /\ links \in [Task -> SUBSET (Id \X Id)]
    /\ node \in Seq(NodeRecord)
    /\ generalizes \subseteq Id \X Id

Init ==
    /\ label \in Agents
    /\ pc = [t \in Task |-> "conceptualize"]
    /\ concepts = [t \in Task |-> << >>]
    /\ similar = [t \in Task |-> << >>]
    /\ verified = [t \in Task |-> << >>]
    /\ props = [t \in Task |-> << >>]
    /\ created = [t \in Task |-> << >>]
    /\ pos = [t \in Task |-> 1]
    /\ registry = [t \in Task |-> << >>]
    /\ links = [t \in Task |-> {}]
    /\ node = SeedNode
    /\ generalizes = {}

-----------------------------------------------------------------------------
(* Similarity search. *)

ScoreOf(text, id) == Score[<<text, node[id].name>>]

\* The index returns the limit nearest nodes of any label; the label is
\* filtered afterwards.  Ties are broken arbitrarily.
find_similar_nodes(text, l, limit) ==
    LET nearest == {near \in SUBSET Id :
            /\ Cardinality(near) <= limit
            /\ near # Id => Cardinality(near) = limit
            /\ \A a \in near, b \in Id \ near : ScoreOf(text, a) >= ScoreOf(text, b)}
    IN  {{id \in near : node[id].label = l} : near \in nearest}

\* similar_nodes[0]
Top(text, found) == {id \in found : \A other \in found : ScoreOf(text, id) >= ScoreOf(text, other)}

-----------------------------------------------------------------------------
(* Decisions. *)

create_new(c) ==
    [name |-> c, action |-> "create_new", id |-> NotAnId, general |-> NoName,
     needs_creation |-> FALSE]

use_existing(c, id) ==
    [name |-> c, action |-> "use_existing", id |-> id, general |-> NoName,
     needs_creation |-> FALSE]

create_and_generalize(c, id, general, needs_creation) ==
    [name |-> c, action |-> "create_and_generalize", id |-> id, general |-> general,
     needs_creation |-> needs_creation]

ThresholdLow(l) == IF l = "Trait" THEN 65 ELSE 70
ThresholdHigh(l) == IF l = "Trait" THEN 85 ELSE 95

\* The decisions made without the LLM; none in the moderate band.
determine_action_by_score(l, c, found) ==
    IF found = {} \/ \E top \in Top(c, found) : ScoreOf(c, top) < ThresholdLow(l)
    THEN {create_new(c)}
    ELSE {use_existing(c, top) :
            top \in {id \in Top(c, found) : ScoreOf(c, id) >= ThresholdHigh(l)}}

\* The general node the LLM named: in the list it was shown, or found by a
\* search of its own, or to be created.
resolve_target(l, c, general, found) ==
    LET listed == {id \in found : node[id].name = general}
        exact(hit) == {id \in hit : ScoreOf(general, id) >= 95 \/ node[id].name = general}
        searched == {exact(hit) : hit \in find_similar_nodes(general, l, 1)}
        existing == IF listed # {} THEN listed ELSE UNION searched
    IN  {create_and_generalize(c, id, general, FALSE) : id \in existing}
        \cup (IF listed = {} /\ {} \in searched
              THEN {create_and_generalize(c, NotAnId, general, TRUE)} ELSE {})

\* What parse_verification_response makes of the LLM's answers: of "use
\* existing" it keeps the name of the node as its element id.
parse_verification_response(l, c, found) ==
    {use_existing(c, NotAnId), create_new(c)}
    \cup UNION {resolve_target(l, c, general, found) : general \in Name}

\* parse_trait_verification looks the node up among those found.
parse_trait_verification(c, found) == {use_existing(c, id) : id \in found} \cup {create_new(c)}

-----------------------------------------------------------------------------
(* The passes. *)

\* Pass 1.  The list is what the LLM says: possibly empty, possibly with a
\* concept twice.
Conceptualize(t) ==
    /\ pc[t] = "conceptualize"
    /\ \E list \in ConceptList :
        /\ concepts' = [concepts EXCEPT ![t] = list]
        /\ IF label[t] = "Milestone"
           THEN /\ verified' = [verified EXCEPT ![t] =
                                    [i \in DOMAIN list |-> create_new(list[i])]]
                /\ pc' = [pc EXCEPT ![t] = "properties"]
           ELSE /\ UNCHANGED verified
                /\ pc' = [pc EXCEPT ![t] = "search"]
    /\ UNCHANGED <<label, similar, props, created, pos, contextVars, graphVars>>

\* Pass 2, one concept.
Search(t) ==
    /\ pc[t] = "search"
    /\ Len(similar[t]) < Len(concepts[t])
    /\ \E found \in find_similar_nodes(concepts[t][Len(similar[t]) + 1], label[t], 3) :
        similar' = [similar EXCEPT ![t] = Append(@, found)]
    /\ UNCHANGED <<label, pc, concepts, verified, props, created, pos, contextVars, graphVars>>

\* Pass 3, one concept.
Verify(t) ==
    /\ pc[t] = "verify"
    /\ Len(verified[t]) < Len(concepts[t])
    /\ LET i == Len(verified[t]) + 1
           c == concepts[t][i]
           found == similar[t][i]
           certain == determine_action_by_score(label[t], c, found)
       IN  \E decision \in
                IF certain # {} THEN certain
                ELSE IF label[t] = "Trait" THEN parse_trait_verification(c, found)
                ELSE parse_verification_response(label[t], c, found) :
            verified' = [verified EXCEPT ![t] = Append(@, decision)]
    /\ UNCHANGED <<label, pc, concepts, similar, props, created, pos, contextVars, graphVars>>

\* Mutant of BATCH_SIZE: two calls of the LLM at a time.
BATCH_SIZE_2 == 2

BATCH_SIZE == 1

\* buffer_unordered: the calls in flight, any of which may be answered next.
InFlight(pending) == {i \in pending : Cardinality({j \in pending : j < i}) < BATCH_SIZE}

NewNode(t, name, of) ==
    node' = Append(node, [label |-> label[t], name |-> name, of |-> of, by |-> t])

MissingTargets(t) == {i \in DOMAIN verified[t] : verified[t][i].needs_creation}

\* Pass 4, one missing target.
CreateTarget(t) ==
    /\ pc[t] = "targets"
    /\ \E i \in InFlight(MissingTargets(t)) :
        LET general == verified[t][i].general
        IN  /\ \E name \in GeneratedName[general] : NewNode(t, name, general)
            /\ verified' = [verified EXCEPT ![t][i].id = Len(node) + 1,
                                            ![t][i].needs_creation = FALSE]
            /\ created' = [created EXCEPT ![t] =
                    Append(@, [name |-> general, id |-> Len(node) + 1, was_reused |-> FALSE])]
    /\ UNCHANGED <<label, pc, concepts, similar, props, pos, contextVars, generalizes>>

Pending(t) ==
    {i \in DOMAIN verified[t] :
        /\ verified[t][i].action # "use_existing"
        /\ \A k \in DOMAIN props[t] : props[t][k].idx # i}

\* Pass 5, one answer of the LLM.
GenerateProperties(t) ==
    /\ pc[t] = "properties"
    /\ \E i \in InFlight(Pending(t)) : \E name \in GeneratedName[verified[t][i].name] :
        props' = [props EXCEPT ![t] = Append(@, [idx |-> i, name |-> name])]
    /\ UNCHANGED <<label, pc, concepts, similar, verified, created, pos, contextVars, graphVars>>

\* props_iter: the properties are taken in the order they arrived.
NextProps(t) ==
    LET k == Len(created[t]) + 1
    IN  props[t][1 + Cardinality({i \in 1..(k - 1) : verified[t][i].action # "use_existing"})]

\* Pass 6, one concept.
CreateNode(t) ==
    /\ pc[t] = "create"
    /\ Len(created[t]) < Len(verified[t])
    /\ LET concept == verified[t][Len(created[t]) + 1]
           entry(name, id, reused) ==
               created' = [created EXCEPT ![t] =
                    Append(@, [name |-> name, id |-> id, was_reused |-> reused])]
       IN  IF concept.action = "use_existing"
           THEN entry(concept.name, concept.id, TRUE) /\ UNCHANGED node
           ELSE LET p == NextProps(t)
                IN  /\ NewNode(t, p.name, verified[t][p.idx].name)
                    /\ entry(p.name, Len(node) + 1, FALSE)
    /\ UNCHANGED <<label, pc, concepts, similar, verified, props, pos, contextVars, generalizes>>

\* Mutant of Source: the nodes of the whole context are looked through.
SourceInContext(t, name) ==
    LET all == registry[t] \o created[t]
        matches == {k \in DOMAIN all : all[k].name = name}
    IN  {all[k].id : k \in {m \in matches : \A other \in matches : m <= other}}

\* The first created node of that name; empty if there is none.
Source(t, name) ==
    LET matches == {k \in DOMAIN created[t] : created[t][k].name = name}
    IN  {created[t][k].id : k \in {m \in matches : \A other \in matches : m <= other}}

AtGeneralization(t) ==
    /\ pc[t] = "generalize"
    /\ pos[t] <= Len(verified[t])
    /\ verified[t][pos[t]].action = "create_and_generalize"

\* Mutant of create_relationship: the link is recorded without looking at
\* the result of the call.
relationship_unchecked(t, made) ==
    /\ generalizes' \in {generalizes, generalizes \cup made}
    /\ links' = [links EXCEPT ![t] = @ \cup made]

\* The call merges the relationship and the link is recorded; or it returns an
\* error, which is ignored and may hide that the relationship was made.
create_relationship(t, made) ==
    \/ /\ generalizes' = generalizes \cup made
       /\ links' = [links EXCEPT ![t] = @ \cup made]
    \/ /\ generalizes' \in {generalizes, generalizes \cup made}
       /\ UNCHANGED links

\* Pass 7, one concept.  Nothing is made unless both ids match a node.
Generalize(t) ==
    /\ AtGeneralization(t)
    /\ \E source \in Source(t, verified[t][pos[t]].name) :
        LET edge == <<source, verified[t][pos[t]].id>>
        IN  create_relationship(t, IF edge \in Id \X Id THEN {edge} ELSE {})
    /\ pos' = [pos EXCEPT ![t] = @ + 1]
    /\ UNCHANGED <<label, pc, concepts, similar, verified, props, created, registry, node>>

SkipGeneralization(t) ==
    /\ pc[t] = "generalize"
    /\ pos[t] <= Len(verified[t])
    /\ verified[t][pos[t]].action # "create_and_generalize"
    /\ pos' = [pos EXCEPT ![t] = @ + 1]
    /\ UNCHANGED <<label, pc, concepts, similar, verified, props, created, contextVars, graphVars>>

\* execute() returns Err: what the passes have gathered is dropped.
ReturnErr(t) ==
    /\ pc' = [pc EXCEPT ![t] = "err"]
    /\ similar' = [similar EXCEPT ![t] = << >>]
    /\ verified' = [verified EXCEPT ![t] = << >>]
    /\ props' = [props EXCEPT ![t] = << >>]
    /\ created' = [created EXCEPT ![t] = << >>]
    /\ pos' = [pos EXCEPT ![t] = 1]

\* No created node has the concept's name, the LLM having changed it.
SourceNotFound(t) ==
    /\ AtGeneralization(t)
    /\ Source(t, verified[t][pos[t]].name) = {}
    /\ ReturnErr(t)
    /\ UNCHANGED <<label, concepts, contextVars, graphVars>>

\* Mutant of Register: the nodes are announced and not kept.
RegisterNothing(t) ==
    /\ created' = [created EXCEPT ![t] = << >>]
    /\ UNCHANGED registry

\* The events of the created nodes, and context.add_knowledge and the like.
Register(t) ==
    /\ registry' = [registry EXCEPT ![t] = @ \o created[t]]
    /\ created' = [created EXCEPT ![t] = << >>]

PassDone(t) ==
    \/ pc[t] = "search" /\ Len(similar[t]) = Len(concepts[t]) /\ pc' = [pc EXCEPT ![t] = "verify"]
    \/ pc[t] = "verify" /\ Len(verified[t]) = Len(concepts[t]) /\ pc' = [pc EXCEPT ![t] = "targets"]
    \/ pc[t] = "properties" /\ Pending(t) = {} /\ pc' = [pc EXCEPT ![t] = "create"]
    \/ pc[t] = "create" /\ Len(created[t]) = Len(verified[t]) /\ pc' = [pc EXCEPT ![t] = "generalize"]

\* A pass without registration is over.
NextPass(t) ==
    /\ PassDone(t)
    /\ UNCHANGED <<label, concepts, similar, verified, props, created, pos, contextVars, graphVars>>

TargetsDone(t) ==
    /\ pc[t] = "targets"
    /\ MissingTargets(t) = {}
    /\ Register(t)
    /\ pc' = [pc EXCEPT ![t] = "properties"]
    /\ UNCHANGED <<label, concepts, similar, verified, props, pos, links, graphVars>>

\* execute() returns Ok.
Finish(t) ==
    /\ pc[t] = "generalize"
    /\ pos[t] > Len(verified[t])
    /\ Register(t)
    /\ pc' = [pc EXCEPT ![t] = "ok"]
    /\ UNCHANGED <<label, concepts, similar, verified, props, pos, links, graphVars>>

\* Mutant of AgentFails: the error of create_node is ignored.
CreateErrorIgnored(t) ==
    /\ pc[t] = "create"
    /\ Len(created[t]) < Len(verified[t])
    /\ created' = [created EXCEPT ![t] =
            Append(@, [name |-> verified[t][Len(@) + 1].name, id |-> Len(node) + 1, was_reused |-> FALSE])]
    /\ UNCHANGED <<label, pc, concepts, similar, verified, props, pos, contextVars, graphVars>>

\* A call fails and execute() returns Err.  A node may have been created by
\* the call that failed.  Nothing that was created before is taken back.
AgentFails(t) ==
    /\ pc[t] \notin {"ok", "err", "generalize"}
    /\ ReturnErr(t)
    /\ \/ UNCHANGED node
       \/ /\ pc[t] = "targets"
          /\ \E i \in InFlight(MissingTargets(t)) :
                \E name \in GeneratedName[verified[t][i].general] :
                    NewNode(t, name, verified[t][i].general)
       \/ /\ pc[t] = "create"
          /\ Len(created[t]) < Len(verified[t])
          /\ verified[t][Len(created[t]) + 1].action # "use_existing"
          /\ NewNode(t, NextProps(t).name, verified[t][NextProps(t).idx].name)
    /\ UNCHANGED <<label, concepts, contextVars, generalizes>>

-----------------------------------------------------------------------------

execute(t) ==
    \/ Conceptualize(t)
    \/ Search(t)
    \/ Verify(t)
    \/ CreateTarget(t)
    \/ TargetsDone(t)
    \/ GenerateProperties(t)
    \/ CreateNode(t)
    \/ Generalize(t)
    \/ SkipGeneralization(t)
    \/ SourceNotFound(t)
    \/ NextPass(t)
    \/ Finish(t)
    \/ AgentFails(t)

Next == \E t \in Task : execute(t)

Spec == Init /\ [][Next]_vars

-----------------------------------------------------------------------------
(* Properties. *)

\* The node created for a concept carries the properties generated for that
\* concept, although pass 5 collects them in the order they arrive and pass 6
\* takes them by position (buffer_unordered, props_iter).
PropertiesBelongToConcept ==
    \A t \in Task : pc[t] \in {"create", "generalize"} =>
        \A k \in DOMAIN created[t] :
            ~created[t][k].was_reused => node[created[t][k].id].of = concepts[t][k]

\* The ids of the nodes a task has created, as its context knows them.
RegisteredNew(t) ==
    {registry[t][k].id : k \in {m \in DOMAIN registry[t] : ~registry[t][m].was_reused}}

\* When an agent succeeds, the context knows every node it created, general
\* targets included, each once, and has an entry for every concept: a later
\* agent that works from the context leaves no new node out (execute).
RegistryIsComplete ==
    \A t \in Task : pc[t] = "ok" =>
        /\ {id \in Id : node[id].by = t} = RegisteredNew(t)
        /\ Len(registry[t]) =
             Cardinality(RegisteredNew(t)) + Cardinality({i \in DOMAIN verified[t] :
                                                verified[t][i].action = "use_existing"})
        /\ Len(registry[t]) >= Len(concepts[t])

\* What the context records as a generalization is in the graph, and joins two
\* nodes of the agent's label (pass 7 records a link only when the call was ok).
LinksAreReal ==
    \A t \in Task : \A link \in links[t] :
        /\ link \in generalizes
        /\ node[link[1]].label = label[t]
        /\ node[link[2]].label = label[t]

NoneTwice(list) == \A i, j \in DOMAIN list : list[i] = list[j] => i = j

\* GENERALIZES_TO leads from a node to an older one, so that it has no cycle,
\* whatever general names the LLM suggests (the concept's own included) and
\* however tasks interleave - as long as no list names a concept twice.
GeneralizationsPointBack ==
    (\A t \in Task : NoneTwice(concepts[t])) => \A g \in generalizes : g[1] > g[2]

\* What models.rs:53 says of a registry entry ("A node that was created or
\* reused in the database"): its element id is that of a node of its label.
RegistryIsReal ==
    \A t \in Task : \A k \in DOMAIN registry[t] :
        registry[t][k].id \in Id /\ node[registry[t][k].id].label = label[t]
=============================================================================
