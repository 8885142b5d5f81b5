------------------------- MODULE RelationshipAgents -------------------------
(***************************************************************************)
(* The agents of a generation that build the relationships around its      *)
(* components: DomainArchitectStep creates the domain and its five levels, *)
(* LevelDistributorStep attaches the components to the levels and          *)
(* PrerequisiteMapperStep attaches components to each other.  What the     *)
(* agents between them (ConceptAgent) leave in the registry is an input.   *)
(*                                                                         *)
(* The last two ask the LLM once per type of component and translate the   *)
(* names in its answers with the registry; only then do they write, one    *)
(* relationship per query.  A query that fails, or that matches nothing    *)
(* because another request updated the domain, is passed over.             *)
(*                                                                         *)
(* An element id is a number: 1..5 for the levels, others for components.  *)
(***************************************************************************)
EXTENDS Integers, Sequences, FiniteSets

CONSTANTS
    Name,           \* the names the LLM may use, registered or not
    LevelNumber,    \* the numbers it may give as a level
    Registries,     \* the registries the component agents may leave
    LabelOf,        \* the components in the graph: [element id -> Label]
    DomainNames,    \* domain names, each as the level words in it
    MaxFound        \* most relationships an agent finds (bound)

Label == {"Knowledge", "Skill", "Trait", "Milestone"}

\* The five levels, "<domain> Novice" to "<domain> Master".  A level word is
\* known by the number of its level.
Level == 1..5

ASSUME RelationshipAssumption ==
    /\ LevelNumber \subseteq Int
    /\ DomainNames \subseteq SUBSET Level
    /\ MaxFound \in Nat
    /\ DOMAIN LabelOf \subseteq Nat \ (Level \cup {0})

\* An entry has the id of a component of its type, or (ConceptAgent) no id: 0.
ASSUME RegistryAssumption ==
    \A reg \in Registries :
        /\ reg \in [Label -> Seq([name : Name, id : Nat])]
        /\ \A l \in Label : \A i \in DOMAIN reg[l] :
            \/ reg[l][i].id = 0
            \/ reg[l][i].id \in DOMAIN LabelOf /\ LabelOf[reg[l][i].id] = l

VARIABLES
    words,          \* the level words in the domain's name
    domain_levels,  \* context.domain_graph.domain_levels
    registry,       \* its component lists: [Label -> Seq([name, id])]
    tracked,        \* its level_requirements and prerequisites, by agent
    agent, pc,      \* the agent that runs, and what it does
    turn,           \* the level it creates, or the type it asks about
    found,          \* the relationships it found in the answers, in order
    pos,            \* the one it writes
    failed,         \* the positions whose query returned an error
    levels,         \* the Domain_Level nodes that exist
    linked,         \* those the domain HAS_DOMAIN_LEVEL
    relationships   \* the REQUIRES_* relationships

contextVars == <<words, domain_levels, registry, tracked>>
stepVars == <<agent, pc, turn, found, pos, failed>>
graphVars == <<levels, linked, relationships>>
vars == <<contextVars, stepVars, graphVars>>

Mapper == {"LevelDistributor", "PrerequisiteMapper"}
Agent == Mapper \cup {"DomainArchitect"}

\* A relationship to be written, with the level number the LLM gave for it.
Relationship == [source : Nat, target : Nat, kind : Label]
Found == [rel : Relationship, said : LevelNumber \cup {0}]

NoComponents == [l \in Label |-> << >>]

TypeOK ==
    /\ words \in DomainNames
    /\ domain_levels \in Seq(Level)
    /\ registry \in Registries \cup {NoComponents}
    /\ tracked \in [Mapper -> SUBSET Relationship]
    /\ agent \in Agent
    /\ pc \in {"domain", "level", "link", "analyze", "write", "ok", "err"}
    /\ turn \in 1..6
    /\ found \in Seq(Found)
    /\ pos \in 1..(Len(found) + 1)
    /\ failed \subseteq 1..Len(found)
    /\ levels \subseteq Level
    /\ linked \subseteq levels
    /\ relationships \subseteq Relationship

Init ==
    /\ words \in DomainNames
    /\ domain_levels = << >>
    /\ registry = NoComponents
    /\ tracked = [m \in Mapper |-> {}]
    /\ agent = "DomainArchitect"
    /\ pc = "domain"
    /\ turn = 1
    /\ found = << >>
    /\ pos = 1
    /\ failed = {}
    /\ levels = {}
    /\ linked = {}
    /\ relationships = {}

-----------------------------------------------------------------------------
(* DomainArchitectStep. *)

CreateDomain ==
    /\ pc = "domain"
    /\ pc' = "level"
    /\ UNCHANGED <<contextVars, agent, turn, found, pos, failed, graphVars>>

CreateLevel ==
    /\ pc = "level"
    /\ turn \in Level
    /\ levels' = levels \cup {turn}
    /\ pc' = "link"
    /\ UNCHANGED <<contextVars, agent, turn, found, pos, failed, linked, relationships>>

LinkLevel ==
    /\ pc = "link"
    /\ linked' = linked \cup {turn}
    /\ domain_levels' = Append(domain_levels, turn)
    /\ turn' = turn + 1
    /\ pc' = "level"
    /\ UNCHANGED <<words, registry, tracked, agent, found, pos, failed, levels, relationships>>

\* Mutant of ArchitectFails: a level that cannot be linked is left out.
ArchitectSkips ==
    /\ pc \in {"level", "link"}
    /\ turn \in Level
    /\ turn' = turn + 1
    /\ pc' = "level"
    /\ UNCHANGED <<contextVars, agent, found, pos, failed, graphVars>>

\* A query fails, before or after it took effect; the agent returns the error.
ArchitectFails ==
    /\ \/ pc = "domain" /\ UNCHANGED <<levels, linked>>
       \/ /\ pc = "level" /\ turn \in Level
          /\ levels' \in {levels, levels \cup {turn}}
          /\ UNCHANGED linked
       \/ /\ pc = "link"
          /\ linked' \in {linked, linked \cup {turn}}
          /\ UNCHANGED levels
    /\ pc' = "err"
    /\ UNCHANGED <<contextVars, agent, turn, found, pos, failed, relationships>>

\* The four component agents run and fill the registry, or one of them fails.
ComponentAgents ==
    /\ agent = "DomainArchitect"
    /\ pc = "level" /\ turn \notin Level
    /\ \/ /\ registry' \in Registries
          /\ agent' = "LevelDistributor"
          /\ pc' = "analyze"
          /\ turn' = 1
       \/ pc' = "err" /\ UNCHANGED <<registry, agent, turn>>
    /\ UNCHANGED <<words, domain_levels, tracked, found, pos, failed, graphVars>>

-----------------------------------------------------------------------------
(* Finding relationships in the LLM's answers. *)

\* Mutant of find_element_id: the type is not looked at.
find_by_name(name, type) ==
    UNION {{registry[l][i].id : i \in {j \in DOMAIN registry[l] : registry[l][j].name = name}}
           : l \in Label}

\* The id in the first entry of that name, if there is one.
find_element_id(name, type) ==
    {registry[type][i].id : i \in {j \in DOMAIN registry[type] :
        /\ registry[type][j].name = name
        /\ \A k \in 1..(j - 1) : registry[type][k].name # name}}

\* Does the name of level i contain a space and the word of level number n?
\* For a number that has no word, a space is all that is looked for.
NameContains(i, n) == n \notin Level \/ n = i \/ n \in words

\* Mutant of FindLevel: the position is taken before the name.
LevelAt(n) == {domain_levels[i] : i \in DOMAIN domain_levels \cap {n - 1}}

\* The first registered level whose name fits.
FindLevel(n) ==
    {domain_levels[i] : i \in {j \in DOMAIN domain_levels :
        /\ NameContains(domain_levels[j], n)
        /\ \A k \in 1..(j - 1) : ~NameContains(domain_levels[k], n)}}

\* The types an agent asks about, in its order.
Types ==
    IF agent = "LevelDistributor"
    THEN <<"Knowledge", "Skill", "Trait", "Milestone">>
    ELSE <<"Skill", "Milestone">>

Analyzing(a) == agent = a /\ pc = "analyze" /\ turn \in DOMAIN Types /\ Len(found) < MaxFound

Find(source, target, kind, said) ==
    found' = Append(found, [rel |-> [source |-> source, target |-> target, kind |-> kind],
                            said |-> said])

\* One entry of level_assignments.  An unknown component is skipped.
ParseLevelAssignment ==
    /\ Analyzing("LevelDistributor")
    /\ \E name \in Name, said \in LevelNumber :
        \E component_id \in find_element_id(name, Types[turn]), level_id \in FindLevel(said) :
            Find(level_id, component_id, Types[turn], said)
    /\ UNCHANGED <<contextVars, agent, pc, turn, pos, failed, graphVars>>

\* One requirement of one entry of prerequisites.  An unknown component or
\* requirement is skipped.
ParsePrerequisite ==
    /\ Analyzing("PrerequisiteMapper")
    /\ \E component, req \in Name, req_type \in Label :
        \E source_id \in find_element_id(component, Types[turn]),
           target_id \in find_element_id(req, req_type) :
            Find(source_id, target_id, req_type, 0)
    /\ UNCHANGED <<contextVars, agent, pc, turn, pos, failed, graphVars>>

Exists(id) == id \in levels \cup DOMAIN LabelOf

\* Mutant of NextType: what was found for a type is written at once.
WriteEachType ==
    /\ pc = "analyze"
    /\ turn \in DOMAIN Types
    /\ relationships' = relationships \cup
        {r \in {found[i].rel : i \in DOMAIN found} : Exists(r.source) /\ Exists(r.target)}
    /\ turn' = turn + 1
    /\ pc' = IF turn = Len(Types) THEN "write" ELSE "analyze"
    /\ UNCHANGED <<contextVars, agent, found, pos, failed, levels, linked>>

\* The answer is used up; the next type, or the writing, begins.
NextType ==
    /\ pc = "analyze"
    /\ turn \in DOMAIN Types
    /\ turn' = turn + 1
    /\ pc' = IF turn = Len(Types) THEN "write" ELSE "analyze"
    /\ UNCHANGED <<contextVars, agent, found, pos, failed, graphVars>>

\* The LLM fails, or its answer or an entry of it is malformed.
AnalysisFails ==
    /\ pc = "analyze"
    /\ pc' = "err"
    /\ UNCHANGED <<contextVars, agent, turn, found, pos, failed, graphVars>>

-----------------------------------------------------------------------------
(* Writing what was found. *)

Writing == pc = "write" /\ pos \in DOMAIN found

\* MATCH both ends, then MERGE.
create_relationship(r) ==
    relationships' = relationships \cup (IF Exists(r.source) /\ Exists(r.target) THEN {r} ELSE {})

\* Mutant of WriteRelationship: a query that matched nothing counts as written.
WriteUnmatched ==
    /\ Writing
    /\ create_relationship(found[pos].rel)
    /\ tracked' = [tracked EXCEPT ![agent] = @ \cup {found[pos].rel}]
    /\ pos' = pos + 1
    /\ UNCHANGED <<words, domain_levels, registry, agent, pc, turn, found, failed, levels, linked>>

WriteRelationship ==
    /\ Writing
    /\ LET r == found[pos].rel
       IN  /\ Exists(r.source) /\ Exists(r.target)
           /\ create_relationship(r)
           /\ tracked' = [tracked EXCEPT ![agent] = @ \cup {r}]
    /\ pos' = pos + 1
    /\ UNCHANGED <<words, domain_levels, registry, agent, pc, turn, found, failed, levels, linked>>

\* Mutant of WriteFails: the first error ends the loop.
WriteFailsAndStops ==
    /\ Writing
    /\ failed' = failed \cup {pos}
    /\ pos' = Len(found) + 1
    /\ UNCHANGED <<contextVars, agent, pc, turn, found, graphVars>>

\* create_relationship returns an error, because the query failed (before or
\* after it took effect) or because it matched nothing.
WriteFails ==
    /\ Writing
    /\ \/ UNCHANGED relationships
       \/ create_relationship(found[pos].rel)
    /\ failed' = failed \cup {pos}
    /\ pos' = pos + 1
    /\ UNCHANGED <<contextVars, agent, pc, turn, found, levels, linked>>

\* The agent returns; the orchestrator starts the next one.
AgentDone ==
    /\ pc = "write" /\ pos \notin DOMAIN found
    /\ IF agent = "LevelDistributor"
       THEN /\ agent' = "PrerequisiteMapper"
            /\ pc' = "analyze"
            /\ turn' = 1
            /\ found' = << >> /\ pos' = 1 /\ failed' = {}
       ELSE pc' = "ok" /\ UNCHANGED <<agent, turn, found, pos, failed>>
    /\ UNCHANGED <<contextVars, graphVars>>

\* Mutant of DeleteLevels: the links of the domain stay.
DeleteLevelsKeepLinks ==
    /\ linked # {}
    /\ levels' = levels \ linked
    /\ relationships' = {r \in relationships : r.source \notin linked}
    /\ UNCHANGED <<contextVars, stepVars, linked>>

\* Another request's update_domain deletes the levels, and their relationships
\* with them.  The levels it creates instead are not in this context.
DeleteLevels ==
    /\ linked # {}
    /\ levels' = levels \ linked
    /\ linked' = {}
    /\ relationships' = {r \in relationships : r.source \notin linked}
    /\ UNCHANGED <<contextVars, stepVars>>

Ended == pc \in {"ok", "err"} /\ UNCHANGED vars

Next ==
    \/ CreateDomain \/ CreateLevel \/ LinkLevel \/ ArchitectFails \/ ComponentAgents
    \/ ParseLevelAssignment \/ ParsePrerequisite \/ NextType \/ AnalysisFails
    \/ WriteRelationship \/ WriteFails \/ AgentDone
    \/ DeleteLevels
    \/ Ended

Spec == Init /\ [][Next]_vars

-----------------------------------------------------------------------------
(* Properties. *)

\* What an agent adds to the context's level requirements or prerequisites,
\* which go to the page as the result, is a relationship of the graph at that
\* moment, although the level ids are those of the first agent and the levels
\* may be gone; it stays in the graph until its level is deleted (both agents
\* track a relationship only when its query was ok and returned a row).
TrackedIsReal ==
    [][\A m \in Mapper : \A r \in tracked'[m] :
            \/ r \in relationships'
            \/ r \in tracked[m] /\ r.source \in Level \ levels']_vars

\* Whatever the LLM names, a REQUIRES_<type> leads to a component of that type,
\* and only levels, skills and milestones require anything: a name that belongs
\* to components of two types is not mistaken (find_element_id).
RelationshipsWellTyped ==
    \A r \in relationships :
        /\ r.target \in DOMAIN LabelOf /\ LabelOf[r.target] = r.kind
        /\ \/ r.source \in Level
           \/ r.source \in DOMAIN LabelOf /\ LabelOf[r.source] \in {"Skill", "Milestone"}

\* An agent that returns an error has written nothing, whichever of its LLM
\* calls failed (both agents analyze all types before they write), and what
\* the agents before it wrote is still there for those levels that are.
FailureWritesNothing ==
    pc = "err" =>
        /\ agent \in Mapper => tracked[agent] = {}
        /\ \A r \in relationships : agent = "PrerequisiteMapper" /\ r.source \in Level

\* The level distributor never runs with a level missing from the registry, and
\* in a domain whose name has no level word, a component goes to the level the
\* LLM gave, or to the first when there is no such level (parse_level_assignments).
LevelAsSaid ==
    agent = "LevelDistributor" =>
        /\ domain_levels = <<1, 2, 3, 4, 5>>
        /\ words = {} => \A i \in DOMAIN found :
                found[i].rel.source = IF found[i].said \in Level THEN found[i].said ELSE 1

\* One failing query does not keep the others from being written: everything
\* the loop has passed is tracked or returned an error of its own
\* (create_level_relationships, create_prerequisite_relationships).
EachIsTried ==
    pc = "write" => \A i \in 1..(pos - 1) : i \in failed \/ found[i].rel \in tracked[agent]
=============================================================================
