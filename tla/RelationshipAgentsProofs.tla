---------------------- MODULE RelationshipAgentsProofs ----------------------
(***************************************************************************)
(* What the agents that build relationships guarantee whatever the LLM     *)
(* answers, whichever queries fail and whenever the domain is updated, for *)
(* all registries, names, level numbers and lengths of answers.            *)
(***************************************************************************)
EXTENDS RelationshipAgents, TLAPS

\* What an agent has done by the time it is at pc.
Phases ==
    /\ agent = "DomainArchitect" =>
        /\ pc \in {"domain", "level", "link", "err"}
        /\ found = << >>
        /\ relationships = {}
        /\ \A m \in Mapper : tracked[m] = {}
    /\ agent = "LevelDistributor" =>
        /\ pc \in {"analyze", "write", "err"}
        /\ pc # "write" => relationships = {} /\ tracked["LevelDistributor"] = {}
        /\ tracked["PrerequisiteMapper"] = {}
        /\ \A r \in relationships : r.source \in Level
        /\ \A i \in DOMAIN found : found[i].rel.source \in Level
    /\ agent = "PrerequisiteMapper" =>
        /\ pc \in {"analyze", "write", "ok", "err"}
        /\ pc \in {"analyze", "err"} =>
            /\ tracked["PrerequisiteMapper"] = {}
            /\ \A r \in relationships : r.source \in Level
    /\ pc \in {"domain", "level", "link", "analyze", "err"} => pos = 1
    /\ pc = "link" => turn \in Level /\ turn \in levels
    /\ agent = "DomainArchitect" /\ pc # "err" => \A l \in linked : l < turn

\* The levels are registered in their order, and all before the other agents run.
LevelsInOrder ==
    /\ \A i \in DOMAIN domain_levels : domain_levels[i] = i
    /\ Len(domain_levels) = IF agent = "DomainArchitect" THEN turn - 1 ELSE 5

\* What the registry resolves is of the type asked for, or no id at all.
HasType(id, labels) == id = 0 \/ (id \in DOMAIN LabelOf /\ LabelOf[id] \in labels)
FoundWellTyped ==
    \A i \in DOMAIN found :
        /\ HasType(found[i].rel.target, {found[i].rel.kind})
        /\ found[i].rel.source \in Level \/ HasType(found[i].rel.source, {"Skill", "Milestone"})

FoundAsSaid ==
    agent = "LevelDistributor" /\ words = {} => \A i \in DOMAIN found :
        found[i].rel.source = IF found[i].said \in Level THEN found[i].said ELSE 1

\* What was tracked is in the graph, unless its level is gone.
TrackedRemains ==
    \A m \in Mapper : \A r \in tracked[m] :
        r \in relationships \/ r.source \in Level \ levels

IInv ==
    /\ TypeOK
    /\ Phases
    /\ LevelsInOrder
    /\ FoundWellTyped
    /\ FoundAsSaid
    /\ TrackedRemains
    /\ RelationshipsWellTyped
    /\ EachIsTried

-----------------------------------------------------------------------------
(* The initial state, and the steps that find and write no relationship. *)

LEMMA InitIInv == Init => IInv
<1> SUFFICES ASSUME Init PROVE IInv
  OBVIOUS
<1>1. TypeOK
  BY RelationshipAssumption DEF Init, TypeOK, Level, Agent, Relationship, Found
<1>2. Phases
  BY DEF Init, Phases
<1>3. LevelsInOrder
  BY DEF Init, LevelsInOrder
<1>4. FoundWellTyped /\ FoundAsSaid
  BY DEF Init, FoundWellTyped, FoundAsSaid
<1>5. TrackedRemains /\ RelationshipsWellTyped /\ EachIsTried
  BY DEF Init, TrackedRemains, RelationshipsWellTyped, EachIsTried
<1> QED
  BY <1>1, <1>2, <1>3, <1>4, <1>5 DEF IInv

LEMMA CreateDomainIInv == IInv /\ CreateDomain => IInv'
<1> SUFFICES ASSUME IInv, CreateDomain PROVE IInv'
  OBVIOUS
<1> USE DEF IInv, CreateDomain
<1>1. TypeOK'
  BY DEF TypeOK, contextVars, graphVars
<1>2. Phases'
  BY DEF Phases, contextVars, graphVars
<1>3. LevelsInOrder'
  BY DEF LevelsInOrder, contextVars
<1>4. FoundWellTyped' /\ FoundAsSaid'
  BY DEF FoundWellTyped, FoundAsSaid, contextVars, graphVars
<1>5. TrackedRemains' /\ RelationshipsWellTyped' /\ EachIsTried'
  BY DEF TrackedRemains, RelationshipsWellTyped, EachIsTried, TypeOK, Phases, contextVars, graphVars
<1> QED
  BY <1>1, <1>2, <1>3, <1>4, <1>5

LEMMA CreateLevelIInv == IInv /\ CreateLevel => IInv'
<1> SUFFICES ASSUME IInv, CreateLevel PROVE IInv'
  OBVIOUS
<1> USE DEF IInv, CreateLevel
<1>1. TypeOK'
  BY DEF TypeOK, Level, contextVars
<1>2. Phases'
  BY DEF Phases, contextVars, Level
<1>3. LevelsInOrder'
  BY DEF LevelsInOrder, contextVars
<1>4. FoundWellTyped' /\ FoundAsSaid'
  BY DEF FoundWellTyped, FoundAsSaid, contextVars, graphVars
<1>5. TrackedRemains' /\ RelationshipsWellTyped' /\ EachIsTried'
  BY DEF TrackedRemains, RelationshipsWellTyped, EachIsTried, TypeOK, Phases,
     Agent, Mapper, contextVars
<1> QED
  BY <1>1, <1>2, <1>3, <1>4, <1>5

LEMMA LinkLevelIInv == IInv /\ LinkLevel => IInv'
<1> SUFFICES ASSUME IInv, LinkLevel PROVE IInv'
  OBVIOUS
<1> USE DEF IInv, LinkLevel
<1>0. turn \in Level /\ turn \in levels /\ agent = "DomainArchitect"
  BY DEF TypeOK, Phases, Agent, Mapper
<1>1. TypeOK'
  <2>1. domain_levels' \in Seq(Level)
    BY <1>0 DEF TypeOK
  <2>2. turn' \in 1..6
    BY <1>0 DEF Level
  <2> QED
    BY <1>0, <2>1, <2>2 DEF TypeOK
<1>2. Phases'
  BY DEF Phases, TypeOK, Level
<1>3. LevelsInOrder'
  BY <1>0 DEF LevelsInOrder, TypeOK, Level
<1>4. FoundWellTyped' /\ FoundAsSaid'
  BY <1>0 DEF FoundWellTyped, FoundAsSaid, Phases
<1>5. TrackedRemains' /\ RelationshipsWellTyped' /\ EachIsTried'
  BY DEF TrackedRemains, RelationshipsWellTyped, EachIsTried, TypeOK, Phases, contextVars, graphVars
<1> QED
  BY <1>1, <1>2, <1>3, <1>4, <1>5

LEMMA ArchitectFailsIInv == IInv /\ ArchitectFails => IInv'
<1> SUFFICES ASSUME IInv, ArchitectFails PROVE IInv'
  OBVIOUS
<1> USE DEF IInv, ArchitectFails
<1>1. TypeOK'
  BY DEF TypeOK, Phases, Level, contextVars
<1>2. Phases'
  BY DEF Phases, contextVars, TypeOK
<1>3. LevelsInOrder'
  BY DEF LevelsInOrder, contextVars
<1>4. FoundWellTyped' /\ FoundAsSaid'
  BY DEF FoundWellTyped, FoundAsSaid, contextVars, graphVars
<1>5. TrackedRemains' /\ RelationshipsWellTyped' /\ EachIsTried'
  BY DEF TrackedRemains, RelationshipsWellTyped, EachIsTried, TypeOK, Phases,
     Agent, Mapper, contextVars
<1> QED
  BY <1>1, <1>2, <1>3, <1>4, <1>5

LEMMA ComponentAgentsIInv == IInv /\ ComponentAgents => IInv'
<1> SUFFICES ASSUME IInv, ComponentAgents PROVE IInv'
  OBVIOUS
<1> USE DEF IInv, ComponentAgents
<1>1. TypeOK'
  BY DEF TypeOK, Agent, Mapper, contextVars, graphVars
<1>2. Phases'
  BY DEF Phases, Mapper, contextVars, graphVars
<1>3. LevelsInOrder'
  <2>1. turn = 6
    BY DEF TypeOK, Level
  <2> QED
    BY <2>1 DEF LevelsInOrder, TypeOK
<1>4. FoundWellTyped' /\ FoundAsSaid'
  BY DEF FoundWellTyped, FoundAsSaid, Phases
<1>5. TrackedRemains' /\ RelationshipsWellTyped' /\ EachIsTried'
  BY DEF TrackedRemains, RelationshipsWellTyped, EachIsTried, TypeOK, Phases, graphVars
<1> QED
  BY <1>1, <1>2, <1>3, <1>4, <1>5

LEMMA NextTypeIInv == IInv /\ NextType => IInv'
<1> SUFFICES ASSUME IInv, NextType PROVE IInv'
  OBVIOUS
<1> USE DEF IInv, NextType
<1>1. TypeOK'
  BY DEF TypeOK, contextVars, graphVars, Types
<1>2. Phases'
  BY DEF Phases, contextVars, graphVars
<1>3. LevelsInOrder'
  BY DEF LevelsInOrder, TypeOK, Phases, contextVars
<1>4. FoundWellTyped' /\ FoundAsSaid'
  BY DEF FoundWellTyped, FoundAsSaid, contextVars, graphVars
<1>5. TrackedRemains' /\ RelationshipsWellTyped' /\ EachIsTried'
  BY DEF TrackedRemains, RelationshipsWellTyped, EachIsTried, TypeOK, Phases, contextVars, graphVars
<1> QED
  BY <1>1, <1>2, <1>3, <1>4, <1>5

LEMMA AnalysisFailsIInv == IInv /\ AnalysisFails => IInv'
<1> SUFFICES ASSUME IInv, AnalysisFails PROVE IInv'
  OBVIOUS
<1> USE DEF IInv, AnalysisFails
<1>1. TypeOK'
  BY DEF TypeOK, contextVars, graphVars
<1>2. Phases'
  BY DEF Phases, contextVars, graphVars
<1>3. LevelsInOrder'
  BY DEF LevelsInOrder, contextVars
<1>4. FoundWellTyped' /\ FoundAsSaid'
  BY DEF FoundWellTyped, FoundAsSaid, contextVars, graphVars
<1>5. TrackedRemains' /\ RelationshipsWellTyped' /\ EachIsTried'
  BY DEF TrackedRemains, RelationshipsWellTyped, EachIsTried, TypeOK, Phases, contextVars, graphVars
<1> QED
  BY <1>1, <1>2, <1>3, <1>4, <1>5

LEMMA AgentDoneIInv == IInv /\ AgentDone => IInv'
<1> SUFFICES ASSUME IInv, AgentDone PROVE IInv'
  OBVIOUS
<1> USE DEF IInv, AgentDone
<1>1. TypeOK'
  <2>1. CASE agent = "LevelDistributor"
    BY <2>1 DEF TypeOK, Agent, Mapper, contextVars, graphVars
  <2>2. CASE agent # "LevelDistributor"
    BY <2>2 DEF TypeOK, contextVars, graphVars
  <2> QED
    BY <2>1, <2>2
<1>2. Phases'
  BY DEF Phases, Mapper, contextVars, graphVars
<1>3. LevelsInOrder'
  BY DEF LevelsInOrder, contextVars
<1>4. FoundWellTyped' /\ FoundAsSaid'
  <2>1. found' = << >> \/ found' = found
    OBVIOUS
  <2>2. FoundWellTyped'
    <3>1. CASE found' = << >>
      BY <3>1 DEF FoundWellTyped
    <3>2. CASE found' = found
      BY <3>2 DEF FoundWellTyped, HasType
    <3> QED
      BY <2>1, <3>1, <3>2
  <2> QED
    BY <2>1, <2>2 DEF FoundAsSaid, contextVars
<1>5. TrackedRemains' /\ RelationshipsWellTyped' /\ EachIsTried'
  BY DEF TrackedRemains, RelationshipsWellTyped, EachIsTried, TypeOK, Phases, contextVars, graphVars
<1> QED
  BY <1>1, <1>2, <1>3, <1>4, <1>5

LEMMA DeleteLevelsIInv == IInv /\ DeleteLevels => IInv'
<1> SUFFICES ASSUME IInv, DeleteLevels PROVE IInv'
  OBVIOUS
<1> USE DEF IInv, DeleteLevels
<1>1. TypeOK'
  BY DEF TypeOK, contextVars, stepVars
<1>2. Phases'
  <2>1. relationships' \subseteq relationships
    OBVIOUS
  <2>2. pc = "link" => turn \notin linked
    BY DEF Phases, TypeOK, Agent, Mapper, Level
  <2> QED
    BY <2>1, <2>2 DEF Phases, contextVars, stepVars
<1>3. LevelsInOrder'
  BY DEF LevelsInOrder, contextVars, stepVars
<1>4. FoundWellTyped' /\ FoundAsSaid'
  BY DEF FoundWellTyped, FoundAsSaid, contextVars, stepVars
<1>5. TrackedRemains' /\ RelationshipsWellTyped' /\ EachIsTried'
  BY DEF TrackedRemains, RelationshipsWellTyped, EachIsTried, TypeOK, Phases, contextVars, stepVars
<1> QED
  BY <1>1, <1>2, <1>3, <1>4, <1>5

-----------------------------------------------------------------------------
(* What the lookups return. *)

LEMMA ElementOfSeq ==
    ASSUME NEW S, NEW s \in Seq(S), NEW i \in DOMAIN s
    PROVE  s[i] \in S
  OBVIOUS

\* find_element_id answers with an id of the type asked for, or with no id.
LEMMA FindElementId ==
    ASSUME TypeOK, NEW name, NEW type \in Label, NEW id \in find_element_id(name, type)
    PROVE  id \in Nat /\ HasType(id, {type})
<1>1. PICK i \in DOMAIN registry[type] : id = registry[type][i].id
  BY DEF find_element_id
<1>2. CASE registry \in Registries
  <2>1. registry[type] \in Seq([name : Name, id : Nat])
    BY <1>2, RegistryAssumption
  <2>2. registry[type][i] \in [name : Name, id : Nat]
    BY <2>1, <1>1, ElementOfSeq
  <2>3. \/ registry[type][i].id = 0
        \/ registry[type][i].id \in DOMAIN LabelOf /\ LabelOf[registry[type][i].id] = type
    BY <1>1, <1>2, RegistryAssumption
  <2> QED
    BY <1>1, <2>2, <2>3 DEF HasType
<1>3. CASE registry = NoComponents
  <2>1. registry[type] = << >>
    BY <1>3 DEF NoComponents
  <2> QED
    BY <1>1, <2>1
<1> QED
  BY <1>2, <1>3 DEF TypeOK

\* FindLevel answers with a level; in a domain whose name has no level word,
\* with the level of that number or with the first.
LEMMA FindLevelIsLevel ==
    ASSUME TypeOK, LevelsInOrder, agent # "DomainArchitect",
           NEW n \in Int, NEW id \in FindLevel(n)
    PROVE  /\ id \in Level
           /\ words = {} => id = IF n \in Level THEN n ELSE 1
<1>1. PICK j \in DOMAIN domain_levels :
        /\ id = domain_levels[j]
        /\ NameContains(domain_levels[j], n)
        /\ \A k \in 1..(j - 1) : ~NameContains(domain_levels[k], n)
  BY DEF FindLevel
<1>2. j \in Level /\ id = j
  BY <1>1 DEF LevelsInOrder, TypeOK, Level
<1>3. ASSUME words = {} PROVE id = IF n \in Level THEN n ELSE 1
  <2>1. CASE n \in Level
    BY <1>1, <1>2, <1>3, <2>1 DEF NameContains
  <2>2. CASE n \notin Level
    <3>1. \A k : NameContains(k, n)
      BY <2>2 DEF NameContains
    <3>2. 1 \notin 1..(j - 1)
      BY <1>1, <3>1
    <3> QED
      BY <1>2, <2>2, <3>2 DEF Level
  <2> QED
    BY <2>1, <2>2
<1> QED
  BY <1>2, <1>3

\* What is appended to the relationships found.
LEMMA FindAppends ==
    ASSUME TypeOK, NEW source \in Nat, NEW target \in Nat, NEW kind \in Label,
           NEW said \in LevelNumber \cup {0}, Find(source, target, kind, said)
    PROVE  /\ found' \in Seq(Found)
           /\ Len(found') = Len(found) + 1
           /\ DOMAIN found' = DOMAIN found \cup {Len(found) + 1}
           /\ \A i \in DOMAIN found : found'[i] = found[i]
           /\ found'[Len(found) + 1].rel = [source |-> source, target |-> target, kind |-> kind]
           /\ found'[Len(found) + 1].said = said
<1> DEFINE f == [rel |-> [source |-> source, target |-> target, kind |-> kind], said |-> said]
<1>1. f \in Found
  BY DEF Found, Relationship
<1>2. found \in Seq(Found) /\ found' = Append(found, f)
  BY DEF TypeOK, Find
<1> HIDE DEF f
<1>3. /\ found' \in Seq(Found)
      /\ Len(found') = Len(found) + 1
      /\ DOMAIN found' = DOMAIN found \cup {Len(found) + 1}
      /\ \A i \in DOMAIN found : found'[i] = found[i]
      /\ found'[Len(found) + 1] = f
  BY <1>1, <1>2
<1> QED
  BY <1>3 DEF f

\* Types only names labels.
LEMMA TypesAreLabels ==
    ASSUME turn \in DOMAIN Types
    PROVE  /\ Types[turn] \in Label
           /\ agent # "LevelDistributor" => Types[turn] \in {"Skill", "Milestone"}
  BY DEF Types, Label

-----------------------------------------------------------------------------
(* The steps of the analysis. *)

LEMMA ParseLevelAssignmentIInv == IInv /\ ParseLevelAssignment => IInv'
<1> SUFFICES ASSUME IInv, ParseLevelAssignment PROVE IInv'
  OBVIOUS
<1> USE DEF IInv
<1>1. PICK name \in Name, said \in LevelNumber :
        \E component_id \in find_element_id(name, Types[turn]), level_id \in FindLevel(said) :
            Find(level_id, component_id, Types[turn], said)
  BY DEF ParseLevelAssignment
<1>2. PICK component_id \in find_element_id(name, Types[turn]), level_id \in FindLevel(said) :
        Find(level_id, component_id, Types[turn], said)
  BY <1>1
<1>3. agent = "LevelDistributor" /\ pc = "analyze" /\ Types[turn] \in Label
  BY TypesAreLabels DEF ParseLevelAssignment, Analyzing
<1>4. component_id \in Nat /\ HasType(component_id, {Types[turn]})
  BY <1>3, FindElementId
<1>5. /\ level_id \in Level /\ level_id \in Nat
      /\ words = {} => level_id = IF said \in Level THEN said ELSE 1
  BY <1>3, FindLevelIsLevel, RelationshipAssumption DEF Level
<1>6. /\ found' \in Seq(Found)
      /\ Len(found') = Len(found) + 1
      /\ DOMAIN found' = DOMAIN found \cup {Len(found) + 1}
      /\ \A i \in DOMAIN found : found'[i] = found[i]
      /\ found'[Len(found) + 1].rel =
            [source |-> level_id, target |-> component_id, kind |-> Types[turn]]
      /\ found'[Len(found) + 1].said = said
  <2>1. TypeOK /\ said \in LevelNumber \cup {0}
    OBVIOUS
  <2> HIDE DEF IInv
  <2> QED
    BY <1>2, <1>3, <1>4, <1>5, <2>1, FindAppends, ZenonT(60)
<1>7. UNCHANGED <<contextVars, agent, pc, turn, pos, failed, graphVars>>
  BY DEF ParseLevelAssignment
<1>8. TypeOK'
  BY <1>6, <1>7 DEF TypeOK, contextVars, graphVars
<1>9. Phases'
  BY <1>3, <1>5, <1>6, <1>7 DEF Phases, contextVars, graphVars
<1>10. LevelsInOrder'
  BY <1>7 DEF LevelsInOrder, contextVars
<1>11. FoundWellTyped'
  <2> SUFFICES ASSUME NEW i \in DOMAIN found'
               PROVE  /\ HasType(found'[i].rel.target, {found'[i].rel.kind})
                      /\ \/ found'[i].rel.source \in Level
                         \/ HasType(found'[i].rel.source, {"Skill", "Milestone"})
    BY DEF FoundWellTyped, HasType
  <2>1. CASE i \in DOMAIN found
    BY <1>6, <2>1 DEF FoundWellTyped
  <2>2. CASE i = Len(found) + 1
    <3>1. /\ found'[i].rel.source = level_id
          /\ found'[i].rel.target = component_id
          /\ found'[i].rel.kind = Types[turn]
      BY <1>6, <2>2
    <3> QED
      BY <1>4, <1>5, <3>1
  <2> QED
    BY <1>6, <2>1, <2>2
<1>12. FoundAsSaid'
  BY <1>3, <1>5, <1>6, <1>7 DEF FoundAsSaid, contextVars
<1>13. TrackedRemains' /\ RelationshipsWellTyped' /\ EachIsTried'
  BY <1>3, <1>7 DEF TrackedRemains, RelationshipsWellTyped, EachIsTried, contextVars, graphVars
<1> QED
  BY <1>8, <1>9, <1>10, <1>11, <1>12, <1>13

LEMMA ParsePrerequisiteIInv == IInv /\ ParsePrerequisite => IInv'
<1> SUFFICES ASSUME IInv, ParsePrerequisite PROVE IInv'
  OBVIOUS
<1> USE DEF IInv
<1>1. PICK component \in Name, req \in Name, req_type \in Label :
        \E source_id \in find_element_id(component, Types[turn]),
           target_id \in find_element_id(req, req_type) :
            Find(source_id, target_id, req_type, 0)
  BY DEF ParsePrerequisite
<1>2. PICK source_id \in find_element_id(component, Types[turn]),
           target_id \in find_element_id(req, req_type) :
        Find(source_id, target_id, req_type, 0)
  BY <1>1
<1>3. /\ agent = "PrerequisiteMapper" /\ pc = "analyze"
      /\ Types[turn] \in Label /\ Types[turn] \in {"Skill", "Milestone"}
  BY TypesAreLabels DEF ParsePrerequisite, Analyzing
<1>4. source_id \in Nat /\ HasType(source_id, {"Skill", "Milestone"})
  BY <1>3, FindElementId DEF HasType
<1>5. target_id \in Nat /\ HasType(target_id, {req_type})
  BY FindElementId
<1>6. /\ found' \in Seq(Found)
      /\ Len(found') = Len(found) + 1
      /\ DOMAIN found' = DOMAIN found \cup {Len(found) + 1}
      /\ \A i \in DOMAIN found : found'[i] = found[i]
      /\ found'[Len(found) + 1].rel =
            [source |-> source_id, target |-> target_id, kind |-> req_type]
  BY <1>2, <1>4, <1>5, FindAppends
<1>7. UNCHANGED <<contextVars, agent, pc, turn, pos, failed, graphVars>>
  BY DEF ParsePrerequisite
<1>8. TypeOK'
  BY <1>6, <1>7 DEF TypeOK, contextVars, graphVars
<1>9. Phases'
  BY <1>3, <1>7 DEF Phases, contextVars, graphVars
<1>10. LevelsInOrder'
  BY <1>7 DEF LevelsInOrder, contextVars
<1>11. FoundWellTyped'
  <2> SUFFICES ASSUME NEW i \in DOMAIN found'
               PROVE  /\ HasType(found'[i].rel.target, {found'[i].rel.kind})
                      /\ \/ found'[i].rel.source \in Level
                         \/ HasType(found'[i].rel.source, {"Skill", "Milestone"})
    BY DEF FoundWellTyped, HasType
  <2>1. CASE i \in DOMAIN found
    BY <1>6, <2>1 DEF FoundWellTyped
  <2>2. CASE i = Len(found) + 1
    <3>1. /\ found'[i].rel.source = source_id
          /\ found'[i].rel.target = target_id
          /\ found'[i].rel.kind = req_type
      BY <1>6, <2>2
    <3> QED
      BY <1>4, <1>5, <3>1
  <2> QED
    BY <1>6, <2>1, <2>2
<1>12. FoundAsSaid'
  BY <1>3, <1>7 DEF FoundAsSaid
<1>13. TrackedRemains' /\ RelationshipsWellTyped' /\ EachIsTried'
  BY <1>3, <1>7 DEF TrackedRemains, RelationshipsWellTyped, EachIsTried, contextVars, graphVars
<1> QED
  BY <1>8, <1>9, <1>10, <1>11, <1>12, <1>13

-----------------------------------------------------------------------------
(* The steps that write.  r is the relationship whose turn it is. *)

\* Whatever the query does, the graph gains at most r, and r only if both of
\* its ends exist.
LEMMA CreateRelationship ==
    ASSUME NEW r, create_relationship(r)
    PROVE  /\ relationships \subseteq relationships'
           /\ \A q \in relationships' : q \in relationships \/ (q = r /\ Exists(r.source) /\ Exists(r.target))
  BY DEF create_relationship

\* The relationship to be written is well formed, and it is well typed once
\* both of its ends exist: no component has the id 0.
LEMMA FoundRelationship ==
    ASSUME IInv, Writing, NEW r, r = found[pos].rel
    PROVE  /\ r \in Relationship
           /\ agent \in Mapper
           /\ agent = "LevelDistributor" => r.source \in Level
           /\ Exists(r.source) /\ Exists(r.target) =>
                /\ r.target \in DOMAIN LabelOf /\ LabelOf[r.target] = r.kind
                /\ \/ r.source \in Level
                   \/ r.source \in DOMAIN LabelOf /\ LabelOf[r.source] \in {"Skill", "Milestone"}
<1>1. found[pos] \in Found
  BY ElementOfSeq DEF IInv, TypeOK, Writing
<1>2. r \in Relationship
  BY <1>1 DEF Found
<1>3. agent \in Mapper /\ (agent = "LevelDistributor" => r.source \in Level)
  BY DEF IInv, TypeOK, Phases, Writing, Agent
<1>4. /\ HasType(r.target, {r.kind})
      /\ r.source \in Level \/ HasType(r.source, {"Skill", "Milestone"})
  BY DEF IInv, FoundWellTyped, Writing
<1>5. levels \subseteq Level /\ 0 \notin Level /\ 0 \notin DOMAIN LabelOf
  BY RelationshipAssumption DEF IInv, TypeOK, Level
<1>6. ~Exists(0)
  BY <1>5 DEF Exists
<1>7. ASSUME Exists(r.source), Exists(r.target)
      PROVE  /\ r.target \in DOMAIN LabelOf /\ LabelOf[r.target] = r.kind
             /\ \/ r.source \in Level
                \/ r.source \in DOMAIN LabelOf /\ LabelOf[r.source] \in {"Skill", "Milestone"}
  BY <1>4, <1>6, <1>7 DEF HasType
<1> QED
  BY <1>2, <1>3, <1>7

\* What both outcomes of a write have in common.
LEMMA WriteStep ==
    ASSUME IInv, Writing, NEW r, r = found[pos].rel,
           UNCHANGED relationships \/ create_relationship(r),
           pos' = pos + 1,
           UNCHANGED <<words, domain_levels, registry, agent, pc, turn, found, levels, linked>>
    PROVE  /\ relationships' \subseteq Relationship
           /\ relationships \subseteq relationships'
           /\ agent = "LevelDistributor" => \A q \in relationships' : q.source \in Level
           /\ pos' \in 1..(Len(found') + 1)
           /\ LevelsInOrder' /\ FoundWellTyped' /\ FoundAsSaid' /\ RelationshipsWellTyped'
<1>1. \A q \in relationships' :
        q \in relationships \/ (q = r /\ Exists(r.source) /\ Exists(r.target))
  BY CreateRelationship
<1>2. relationships \subseteq relationships'
  BY CreateRelationship
<1>3. relationships' \subseteq Relationship
  BY <1>1, FoundRelationship DEF IInv, TypeOK
<1>4. agent = "LevelDistributor" => \A q \in relationships' : q.source \in Level
  BY <1>1, FoundRelationship DEF IInv, Phases
<1>5. pos' \in 1..(Len(found') + 1)
  BY DEF IInv, TypeOK, Writing
<1>6. LevelsInOrder' /\ FoundAsSaid'
  BY DEF IInv, LevelsInOrder, FoundAsSaid
<1>7. FoundWellTyped'
  BY DEF IInv, FoundWellTyped, HasType
<1>8. RelationshipsWellTyped'
  BY <1>1, FoundRelationship DEF IInv, RelationshipsWellTyped
<1> QED
  BY <1>2, <1>3, <1>4, <1>5, <1>6, <1>7, <1>8

LEMMA WriteRelationshipIInv == IInv /\ WriteRelationship => IInv'
<1> SUFFICES ASSUME IInv, WriteRelationship PROVE IInv'
  OBVIOUS
<1> DEFINE r == found[pos].rel
<1>1. /\ Writing
      /\ create_relationship(r) /\ Exists(r.source) /\ Exists(r.target)
      /\ tracked' = [tracked EXCEPT ![agent] = @ \cup {r}]
      /\ pos' = pos + 1
      /\ UNCHANGED <<words, domain_levels, registry, agent, pc, turn, found, failed, levels, linked>>
  BY DEF WriteRelationship
<1>2. r \in Relationship /\ agent \in Mapper
  BY <1>1, FoundRelationship
<1>3. /\ relationships' \subseteq Relationship
      /\ relationships \subseteq relationships'
      /\ agent = "LevelDistributor" => \A q \in relationships' : q.source \in Level
      /\ pos' \in 1..(Len(found') + 1)
      /\ LevelsInOrder' /\ FoundWellTyped' /\ FoundAsSaid' /\ RelationshipsWellTyped'
  BY <1>1, WriteStep
<1>4. r \in relationships'
  BY <1>1 DEF create_relationship
<1> HIDE DEF r
<1>5. tracked \in [Mapper -> SUBSET Relationship] /\ pc = "write"
  BY <1>1 DEF IInv, TypeOK, Writing
<1>6. TypeOK'
  <2>1. tracked' \in [Mapper -> SUBSET Relationship]
    BY <1>1, <1>2, <1>5
  <2> QED
    BY <1>1, <1>3, <2>1 DEF IInv, TypeOK
<1>7. Phases'
  BY <1>1, <1>2, <1>3, <1>5 DEF IInv, Phases, Mapper
<1>8. TrackedRemains'
  <2>1. \A m \in Mapper : \A q \in tracked'[m] : q \in tracked[m] \/ q = r
    BY <1>1, <1>5
  <2> QED
    BY <1>1, <1>3, <1>4, <2>1 DEF IInv, TrackedRemains
<1>9. EachIsTried'
  <2> SUFFICES ASSUME NEW i \in 1..(pos' - 1) PROVE i \in failed \/ found[i].rel \in tracked'[agent]
    BY <1>1 DEF EachIsTried
  <2>1. tracked'[agent] = tracked[agent] \cup {r}
    BY <1>1, <1>2, <1>5
  <2>2. i \in 1..(pos - 1) \/ i = pos
    BY <1>1 DEF IInv, TypeOK
  <2> QED
    BY <1>5, <2>1, <2>2 DEF IInv, EachIsTried, r
<1> QED
  BY <1>3, <1>6, <1>7, <1>8, <1>9 DEF IInv

LEMMA WriteFailsIInv == IInv /\ WriteFails => IInv'
<1> SUFFICES ASSUME IInv, WriteFails PROVE IInv'
  OBVIOUS
<1>1. /\ Writing
      /\ UNCHANGED relationships \/ create_relationship(found[pos].rel)
      /\ failed' = failed \cup {pos}
      /\ pos' = pos + 1
      /\ UNCHANGED <<words, domain_levels, registry, tracked, agent, pc, turn, found, levels, linked>>
  BY DEF WriteFails, contextVars
<1>2. /\ relationships' \subseteq Relationship
      /\ relationships \subseteq relationships'
      /\ agent = "LevelDistributor" => \A q \in relationships' : q.source \in Level
      /\ pos' \in 1..(Len(found') + 1)
      /\ LevelsInOrder' /\ FoundWellTyped' /\ FoundAsSaid' /\ RelationshipsWellTyped'
  BY <1>1, WriteStep
<1>3. agent \in Mapper /\ pc = "write"
  BY <1>1, FoundRelationship DEF Writing
<1>4. TypeOK'
  <2>1. pos \in 1..Len(found) /\ failed \subseteq 1..Len(found)
    BY <1>1 DEF IInv, TypeOK, Writing
  <2>2. failed' \subseteq 1..Len(found')
    BY <1>1, <2>1
  <2> QED
    BY <1>1, <1>2, <2>2 DEF IInv, TypeOK
<1>5. Phases'
  BY <1>1, <1>2, <1>3 DEF IInv, Phases, Mapper
<1>6. TrackedRemains'
  BY <1>1, <1>2 DEF IInv, TrackedRemains
<1>7. EachIsTried'
  <2> SUFFICES ASSUME NEW i \in 1..(pos' - 1) PROVE i \in failed' \/ found[i].rel \in tracked[agent]
    BY <1>1 DEF EachIsTried
  <2>1. i \in 1..(pos - 1) \/ i = pos
    BY <1>1 DEF IInv, TypeOK
  <2> QED
    BY <1>1, <1>3, <2>1 DEF IInv, EachIsTried
<1> QED
  BY <1>2, <1>4, <1>5, <1>6, <1>7 DEF IInv

-----------------------------------------------------------------------------
(* The theorems. *)

LEMMA EndedIInv == IInv /\ UNCHANGED vars => IInv'
<1> SUFFICES ASSUME IInv, UNCHANGED vars PROVE IInv'
  OBVIOUS
<1> USE DEF IInv, vars, contextVars, stepVars, graphVars
<1>1. TypeOK' /\ Phases' /\ LevelsInOrder' /\ FoundAsSaid'
  BY DEF TypeOK, Phases, LevelsInOrder, FoundAsSaid
<1>2. FoundWellTyped'
  BY DEF FoundWellTyped, HasType
<1>3. TrackedRemains' /\ RelationshipsWellTyped' /\ EachIsTried'
  BY DEF TrackedRemains, RelationshipsWellTyped, EachIsTried
<1> QED
  BY <1>1, <1>2, <1>3

LEMMA NextIInv == IInv /\ [Next]_vars => IInv'
  BY CreateDomainIInv, CreateLevelIInv, LinkLevelIInv, ArchitectFailsIInv,
     ComponentAgentsIInv, ParseLevelAssignmentIInv, ParsePrerequisiteIInv, NextTypeIInv,
     AnalysisFailsIInv, WriteRelationshipIInv, WriteFailsIInv, AgentDoneIInv,
     DeleteLevelsIInv, EndedIInv DEF Next, Ended

LEMMA Invariance == Spec => []IInv
  BY InitIInv, NextIInv, PTL DEF Spec

\* Type correctness of the three agents and of what they write.
THEOREM TypeOKCorrect == Spec => []TypeOK
<1>1. IInv => TypeOK
  BY DEF IInv
<1> QED
  BY <1>1, Invariance, PTL

\* A step that tracks a relationship leaves it in the graph.
LEMMA NewlyTracked ==
    ASSUME IInv, [Next]_vars, NEW m \in Mapper, NEW r \in tracked'[m], r \notin tracked[m]
    PROVE  r \in relationships'
<1>1. WriteRelationship \/ tracked' = tracked
  BY DEF Next, vars, contextVars, stepVars, graphVars, CreateDomain, CreateLevel, LinkLevel, ArchitectFails,
     ComponentAgents, ParseLevelAssignment, ParsePrerequisite, NextType, AnalysisFails, WriteFails,
     AgentDone, DeleteLevels, Ended
<1>2. tracked \in [Mapper -> SUBSET Relationship]
  BY DEF IInv, TypeOK
<1> QED
  BY <1>1, <1>2 DEF WriteRelationship, create_relationship

\* What the agents report to the page as created was in the graph when they
\* reported it and stays there until the level it hangs on is deleted, whichever
\* queries failed and whenever the domain was updated on the way
\* (create_level_relationships, create_prerequisite_relationships).
THEOREM ReportedRelationshipsExist == Spec => TrackedIsReal
<1> DEFINE Real == \A m \in Mapper : \A r \in tracked'[m] :
                      \/ r \in relationships'
                      \/ r \in tracked[m] /\ r.source \in Level \ levels'
<1>1. IInv /\ [Next]_vars => Real
  <2> SUFFICES ASSUME IInv, [Next]_vars, NEW m \in Mapper, NEW r \in tracked'[m], r \notin relationships'
               PROVE  r \in tracked[m] /\ r.source \in Level \ levels'
    OBVIOUS
  <2>1. TrackedRemains'
    BY NextIInv DEF IInv
  <2> QED
    BY <2>1, NewlyTracked DEF TrackedRemains
<1> HIDE DEF Real
<1>2. IInv /\ [Next]_vars => [Real]_vars
  BY <1>1
<1>3. Spec => [][Real]_vars
  BY <1>2, Invariance, PTL DEF Spec
<1> QED
  BY <1>3 DEF TrackedIsReal, Real

\* No answer of the LLM and no registry, entries without an id included, lead to
\* a relationship to a component of another type (find_element_id).
THEOREM NoMistypedRelationship == Spec => []RelationshipsWellTyped
<1>1. IInv => RelationshipsWellTyped
  BY DEF IInv
<1> QED
  BY <1>1, Invariance, PTL

\* An agent that returns an error has written nothing (execute of the level
\* distributor and of the prerequisite mapper).
THEOREM FailedAgentWroteNothing == Spec => []FailureWritesNothing
<1>1. IInv => FailureWritesNothing
  BY DEF IInv, TypeOK, Phases, FailureWritesNothing, Agent, Mapper
<1> QED
  BY <1>1, Invariance, PTL

\* Under a name without level words, a component goes to the level given for it
\* or, for a number that is no level, to the first (parse_level_assignments).
THEOREM AssignedAsSaid == Spec => []LevelAsSaid
<1>1. ASSUME IInv, agent = "LevelDistributor" PROVE domain_levels = <<1, 2, 3, 4, 5>>
  BY <1>1 DEF IInv, TypeOK, LevelsInOrder
<1>2. IInv => LevelAsSaid
  BY <1>1 DEF IInv, LevelAsSaid, FoundAsSaid
<1> QED
  BY <1>2, Invariance, PTL

\* A failing query does not keep the loop from trying the others
\* (create_level_relationships, create_prerequisite_relationships).
THEOREM EveryRelationshipIsTried == Spec => []EachIsTried
<1>1. IInv => EachIsTried
  BY DEF IInv
<1> QED
  BY <1>1, Invariance, PTL
=============================================================================
