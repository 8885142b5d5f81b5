------------------------- MODULE ConceptAgentProofs -------------------------
(***************************************************************************)
(* Proofs about ConceptAgent, for any number of concurrent calls, any      *)
(* lists of concepts, any graph beforehand and any similarity scores: the  *)
(* properties a node gets are those of its concept, the context of an      *)
(* agent that succeeds is complete, the links it records are real, and     *)
(* generalizations lead to older nodes.                                    *)
(*                                                                         *)
(* The invariant is a conjunction of statements about one task each.  A    *)
(* step of another task only lets the graph grow, which none of them       *)
(* minds.                                                                  *)
(***************************************************************************)
EXTENDS ConceptAgent, FiniteSetTheorems, TLAPS

-----------------------------------------------------------------------------
(* The inductive invariant. *)

\* The decisions for which pass 6 creates a node.
Need(t) == {i \in DOMAIN verified[t] : verified[t][i].action # "use_existing"}

\* How far a task has got with its lists.
PassInv(t) ==
    /\ pc[t] = "conceptualize" => concepts[t] = << >> /\ similar[t] = << >>
    /\ pc[t] \in {"conceptualize", "search"} => verified[t] = << >>
    /\ pc[t] \in {"conceptualize", "search", "verify", "targets"} =>
          props[t] = << >> /\ registry[t] = << >>
    /\ pc[t] \notin {"targets", "create", "generalize"} => created[t] = << >>
    /\ Len(similar[t]) <= Len(concepts[t])
    /\ pc[t] = "verify" => Len(similar[t]) = Len(concepts[t])
    /\ Len(verified[t]) <= Len(concepts[t])
    /\ pc[t] \in {"targets", "properties", "create", "generalize", "ok"} =>
          Len(verified[t]) = Len(concepts[t])
    /\ \A i \in DOMAIN verified[t] :
         /\ verified[t][i].name = concepts[t][i]
         /\ verified[t][i].needs_creation => verified[t][i].general \in Name
    /\ pc[t] = "create" => Len(created[t]) <= Len(verified[t])
    /\ pc[t] = "generalize" => Len(created[t]) = Len(verified[t])

\* The properties have arrived in the order of the decisions, none left out.
PropsInv(t) ==
    /\ \A m \in DOMAIN props[t] :
         /\ props[t][m].idx \in Need(t)
         /\ Cardinality({i \in Need(t) : i <= props[t][m].idx}) = m
    /\ \A j \in Need(t), m \in DOMAIN props[t] :
         j <= props[t][m].idx => \E n \in DOMAIN props[t] : props[t][n].idx = j
    /\ pc[t] = "create" => Pending(t) = {}

\* What a task holds of the graph.
NodeInv(t) ==
    /\ \A i \in DOMAIN similar[t] : \A id \in similar[t][i] : node[id].label = label[t]
    /\ \A i \in DOMAIN verified[t] :
         verified[t][i].id \in Id => node[verified[t][i].id].label = label[t]
    /\ \A k \in DOMAIN created[t] :
         created[t][k].id \in Id => node[created[t][k].id].label = label[t]
    /\ \A link \in links[t] : 
         /\ link \in generalizes
         /\ node[link[1]].label = label[t]
         /\ node[link[2]].label = label[t]

\* The nodes of pass 6: each is that of its concept and newer than any general
\* node.
CreatedInv(t) ==
    pc[t] \in {"create", "generalize"} =>
        \A k \in DOMAIN created[t] :
            IF created[t][k].was_reused
            THEN k \notin Need(t) /\ created[t][k].name = concepts[t][k]
            ELSE /\ created[t][k].id \in Id
                 /\ node[created[t][k].id].of = concepts[t][k]
                 /\ \A i \in DOMAIN verified[t] : verified[t][i].id < created[t][k].id

NewIds(s) == {s[k].id : k \in {m \in DOMAIN s : ~s[m].was_reused}}
Entries(t) == registry[t] \o created[t]
NodesOf(t) == {id \in Id : node[id].by = t}
Reused(t) ==
    {i \in DOMAIN verified[t] :
        /\ verified[t][i].action = "use_existing"
        /\ pc[t] = "ok" \/ (pc[t] \in {"create", "generalize"} /\ i <= Len(created[t]))}

\* The entries of a task are its nodes, once each, and the reused ones.
CountInv(t) ==
    pc[t] # "err" =>
        /\ NodesOf(t) = NewIds(Entries(t))
        /\ Len(Entries(t)) = Cardinality(NewIds(Entries(t))) + Cardinality(Reused(t))

\* Every concept has an entry once the task is done.
EntryInv(t) == pc[t] = "ok" => Len(registry[t]) >= Len(concepts[t])

TaskInv(t) ==
    PassInv(t) /\ PropsInv(t) /\ NodeInv(t) /\ CreatedInv(t) /\ CountInv(t) /\ EntryInv(t)

AgentInv ==
    /\ TypeOK
    /\ \A t \in Task : TaskInv(t)
    /\ GeneralizationsPointBack

-----------------------------------------------------------------------------
(* Lists. *)

LEMMA InSequence ==
    ASSUME NEW S, NEW s \in Seq(S)
    PROVE  /\ Len(s) \in Nat /\ DOMAIN s = 1..Len(s)
           /\ \A i \in DOMAIN s : s[i] \in S
  OBVIOUS

LEMMA ListTyped ==
    ASSUME NEW list \in ConceptList
    PROVE  list \in Seq(Name) /\ Len(list) <= MaxConcepts
  <1>1. PICK n \in 0..MaxConcepts : list \in [1..n -> Name]
    BY DEF ConceptList
  <1>2. n \in Nat /\ n <= MaxConcepts
    BY <1>1, AgentAssumption
  <1>3. list \in Seq(Name) /\ Len(list) = n
    BY <1>1, <1>2
  <1> QED
    BY <1>2, <1>3

LEMMA PositionsFinite == ASSUME NEW n \in Nat PROVE IsFiniteSet(1..n)
  BY FS_Interval

LEMMA Needed ==
    ASSUME TypeOK, NEW t \in Task
    PROVE  /\ Need(t) \in SUBSET Nat /\ IsFiniteSet(Need(t))
           /\ \A i \in Need(t) : i \in 1..Len(verified[t])
           /\ Len(verified[t]) \in Nat
  <1>1. verified[t] \in Seq(VerifiedConcept)
    BY DEF TypeOK
  <1>2. DOMAIN verified[t] = 1..Len(verified[t]) /\ Len(verified[t]) \in Nat
    BY <1>1
  <1>3. IsFiniteSet(1..Len(verified[t]))
    BY <1>2, PositionsFinite
  <1>4. Need(t) \subseteq 1..Len(verified[t])
    BY <1>2 DEF Need
  <1> QED
    BY <1>2, <1>3, <1>4, FS_Subset

\* Pass 6 finds the properties of the concept it is at.
LEMMA PropsAreNext ==
    ASSUME TypeOK, NEW t \in Task, PassInv(t), PropsInv(t), pc[t] = "create",
           NEW k \in Need(t), k = Len(created[t]) + 1
    PROVE  /\ NextProps(t) \in [idx : 1..MaxConcepts, name : Name]
           /\ NextProps(t).idx = k
  <1> DEFINE upTo == {i \in Need(t) : i <= k}
             less == {i \in 1..(k - 1) : verified[t][i].action # "use_existing"}
  <1>1. /\ Need(t) \in SUBSET Nat /\ IsFiniteSet(Need(t))
        /\ \A i \in Need(t) : i \in 1..Len(verified[t])
        /\ Len(verified[t]) \in Nat /\ k \in Nat /\ DOMAIN verified[t] = 1..Len(verified[t])
    <2>1. verified[t] \in Seq(VerifiedConcept)
      BY DEF TypeOK
    <2>2. DOMAIN verified[t] = 1..Len(verified[t])
      BY <2>1
    <2> QED
      BY <2>2, Needed
  <1>2. PICK m \in DOMAIN props[t] : props[t][m].idx = k
    BY DEF PropsInv, Pending, Need
  <1>3. Cardinality(upTo) = m
    BY <1>2 DEF PropsInv
  <1>4. less = {i \in Need(t) : i < k}
    <2>1. \A i \in 1..(k - 1) : i \in DOMAIN verified[t] /\ i < k
      BY <1>1
    <2>2. \A i \in Need(t) : i < k => i \in 1..(k - 1)
      BY <1>1
    <2> QED
      BY <2>1, <2>2 DEF Need
  <1>5. upTo = less \cup {k} /\ k \notin less
    BY <1>1, <1>4
  <1>6. IsFiniteSet(less)
    BY <1>1, <1>4, FS_Subset
  <1>7. NextProps(t) = props[t][1 + Cardinality(less)]
    BY DEF NextProps
  <1> HIDE DEF less, upTo
  <1>8. Cardinality(upTo) = Cardinality(less) + 1 /\ Cardinality(less) \in Nat
    BY <1>5, <1>6, FS_AddElement, FS_CardinalityType
  <1>9. NextProps(t) = props[t][m]
    BY <1>3, <1>7, <1>8
  <1>10. props[t] \in Seq([idx : 1..MaxConcepts, name : Name])
    BY DEF TypeOK
  <1>11. props[t][m] \in [idx : 1..MaxConcepts, name : Name]
    BY <1>10, InSequence, Zenon
  <1> QED
    BY <1>2, <1>9, <1>11

-----------------------------------------------------------------------------
(* The graph only grows. *)

PropRecord == [idx : 1..MaxConcepts, name : Name]

LEMMA TypesOf ==
    ASSUME TypeOK, NEW t \in Task
    PROVE  /\ label[t] \in Label /\ pc[t] \in Pass /\ pos[t] \in 1..(MaxConcepts + 1)
           /\ concepts[t] \in Seq(Name) /\ Len(concepts[t]) <= MaxConcepts
           /\ similar[t] \in Seq(SUBSET Id)
           /\ verified[t] \in Seq(VerifiedConcept)
           /\ props[t] \in Seq(PropRecord)
           /\ created[t] \in Seq(CreatedNode) /\ registry[t] \in Seq(CreatedNode)
           /\ links[t] \in SUBSET (Id \X Id)
           /\ node \in Seq(NodeRecord) /\ Len(node) \in Nat
  <1>1. concepts[t] \in ConceptList
    BY DEF TypeOK
  <1>2. node \in Seq(NodeRecord)
    BY DEF TypeOK
  <1>3. Len(node) \in Nat
    BY <1>2
  <1>4. concepts[t] \in Seq(Name) /\ Len(concepts[t]) <= MaxConcepts
    BY <1>1, ListTyped
  <1> QED
    BY <1>2, <1>3, <1>4 DEF TypeOK, PropRecord

\* What a step of task t may do to the graph.
Grows(t) ==
    /\ node' \in Seq(NodeRecord)
    /\ Len(node) <= Len(node')
    /\ \A id \in Id : node'[id] = node[id]
    /\ \A id \in 1..Len(node') : id \notin Id => node'[id].by = t
    /\ generalizes \subseteq generalizes'

LEMMA NodeAdded ==
    ASSUME TypeOK, NEW t \in Task, NEW name \in Name, NEW of \in Name, NewNode(t, name, of)
    PROVE  /\ node' \in Seq(NodeRecord) /\ Len(node') = Len(node) + 1
           /\ \A id \in Id : node'[id] = node[id]
           /\ node'[Len(node) + 1] = [label |-> label[t], name |-> name, of |-> of, by |-> t]
           /\ Id' = Id \cup {Len(node) + 1} /\ Len(node) + 1 \notin Id
           /\ \A id \in 1..Len(node') : id \notin Id => node'[id].by = t
  <1> DEFINE rec == [label |-> label[t], name |-> name, of |-> of, by |-> t]
  <1>1. rec \in NodeRecord /\ node \in Seq(NodeRecord) /\ Len(node) \in Nat /\ rec.by = t
    BY TypesOf DEF NodeRecord
  <1>2. node' = Append(node, rec)
    BY DEF NewNode
  <1> HIDE DEF rec
  <1>3. node' \in Seq(NodeRecord) /\ Len(node') = Len(node) + 1 /\ node'[Len(node) + 1] = rec
        /\ \A id \in 1..Len(node) : node'[id] = node[id]
    BY <1>1, <1>2
  <1>4. Id' = Id \cup {Len(node) + 1} /\ Len(node) + 1 \notin Id
    BY <1>1, <1>3 DEF Id
  <1>5. \A id \in 1..Len(node') : id \notin Id => id = Len(node) + 1
    BY <1>1, <1>3 DEF Id
  <1> QED
    BY <1>1, <1>3, <1>4, <1>5 DEF Id, rec

LEMMA IdGrows ==
    ASSUME TypeOK, NEW t \in Task, Grows(t)
    PROVE  /\ Id \subseteq Id' /\ AnyId \subseteq AnyId' /\ Id' \cap AnyId = Id
           /\ Id' = 1..Len(node')
           /\ VerifiedConcept \subseteq VerifiedConcept' /\ CreatedNode \subseteq CreatedNode'
  <1>1. Len(node) \in Nat /\ Len(node') \in Nat /\ Len(node) <= Len(node')
    BY TypesOf DEF Grows
  <1>2. Id \subseteq Id' /\ Id' = 1..Len(node')
    BY <1>1 DEF Id
  <1>3. AnyId \subseteq AnyId' /\ Id' \cap AnyId = Id
    BY <1>1, <1>2 DEF AnyId, NotAnId, Id
  <1>4. VerifiedConcept \subseteq VerifiedConcept'
    BY <1>3 DEF VerifiedConcept
  <1>5. CreatedNode \subseteq CreatedNode'
    BY <1>3 DEF CreatedNode
  <1> QED
    BY <1>2, <1>3, <1>4, <1>5

LEMMA SeqGrows ==
    ASSUME NEW S, NEW T, S \subseteq T, NEW s \in Seq(S)
    PROVE  s \in Seq(T)
  OBVIOUS

\* What is typed stays typed in the larger graph.
LEMMA TypesGrow ==
    ASSUME TypeOK, NEW t \in Task, Grows(t), NEW u \in Task
    PROVE  /\ similar[u] \in Seq(SUBSET Id')
           /\ verified[u] \in Seq(VerifiedConcept')
           /\ created[u] \in Seq(CreatedNode') /\ registry[u] \in Seq(CreatedNode')
           /\ links[u] \in SUBSET (Id' \X Id')
  <1>1. /\ Id \subseteq Id' /\ VerifiedConcept \subseteq VerifiedConcept'
        /\ CreatedNode \subseteq CreatedNode'
    BY IdGrows
  <1>2. SUBSET Id \subseteq SUBSET Id' /\ Id \X Id \subseteq Id' \X Id'
    BY <1>1
  <1> QED
    BY <1>1, <1>2, TypesOf, SeqGrows

\* What the labels of the nodes of a task say is not affected.
LEMMA NodeInvGrows ==
    ASSUME TypeOK, NEW t \in Task, Grows(t), NEW u \in Task, NodeInv(u),
           UNCHANGED <<label[u], similar[u], verified[u], created[u], links[u]>>
    PROVE  NodeInv(u)'
  <1>1. /\ Id \subseteq Id' /\ Id' \cap AnyId = Id
        /\ \A id \in Id : node'[id] = node[id]
        /\ generalizes \subseteq generalizes'
    BY IdGrows DEF Grows
  <1>2. \A i \in DOMAIN similar[u] : similar[u][i] \in SUBSET Id
    BY TypesOf, InSequence
  <1>3. \A i \in DOMAIN verified[u] : verified[u][i].id \in AnyId
    <2>1. \A i \in DOMAIN verified[u] : verified[u][i] \in VerifiedConcept
      BY TypesOf, InSequence
    <2> QED
      BY <2>1 DEF VerifiedConcept
  <1>4. \A k \in DOMAIN created[u] : created[u][k].id \in AnyId
    <2>1. \A k \in DOMAIN created[u] : created[u][k] \in CreatedNode
      BY TypesOf, InSequence
    <2> QED
      BY <2>1 DEF CreatedNode
  <1>5. \A link \in links[u] : link \in Id \X Id
    BY TypesOf
  <1>6. \A i \in DOMAIN similar'[u] : \A id \in similar'[u][i] : node'[id].label = label'[u]
    BY <1>1, <1>2 DEF NodeInv
  <1>7. \A i \in DOMAIN verified'[u] :
           verified'[u][i].id \in Id' => node'[verified'[u][i].id].label = label'[u]
    BY <1>1, <1>3 DEF NodeInv
  <1>8. \A k \in DOMAIN created'[u] :
           created'[u][k].id \in Id' => node'[created'[u][k].id].label = label'[u]
    BY <1>1, <1>4 DEF NodeInv
  <1>9. \A link \in links'[u] : /\ link \in generalizes'
                                /\ node'[link[1]].label = label'[u]
                                /\ node'[link[2]].label = label'[u]
    BY <1>1, <1>5 DEF NodeInv
  <1> QED
    BY <1>6, <1>7, <1>8, <1>9 DEF NodeInv

LEMMA CreatedInvGrows ==
    ASSUME TypeOK, NEW t \in Task, Grows(t), NEW u \in Task, CreatedInv(u),
           UNCHANGED <<pc[u], concepts[u], verified[u], created[u]>>
    PROVE  CreatedInv(u)'
  <1>1. Id \subseteq Id' /\ \A id \in Id : node'[id] = node[id]
    BY IdGrows DEF Grows
  <1>2. Need(u)' = Need(u)
    BY DEF Need
  <1> QED
    BY <1>1, <1>2 DEF CreatedInv

\* The nodes of a task are the same, unless it is the one that created one.
LEMMA NodesGrow ==
    ASSUME TypeOK, NEW t \in Task, Grows(t), NEW u \in Task, u # t \/ node' = node
    PROVE  NodesOf(u)' = NodesOf(u)
  <1>1. /\ Id \subseteq Id' /\ Id' = 1..Len(node')
        /\ \A id \in Id : node'[id] = node[id]
        /\ \A id \in Id' : id \notin Id => node'[id].by = t
    BY IdGrows DEF Grows
  <1>2. CASE u # t
    BY <1>1, <1>2 DEF NodesOf
  <1>3. CASE node' = node
    BY <1>3 DEF NodesOf, Id
  <1> QED
    BY <1>2, <1>3

TaskState(u) ==
    <<label[u], pc[u], concepts[u], similar[u], verified[u], props[u], created[u], registry[u], links[u]>>

\* A task does not mind what another one does.
LEMMA OtherTask ==
    ASSUME TypeOK, NEW t \in Task, Grows(t), NEW u \in Task, u # t \/ node' = node,
           TaskInv(u), UNCHANGED TaskState(u)
    PROVE  TaskInv(u)'
  <1> USE DEF TaskInv, TaskState
  <1>1. PassInv(u)' /\ EntryInv(u)'
    BY DEF PassInv, EntryInv
  <1>2. Need(u)' = Need(u) /\ Pending(u)' = Pending(u)
    BY DEF Need, Pending
  <1>3. PropsInv(u)'
    BY <1>2 DEF PropsInv
  <1>4. NodeInv(u)' /\ CreatedInv(u)'
    BY NodeInvGrows, CreatedInvGrows
  <1>5. CountInv(u)'
    <2>1. NodesOf(u)' = NodesOf(u)
      BY NodesGrow
    <2>2. Entries(u)' = Entries(u) /\ Reused(u)' = Reused(u)
      BY DEF Entries, Reused
    <2> QED
      BY <2>1, <2>2 DEF CountInv, NewIds
  <1> QED
    BY <1>1, <1>3, <1>4, <1>5

-----------------------------------------------------------------------------
(* A step of a task changes its own lists only. *)

OnlyOf(t) ==
    /\ label' = label
    /\ pc' = [pc EXCEPT ![t] = pc'[t]]
    /\ concepts' = [concepts EXCEPT ![t] = concepts'[t]]
    /\ similar' = [similar EXCEPT ![t] = similar'[t]]
    /\ verified' = [verified EXCEPT ![t] = verified'[t]]
    /\ props' = [props EXCEPT ![t] = props'[t]]
    /\ created' = [created EXCEPT ![t] = created'[t]]
    /\ pos' = [pos EXCEPT ![t] = pos'[t]]
    /\ registry' = [registry EXCEPT ![t] = registry'[t]]
    /\ links' = [links EXCEPT ![t] = links'[t]]

LEMMA StepIsOwn ==
    ASSUME TypeOK, NEW t \in Task, execute(t)
    PROVE  OnlyOf(t)
  <1> USE DEF TypeOK, OnlyOf, contextVars, graphVars
  <1>1. CASE Conceptualize(t)
    BY <1>1 DEF Conceptualize
  <1>2. CASE Search(t)
    BY <1>2 DEF Search
  <1>3. CASE Verify(t)
    BY <1>3 DEF Verify
  <1>4. CASE CreateTarget(t)
    BY <1>4 DEF CreateTarget
  <1>5. CASE TargetsDone(t)
    BY <1>5 DEF TargetsDone, Register
  <1>6. CASE GenerateProperties(t)
    BY <1>6 DEF GenerateProperties
  <1>7. CASE CreateNode(t)
    BY <1>7 DEF CreateNode
  <1>8. CASE Generalize(t)
    BY <1>8 DEF Generalize, create_relationship
  <1>9. CASE SkipGeneralization(t)
    BY <1>9 DEF SkipGeneralization
  <1>10. CASE SourceNotFound(t)
    BY <1>10 DEF SourceNotFound, ReturnErr
  <1>11. CASE NextPass(t)
    BY <1>11 DEF NextPass, PassDone
  <1>12. CASE Finish(t)
    BY <1>12 DEF Finish, Register
  <1>13. CASE AgentFails(t)
    BY <1>13 DEF AgentFails, ReturnErr
  <1> QED
    BY <1>1, <1>2, <1>3, <1>4, <1>5, <1>6, <1>7, <1>8, <1>9, <1>10, <1>11, <1>12, <1>13 DEF execute

LEMMA OwnLeavesOthers ==
    ASSUME TypeOK, NEW t \in Task, OnlyOf(t), NEW u \in Task, u # t
    PROVE  UNCHANGED TaskState(u)
  BY DEF TypeOK, OnlyOf, TaskState

\* The types after a step of task t, from those of its own lists.
LEMMA TypesAfter ==
    ASSUME TypeOK, NEW t \in Task, OnlyOf(t), Grows(t),
           pc'[t] \in Pass, concepts'[t] \in ConceptList, similar'[t] \in Seq(SUBSET Id'),
           verified'[t] \in Seq(VerifiedConcept'), props'[t] \in Seq(PropRecord),
           created'[t] \in Seq(CreatedNode'), pos'[t] \in 1..(MaxConcepts + 1),
           registry'[t] \in Seq(CreatedNode'), links'[t] \in SUBSET (Id' \X Id'),
           generalizes' \subseteq Id' \X Id'
    PROVE  TypeOK'
  <1>1. \A u \in Task : /\ similar[u] \in Seq(SUBSET Id') /\ verified[u] \in Seq(VerifiedConcept')
                       /\ created[u] \in Seq(CreatedNode') /\ registry[u] \in Seq(CreatedNode')
                       /\ links[u] \in SUBSET (Id' \X Id')
    BY TypesGrow
  <1>2. label' \in [Task -> Label] /\ pc' \in [Task -> Pass] /\ concepts' \in [Task -> ConceptList]
        /\ props' \in [Task -> Seq([idx : 1..MaxConcepts, name : Name])]
        /\ pos' \in [Task -> 1..(MaxConcepts + 1)]
    BY DEF TypeOK, OnlyOf, PropRecord
  <1>3. similar' \in [Task -> Seq(SUBSET Id')] /\ links' \in [Task -> SUBSET (Id' \X Id')]
    BY <1>1 DEF TypeOK, OnlyOf
  <1>4. verified' \in [Task -> Seq(VerifiedConcept')]
    BY <1>1 DEF TypeOK, OnlyOf
  <1>5. created' \in [Task -> Seq(CreatedNode')] /\ registry' \in [Task -> Seq(CreatedNode')]
    BY <1>1 DEF TypeOK, OnlyOf
  <1>6. node' \in Seq(NodeRecord)
    BY DEF Grows
  <1> QED
    BY <1>2, <1>3, <1>4, <1>5, <1>6 DEF TypeOK

\* Generalizations lead back as long as none is added.
LEMMA SameGeneralizations ==
    ASSUME TypeOK, GeneralizationsPointBack, NEW t \in Task, OnlyOf(t),
           generalizes' = generalizes, concepts'[t] = concepts[t] \/ concepts[t] = << >>
    PROVE  GeneralizationsPointBack'
  <1>1. ASSUME \A u \in Task : NoneTwice(concepts'[u]) PROVE \A u \in Task : NoneTwice(concepts[u])
    <2>1. \A u \in Task : u # t => concepts'[u] = concepts[u]
      BY DEF TypeOK, OnlyOf
    <2>2. NoneTwice(<< >>)
      BY DEF NoneTwice
    <2> QED
      BY <1>1, <2>1, <2>2
  <1> QED
    BY <1>1 DEF GeneralizationsPointBack, NoneTwice

LEMMA AgentKeeps ==
    ASSUME AgentInv, NEW t \in Task, OnlyOf(t), Grows(t), TypeOK', TaskInv(t)',
           GeneralizationsPointBack'
    PROVE  AgentInv'
  <1>1. \A u \in Task : TaskInv(u)'
    <2> TAKE u \in Task
    <2>1. CASE u = t
      BY <2>1
    <2>2. CASE u # t
      BY <2>2, OwnLeavesOthers, OtherTask DEF AgentInv
    <2> QED
      BY <2>1, <2>2
  <1> QED
    BY <1>1 DEF AgentInv

-----------------------------------------------------------------------------
(* Steps that create no node. *)

LEMMA SameNodes ==
    ASSUME TypeOK, NEW t \in Task, node' = node, generalizes \subseteq generalizes'
    PROVE  /\ Grows(t) /\ Id' = Id /\ AnyId' = AnyId
           /\ VerifiedConcept' = VerifiedConcept /\ CreatedNode' = CreatedNode
  <1>1. Id' = Id
    BY DEF Id
  <1>2. AnyId' = AnyId
    BY <1>1 DEF AnyId
  <1>3. VerifiedConcept' = VerifiedConcept /\ CreatedNode' = CreatedNode
    BY <1>2 DEF VerifiedConcept, CreatedNode
  <1>4. Grows(t)
    BY TypesOf DEF Grows, Id
  <1> QED
    BY <1>1, <1>2, <1>3, <1>4

LEMMA SameCount ==
    ASSUME TypeOK, NEW t \in Task, node' = node, CountInv(t), pc[t] # "err",
           Entries(t)' = Entries(t), Reused(t)' = Reused(t)
    PROVE  CountInv(t)'
  <1>1. NodesOf(t)' = NodesOf(t)
    BY DEF NodesOf, Id
  <1> QED
    BY <1>1 DEF CountInv, NewIds

LEMMA EmptyTyped == \A S : << >> \in Seq(S)
  OBVIOUS

LEMMA CreateNewFields ==
    \A c : LET v == create_new(c)
          IN  /\ c \in Name => v \in VerifiedConcept
              /\ v.name = c /\ v.id \notin Id /\ v.needs_creation = FALSE
              /\ v.action = "create_new"
  BY DEF create_new, VerifiedConcept, AnyId, NotAnId, Id

\* Pass 1.
LEMMA ConceptualizeKeeps ==
    ASSUME AgentInv, NEW t \in Task, Conceptualize(t) PROVE AgentInv'
  <1>1. TypeOK /\ TaskInv(t) /\ OnlyOf(t) /\ GeneralizationsPointBack
    BY StepIsOwn DEF AgentInv, execute
  <1>2. PICK list \in ConceptList :
        /\ concepts' = [concepts EXCEPT ![t] = list]
        /\ IF label[t] = "Milestone"
           THEN /\ verified' = [verified EXCEPT ![t] =
                                    [i \in DOMAIN list |-> create_new(list[i])]]
                /\ pc' = [pc EXCEPT ![t] = "properties"]
           ELSE /\ UNCHANGED verified
                /\ pc' = [pc EXCEPT ![t] = "search"]
    BY DEF Conceptualize
  <1>3. pc[t] = "conceptualize"
        /\ UNCHANGED <<label, similar, props, created, pos, registry, links, node, generalizes>>
    BY DEF Conceptualize, contextVars, graphVars
  <1>4. /\ Grows(t) /\ Id' = Id /\ AnyId' = AnyId
        /\ VerifiedConcept' = VerifiedConcept /\ CreatedNode' = CreatedNode
    BY <1>1, <1>3, SameNodes
  <1>5. /\ concepts[t] = << >> /\ similar[t] = << >> /\ verified[t] = << >> /\ props[t] = << >>
        /\ registry[t] = << >> /\ created[t] = << >>
    BY <1>1, <1>3 DEF TaskInv, PassInv
  <1>6. list \in Seq(Name) /\ Len(list) <= MaxConcepts /\ Len(list) \in Nat
        /\ DOMAIN list = 1..Len(list) /\ \A i \in DOMAIN list : list[i] \in Name
    BY ListTyped, InSequence
  <1> DEFINE v == verified'[t]
  <1>7. concepts'[t] = list /\ pc'[t] \in {"search", "properties"}
    BY <1>1, <1>2 DEF TypeOK
  <1>8. v \in Seq(VerifiedConcept) /\ Len(v) \in Nat /\ Len(v) <= Len(list)
        /\ (pc'[t] = "search" => v = << >>) /\ (pc'[t] = "properties" => Len(v) = Len(list))
        /\ \A i \in DOMAIN v : v[i] = create_new(list[i])
    <2>1. CASE label[t] # "Milestone"
      <3>1. v = << >> /\ pc'[t] = "search"
        BY <1>1, <1>2, <1>5, <2>1 DEF TypeOK
      <3>2. << >> \in Seq(VerifiedConcept) /\ Len(<< >>) = 0 /\ DOMAIN << >> = {}
        OBVIOUS
      <3> HIDE DEF v
      <3> QED
        BY <1>6, <3>1, <3>2
    <2>2. CASE label[t] = "Milestone"
      <3>1. \A c \in Name : create_new(c) \in VerifiedConcept
        BY CreateNewFields
      <3> HIDE DEF create_new
      <3>2. v = [i \in DOMAIN list |-> create_new(list[i])] /\ pc'[t] = "properties"
        BY <1>1, <1>2, <2>2 DEF TypeOK
      <3> HIDE DEF v
      <3>3. v = [i \in 1..Len(list) |-> create_new(list[i])]
        BY <1>6, <3>2
      <3>4. \A i \in 1..Len(list) : create_new(list[i]) \in VerifiedConcept
        BY <1>6, <3>1
      <3>5. v \in Seq(VerifiedConcept) /\ Len(v) = Len(list)
        BY <1>6, <3>3, <3>4
      <3>6. \A i \in DOMAIN v : v[i] = create_new(list[i])
        BY <3>3
      <3> QED
        BY <1>6, <3>2, <3>5, <3>6
    <2> QED
      BY <2>1, <2>2
  <1> HIDE DEF v
  <1>9. TypeOK'
    <2>1. pc'[t] \in Pass
      BY <1>7 DEF Pass
    <2>2. generalizes' \subseteq Id' \X Id'
      BY <1>1, <1>3, <1>4 DEF TypeOK
    <2>3. verified'[t] \in Seq(VerifiedConcept')
      BY <1>4, <1>8 DEF v
    <2> QED
      BY <1>1, <1>3, <1>4, <1>7, <2>1, <2>2, <2>3, TypesOf, TypesAfter
  <1>10. PassInv(t)'
    <2>1. \A i \in DOMAIN v : v[i].name = list[i] /\ ~v[i].needs_creation
      BY <1>8, CreateNewFields
    <2>2. Len(<< >>) = 0
      OBVIOUS
    <2> QED
      BY <1>3, <1>5, <1>6, <1>7, <1>8, <2>1, <2>2 DEF PassInv, v
  <1>11. PropsInv(t)' /\ CreatedInv(t)' /\ EntryInv(t)'
    <2>1. DOMAIN << >> = {}
      OBVIOUS
    <2> QED
      BY <1>3, <1>5, <1>7, <2>1 DEF PropsInv, CreatedInv, EntryInv
  <1>12. NodeInv(t)'
    <2>1. \A i \in DOMAIN v : v[i].id \notin Id
      BY <1>8, CreateNewFields
    <2>2. \A link \in links[t] : link \in generalizes /\ node[link[1]].label = label[t]
                                 /\ node[link[2]].label = label[t]
      BY <1>1 DEF TaskInv, NodeInv
    <2>3. DOMAIN << >> = {}
      OBVIOUS
    <2> QED
      BY <1>3, <1>4, <1>5, <2>1, <2>2, <2>3 DEF NodeInv, v
  <1>13. CountInv(t)'
    <2>1. Reused(t) = {} /\ Reused(t)' = {}
      BY <1>3, <1>7 DEF Reused
    <2>2. Entries(t)' = Entries(t)
      BY <1>3 DEF Entries
    <2> QED
      BY <1>1, <1>3, <2>1, <2>2, SameCount DEF TaskInv
  <1>14. GeneralizationsPointBack'
    BY <1>1, <1>3, <1>5, SameGeneralizations
  <1> QED
    BY <1>1, <1>4, <1>9, <1>10, <1>11, <1>12, <1>13, <1>14, AgentKeeps DEF TaskInv

\* Searches find nodes of the label.
LEMMA FoundNodes ==
    ASSUME NEW text, NEW l, NEW limit, NEW found \in find_similar_nodes(text, l, limit)
    PROVE  found \in SUBSET Id /\ \A id \in found : node[id].label = l
  <1>1. PICK near \in SUBSET Id : found = {id \in near : node[id].label = l}
    BY DEF find_similar_nodes
  <1> QED
    BY <1>1

LEMMA UseExistingTyped == \A c \in Name, id \in AnyId : use_existing(c, id) \in VerifiedConcept
  BY DEF VerifiedConcept, use_existing

LEMMA UseExistingId == \A c, id : use_existing(c, id).id = id
  BY DEF use_existing

LEMMA UseExistingFields ==
    ASSUME NEW c \in Name, NEW id \in AnyId
    PROVE  /\ use_existing(c, id) \in VerifiedConcept
           /\ use_existing(c, id).name = c /\ use_existing(c, id).id = id
           /\ use_existing(c, id).needs_creation = FALSE
  <1>1. use_existing(c, id).name = c
    BY DEF use_existing
  <1>2. use_existing(c, id).needs_creation = FALSE
    BY DEF use_existing
  <1> QED
    BY <1>1, <1>2, UseExistingTyped, UseExistingId

\* The decisions to generalize.
MissingTarget(c, general) == create_and_generalize(c, NotAnId, general, TRUE)
FoundTarget(c, id, general) == create_and_generalize(c, id, general, FALSE)

LEMMA MissingTargetFields ==
    ASSUME NEW c \in Name, NEW general \in Name, NEW v,
           v = MissingTarget(c, general)
    PROVE  v \in VerifiedConcept /\ v.name = c /\ v.id = NotAnId /\ v.general = general
  <1>1. v \in VerifiedConcept
    BY DEF MissingTarget, create_and_generalize, VerifiedConcept, AnyId
  <1>2. v.name = c
    BY DEF MissingTarget, create_and_generalize
  <1>3. v.id = NotAnId
    BY DEF MissingTarget, create_and_generalize
  <1>4. v.general = general
    BY DEF MissingTarget, create_and_generalize
  <1> QED
    BY <1>1, <1>2, <1>3, <1>4

LEMMA FoundTargetFields ==
    ASSUME NEW c \in Name, NEW id \in AnyId, NEW general \in Name, NEW v,
           v = FoundTarget(c, id, general)
    PROVE  v \in VerifiedConcept /\ v.name = c /\ v.id = id /\ v.general = general
  <1>1. v \in VerifiedConcept
    BY DEF FoundTarget, create_and_generalize, VerifiedConcept
  <1>2. v.name = c
    BY DEF FoundTarget, create_and_generalize
  <1>3. v.id = id
    BY DEF FoundTarget, create_and_generalize
  <1>4. v.general = general
    BY DEF FoundTarget, create_and_generalize
  <1> QED
    BY <1>1, <1>2, <1>3, <1>4

\* What a decision about concept c may hold.
Sound(v, t, c) ==
    /\ v \in VerifiedConcept /\ v.name = c
    /\ v.id \in Id => node[v.id].label = label[t]
    /\ v.needs_creation => v.general \in Name

LEMMA SoundReuse ==
    ASSUME NEW t \in Task, NEW c \in Name, NEW found \in SUBSET Id,
           \A id \in found : node[id].label = label[t], NEW id \in found
    PROVE  Sound(use_existing(c, id), t, c)
  <1>1. id \in AnyId
    BY DEF AnyId
  <1> QED
    BY <1>1, UseExistingFields, ZenonT(60) DEF Sound

LEMMA SoundTarget ==
    ASSUME NEW t \in Task, NEW c \in Name, NEW found \in SUBSET Id, NEW general \in Name,
           \A id \in found : node[id].label = label[t],
           NEW v \in resolve_target(label[t], c, general, found)
    PROVE  Sound(v, t, c)
  <1>1. CASE v = MissingTarget(c, general)
    <2>1. NotAnId \in AnyId /\ NotAnId \notin Id
      BY DEF AnyId, NotAnId, Id
    <2>2. v \in VerifiedConcept /\ v.name = c /\ v.id = NotAnId /\ v.general = general
      BY <1>1, <2>1, MissingTargetFields
    <2> QED
      BY <1>1, <2>1, <2>2 DEF Sound
  <1>2. ASSUME NEW id \in Id, node[id].label = label[t], v = FoundTarget(c, id, general)
        PROVE  Sound(v, t, c)
    <2>1. id \in AnyId
      BY DEF AnyId
    <2>2. v \in VerifiedConcept /\ v.name = c /\ v.id = id /\ v.general = general
      BY <1>2, <2>1, FoundTargetFields
    <2> QED
      BY <1>2, <2>1, <2>2 DEF Sound
  <1> DEFINE listed == {id \in found : node[id].name = general}
             exact(hit) == {id \in hit : ScoreOf(general, id) >= 95 \/ node[id].name = general}
             searched == {exact(hit) : hit \in find_similar_nodes(general, label[t], 1)}
             existing == IF listed # {} THEN listed ELSE UNION searched
  <1>3. \A id \in existing : id \in Id /\ node[id].label = label[t]
    <2>1. \A id \in listed : id \in Id /\ node[id].label = label[t]
      OBVIOUS
    <2>2. ASSUME NEW id \in UNION searched PROVE id \in Id /\ node[id].label = label[t]
      <3>1. PICK hit \in find_similar_nodes(general, label[t], 1) : id \in exact(hit)
        BY <2>2
      <3>2. id \in hit
        BY <3>1
      <3> QED
        BY <3>2, FoundNodes
    <2> QED
      BY <2>1, <2>2
  <1>4. \/ \E id \in existing : v = FoundTarget(c, id, general)
        \/ v = MissingTarget(c, general)
    BY DEF resolve_target, MissingTarget, FoundTarget
  <1> QED
    BY <1>1, <1>2, <1>3, <1>4

LEMMA DecisionIsSound ==
    ASSUME NEW t \in Task, NEW c \in Name, NEW found \in SUBSET Id,
           \A id \in found : node[id].label = label[t],
           NEW v \in determine_action_by_score(label[t], c, found)
                     \cup parse_trait_verification(c, found)
                     \cup parse_verification_response(label[t], c, found)
    PROVE  Sound(v, t, c)
  <1>1. CASE v = create_new(c)
    BY <1>1, CreateNewFields DEF Sound
  <1>2. CASE v = use_existing(c, NotAnId)
    <2>1. NotAnId \in AnyId /\ NotAnId \notin Id
      BY DEF AnyId, NotAnId, Id
    <2> QED
      BY <1>2, <2>1, UseExistingFields, ZenonT(60) DEF Sound
  <1>3. ASSUME NEW id \in found, v = use_existing(c, id) PROVE Sound(v, t, c)
    BY <1>3, SoundReuse
  <1>4. ASSUME NEW general \in Name, v \in resolve_target(label[t], c, general, found)
        PROVE  Sound(v, t, c)
    BY <1>4, SoundTarget
  <1>5. CASE v \in determine_action_by_score(label[t], c, found)
    <2>1. v = create_new(c) \/ \E id \in Top(c, found) : v = use_existing(c, id)
      BY <1>5 DEF determine_action_by_score
    <2>2. Top(c, found) \subseteq found
      BY DEF Top
    <2> QED
      BY <1>1, <1>3, <2>1, <2>2
  <1>6. CASE v \in parse_trait_verification(c, found)
    BY <1>1, <1>3, <1>6 DEF parse_trait_verification
  <1>7. CASE v \in parse_verification_response(label[t], c, found)
    BY <1>1, <1>2, <1>4, <1>7 DEF parse_verification_response
  <1> QED
    BY <1>5, <1>6, <1>7

\* Pass 2.
LEMMA SearchKeeps ==
    ASSUME AgentInv, NEW t \in Task, Search(t) PROVE AgentInv'
  <1>1. TypeOK /\ TaskInv(t) /\ OnlyOf(t) /\ GeneralizationsPointBack
    BY StepIsOwn DEF AgentInv, execute
  <1>2. PICK found \in find_similar_nodes(concepts[t][Len(similar[t]) + 1], label[t], 3) :
            similar' = [similar EXCEPT ![t] = Append(@, found)]
    BY DEF Search
  <1>3. pc[t] = "search" /\ Len(similar[t]) < Len(concepts[t])
        /\ UNCHANGED <<label, pc, concepts, verified, props, created, pos, registry, links, node, generalizes>>
    BY DEF Search, contextVars, graphVars
  <1>4. /\ Grows(t) /\ Id' = Id /\ VerifiedConcept' = VerifiedConcept /\ CreatedNode' = CreatedNode
    BY <1>1, <1>3, SameNodes
  <1>5. found \in SUBSET Id /\ \A id \in found : node[id].label = label[t]
    BY FoundNodes
  <1>6. similar[t] \in Seq(SUBSET Id) /\ similar'[t] = Append(similar[t], found)
    BY <1>1, <1>2, TypesOf DEF TypeOK
  <1>7. /\ similar'[t] \in Seq(SUBSET Id) /\ Len(similar'[t]) = Len(similar[t]) + 1
        /\ Len(similar[t]) \in Nat
        /\ \A i \in DOMAIN similar'[t] :
             \/ i \in DOMAIN similar[t] /\ similar'[t][i] = similar[t][i]
             \/ similar'[t][i] = found
    BY <1>5, <1>6
  <1>8. TypeOK'
    <2>1. generalizes' \subseteq Id' \X Id' /\ concepts[t] \in ConceptList
      BY <1>1, <1>3, <1>4 DEF TypeOK
    <2> QED
      BY <1>1, <1>3, <1>4, <1>7, <2>1, TypesOf, TypesAfter
  <1>9. PassInv(t)'
    <2>1. Len(concepts[t]) \in Nat
      BY <1>1, TypesOf, InSequence
    <2> QED
      BY <1>1, <1>3, <1>7, <2>1 DEF TaskInv, PassInv
  <1>10. PropsInv(t)' /\ CreatedInv(t)' /\ EntryInv(t)'
    BY <1>1, <1>3 DEF TaskInv, PropsInv, CreatedInv, EntryInv, Need
  <1>11. NodeInv(t)'
    <2>1. \A i \in DOMAIN similar'[t] : \A id \in similar'[t][i] : node[id].label = label[t]
      BY <1>1, <1>5, <1>7 DEF TaskInv, NodeInv
    <2> QED
      BY <1>1, <1>3, <1>4, <2>1 DEF TaskInv, NodeInv
  <1>12. CountInv(t)'
    BY <1>1, <1>3, SameCount DEF TaskInv, Entries, Reused
  <1>13. GeneralizationsPointBack'
    BY <1>1, <1>3, SameGeneralizations
  <1> QED
    BY <1>1, <1>4, <1>8, <1>9, <1>10, <1>11, <1>12, <1>13, AgentKeeps DEF TaskInv

\* Pass 3.
LEMMA VerifyKeeps ==
    ASSUME AgentInv, NEW t \in Task, Verify(t) PROVE AgentInv'
  <1> DEFINE i == Len(verified[t]) + 1
             c == concepts[t][i]
             found == similar[t][i]
             certain == determine_action_by_score(label[t], c, found)
  <1>1. TypeOK /\ TaskInv(t) /\ OnlyOf(t) /\ GeneralizationsPointBack
    BY StepIsOwn DEF AgentInv, execute
  <1>2. PICK decision \in IF certain # {} THEN certain
                          ELSE IF label[t] = "Trait" THEN parse_trait_verification(c, found)
                          ELSE parse_verification_response(label[t], c, found) :
            verified' = [verified EXCEPT ![t] = Append(@, decision)]
    BY DEF Verify
  <1>3. pc[t] = "verify" /\ Len(verified[t]) < Len(concepts[t])
        /\ UNCHANGED <<label, pc, concepts, similar, props, created, pos, registry, links, node, generalizes>>
    BY DEF Verify, contextVars, graphVars
  <1>4. /\ Grows(t) /\ Id' = Id /\ VerifiedConcept' = VerifiedConcept /\ CreatedNode' = CreatedNode
    BY <1>1, <1>3, SameNodes
  <1>5. /\ verified[t] \in Seq(VerifiedConcept) /\ Len(verified[t]) \in Nat
        /\ Len(concepts[t]) \in Nat /\ Len(similar[t]) = Len(concepts[t])
        /\ i \in DOMAIN concepts[t] /\ i \in DOMAIN similar[t]
    <2>1. /\ verified[t] \in Seq(VerifiedConcept) /\ Len(verified[t]) \in Nat
          /\ Len(concepts[t]) \in Nat /\ DOMAIN concepts[t] = 1..Len(concepts[t])
          /\ DOMAIN similar[t] = 1..Len(similar[t])
      BY <1>1, TypesOf, InSequence
    <2>2. Len(similar[t]) = Len(concepts[t])
      BY <1>1, <1>3 DEF TaskInv, PassInv
    <2> QED
      BY <1>3, <2>1, <2>2
  <1>6. c \in Name /\ found \in SUBSET Id /\ \A id \in found : node[id].label = label[t]
    <2>1. c \in Name /\ found \in SUBSET Id
      BY <1>1, <1>5, TypesOf, InSequence
    <2> QED
      BY <1>1, <1>5, <2>1 DEF TaskInv, NodeInv
  <1>7. Sound(decision, t, c)
    <2>1. decision \in certain \cup parse_trait_verification(c, found)
                       \cup parse_verification_response(label[t], c, found)
      BY <1>2
    <2> HIDE DEF c, found
    <2> QED
      BY <1>6, <2>1, DecisionIsSound
  <1>8. verified'[t] = Append(verified[t], decision)
    BY <1>1, <1>2 DEF TypeOK
  <1>9. /\ verified'[t] \in Seq(VerifiedConcept) /\ Len(verified'[t]) = Len(verified[t]) + 1
        /\ \A j \in DOMAIN verified'[t] :
              \/ j \in DOMAIN verified[t] /\ verified'[t][j] = verified[t][j]
              \/ j = i /\ verified'[t][j] = decision
    <2>1. decision \in VerifiedConcept
      BY <1>7 DEF Sound
    <2> QED
      BY <1>5, <1>8, <2>1
  <1>10. TypeOK'
    <2>1. generalizes' \subseteq Id' \X Id' /\ concepts[t] \in ConceptList
      BY <1>1, <1>3, <1>4 DEF TypeOK
    <2> QED
      BY <1>1, <1>3, <1>4, <1>9, <2>1, TypesOf, TypesAfter
  <1>11. PassInv(t)'
    <2>1. \A j \in DOMAIN verified'[t] :
             /\ verified'[t][j].name = concepts[t][j]
             /\ verified'[t][j].needs_creation => verified'[t][j].general \in Name
      BY <1>1, <1>7, <1>9 DEF TaskInv, PassInv, Sound
    <2> QED
      BY <1>1, <1>3, <1>5, <1>9, <2>1 DEF TaskInv, PassInv
  <1>12. PropsInv(t)' /\ CreatedInv(t)' /\ EntryInv(t)'
    <2>1. props[t] = << >> /\ DOMAIN << >> = {}
      BY <1>1, <1>3 DEF TaskInv, PassInv
    <2> QED
      BY <1>3, <2>1 DEF PropsInv, CreatedInv, EntryInv
  <1>13. NodeInv(t)'
    <2>1. \A j \in DOMAIN verified'[t] :
             verified'[t][j].id \in Id => node[verified'[t][j].id].label = label[t]
      BY <1>1, <1>7, <1>9 DEF TaskInv, NodeInv, Sound
    <2> QED
      BY <1>1, <1>3, <1>4, <2>1 DEF TaskInv, NodeInv
  <1>14. CountInv(t)'
    <2>1. Reused(t) = {} /\ Reused(t)' = {}
      BY <1>3 DEF Reused
    <2> QED
      BY <1>1, <1>3, <2>1, SameCount DEF TaskInv, Entries
  <1>15. GeneralizationsPointBack'
    BY <1>1, <1>3, SameGeneralizations
  <1> QED
    BY <1>1, <1>4, <1>10, <1>11, <1>12, <1>13, <1>14, <1>15, AgentKeeps DEF TaskInv

\* The number of elements of a set up to one of them tells them apart.
LEMMA RankGrows ==
    ASSUME NEW S \in SUBSET Nat, IsFiniteSet(S), NEW a \in S, NEW b \in S, a < b
    PROVE  /\ Cardinality({j \in S : j <= a}) \in Nat /\ Cardinality({j \in S : j <= b}) \in Nat
           /\ Cardinality({j \in S : j <= a}) < Cardinality({j \in S : j <= b})
  <1> DEFINE A == {j \in S : j <= a}
             B == {j \in S : j <= b}
  <1>1. IsFiniteSet(A) /\ IsFiniteSet(B)
    BY FS_Subset
  <1>2. A \subseteq B /\ b \in B /\ b \notin A
    <2>1. a \in Nat /\ b \in Nat /\ \A j \in S : j \in Nat
      OBVIOUS
    <2>2. \A j \in S : j <= a => j <= b
      BY <2>1
    <2>3. b <= b /\ ~(b <= a)
      BY <2>1
    <2> QED
      BY <2>2, <2>3
  <1> HIDE DEF A, B
  <1>3. A \cup {b} \subseteq B
    BY <1>2
  <1>4. /\ IsFiniteSet(A \cup {b}) /\ Cardinality(A \cup {b}) = Cardinality(A) + 1
        /\ Cardinality(A) \in Nat /\ Cardinality(B) \in Nat
    BY <1>1, <1>2, FS_AddElement, FS_CardinalityType
  <1>5. Cardinality(A \cup {b}) <= Cardinality(B)
    BY <1>1, <1>3, FS_Subset
  <1>6. Cardinality(A) < Cardinality(B)
    BY <1>4, <1>5
  <1> QED
    BY <1>4, <1>6 DEF A, B

\* With one call at a time the properties asked for are the next ones.
LEMMA NextInFlight ==
    ASSUME NEW pending \in SUBSET Nat, IsFiniteSet(pending), NEW i \in InFlight(pending)
    PROVE  i \in pending /\ \A j \in pending : i <= j
  <1> DEFINE before == {j \in pending : j < i}
  <1>1. i \in pending /\ Cardinality(before) < 1
    BY DEF InFlight, BATCH_SIZE
  <1>2. IsFiniteSet(before)
    BY FS_Subset
  <1> HIDE DEF before
  <1>3. Cardinality(before) = 0
    BY <1>1, <1>2, FS_CardinalityType
  <1>4. before = {}
    BY <1>2, <1>3, FS_EmptySet
  <1> QED
    BY <1>1, <1>4 DEF before

\* They get the position that their decision has among those that need any.
LEMMA NextRank ==
    ASSUME TypeOK, NEW t \in Task, PropsInv(t), NEW i \in InFlight(Pending(t))
    PROVE  /\ i \in Need(t) /\ \A m \in DOMAIN props[t] : props[t][m].idx # i
           /\ \A j \in Need(t) : j < i => \E n \in DOMAIN props[t] : props[t][n].idx = j
           /\ Cardinality({j \in Need(t) : j <= i}) = Len(props[t]) + 1
  <1> DEFINE N == Need(t)
             P == props[t]
             upTo(x) == {j \in N : j <= x}
  <1>1. /\ N \in SUBSET Nat /\ IsFiniteSet(N)
        /\ Len(P) \in Nat /\ DOMAIN P = 1..Len(P)
    BY Needed, TypesOf, InSequence
  <1>2. Pending(t) = {j \in N : \A m \in DOMAIN P : P[m].idx # j}
    BY DEF Pending, Need
  <1>3. Pending(t) \in SUBSET Nat /\ IsFiniteSet(Pending(t))
    BY <1>1, <1>2, FS_Subset
  <1>4. /\ i \in N /\ \A m \in DOMAIN P : P[m].idx # i
        /\ \A j \in N : j < i => \E n \in DOMAIN P : P[n].idx = j
    <2>1. i \in Pending(t) /\ \A j \in Pending(t) : i <= j
      BY <1>3, NextInFlight
    <2> HIDE DEF N, P
    <2>2. ASSUME NEW j \in N, j < i PROVE \E n \in DOMAIN P : P[n].idx = j
      <3>1. i \in Nat /\ j \in Nat
        BY <1>1, <1>2, <2>1
      <3>2. j \notin Pending(t)
        BY <2>1, <2>2, <3>1
      <3> QED
        BY <1>2, <2>2, <3>2
    <2> QED
      BY <1>2, <2>1, <2>2
  <1>5. /\ \A m \in DOMAIN P : P[m].idx \in N /\ Cardinality(upTo(P[m].idx)) = m
        /\ \A j \in N, m \in DOMAIN P : j <= P[m].idx => \E n \in DOMAIN P : P[n].idx = j
    BY DEF PropsInv
  <1>6. \A a, b \in N : a < b => Cardinality(upTo(a)) < Cardinality(upTo(b))
    BY <1>1, RankGrows
  <1>7. \A x \in N : IsFiniteSet(upTo(x)) /\ Cardinality(upTo(x)) \in Nat
    <2> TAKE x \in N
    <2>1. IsFiniteSet(upTo(x))
      BY <1>1, FS_Subset
    <2> QED
      BY <2>1, FS_CardinalityType
  <1>8. Cardinality(upTo(i)) = Len(P) + 1
    <2>1. CASE Len(P) = 0
      <3>1. \A j \in N : ~(j < i)
        BY <1>1, <1>4, <2>1
      <3>2. upTo(i) = {i}
        BY <1>1, <1>4, <3>1
      <3>3. Cardinality({i}) = 1
        BY FS_Singleton
      <3>4. Cardinality(upTo(i)) = 1
        BY <3>2, <3>3
      <3> HIDE DEF upTo, P
      <3> QED
        BY <2>1, <3>4
    <2>2. CASE Len(P) # 0
      <3> DEFINE l == P[Len(P)].idx
      <3>1. Len(P) \in DOMAIN P
        BY <1>1, <2>2
      <3>2. l \in N /\ Cardinality(upTo(l)) = Len(P) /\ l \in Nat /\ i \in Nat
        BY <1>1, <1>4, <1>5, <3>1
      <3>3. l < i
        <4>1. ~(i <= l)
          BY <1>4, <1>5, <3>1
        <4> HIDE DEF l
        <4> QED
          BY <3>2, <4>1
      <3>4. ASSUME NEW j \in N, j < i PROVE j <= l
        <4>1. PICK n \in DOMAIN P : P[n].idx = j
          BY <1>4, <3>4
        <4>2. Cardinality(upTo(j)) = n /\ n <= Len(P) /\ n \in Nat /\ j \in Nat
          BY <1>1, <1>5, <3>4, <4>1
        <4>3. ~(l < j)
          <5>1. l < j => Cardinality(upTo(l)) < Cardinality(upTo(j))
            BY <1>6, <3>2, <3>4
          <5> HIDE DEF upTo, l
          <5> QED
            BY <1>1, <3>2, <4>2, <5>1
        <4> HIDE DEF l
        <4> QED
          BY <3>2, <4>2, <4>3
      <3> HIDE DEF l
      <3>5. upTo(i) = upTo(l) \cup {i} /\ i \notin upTo(l)
        <4>1. \A j \in N : j \in Nat
          BY <1>1
        <4> HIDE DEF N
        <4>2. \A j \in N : j <= i <=> j <= l \/ j = i
          BY <3>2, <3>3, <3>4, <4>1
        <4>3. i \in N /\ ~(i <= l)
          BY <1>4, <3>2, <3>3
        <4> QED
          BY <4>2, <4>3
      <3>6. IsFiniteSet(upTo(l))
        BY <1>7, <3>2
      <3> HIDE DEF upTo
      <3> QED
        BY <3>2, <3>5, <3>6, FS_AddElement
    <2> QED
      BY <2>1, <2>2
  <1> QED
    BY <1>4, <1>8

\* Pass 5.
LEMMA GeneratePropertiesKeeps ==
    ASSUME AgentInv, NEW t \in Task, GenerateProperties(t) PROVE AgentInv'
  <1>1. TypeOK /\ TaskInv(t) /\ OnlyOf(t) /\ GeneralizationsPointBack /\ PassInv(t) /\ PropsInv(t)
    BY StepIsOwn DEF AgentInv, TaskInv, execute
  <1>2. PICK i \in InFlight(Pending(t)) : \E name \in GeneratedName[verified[t][i].name] :
            props' = [props EXCEPT ![t] = Append(@, [idx |-> i, name |-> name])]
    BY DEF GenerateProperties
  <1>3. PICK name \in GeneratedName[verified[t][i].name] :
            props' = [props EXCEPT ![t] = Append(@, [idx |-> i, name |-> name])]
    BY <1>2
  <1>4. pc[t] = "properties"
        /\ UNCHANGED <<label, pc, concepts, similar, verified, created, pos, registry, links, node, generalizes>>
    BY DEF GenerateProperties, contextVars, graphVars
  <1>5. /\ Grows(t) /\ Id' = Id /\ VerifiedConcept' = VerifiedConcept /\ CreatedNode' = CreatedNode
    BY <1>1, <1>4, SameNodes
  <1>6. /\ i \in Need(t)
        /\ \A j \in Need(t) : j < i => \E n \in DOMAIN props[t] : props[t][n].idx = j
        /\ Cardinality({j \in Need(t) : j <= i}) = Len(props[t]) + 1
    BY <1>1, NextRank
  <1>7. i \in 1..Len(verified[t]) /\ i \in 1..MaxConcepts /\ name \in Name
    <2>1. i \in 1..Len(verified[t]) /\ Len(verified[t]) \in Nat
      BY <1>1, <1>6, Needed
    <2>2. Len(verified[t]) <= Len(concepts[t]) /\ Len(concepts[t]) <= MaxConcepts
          /\ Len(concepts[t]) \in Nat
      BY <1>1, TypesOf, InSequence DEF PassInv
    <2>3. verified[t][i] \in VerifiedConcept
      BY <1>1, <2>1, TypesOf, InSequence
    <2>4. verified[t][i].name \in Name
      BY <2>3 DEF VerifiedConcept
    <2>5. name \in Name
      BY <2>4, AgentAssumption
    <2> QED
      BY <2>1, <2>2, <2>5, AgentAssumption
  <1> DEFINE p == [idx |-> i, name |-> name]
             P == props[t]
             Q == props'[t]
  <1>8. p \in PropRecord /\ p.idx = i
    BY <1>7 DEF PropRecord
  <1>9. P \in Seq(PropRecord) /\ Q = Append(P, p)
    BY <1>1, <1>3, TypesOf DEF TypeOK
  <1>10. /\ Q \in Seq(PropRecord) /\ Len(P) \in Nat
         /\ DOMAIN P = 1..Len(P) /\ DOMAIN Q = 1..(Len(P) + 1) /\ Q[Len(P) + 1] = p
         /\ \A m \in DOMAIN P : Q[m] = P[m]
    <2> HIDE DEF p, P, Q
    <2> QED
      BY <1>8, <1>9
  <1>11. TypeOK'
    <2>1. generalizes' \subseteq Id' \X Id' /\ concepts[t] \in ConceptList
      BY <1>1, <1>4, <1>5 DEF TypeOK
    <2> QED
      BY <1>1, <1>4, <1>5, <1>10, <2>1, TypesOf, TypesAfter
  <1>12. PassInv(t)' /\ CreatedInv(t)' /\ EntryInv(t)'
    BY <1>1, <1>4 DEF PassInv, CreatedInv, EntryInv
  <1>13. PropsInv(t)'
    <2>1. Need(t)' = Need(t)
      BY <1>4 DEF Need
    <2>2. ASSUME NEW m \in DOMAIN Q
          PROVE  Q[m].idx \in Need(t) /\ Cardinality({j \in Need(t) : j <= Q[m].idx}) = m
      <3>1. CASE m \in DOMAIN P
        BY <1>1, <1>10, <3>1 DEF PropsInv
      <3>2. CASE m = Len(P) + 1
        <4> HIDE DEF Q, p
        <4> QED
          BY <1>6, <1>8, <1>10, <3>2
      <3> QED
        BY <1>10, <3>1, <3>2
    <2>3. ASSUME NEW j \in Need(t), NEW m \in DOMAIN Q, j <= Q[m].idx
          PROVE  \E n \in DOMAIN Q : Q[n].idx = j
      <3>1. DOMAIN P \subseteq DOMAIN Q /\ Len(P) + 1 \in DOMAIN Q
        BY <1>10
      <3>2. CASE m \in DOMAIN P
        <4>1. \E n \in DOMAIN P : P[n].idx = j
          BY <1>1, <1>10, <2>3, <3>2 DEF PropsInv
        <4> QED
          BY <1>10, <3>1, <4>1
      <3>3. CASE m = Len(P) + 1
        <4>1. j <= i /\ j \in Nat /\ i \in Nat
          BY <1>1, <1>6, <1>8, <1>10, <2>3, <3>3, Needed
        <4>2. CASE j = i
          BY <1>8, <1>10, <3>1, <4>2
        <4>3. CASE j < i
          <5>1. \E n \in DOMAIN P : P[n].idx = j
            BY <1>6, <4>3
          <5> QED
            BY <1>10, <3>1, <5>1
        <4> QED
          BY <4>1, <4>2, <4>3
      <3> QED
        BY <1>10, <3>2, <3>3
    <2> QED
      BY <1>4, <2>1, <2>2, <2>3 DEF PropsInv
  <1>14. NodeInv(t)'
    BY <1>1, <1>4, <1>5, NodeInvGrows DEF TaskInv
  <1>15. CountInv(t)'
    BY <1>1, <1>4, SameCount DEF TaskInv, Entries, Reused
  <1>16. GeneralizationsPointBack'
    BY <1>1, <1>4, SameGeneralizations
  <1> QED
    BY <1>1, <1>5, <1>11, <1>12, <1>13, <1>14, <1>15, <1>16, AgentKeeps DEF TaskInv

\* Pass 7, a concept that generalizes nothing.
LEMMA SkipGeneralizationKeeps ==
    ASSUME AgentInv, NEW t \in Task, SkipGeneralization(t) PROVE AgentInv'
  <1>1. TypeOK /\ TaskInv(t) /\ OnlyOf(t) /\ GeneralizationsPointBack
    BY StepIsOwn DEF AgentInv, execute
  <1>2. pc[t] = "generalize" /\ pos[t] <= Len(verified[t]) /\ pos'[t] = pos[t] + 1
        /\ UNCHANGED <<label, pc, concepts, similar, verified, props, created, registry, links, node, generalizes>>
    BY <1>1 DEF SkipGeneralization, contextVars, graphVars, TypeOK
  <1>3. /\ Grows(t) /\ Id' = Id /\ VerifiedConcept' = VerifiedConcept /\ CreatedNode' = CreatedNode
    BY <1>1, <1>2, SameNodes
  <1>4. pos'[t] \in 1..(MaxConcepts + 1)
    <2>1. Len(verified[t]) <= Len(concepts[t])
      BY <1>1 DEF TaskInv, PassInv
    <2>2. /\ Len(concepts[t]) <= MaxConcepts /\ Len(concepts[t]) \in Nat /\ Len(verified[t]) \in Nat
          /\ pos[t] \in 1..(MaxConcepts + 1)
      BY <1>1, TypesOf, InSequence
    <2> QED
      BY <1>2, <2>1, <2>2, AgentAssumption
  <1>5. TypeOK'
    <2>1. generalizes' \subseteq Id' \X Id' /\ concepts[t] \in ConceptList
      BY <1>1, <1>2, <1>3 DEF TypeOK
    <2> QED
      BY <1>1, <1>2, <1>3, <1>4, <2>1, TypesOf, TypesAfter
  <1>6. TaskInv(t)'
    BY <1>1, <1>2, <1>3, OtherTask DEF TaskState
  <1>7. GeneralizationsPointBack'
    BY <1>1, <1>2, SameGeneralizations
  <1> QED
    BY <1>1, <1>3, <1>5, <1>6, <1>7, AgentKeeps

\* The end of a pass that registers nothing.
LEMMA NextPassKeeps ==
    ASSUME AgentInv, NEW t \in Task, NextPass(t) PROVE AgentInv'
  <1>1. TypeOK /\ TaskInv(t) /\ OnlyOf(t) /\ GeneralizationsPointBack
    BY StepIsOwn DEF AgentInv, execute
  <1>2. UNCHANGED <<label, concepts, similar, verified, props, created, pos, registry, links, node, generalizes>>
    BY DEF NextPass, contextVars, graphVars
  <1>3. \/ pc[t] = "search" /\ Len(similar[t]) = Len(concepts[t]) /\ pc'[t] = "verify"
        \/ pc[t] = "verify" /\ Len(verified[t]) = Len(concepts[t]) /\ pc'[t] = "targets"
        \/ pc[t] = "properties" /\ Pending(t) = {} /\ pc'[t] = "create"
        \/ pc[t] = "create" /\ Len(created[t]) = Len(verified[t]) /\ pc'[t] = "generalize"
    BY <1>1 DEF NextPass, PassDone, TypeOK
  <1>4. /\ Grows(t) /\ Id' = Id /\ VerifiedConcept' = VerifiedConcept /\ CreatedNode' = CreatedNode
    BY <1>1, <1>2, SameNodes
  <1>5. TypeOK'
    <2>1. generalizes' \subseteq Id' \X Id' /\ concepts[t] \in ConceptList
      BY <1>1, <1>2, <1>4 DEF TypeOK
    <2>2. pc'[t] \in Pass
      BY <1>3 DEF Pass
    <2> QED
      BY <1>1, <1>2, <1>4, <2>1, <2>2, TypesOf, TypesAfter
  <1>6. Len(created[t]) \in Nat /\ Len(verified[t]) \in Nat /\ DOMAIN verified[t] = 1..Len(verified[t])
        /\ Len(<< >>) = 0 /\ DOMAIN << >> = {}
    BY <1>1, TypesOf, InSequence
  <1>7. PassInv(t)'
    BY <1>1, <1>2, <1>3, <1>6 DEF TaskInv, PassInv
  <1>8. PropsInv(t)'
    BY <1>1, <1>2, <1>3 DEF TaskInv, PropsInv, Need, Pending
  <1>9. CreatedInv(t)' /\ EntryInv(t)'
    <2>1. CASE pc[t] = "create"
      BY <1>1, <1>2, <1>3, <1>4, <2>1 DEF TaskInv, CreatedInv, EntryInv, Need
    <2>2. CASE pc[t] # "create"
      BY <1>1, <1>2, <1>3, <1>6, <2>2 DEF TaskInv, PassInv, CreatedInv, EntryInv
    <2> QED
      BY <2>1, <2>2
  <1>10. NodeInv(t)'
    BY <1>1, <1>2, <1>4, NodeInvGrows DEF TaskInv
  <1>11. CountInv(t)'
    <2>1. Reused(t)' = Reused(t)
      <3>1. CASE pc[t] \in {"search", "verify"}
        BY <1>2, <1>3, <3>1 DEF Reused
      <3>2. CASE pc[t] = "properties"
        <4>1. created[t] = << >>
          BY <1>1, <3>2 DEF TaskInv, PassInv
        <4>2. Reused(t) = {}
          BY <3>2 DEF Reused
        <4>3. Reused(t)' = {}
          BY <1>2, <1>3, <1>6, <3>2, <4>1 DEF Reused
        <4> QED
          BY <4>2, <4>3
      <3>3. CASE pc[t] = "create"
        BY <1>2, <1>3, <3>3 DEF Reused
      <3> QED
        BY <1>3, <3>1, <3>2, <3>3
    <2> QED
      BY <1>1, <1>2, <1>3, <2>1, SameCount DEF TaskInv, Entries
  <1>12. GeneralizationsPointBack'
    BY <1>1, <1>2, SameGeneralizations
  <1> QED
    BY <1>1, <1>4, <1>5, <1>7, <1>8, <1>9, <1>10, <1>11, <1>12, AgentKeeps DEF TaskInv

\* Registering moves the created nodes to the task's entries in the context.
LEMMA Registered ==
    ASSUME TypeOK, NEW t \in Task, Register(t)
    PROVE  /\ created'[t] = << >> /\ registry'[t] = Entries(t)
           /\ Entries(t) \in Seq(CreatedNode) /\ Len(Entries(t)) = Len(registry[t]) + Len(created[t])
           /\ Entries(t)' = Entries(t)
  <1>1. created'[t] = << >> /\ registry'[t] = Entries(t)
    BY DEF Register, TypeOK, Entries
  <1>2. created[t] \in Seq(CreatedNode) /\ registry[t] \in Seq(CreatedNode)
    BY TypesOf
  <1>3. Entries(t) \in Seq(CreatedNode) /\ Len(Entries(t)) = Len(registry[t]) + Len(created[t])
    BY <1>2 DEF Entries
  <1> DEFINE e == Entries(t)
  <1>4. e \in Seq(CreatedNode) => e \o << >> = e
    <2> HIDE DEF e
    <2> QED
      OBVIOUS
  <1>5. Entries(t)' = e \o << >>
    BY <1>1 DEF Entries
  <1> QED
    BY <1>1, <1>3, <1>4, <1>5

LEMMA TargetsDoneKeeps ==
    ASSUME AgentInv, NEW t \in Task, TargetsDone(t) PROVE AgentInv'
  <1>1. TypeOK /\ TaskInv(t) /\ OnlyOf(t) /\ GeneralizationsPointBack
    BY StepIsOwn DEF AgentInv, execute
  <1>2. pc[t] = "targets" /\ Register(t) /\ pc'[t] = "properties"
        /\ UNCHANGED <<label, concepts, similar, verified, props, pos, links, node, generalizes>>
    BY <1>1 DEF TargetsDone, graphVars, TypeOK
  <1>3. /\ Grows(t) /\ Id' = Id /\ VerifiedConcept' = VerifiedConcept /\ CreatedNode' = CreatedNode
    BY <1>1, <1>2, SameNodes
  <1>4. /\ created'[t] = << >> /\ registry'[t] \in Seq(CreatedNode) /\ Entries(t)' = Entries(t)
        /\ Len(<< >>) = 0 /\ DOMAIN << >> = {} /\ << >> \in Seq(CreatedNode)
    <2>1. Len(<< >>) = 0 /\ DOMAIN << >> = {} /\ << >> \in Seq(CreatedNode)
      BY EmptyTyped
    <2> QED
      BY <1>1, <1>2, <2>1, Registered
  <1>5. TypeOK'
    <2>1. generalizes' \subseteq Id' \X Id' /\ concepts[t] \in ConceptList
      BY <1>1, <1>2, <1>3 DEF TypeOK
    <2>2. pc'[t] \in Pass
      BY <1>2 DEF Pass
    <2> QED
      BY <1>1, <1>2, <1>3, <1>4, <2>1, <2>2, TypesOf, TypesAfter
  <1>6. PassInv(t)'
    BY <1>1, <1>2, <1>4 DEF TaskInv, PassInv
  <1>7. PropsInv(t)' /\ CreatedInv(t)' /\ EntryInv(t)'
    BY <1>1, <1>2 DEF TaskInv, PropsInv, CreatedInv, EntryInv, Need
  <1>8. NodeInv(t)'
    BY <1>1, <1>2, <1>3, <1>4 DEF TaskInv, NodeInv
  <1>9. CountInv(t)'
    <2>1. Reused(t) = {} /\ Reused(t)' = {}
      BY <1>2 DEF Reused
    <2> QED
      BY <1>1, <1>2, <1>4, <2>1, SameCount DEF TaskInv
  <1>10. GeneralizationsPointBack'
    BY <1>1, <1>2, SameGeneralizations
  <1> QED
    BY <1>1, <1>3, <1>5, <1>6, <1>7, <1>8, <1>9, <1>10, AgentKeeps DEF TaskInv

LEMMA FinishKeeps ==
    ASSUME AgentInv, NEW t \in Task, Finish(t) PROVE AgentInv'
  <1>1. TypeOK /\ TaskInv(t) /\ OnlyOf(t) /\ GeneralizationsPointBack
    BY StepIsOwn DEF AgentInv, execute
  <1>2. pc[t] = "generalize" /\ Register(t) /\ pc'[t] = "ok"
        /\ UNCHANGED <<label, concepts, similar, verified, props, pos, links, node, generalizes>>
    BY <1>1 DEF Finish, graphVars, TypeOK
  <1>3. /\ Grows(t) /\ Id' = Id /\ VerifiedConcept' = VerifiedConcept /\ CreatedNode' = CreatedNode
    BY <1>1, <1>2, SameNodes
  <1>4. /\ created'[t] = << >> /\ registry'[t] = Entries(t) /\ registry'[t] \in Seq(CreatedNode)
        /\ Entries(t)' = Entries(t) /\ Len(Entries(t)) = Len(registry[t]) + Len(created[t])
        /\ Len(<< >>) = 0 /\ DOMAIN << >> = {} /\ << >> \in Seq(CreatedNode)
    <2>1. Len(<< >>) = 0 /\ DOMAIN << >> = {} /\ << >> \in Seq(CreatedNode)
      BY EmptyTyped
    <2> QED
      BY <1>1, <1>2, <2>1, Registered
  <1>5. /\ Len(created[t]) = Len(verified[t]) /\ Len(verified[t]) = Len(concepts[t])
        /\ Len(created[t]) \in Nat /\ Len(registry[t]) \in Nat
        /\ DOMAIN verified[t] = 1..Len(verified[t])
    BY <1>1, <1>2, TypesOf, InSequence DEF TaskInv, PassInv
  <1>6. TypeOK'
    <2>1. generalizes' \subseteq Id' \X Id' /\ concepts[t] \in ConceptList
      BY <1>1, <1>2, <1>3 DEF TypeOK
    <2>2. pc'[t] \in Pass
      BY <1>2 DEF Pass
    <2> QED
      BY <1>1, <1>2, <1>3, <1>4, <2>1, <2>2, TypesOf, TypesAfter
  <1>7. PassInv(t)'
    BY <1>1, <1>2, <1>4 DEF TaskInv, PassInv
  <1>8. PropsInv(t)' /\ CreatedInv(t)'
    <2>1. CreatedInv(t)'
      BY <1>2 DEF CreatedInv
    <2>2. Need(t)' = Need(t) /\ props'[t] = props[t] /\ pc'[t] # "create"
      BY <1>2 DEF Need
    <2>3. PropsInv(t)
      BY <1>1 DEF TaskInv
    <2>4. PropsInv(t)'
      BY <2>2, <2>3 DEF PropsInv
    <2> QED
      BY <2>1, <2>4
  <1>9. EntryInv(t)'
    <2>1. Len(registry'[t]) = Len(registry[t]) + Len(concepts[t])
      BY <1>4, <1>5
    <2> DEFINE a == Len(registry[t])
               b == Len(concepts[t])
               c == Len(registry'[t])
    <2>2. a \in Nat /\ b \in Nat /\ c = a + b
      BY <1>5, <2>1
    <2> HIDE DEF a, b, c
    <2>3. c >= b
      BY <2>2
    <2> USE DEF b, c
    <2>4. concepts'[t] = concepts[t]
      BY <1>2
    <2> QED
      BY <2>3, <2>4 DEF EntryInv
  <1>10. NodeInv(t)'
    BY <1>1, <1>2, <1>3, <1>4 DEF TaskInv, NodeInv
  <1>11. CountInv(t)'
    <2>1. Reused(t)' = Reused(t)
      BY <1>2, <1>5 DEF Reused
    <2> QED
      BY <1>1, <1>2, <1>4, <2>1, SameCount DEF TaskInv
  <1>12. GeneralizationsPointBack'
    BY <1>1, <1>2, SameGeneralizations
  <1> QED
    BY <1>1, <1>3, <1>6, <1>7, <1>8, <1>9, <1>10, <1>11, <1>12, AgentKeeps DEF TaskInv

\* A task that fails drops its lists; a node may have been created.
LEMMA ErrKeeps ==
    ASSUME AgentInv, NEW t \in Task, OnlyOf(t), Grows(t), ReturnErr(t),
           UNCHANGED <<label, concepts, registry, links, generalizes>>
    PROVE  AgentInv'
  <1>1. TypeOK /\ TaskInv(t) /\ GeneralizationsPointBack
    BY DEF AgentInv
  <1>2. /\ pc'[t] = "err" /\ similar'[t] = << >> /\ verified'[t] = << >> /\ props'[t] = << >>
        /\ created'[t] = << >> /\ pos'[t] = 1
    BY <1>1 DEF ReturnErr, TypeOK
  <1>3. Len(<< >>) = 0 /\ DOMAIN << >> = {} /\ \A S : << >> \in Seq(S)
    BY EmptyTyped
  <1>4. Id \subseteq Id' /\ Id \X Id \subseteq Id' \X Id'
    BY <1>1, IdGrows
  <1>5. TypeOK'
    <2>1. generalizes' \subseteq Id' \X Id' /\ concepts[t] \in ConceptList
      BY <1>1, <1>4 DEF TypeOK
    <2>2. pc'[t] \in Pass /\ pos'[t] \in 1..(MaxConcepts + 1)
      BY <1>2, AgentAssumption DEF Pass
    <2>3. registry'[t] \in Seq(CreatedNode') /\ links'[t] \in SUBSET (Id' \X Id')
      BY <1>1, TypesGrow
    <2>4. /\ similar'[t] \in Seq(SUBSET Id') /\ verified'[t] \in Seq(VerifiedConcept')
          /\ props'[t] \in Seq(PropRecord) /\ created'[t] \in Seq(CreatedNode')
      BY <1>2, <1>3
    <2> QED
      BY <1>1, <2>1, <2>2, <2>3, <2>4, TypesAfter
  <1>6. PassInv(t)'
    <2>1. Len(concepts[t]) \in Nat
      BY <1>1, TypesOf, InSequence
    <2> QED
      BY <1>2, <1>3, <2>1 DEF PassInv
  <1>7. PropsInv(t)' /\ CreatedInv(t)' /\ EntryInv(t)' /\ CountInv(t)'
    BY <1>2, <1>3 DEF PropsInv, CreatedInv, EntryInv, CountInv
  <1>8. NodeInv(t)'
    <2>1. \A link \in links[t] : link \in Id \X Id
      BY <1>1, TypesOf
    <2>2. \A link \in links[t] : link \in generalizes /\ node[link[1]].label = label[t]
                                 /\ node[link[2]].label = label[t]
      BY <1>1 DEF TaskInv, NodeInv
    <2>3. \A id \in Id : node'[id] = node[id]
      BY DEF Grows
    <2> QED
      BY <1>2, <1>3, <2>1, <2>2, <2>3 DEF NodeInv
  <1>9. GeneralizationsPointBack'
    BY <1>1, SameGeneralizations
  <1> QED
    BY <1>1, <1>5, <1>6, <1>7, <1>8, <1>9, AgentKeeps DEF TaskInv

LEMMA SourceNotFoundKeeps ==
    ASSUME AgentInv, NEW t \in Task, SourceNotFound(t) PROVE AgentInv'
  <1>1. TypeOK /\ OnlyOf(t)
    BY StepIsOwn DEF AgentInv, execute
  <1>2. ReturnErr(t) /\ UNCHANGED <<label, concepts, registry, links, node, generalizes>>
    BY DEF SourceNotFound, contextVars, graphVars
  <1>3. Grows(t)
    BY <1>1, <1>2, SameNodes
  <1> QED
    BY <1>1, <1>2, <1>3, ErrKeeps

-----------------------------------------------------------------------------
(* The generalizations. *)

\* The node a concept has been given is newer than the general node, unless a
\* list names a concept twice.
LEMMA SourceIsNew ==
    ASSUME TypeOK, NEW t \in Task, PassInv(t), CreatedInv(t), AtGeneralization(t),
           NoneTwice(concepts[t]), NEW k \in DOMAIN created[t],
           created[t][k].name = verified[t][pos[t]].name
    PROVE  verified[t][pos[t]].id < created[t][k].id
  <1> DEFINE p == pos[t]
  <1>1. pc[t] = "generalize" /\ p <= Len(verified[t]) /\ verified[t][p].action = "create_and_generalize"
    BY DEF AtGeneralization
  <1>2. /\ p \in DOMAIN verified[t] /\ p \in DOMAIN concepts[t] /\ k \in DOMAIN concepts[t]
    <2>1. /\ DOMAIN verified[t] = 1..Len(verified[t]) /\ DOMAIN concepts[t] = 1..Len(concepts[t])
          /\ DOMAIN created[t] = 1..Len(created[t])
          /\ Len(verified[t]) \in Nat /\ pos[t] \in 1..(MaxConcepts + 1)
      BY TypesOf, InSequence
    <2>2. Len(verified[t]) = Len(concepts[t]) /\ Len(created[t]) = Len(verified[t])
      BY <1>1 DEF PassInv
    <2>3. p \in Nat /\ 1 <= p
      BY <2>1, AgentAssumption
    <2> HIDE DEF p
    <2> QED
      BY <1>1, <2>1, <2>2, <2>3
  <1>3. verified[t][p].name = concepts[t][p] /\ p \in Need(t)
    BY <1>1, <1>2 DEF PassInv, Need
  <1>4. ~created[t][k].was_reused
    <2> SUFFICES ASSUME created[t][k].was_reused PROVE FALSE
      OBVIOUS
    <2>1. k \notin Need(t) /\ created[t][k].name = concepts[t][k]
      BY <1>1 DEF CreatedInv
    <2>2. concepts[t][k] = concepts[t][p]
      BY <1>3, <2>1
    <2>3. k = p
      BY <1>2, <2>2 DEF NoneTwice
    <2> QED
      BY <1>3, <2>1, <2>3
  <1> QED
    BY <1>1, <1>2, <1>4 DEF CreatedInv

\* Pass 7, a concept that generalizes to a general node.
LEMMA GeneralizeKeeps ==
    ASSUME AgentInv, NEW t \in Task, Generalize(t) PROVE AgentInv'
  <1>1. TypeOK /\ TaskInv(t) /\ OnlyOf(t) /\ GeneralizationsPointBack
    BY StepIsOwn DEF AgentInv, execute
  <1> DEFINE target == verified[t][pos[t]].id
             name == verified[t][pos[t]].name
  <1>2. PICK source \in Source(t, name) :
            create_relationship(t, IF <<source, target>> \in Id \X Id THEN {<<source, target>>} ELSE {})
    BY DEF Generalize
  <1> DEFINE made == IF <<source, target>> \in Id \X Id THEN {<<source, target>>} ELSE {}
  <1>3. AtGeneralization(t) /\ pc[t] = "generalize" /\ pos[t] <= Len(verified[t]) /\ pos'[t] = pos[t] + 1
        /\ UNCHANGED <<label, pc, concepts, similar, verified, props, created, registry, node>>
    BY <1>1 DEF Generalize, AtGeneralization, TypeOK
  <1>4. /\ generalizes \subseteq generalizes' /\ generalizes' \subseteq generalizes \cup made
        /\ links'[t] \subseteq links[t] \cup made
        /\ \A link \in links'[t] : link \in links[t] \/ link \in generalizes'
    <2>1. CASE generalizes' = generalizes \cup made /\ links' = [links EXCEPT ![t] = @ \cup made]
      <3>1. links'[t] = links[t] \cup made
        BY <1>1, <2>1 DEF TypeOK
      <3> QED
        BY <2>1, <3>1
    <2>2. CASE generalizes' \in {generalizes, generalizes \cup made} /\ UNCHANGED links
      BY <2>2
    <2> QED
      BY <1>2, <2>1, <2>2 DEF create_relationship
  <1>5. PICK k \in DOMAIN created[t] : created[t][k].name = name /\ created[t][k].id = source
    BY <1>2 DEF Source
  <1>6. pos[t] \in DOMAIN verified[t] /\ pos'[t] \in 1..(MaxConcepts + 1)
    <2>1. Len(verified[t]) <= Len(concepts[t])
      BY <1>1 DEF TaskInv, PassInv
    <2>2. /\ Len(concepts[t]) <= MaxConcepts /\ Len(concepts[t]) \in Nat /\ Len(verified[t]) \in Nat
          /\ pos[t] \in 1..(MaxConcepts + 1) /\ DOMAIN verified[t] = 1..Len(verified[t])
      BY <1>1, TypesOf, InSequence
    <2> QED
      BY <1>3, <2>1, <2>2, AgentAssumption
  <1>7. \A g \in made : g = <<source, target>> /\ source \in Id /\ target \in Id
    OBVIOUS
  <1> HIDE DEF made, name
  <1>8. \A g \in made : /\ g \in Id \X Id /\ g[1] = source /\ g[2] = target
                       /\ node[g[1]].label = label[t] /\ node[g[2]].label = label[t]
    <2> TAKE g \in made
    <2>1. g = <<source, target>> /\ source \in Id /\ target \in Id
      BY <1>7
    <2>2. node[source].label = label[t]
      BY <1>1, <1>5, <2>1 DEF TaskInv, NodeInv
    <2>3. node[target].label = label[t]
      BY <1>1, <1>6, <2>1 DEF TaskInv, NodeInv
    <2> HIDE DEF target
    <2> QED
      BY <2>1, <2>2, <2>3
  <1> HIDE DEF target
  <1>9. /\ Grows(t) /\ Id' = Id /\ VerifiedConcept' = VerifiedConcept /\ CreatedNode' = CreatedNode
    BY <1>1, <1>3, <1>4, SameNodes
  <1>10. TypeOK'
    <2>1. generalizes \subseteq Id \X Id /\ concepts[t] \in ConceptList /\ links[t] \subseteq Id \X Id
      BY <1>1 DEF TypeOK
    <2>2. generalizes' \subseteq Id \X Id /\ links'[t] \subseteq Id \X Id
      BY <1>4, <1>8, <2>1
    <2> QED
      BY <1>1, <1>3, <1>6, <1>9, <2>1, <2>2, TypesOf, TypesAfter
  <1>11. PassInv(t)' /\ PropsInv(t)' /\ CreatedInv(t)' /\ EntryInv(t)'
    <2>1. Need(t)' = Need(t) /\ Pending(t)' = Pending(t)
      BY <1>3 DEF Need, Pending
    <2>2. PassInv(t)'
      BY <1>1, <1>3 DEF TaskInv, PassInv
    <2>3. PropsInv(t)'
      BY <1>1, <1>3, <2>1 DEF TaskInv, PropsInv
    <2>4. CreatedInv(t)' /\ EntryInv(t)'
      BY <1>1, <1>3, <1>9, <2>1 DEF TaskInv, CreatedInv, EntryInv
    <2> QED
      BY <2>2, <2>3, <2>4
  <1>12. NodeInv(t)'
    <2>1. \A link \in links'[t] : /\ link \in generalizes'
                                 /\ node[link[1]].label = label[t]
                                 /\ node[link[2]].label = label[t]
      <3> TAKE link \in links'[t]
      <3>1. CASE link \in links[t]
        BY <1>1, <1>4, <3>1 DEF TaskInv, NodeInv
      <3>2. CASE link \notin links[t]
        BY <1>4, <1>8, <3>2
      <3> QED
        BY <3>1, <3>2
    <2> QED
      BY <1>1, <1>3, <1>9, <2>1 DEF TaskInv, NodeInv
  <1>13. CountInv(t)'
    BY <1>1, <1>3, SameCount DEF TaskInv, Entries, Reused
  <1>14. GeneralizationsPointBack'
    <2>1. concepts' = concepts
      BY <1>3
    <2>2. ASSUME \A u \in Task : NoneTwice(concepts[u]), NEW g \in generalizes'
          PROVE  g[1] > g[2]
      <3>1. CASE g \in generalizes
        BY <1>1, <2>2, <3>1 DEF GeneralizationsPointBack
      <3>2. CASE g \in made
        <4>1. target < source
          BY <1>1, <1>3, <1>5, <2>2, SourceIsNew DEF TaskInv, target, name
        <4>2. g[1] = source /\ g[2] = target /\ source \in Id /\ target \in Id
          BY <1>7, <1>8, <3>2
        <4>3. source \in Nat /\ target \in Nat
          BY <4>2 DEF Id
        <4> QED
          BY <4>1, <4>2, <4>3
      <3> QED
        BY <1>4, <3>1, <3>2
    <2> QED
      BY <2>1, <2>2 DEF GeneralizationsPointBack, NoneTwice
  <1> QED
    BY <1>1, <1>9, <1>10, <1>11, <1>12, <1>13, <1>14, AgentKeeps DEF TaskInv

-----------------------------------------------------------------------------
(* Steps that add an entry, with or without a node. *)

NewEntry(name, id) == [name |-> name, id |-> id, was_reused |-> FALSE]
ReusedEntry(name, id) == [name |-> name, id |-> id, was_reused |-> TRUE]

LEMMA NewEntryFields ==
    ASSUME NEW name \in Name, NEW ids, NEW id \in ids, NEW e, e = NewEntry(name, id)
    PROVE  /\ e \in [name : Name, id : ids, was_reused : BOOLEAN]
           /\ e.name = name /\ e.id = id /\ ~e.was_reused
  <1>1. e \in [name : Name, id : ids, was_reused : BOOLEAN]
    BY DEF NewEntry
  <1>2. e.name = name
    BY DEF NewEntry
  <1>3. e.id = id
    BY DEF NewEntry
  <1>4. ~e.was_reused
    BY DEF NewEntry
  <1> QED
    BY <1>1, <1>2, <1>3, <1>4

LEMMA ReusedEntryTyped ==
    ASSUME NEW name \in Name, NEW ids, NEW id \in ids
    PROVE  ReusedEntry(name, id) \in [name : Name, id : ids, was_reused : BOOLEAN]
  BY DEF ReusedEntry

\* The update of a decision whose general node has been created.
Resolved(v, id) == [v EXCEPT !.id = id, !.needs_creation = FALSE]

LEMMA ResolvedFields ==
    ASSUME NEW ids, AnyId \subseteq ids, NEW v \in VerifiedConcept, NEW id \in ids,
           NEW w, w = Resolved(v, id)
    PROVE  /\ w \in [name : Name, action : {"create_new", "use_existing", "create_and_generalize"},
                     id : ids, general : Name \cup {NoName}, needs_creation : BOOLEAN]
           /\ w.name = v.name /\ w.id = id /\ w.action = v.action /\ ~w.needs_creation
  <1>1. w \in [name : Name, action : {"create_new", "use_existing", "create_and_generalize"},
               id : ids, general : Name \cup {NoName}, needs_creation : BOOLEAN]
    BY DEF Resolved, VerifiedConcept
  <1>2. w.name = v.name
    BY DEF Resolved, VerifiedConcept
  <1>3. w.id = id
    BY DEF Resolved, VerifiedConcept
  <1>4. w.action = v.action
    BY DEF Resolved, VerifiedConcept
  <1>5. ~w.needs_creation
    BY DEF Resolved, VerifiedConcept
  <1> QED
    BY <1>1, <1>2, <1>3, <1>4, <1>5

LEMMA AppendToSecond ==
    ASSUME NEW S, NEW r \in Seq(S), NEW s \in Seq(S), NEW e \in S
    PROVE  /\ r \o Append(s, e) = Append(r \o s, e)
           /\ r \o s \in Seq(S) /\ Len(r \o s) = Len(r) + Len(s)
  OBVIOUS

LEMMA AppendFacts ==
    ASSUME NEW S, NEW s \in Seq(S), NEW e \in S
    PROVE  /\ Append(s, e) \in Seq(S) /\ Len(Append(s, e)) = Len(s) + 1 /\ Len(s) \in Nat
           /\ DOMAIN Append(s, e) = 1..(Len(s) + 1) /\ DOMAIN s = 1..Len(s)
           /\ DOMAIN Append(s, e) = DOMAIN s \cup {Len(s) + 1}
           /\ Append(s, e)[Len(s) + 1] = e
           /\ \A k \in DOMAIN s : Append(s, e)[k] = s[k]
  OBVIOUS

LEMMA NewIdsAppend ==
    ASSUME NEW S, NEW s \in Seq(S), NEW e \in S
    PROVE  /\ e.was_reused => NewIds(Append(s, e)) = NewIds(s)
           /\ ~e.was_reused => NewIds(Append(s, e)) = NewIds(s) \cup {e.id}
  <1> DEFINE u == Append(s, e)
             n == Len(s) + 1
  <1>1. /\ DOMAIN u = DOMAIN s \cup {n} /\ n \notin DOMAIN s
        /\ u[n] = e /\ \A k \in DOMAIN s : u[k] = s[k]
    BY AppendFacts
  <1> HIDE DEF u, n
  <1>2. e.was_reused => NewIds(u) = NewIds(s)
    BY <1>1 DEF NewIds
  <1>3. ~e.was_reused => NewIds(u) = NewIds(s) \cup {e.id}
    BY <1>1 DEF NewIds
  <1> QED
    BY <1>2, <1>3 DEF u

\* A new node with its entry.
LEMMA CountAdded ==
    ASSUME TypeOK, NEW t \in Task, CountInv(t), pc[t] # "err", Grows(t),
           NEW name \in Name, NEW of \in Name, NewNode(t, name, of),
           registry'[t] = registry[t], NEW e \in CreatedNode', ~e.was_reused, e.id = Len(node) + 1,
           created'[t] = Append(created[t], e), Reused(t)' = Reused(t)
    PROVE  CountInv(t)'
  <1> DEFINE n == Len(node) + 1
             s == Entries(t)
             s2 == Entries(t)'
  <1>1. /\ Id' = Id \cup {n} /\ n \notin Id /\ \A id \in Id : node'[id] = node[id]
        /\ node'[n].by = t /\ Len(node) \in Nat
    <2>1. Id' = Id \cup {n} /\ n \notin Id /\ \A id \in Id : node'[id] = node[id]
      BY NodeAdded
    <2>2. \A id \in 1..Len(node') : id \notin Id => node'[id].by = t
      BY DEF Grows
    <2>3. Len(node') = n /\ Len(node) \in Nat
      BY NodeAdded, TypesOf
    <2>4. n \in 1..Len(node')
      BY <2>3
    <2> QED
      BY <2>1, <2>2, <2>3, <2>4
  <1>2. NodesOf(t)' = NodesOf(t) \cup {n}
    <2> HIDE DEF n
    <2> QED
      BY <1>1 DEF NodesOf
  <1>3. registry[t] \in Seq(CreatedNode') /\ created[t] \in Seq(CreatedNode')
    BY TypesGrow
  <1>4. s2 = Append(s, e) /\ s \in Seq(CreatedNode')
    <2> DEFINE S == CreatedNode'
               r == registry[t]
               c == created[t]
    <2>1. s = r \o c
      BY DEF Entries
    <2>2. s2 = r \o Append(c, e)
      BY DEF Entries
    <2>3. r \in Seq(S) /\ c \in Seq(S) /\ e \in S
      BY <1>3
    <2> HIDE DEF s, s2, S, r, c
    <2>4. r \o Append(c, e) = Append(r \o c, e) /\ r \o c \in Seq(S)
      BY <2>3, AppendToSecond
    <2> QED
      BY <2>1, <2>2, <2>4 DEF S
  <1> HIDE DEF s, s2
  <1>5. NewIds(s2) = NewIds(s) \cup {n} /\ Len(s2) = Len(s) + 1 /\ Len(s) \in Nat
    BY <1>4, NewIdsAppend, AppendFacts
  <1>6. NodesOf(t) = NewIds(s) /\ Len(s) = Cardinality(NewIds(s)) + Cardinality(Reused(t))
    BY DEF CountInv, s
  <1>7. IsFiniteSet(NewIds(s)) /\ n \notin NewIds(s)
    <2>1. IsFiniteSet(1..Len(node))
      BY <1>1, PositionsFinite
    <2>2. NodesOf(t) \subseteq Id /\ IsFiniteSet(Id)
      BY <2>1 DEF NodesOf, Id
    <2> HIDE DEF n
    <2> QED
      BY <1>1, <1>6, <2>2, FS_Subset
  <1>8. IsFiniteSet(Reused(t))
    <2>1. DOMAIN verified[t] = 1..Len(verified[t]) /\ Len(verified[t]) \in Nat
      BY TypesOf, InSequence
    <2>2. IsFiniteSet(1..Len(verified[t]))
      BY <2>1, PositionsFinite
    <2>3. Reused(t) \subseteq 1..Len(verified[t])
      BY <2>1 DEF Reused
    <2> QED
      BY <2>2, <2>3, FS_Subset
  <1> HIDE DEF n
  <1>9. /\ Cardinality(NewIds(s) \cup {n}) = Cardinality(NewIds(s)) + 1
        /\ Cardinality(NewIds(s)) \in Nat /\ Cardinality(Reused(t)) \in Nat
    BY <1>7, <1>8, FS_AddElement, FS_CardinalityType
  <1>10. Len(s2) = Cardinality(NewIds(s2)) + Cardinality(Reused(t))
    BY <1>5, <1>6, <1>9
  <1>11. NodesOf(t)' = NewIds(s2)
    BY <1>2, <1>5, <1>6
  <1> QED
    BY <1>10, <1>11 DEF CountInv, NewIds, s2

\* What a task holds of the graph when it gets one entry more.
LEMMA NodeInvAdds ==
    ASSUME TypeOK, NEW t \in Task, Grows(t), NodeInv(t), NEW e \in CreatedNode',
           created'[t] = Append(created[t], e),
           e.id \in Id' => node'[e.id].label = label[t],
           UNCHANGED <<label[t], similar[t], links[t]>>,
           \A j \in DOMAIN verified'[t] :
              \/ j \in DOMAIN verified[t] /\ verified'[t][j] = verified[t][j]
              \/ verified'[t][j].id \in Id' => node'[verified'[t][j].id].label = label[t]
    PROVE  NodeInv(t)'
  <1>1. /\ Id \subseteq Id' /\ Id' \cap AnyId = Id
        /\ \A id \in Id : node'[id] = node[id]
        /\ generalizes \subseteq generalizes'
    BY IdGrows DEF Grows
  <1>2. \A i \in DOMAIN similar[t] : similar[t][i] \in SUBSET Id
    BY TypesOf, InSequence
  <1>3. \A i \in DOMAIN verified[t] : verified[t][i].id \in AnyId
    <2>1. \A i \in DOMAIN verified[t] : verified[t][i] \in VerifiedConcept
      BY TypesOf, InSequence
    <2> QED
      BY <2>1 DEF VerifiedConcept
  <1>4. \A k \in DOMAIN created[t] : created[t][k].id \in AnyId
    <2>1. \A k \in DOMAIN created[t] : created[t][k] \in CreatedNode
      BY TypesOf, InSequence
    <2> QED
      BY <2>1 DEF CreatedNode
  <1>5. \A link \in links[t] : link \in Id \X Id
    BY TypesOf
  <1>6. \A i \in DOMAIN similar'[t] : \A id \in similar'[t][i] : node'[id].label = label'[t]
    BY <1>1, <1>2 DEF NodeInv
  <1>7. \A j \in DOMAIN verified'[t] :
           verified'[t][j].id \in Id' => node'[verified'[t][j].id].label = label'[t]
    BY <1>1, <1>3 DEF NodeInv
  <1>8. \A k \in DOMAIN created'[t] :
           created'[t][k].id \in Id' => node'[created'[t][k].id].label = label'[t]
    <2>1. created[t] \in Seq(CreatedNode')
      BY TypesGrow
    <2>2. \A k \in DOMAIN created'[t] : \/ k \in DOMAIN created[t] /\ created'[t][k] = created[t][k]
                                       \/ created'[t][k] = e
      BY <2>1, AppendFacts
    <2> QED
      BY <1>1, <1>4, <2>2 DEF NodeInv
  <1>9. \A link \in links'[t] : /\ link \in generalizes'
                                /\ node'[link[1]].label = label'[t]
                                /\ node'[link[2]].label = label'[t]
    BY <1>1, <1>5 DEF NodeInv
  <1> QED
    BY <1>6, <1>7, <1>8, <1>9 DEF NodeInv

LEMMA AddedGrows ==
    ASSUME TypeOK, NEW t \in Task, NEW name \in Name, NEW of \in Name, NewNode(t, name, of),
           generalizes' = generalizes
    PROVE  /\ Grows(t) /\ Len(node) + 1 \in AnyId' /\ Len(node) + 1 \notin Id
           /\ node'[Len(node) + 1].label = label[t] /\ node'[Len(node) + 1].of = of
           /\ Len(node) + 1 \in Id' /\ \A id \in AnyId : id < Len(node) + 1
  <1> DEFINE n == Len(node) + 1
  <1>1. /\ node' \in Seq(NodeRecord) /\ Len(node') = n
        /\ \A id \in Id : node'[id] = node[id]
        /\ node'[n] = [label |-> label[t], name |-> name, of |-> of, by |-> t]
        /\ Id' = Id \cup {n} /\ n \notin Id
        /\ \A id \in 1..Len(node') : id \notin Id => node'[id].by = t
    BY NodeAdded
  <1>2. Len(node) \in Nat
    BY TypesOf
  <1>3. Grows(t)
    BY <1>1, <1>2 DEF Grows
  <1>4. node'[n].label = label[t] /\ node'[n].of = of
    <2> HIDE DEF n
    <2> QED
      BY <1>1
  <1>5. n \in Id' /\ n \in AnyId'
    BY <1>1 DEF AnyId
  <1>6. \A id \in AnyId : id < n
    BY <1>2 DEF AnyId, Id, NotAnId
  <1> QED
    BY <1>1, <1>3, <1>4, <1>5, <1>6

\* The general node of a missing target has a name.
LEMMA TargetNamed ==
    ASSUME TypeOK, NEW t \in Task, PassInv(t), NEW i \in InFlight(MissingTargets(t))
    PROVE  /\ i \in DOMAIN verified[t] /\ verified[t][i] \in VerifiedConcept
           /\ verified[t][i].general \in Name
           /\ GeneratedName[verified[t][i].general] \subseteq Name
  <1>1. i \in DOMAIN verified[t] /\ verified[t][i].needs_creation
    BY DEF InFlight, MissingTargets
  <1>2. verified[t][i] \in VerifiedConcept
    BY <1>1, TypesOf, InSequence
  <1>3. verified[t][i].general \in Name
    BY <1>1 DEF PassInv
  <1>4. GeneratedName[verified[t][i].general] \subseteq Name
    BY <1>3, AgentAssumption
  <1> QED
    BY <1>1, <1>2, <1>3, <1>4

\* Pass 4.
LEMMA CreateTargetKeeps ==
    ASSUME AgentInv, NEW t \in Task, CreateTarget(t) PROVE AgentInv'
  <1> DEFINE n == Len(node) + 1
  <1>1. TypeOK /\ TaskInv(t) /\ OnlyOf(t) /\ GeneralizationsPointBack /\ PassInv(t)
    BY StepIsOwn DEF AgentInv, TaskInv, execute
  <1>2. PICK i \in InFlight(MissingTargets(t)) :
            /\ \E name \in GeneratedName[verified[t][i].general] :
                  NewNode(t, name, verified[t][i].general)
            /\ verified' = [verified EXCEPT ![t][i].id = n, ![t][i].needs_creation = FALSE]
            /\ created' = [created EXCEPT ![t] =
                    Append(@, NewEntry(verified[t][i].general, n))]
    BY DEF CreateTarget, NewEntry
  <1> DEFINE general == verified[t][i].general
             v == verified[t]
             w == Resolved(verified[t][i], n)
             e == NewEntry(general, n)
  <1>3. PICK name \in GeneratedName[general] : NewNode(t, name, general)
    BY <1>2
  <1>4. pc[t] = "targets"
        /\ UNCHANGED <<label, pc, concepts, similar, props, pos, registry, links, generalizes>>
    BY DEF CreateTarget, contextVars
  <1>5. i \in DOMAIN v /\ v[i] \in VerifiedConcept /\ general \in Name /\ name \in Name
    BY <1>1, TargetNamed
  <1>6. /\ Grows(t) /\ n \in AnyId' /\ n \notin Id /\ n \in Id'
        /\ node'[n].label = label[t] /\ AnyId \subseteq AnyId'
        /\ Id \subseteq Id' /\ Id \X Id \subseteq Id' \X Id'
    <2>1. Grows(t) /\ n \in AnyId' /\ n \notin Id /\ n \in Id' /\ node'[n].label = label[t]
      BY <1>1, <1>3, <1>4, <1>5, AddedGrows
    <2> QED
      BY <1>1, <2>1, IdGrows
  <1>7. w \in VerifiedConcept' /\ w.name = v[i].name /\ w.id = n /\ ~w.needs_creation
    <2> HIDE DEF n, v
    <2>1. w \in [name : Name, action : {"create_new", "use_existing", "create_and_generalize"},
                     id : AnyId', general : Name \cup {NoName}, needs_creation : BOOLEAN]
      BY <1>5, <1>6, ResolvedFields DEF v
    <2>2. w.name = v[i].name /\ w.id = n /\ ~w.needs_creation
      BY <1>5, <1>6, ResolvedFields, SMTT(30) DEF v
    <2> QED
      BY <2>1, <2>2 DEF VerifiedConcept
  <1>8. verified'[t] = [v EXCEPT ![i] = w]
    <2>1. verified'[t] = [v EXCEPT ![i].id = n, ![i].needs_creation = FALSE]
      BY <1>1, <1>2 DEF TypeOK
    <2> QED
      BY <1>5, <2>1 DEF Resolved
  <1>9. /\ verified'[t] \in Seq(VerifiedConcept') /\ Len(verified'[t]) = Len(v)
        /\ DOMAIN verified'[t] = DOMAIN v /\ Len(v) \in Nat
        /\ \A j \in DOMAIN v : IF j = i THEN verified'[t][j] = w ELSE verified'[t][j] = v[j]
    <2>1. v \in Seq(VerifiedConcept')
      BY <1>1, <1>6, TypesGrow
    <2> HIDE DEF v, w
    <2> QED
      BY <1>5, <1>7, <1>8, <2>1
  <1>10. /\ e \in CreatedNode' /\ e.id = n /\ ~e.was_reused
         /\ created'[t] = Append(created[t], e) /\ created'[t] \in Seq(CreatedNode')
    <2>1. e \in [name : Name, id : AnyId', was_reused : BOOLEAN] /\ e.id = n /\ ~e.was_reused
      <3> HIDE DEF n, general
      <3> QED
        BY <1>5, <1>6, NewEntryFields
    <2>2. e \in CreatedNode'
      BY <2>1 DEF CreatedNode
    <2>3. created'[t] = Append(created[t], e)
      BY <1>1, <1>2 DEF TypeOK
    <2>4. created[t] \in Seq(CreatedNode')
      BY <1>1, <1>6, TypesGrow
    <2> HIDE DEF e
    <2>5. created'[t] \in Seq(CreatedNode')
      BY <2>2, <2>3, <2>4
    <2> QED
      BY <2>1, <2>2, <2>3, <2>5
  <1> HIDE DEF n, w, e
  <1>11. TypeOK'
    <2>1. generalizes' \subseteq Id' \X Id' /\ concepts[t] \in ConceptList
      BY <1>1, <1>4, <1>6 DEF TypeOK
    <2>2. /\ similar'[t] \in Seq(SUBSET Id') /\ registry'[t] \in Seq(CreatedNode')
          /\ links'[t] \in SUBSET (Id' \X Id')
      BY <1>1, <1>4, <1>6, TypesGrow
    <2>3. /\ pc'[t] \in Pass /\ props'[t] \in Seq(PropRecord) /\ concepts'[t] \in ConceptList
          /\ pos'[t] \in 1..(MaxConcepts + 1)
      BY <1>1, <1>4, <2>1, TypesOf
    <2> QED
      BY <1>1, <1>6, <1>9, <1>10, <2>1, <2>2, <2>3, TypesAfter
  <1>12. PassInv(t)'
    <2>1. \A j \in DOMAIN verified'[t] :
             /\ verified'[t][j].name = concepts[t][j]
             /\ verified'[t][j].needs_creation => verified'[t][j].general \in Name
      BY <1>1, <1>5, <1>7, <1>9 DEF PassInv
    <2> QED
      BY <1>1, <1>4, <1>9, <2>1 DEF PassInv
  <1>13. PropsInv(t)' /\ CreatedInv(t)' /\ EntryInv(t)'
    <2>1. props[t] = << >> /\ DOMAIN << >> = {}
      BY <1>1, <1>4 DEF PassInv
    <2> QED
      BY <1>4, <2>1 DEF PropsInv, CreatedInv, EntryInv
  <1>14. NodeInv(t)'
    <2>1. \A j \in DOMAIN verified'[t] :
              \/ j \in DOMAIN verified[t] /\ verified'[t][j] = verified[t][j]
              \/ verified'[t][j].id \in Id' => node'[verified'[t][j].id].label = label[t]
      BY <1>6, <1>7, <1>9
    <2> QED
      BY <1>1, <1>4, <1>6, <1>10, <2>1, NodeInvAdds DEF TaskInv
  <1>15. CountInv(t)'
    <2>1. Reused(t) = {} /\ Reused(t)' = {}
      BY <1>4 DEF Reused
    <2> QED
      BY <1>1, <1>3, <1>4, <1>5, <1>6, <1>10, <2>1, CountAdded DEF TaskInv, n
  <1>16. GeneralizationsPointBack'
    BY <1>1, <1>4, SameGeneralizations
  <1> QED
    BY <1>1, <1>6, <1>11, <1>12, <1>13, <1>14, <1>15, <1>16, AgentKeeps DEF TaskInv

\* Pass 6: what the entry that a concept gets has to be.
LEMMA EntryKeeps ==
    ASSUME AgentInv, NEW t \in Task, OnlyOf(t), Grows(t), pc[t] = "create",
           Len(created[t]) < Len(verified[t]),
           UNCHANGED <<label, pc, concepts, similar, verified, props, pos, registry, links, generalizes>>,
           NEW e \in CreatedNode', created'[t] = Append(created[t], e),
           e.id \in Id' => node'[e.id].label = label[t],
           NEW k, k = Len(created[t]) + 1,
           IF e.was_reused
           THEN k \notin Need(t) /\ e.name = concepts[t][k]
           ELSE /\ e.id \in Id' /\ node'[e.id].of = concepts[t][k]
                /\ \A i \in DOMAIN verified[t] : verified[t][i].id < e.id,
           CountInv(t)'
    PROVE  AgentInv'
  <1>1. TypeOK /\ TaskInv(t) /\ GeneralizationsPointBack /\ PassInv(t) /\ PropsInv(t)
        /\ NodeInv(t) /\ CreatedInv(t)
    BY DEF AgentInv, TaskInv
  <1>2. created[t] \in Seq(CreatedNode') /\ Len(verified[t]) \in Nat
    BY <1>1, TypesGrow, TypesOf, InSequence
  <1>3. /\ created'[t] \in Seq(CreatedNode') /\ Len(created'[t]) = k /\ k <= Len(verified[t])
        /\ DOMAIN created'[t] = DOMAIN created[t] \cup {k}
        /\ created'[t][k] = e
        /\ \A m \in DOMAIN created[t] : created'[t][m] = created[t][m]
    <2>1. /\ created'[t] \in Seq(CreatedNode') /\ Len(created'[t]) = k
          /\ DOMAIN created'[t] = DOMAIN created[t] \cup {k}
          /\ created'[t][k] = e /\ Len(created[t]) \in Nat
          /\ \A m \in DOMAIN created[t] : created'[t][m] = created[t][m]
      BY <1>2, AppendFacts
    <2> QED
      BY <1>2, <2>1
  <1>4. Id \subseteq Id' /\ Id \X Id \subseteq Id' \X Id' /\ \A id \in Id : node'[id] = node[id]
    BY <1>1, IdGrows DEF Grows
  <1>5. TypeOK'
    <2>1. generalizes' \subseteq Id' \X Id' /\ concepts[t] \in ConceptList
      BY <1>1, <1>4 DEF TypeOK
    <2>2. /\ similar'[t] \in Seq(SUBSET Id') /\ registry'[t] \in Seq(CreatedNode')
          /\ verified'[t] \in Seq(VerifiedConcept') /\ links'[t] \in SUBSET (Id' \X Id')
      BY <1>1, TypesGrow
    <2>3. /\ pc'[t] \in Pass /\ props'[t] \in Seq(PropRecord) /\ concepts'[t] \in ConceptList
          /\ pos'[t] \in 1..(MaxConcepts + 1)
      BY <1>1, <2>1, TypesOf
    <2> QED
      BY <1>1, <1>3, <2>1, <2>2, <2>3, TypesAfter
  <1>6. PassInv(t)'
    <2>1. Len(created'[t]) <= Len(verified'[t])
      BY <1>3
    <2> QED
      BY <1>1, <2>1 DEF PassInv
  <1>7. Need(t)' = Need(t) /\ Pending(t)' = Pending(t)
    BY DEF Need, Pending
  <1>8. PropsInv(t)' /\ EntryInv(t)'
    BY <1>1, <1>7 DEF PropsInv, EntryInv
  <1>9. CreatedInv(t)'
    <2>1. ASSUME NEW m \in DOMAIN created'[t]
          PROVE  IF created'[t][m].was_reused
                 THEN m \notin Need(t) /\ created'[t][m].name = concepts[t][m]
                 ELSE /\ created'[t][m].id \in Id'
                      /\ node'[created'[t][m].id].of = concepts[t][m]
                      /\ \A i \in DOMAIN verified[t] : verified[t][i].id < created'[t][m].id
      <3>1. CASE m = k
        BY <1>3, <3>1
      <3>2. CASE m \in DOMAIN created[t]
        <4>1. created'[t][m] = created[t][m]
          BY <1>3, <3>2
        <4> QED
          BY <1>1, <1>4, <3>2, <4>1 DEF CreatedInv
      <3> QED
        BY <1>3, <3>1, <3>2
    <2> QED
      BY <1>7, <2>1 DEF CreatedInv
  <1>10. NodeInv(t)'
    BY <1>1, NodeInvAdds
  <1>11. GeneralizationsPointBack'
    BY <1>1, SameGeneralizations
  <1> QED
    BY <1>5, <1>6, <1>8, <1>9, <1>10, <1>11, AgentKeeps DEF TaskInv

\* The properties that pass 6 takes are those of the concept it is at.
LEMMA NextNode ==
    ASSUME TypeOK, NEW t \in Task, PassInv(t), PropsInv(t), pc[t] = "create",
           Len(created[t]) < Len(verified[t]),
           verified[t][Len(created[t]) + 1].action # "use_existing"
    PROVE  /\ NextProps(t).name \in Name
           /\ verified[t][NextProps(t).idx].name = concepts[t][Len(created[t]) + 1]
           /\ concepts[t][Len(created[t]) + 1] \in Name
           /\ Len(created[t]) + 1 \in Need(t)
  <1> DEFINE k == Len(created[t]) + 1
  <1>1. /\ DOMAIN verified[t] = 1..Len(verified[t]) /\ DOMAIN concepts[t] = 1..Len(concepts[t])
        /\ Len(verified[t]) \in Nat /\ Len(created[t]) \in Nat /\ Len(concepts[t]) \in Nat
    BY TypesOf, InSequence
  <1>2. k \in DOMAIN verified[t] /\ k \in DOMAIN concepts[t]
    <2>1. Len(verified[t]) <= Len(concepts[t])
      BY DEF PassInv
    <2> QED
      BY <1>1, <2>1
  <1>3. k \in Need(t)
    BY <1>2 DEF Need
  <1>4. NextProps(t) \in [idx : 1..MaxConcepts, name : Name] /\ NextProps(t).idx = k
    BY <1>3, PropsAreNext
  <1>5. verified[t][k].name = concepts[t][k] /\ concepts[t][k] \in Name
    <2>1. concepts[t][k] \in Name
      BY <1>2, TypesOf, InSequence
    <2> QED
      BY <1>2, <2>1 DEF PassInv
  <1> QED
    BY <1>3, <1>4, <1>5

\* Pass 6, a concept that a node is reused for.
LEMMA ReuseKeeps ==
    ASSUME AgentInv, NEW t \in Task, CreateNode(t),
           verified[t][Len(created[t]) + 1].action = "use_existing"
    PROVE  AgentInv'
  <1> DEFINE k == Len(created[t]) + 1
             v == verified[t][k]
             e == ReusedEntry(v.name, v.id)
  <1>1. TypeOK /\ TaskInv(t) /\ OnlyOf(t) /\ PassInv(t) /\ NodeInv(t) /\ CountInv(t)
    BY StepIsOwn DEF AgentInv, TaskInv, execute
  <1>2. /\ pc[t] = "create" /\ Len(created[t]) < Len(verified[t])
        /\ UNCHANGED <<label, pc, concepts, similar, verified, props, pos, registry, links, node, generalizes>>
        /\ created'[t] = Append(created[t], e)
    BY <1>1 DEF CreateNode, contextVars, ReusedEntry, TypeOK
  <1>3. /\ Grows(t) /\ Id' = Id /\ AnyId' = AnyId
        /\ VerifiedConcept' = VerifiedConcept /\ CreatedNode' = CreatedNode
    BY <1>1, <1>2, SameNodes
  <1>4. /\ created[t] \in Seq(CreatedNode) /\ registry[t] \in Seq(CreatedNode)
        /\ Len(created[t]) \in Nat /\ Len(verified[t]) \in Nat
        /\ DOMAIN verified[t] = 1..Len(verified[t])
    BY <1>1, TypesOf, InSequence
  <1>5. k \in DOMAIN verified[t] /\ k \notin Need(t) /\ v \in VerifiedConcept
    <2>1. k \in DOMAIN verified[t] /\ k \notin Need(t)
      BY <1>2, <1>4 DEF Need
    <2> QED
      BY <1>1, <2>1, TypesOf, InSequence
  <1>6. v.name = concepts[t][k] /\ (v.id \in Id => node[v.id].label = label[t])
    BY <1>1, <1>5 DEF PassInv, NodeInv
  <1>7. v.name \in Name /\ v.id \in AnyId
    BY <1>5 DEF VerifiedConcept
  <1>8. e \in CreatedNode /\ e.name = v.name /\ e.id = v.id /\ e.was_reused
    <2> HIDE DEF v
    <2>1. e \in [name : Name, id : AnyId, was_reused : BOOLEAN]
      BY <1>7, ReusedEntryTyped
    <2>2. e.name = v.name
      BY DEF ReusedEntry
    <2>3. e.id = v.id
      BY DEF ReusedEntry
    <2>4. e.was_reused
      BY DEF ReusedEntry
    <2> QED
      BY <2>1, <2>2, <2>3, <2>4 DEF CreatedNode
  <1> HIDE DEF e
  <1>9. CountInv(t)'
    <2> DEFINE s == Entries(t)
               s2 == Entries(t)'
    <2>1. NodesOf(t)' = NodesOf(t)
      BY <1>2 DEF NodesOf, Id
    <2>2. s2 = Append(s, e) /\ s \in Seq(CreatedNode)
      <3>1. s2 = registry[t] \o Append(created[t], e) /\ s = registry[t] \o created[t]
        BY <1>2 DEF Entries
      <3> DEFINE r == registry[t]
                 c == created[t]
      <3>2. r \in Seq(CreatedNode) /\ c \in Seq(CreatedNode) /\ e \in CreatedNode
        BY <1>4, <1>8
      <3> HIDE DEF s, s2, r, c
      <3>3. r \o Append(c, e) = Append(r \o c, e) /\ r \o c \in Seq(CreatedNode)
        BY <3>2, AppendToSecond
      <3> QED
        BY <3>1, <3>3 DEF r, c
    <2> HIDE DEF s, s2
    <2>3. NewIds(s2) = NewIds(s) /\ Len(s2) = Len(s) + 1 /\ Len(s) \in Nat
      BY <1>8, <2>2, NewIdsAppend, AppendFacts
    <2>4. Reused(t)' = Reused(t) \cup {k} /\ k \notin Reused(t)
      <3>1. Len(created'[t]) = k
        BY <1>2, <1>4, <1>8, AppendFacts
      <3>2. \A i \in DOMAIN verified[t] : i <= k <=> i <= Len(created[t]) \/ i = k
        BY <1>4
      <3>3. ~(k <= Len(created[t]))
        BY <1>4
      <3>4. Reused(t) = {i \in DOMAIN verified[t] : verified[t][i].action = "use_existing"
                                                    /\ i <= Len(created[t])}
        BY <1>2 DEF Reused
      <3>5. Reused(t)' = {i \in DOMAIN verified[t] : verified[t][i].action = "use_existing" /\ i <= k}
        BY <1>2, <3>1 DEF Reused
      <3> HIDE DEF k
      <3> QED
        BY <1>5, <3>2, <3>3, <3>4, <3>5 DEF k
    <2>5. IsFiniteSet(Reused(t)) /\ IsFiniteSet(NewIds(s))
      <3>1. IsFiniteSet(1..Len(verified[t]))
        BY <1>4, PositionsFinite
      <3>2. Reused(t) \subseteq 1..Len(verified[t])
        BY <1>4 DEF Reused
      <3>3. Len(node) \in Nat
        BY <1>1, TypesOf
      <3>4. IsFiniteSet(1..Len(node))
        BY <3>3, PositionsFinite
      <3>5. NewIds(s) \subseteq 1..Len(node)
        BY <1>1, <1>2 DEF CountInv, NodesOf, Id, s
      <3> QED
        BY <3>1, <3>2, <3>4, <3>5, FS_Subset
    <2>6. NodesOf(t) = NewIds(s) /\ Len(s) = Cardinality(NewIds(s)) + Cardinality(Reused(t))
      BY <1>1, <1>2 DEF CountInv, s
    <2>7. /\ Cardinality(Reused(t)') = Cardinality(Reused(t)) + 1
          /\ Cardinality(NewIds(s)) \in Nat /\ Cardinality(Reused(t)) \in Nat
      BY <2>4, <2>5, FS_AddElement, FS_CardinalityType
    <2>8. Len(s2) = Cardinality(NewIds(s2)) + Cardinality(Reused(t)')
      BY <2>3, <2>6, <2>7
    <2>9. NodesOf(t)' = NewIds(s2)
      BY <2>1, <2>3, <2>6
    <2> QED
      BY <2>8, <2>9 DEF CountInv, NewIds, s2
  <1>10. e.id \in Id' => node'[e.id].label = label[t]
    BY <1>2, <1>3, <1>6, <1>8
  <1>11. e \in CreatedNode' /\ k \notin Need(t) /\ e.name = concepts[t][k] /\ e.was_reused
    BY <1>3, <1>5, <1>6, <1>8
  <1> QED
    BY <1>1, <1>2, <1>3, <1>9, <1>10, <1>11, EntryKeeps

\* Pass 6, a concept that a node is created for.
LEMMA CreateKeeps ==
    ASSUME AgentInv, NEW t \in Task, CreateNode(t),
           verified[t][Len(created[t]) + 1].action # "use_existing"
    PROVE  AgentInv'
  <1> DEFINE k == Len(created[t]) + 1
             n == Len(node) + 1
             name == NextProps(t).name
             of == concepts[t][k]
             e == NewEntry(name, n)
  <1>1. TypeOK /\ TaskInv(t) /\ OnlyOf(t) /\ PassInv(t) /\ PropsInv(t) /\ CountInv(t)
    BY StepIsOwn DEF AgentInv, TaskInv, execute
  <1>2. /\ pc[t] = "create" /\ Len(created[t]) < Len(verified[t])
        /\ UNCHANGED <<label, pc, concepts, similar, verified, props, pos, registry, links, generalizes>>
    BY DEF CreateNode, contextVars
  <1>3. /\ NewNode(t, name, verified[t][NextProps(t).idx].name)
        /\ created' = [created EXCEPT ![t] = Append(@, e)]
    BY DEF CreateNode, NewEntry
  <1>4. /\ name \in Name /\ verified[t][NextProps(t).idx].name = of /\ of \in Name
        /\ k \in Need(t)
    BY <1>1, <1>2, NextNode
  <1>5. NewNode(t, name, of)
    BY <1>3, <1>4
  <1> HIDE DEF name, of
  <1>6. /\ Grows(t) /\ n \in AnyId' /\ n \in Id'
        /\ node'[n].label = label[t] /\ node'[n].of = of
        /\ \A id \in AnyId : id < n
    BY <1>1, <1>2, <1>4, <1>5, AddedGrows
  <1>7. e \in CreatedNode' /\ e.id = n /\ ~e.was_reused
    <2> HIDE DEF n
    <2>1. e \in [name : Name, id : AnyId', was_reused : BOOLEAN] /\ e.id = n /\ ~e.was_reused
      BY <1>4, <1>6, NewEntryFields
    <2> QED
      BY <2>1 DEF CreatedNode
  <1>8. created'[t] = Append(created[t], e)
    BY <1>1, <1>3 DEF TypeOK
  <1> HIDE DEF e
  <1>9. \A i \in DOMAIN verified[t] : verified[t][i].id < n
    <2>1. \A i \in DOMAIN verified[t] : verified[t][i] \in VerifiedConcept
      BY <1>1, TypesOf, InSequence
    <2>2. \A i \in DOMAIN verified[t] : verified[t][i].id \in AnyId
      BY <2>1 DEF VerifiedConcept
    <2> HIDE DEF n
    <2> QED
      BY <1>6, <2>2
  <1>10. Reused(t)' = Reused(t)
    <2>1. created[t] \in Seq(CreatedNode') /\ Len(created[t]) \in Nat
          /\ DOMAIN verified[t] = 1..Len(verified[t]) /\ Len(verified[t]) \in Nat
      BY <1>1, <1>6, TypesGrow, TypesOf, InSequence
    <2>2. Len(created'[t]) = k
      BY <1>7, <1>8, <2>1, AppendFacts
    <2>3. \A i \in DOMAIN verified[t] : i <= k <=> i <= Len(created[t]) \/ i = k
      BY <2>1
    <2>4. Reused(t) = {i \in DOMAIN verified[t] : verified[t][i].action = "use_existing"
                                                  /\ i <= Len(created[t])}
      BY <1>2 DEF Reused
    <2>5. Reused(t)' = {i \in DOMAIN verified[t] : verified[t][i].action = "use_existing" /\ i <= k}
      BY <1>2, <2>2 DEF Reused
    <2>6. verified[t][k].action # "use_existing"
      OBVIOUS
    <2> HIDE DEF k
    <2> QED
      BY <2>3, <2>4, <2>5, <2>6
  <1>11. CountInv(t)'
    BY <1>1, <1>2, <1>4, <1>5, <1>6, <1>7, <1>8, <1>10, CountAdded
  <1>12. /\ e.id \in Id' => node'[e.id].label = label[t]
         /\ e.id \in Id' /\ node'[e.id].of = concepts[t][k]
         /\ \A i \in DOMAIN verified[t] : verified[t][i].id < e.id
    <2> HIDE DEF n
    <2> QED
      BY <1>6, <1>7, <1>9 DEF of
  <1> QED
    BY <1>1, <1>2, <1>6, <1>7, <1>8, <1>11, <1>12, EntryKeeps

\* A call fails.
LEMMA AgentFailsKeeps ==
    ASSUME AgentInv, NEW t \in Task, AgentFails(t) PROVE AgentInv'
  <1>1. TypeOK /\ OnlyOf(t) /\ PassInv(t) /\ PropsInv(t)
    BY StepIsOwn DEF AgentInv, TaskInv, execute
  <1>2. ReturnErr(t) /\ UNCHANGED <<label, concepts, registry, links, generalizes>>
    BY DEF AgentFails, contextVars
  <1>3. Grows(t)
    <2>1. CASE UNCHANGED node
      BY <1>1, <1>2, <2>1, SameNodes
    <2>2. ASSUME NEW name \in Name, NEW of \in Name, NewNode(t, name, of) PROVE Grows(t)
      BY <1>1, <1>2, <2>2, AddedGrows
    <2>3. CASE \E i \in InFlight(MissingTargets(t)) :
                  \E name \in GeneratedName[verified[t][i].general] :
                      NewNode(t, name, verified[t][i].general)
      BY <1>1, <2>2, <2>3, TargetNamed
    <2>4. CASE /\ pc[t] = "create"
               /\ Len(created[t]) < Len(verified[t])
               /\ verified[t][Len(created[t]) + 1].action # "use_existing"
               /\ NewNode(t, NextProps(t).name, verified[t][NextProps(t).idx].name)
      <3>1. NextProps(t).name \in Name /\ verified[t][NextProps(t).idx].name \in Name
        BY <1>1, <2>4, NextNode
      <3> QED
        BY <2>2, <2>4, <3>1
    <2> QED
      BY <2>1, <2>3, <2>4 DEF AgentFails
  <1> QED
    BY <1>1, <1>2, <1>3, ErrKeeps

-----------------------------------------------------------------------------
(* The theorems. *)

LEMMA AgentInit == Init => AgentInv
  <1> SUFFICES ASSUME Init PROVE AgentInv
    OBVIOUS
  <1> USE DEF Init
  <1>1. Len(<< >>) = 0 /\ DOMAIN << >> = {} /\ << >> \o << >> = << >> /\ \A S : << >> \in Seq(S)
    BY EmptyTyped
  <1>2. << >> \in ConceptList
    <2>1. 0 \in 0..MaxConcepts
      BY AgentAssumption
    <2>2. << >> \in [1..0 -> Name]
      OBVIOUS
    <2> QED
      BY <2>1, <2>2 DEF ConceptList
  <1>3. TypeOK
    <2>1. label \in [Task -> Label] /\ node \in Seq(NodeRecord) /\ 1 \in 1..(MaxConcepts + 1)
      BY AgentAssumption
    <2>2. "conceptualize" \in Pass
      BY DEF Pass
    <2> QED
      BY <1>1, <1>2, <2>1, <2>2 DEF TypeOK
  <1>4. ASSUME NEW t \in Task PROVE TaskInv(t)
    <2>1. /\ pc[t] = "conceptualize" /\ concepts[t] = << >> /\ similar[t] = << >>
          /\ verified[t] = << >> /\ props[t] = << >> /\ created[t] = << >>
          /\ registry[t] = << >> /\ links[t] = {} /\ node = SeedNode
      OBVIOUS
    <2>2. PassInv(t) /\ PropsInv(t) /\ NodeInv(t) /\ CreatedInv(t) /\ EntryInv(t)
      <3>1. PassInv(t)
        BY <1>1, <2>1 DEF PassInv
      <3>2. PropsInv(t)
        BY <1>1, <2>1 DEF PropsInv
      <3>3. NodeInv(t)
        BY <1>1, <2>1 DEF NodeInv
      <3>4. CreatedInv(t) /\ EntryInv(t)
        BY <2>1 DEF CreatedInv, EntryInv
      <3> QED
        BY <3>1, <3>2, <3>3, <3>4
    <2>3. NodesOf(t) = {}
      <3>1. node \in Seq(NodeRecord)
        BY <1>3 DEF TypeOK
      <3>2. DOMAIN node = Id
        BY <3>1 DEF Id
      <3>3. \A id \in Id : node[id].by = NoTask
        BY <2>1, <3>2, AgentAssumption
      <3> QED
        BY <3>3, AgentAssumption DEF NodesOf
    <2>4. NewIds(Entries(t)) = {} /\ Len(Entries(t)) = 0 /\ Reused(t) = {}
      <3>1. Entries(t) = << >>
        BY <1>1, <2>1 DEF Entries
      <3>2. Reused(t) = {}
        BY <2>1 DEF Reused
      <3>3. NewIds(<< >>) = {}
        BY <1>1 DEF NewIds
      <3> QED
        BY <1>1, <3>1, <3>2, <3>3
    <2>5. CountInv(t)
      <3>1. Cardinality({}) = 0
        BY FS_EmptySet
      <3>2. 0 = Cardinality({}) + Cardinality({})
        BY <3>1
      <3> QED
        BY <2>3, <2>4, <3>2 DEF CountInv
    <2> QED
      BY <2>2, <2>5 DEF TaskInv
  <1>5. GeneralizationsPointBack
    BY DEF GeneralizationsPointBack
  <1> QED
    BY <1>3, <1>4, <1>5 DEF AgentInv

LEMMA AgentStep == AgentInv /\ [Next]_vars => AgentInv'
  <1> SUFFICES ASSUME AgentInv, [Next]_vars PROVE AgentInv'
    OBVIOUS
  <1>1. CASE UNCHANGED vars
    <2>1. UNCHANGED <<label, pc, concepts, similar, verified, props, created, pos, registry,
                      links, node, generalizes>>
      BY <1>1 DEF vars, taskVars, contextVars, graphVars
    <2>2. TypeOK'
      BY <2>1 DEF AgentInv, TypeOK, Id, AnyId, VerifiedConcept, CreatedNode
    <2>3. ASSUME NEW t \in Task PROVE TaskInv(t)'
      <3>1. TypeOK /\ TaskInv(t) /\ Grows(t)
        BY <2>1, SameNodes DEF AgentInv
      <3> QED
        BY <2>1, <3>1, OtherTask DEF TaskState
    <2>4. GeneralizationsPointBack'
      BY <2>1 DEF AgentInv, GeneralizationsPointBack, NoneTwice
    <2> QED
      BY <2>2, <2>3, <2>4 DEF AgentInv
  <1>2. ASSUME NEW t \in Task, execute(t) PROVE AgentInv'
    <2>1. CASE Conceptualize(t)
      BY <2>1, ConceptualizeKeeps
    <2>2. CASE Search(t)
      BY <2>2, SearchKeeps
    <2>3. CASE Verify(t)
      BY <2>3, VerifyKeeps
    <2>4. CASE CreateTarget(t)
      BY <2>4, CreateTargetKeeps
    <2>5. CASE TargetsDone(t)
      BY <2>5, TargetsDoneKeeps
    <2>6. CASE GenerateProperties(t)
      BY <2>6, GeneratePropertiesKeeps
    <2>7. CASE CreateNode(t)
      BY <2>7, ReuseKeeps, CreateKeeps
    <2>8. CASE Generalize(t)
      BY <2>8, GeneralizeKeeps
    <2>9. CASE SkipGeneralization(t)
      BY <2>9, SkipGeneralizationKeeps
    <2>10. CASE SourceNotFound(t)
      BY <2>10, SourceNotFoundKeeps
    <2>11. CASE NextPass(t)
      BY <2>11, NextPassKeeps
    <2>12. CASE Finish(t)
      BY <2>12, FinishKeeps
    <2>13. CASE AgentFails(t)
      BY <2>13, AgentFailsKeeps
    <2> QED
      BY <1>2, <2>1, <2>2, <2>3, <2>4, <2>5, <2>6, <2>7, <2>8, <2>9, <2>10, <2>11, <2>12, <2>13
         DEF execute
  <1> QED
    BY <1>1, <1>2 DEF Next

\* The state of an agent and the graph always have the types declared for them.
THEOREM AgentTypeCorrect == Spec => []TypeOK
  <1>1. AgentInv => TypeOK
    BY DEF AgentInv
  <1> QED
    BY <1>1, AgentInit, AgentStep, PTL DEF Spec

\* The properties generated for a concept end up in the node of that concept,
\* however many concepts there are (props_iter).  It rests on the calls being
\* made one at a time: they are then answered in the order of the concepts.
THEOREM PropertiesMatch == Spec => []PropertiesBelongToConcept
  <1>1. AgentInv => PropertiesBelongToConcept
    BY DEF AgentInv, TaskInv, CreatedInv, PropertiesBelongToConcept
  <1> QED
    BY <1>1, AgentInit, AgentStep, PTL DEF Spec

\* The context of an agent that succeeded has all of its nodes, each once, and
\* an entry for every concept.
THEOREM ContextIsComplete == Spec => []RegistryIsComplete
  <1>1. ASSUME AgentInv, NEW t \in Task, pc[t] = "ok"
        PROVE  /\ {id \in Id : node[id].by = t} = RegisteredNew(t)
               /\ Len(registry[t]) =
                    Cardinality(RegisteredNew(t)) + Cardinality({i \in DOMAIN verified[t] :
                                                verified[t][i].action = "use_existing"})
               /\ Len(registry[t]) >= Len(concepts[t])
    <2>1. TypeOK /\ PassInv(t) /\ CountInv(t) /\ EntryInv(t)
      BY <1>1 DEF AgentInv, TaskInv
    <2>2. created[t] = << >>
      BY <1>1, <2>1 DEF PassInv
    <2>3. Entries(t) = registry[t]
      <3> DEFINE r == registry[t]
      <3>1. r \in Seq(CreatedNode) /\ Entries(t) = r \o << >>
        BY <2>1, <2>2, TypesOf DEF Entries
      <3> HIDE DEF r
      <3>2. r \o << >> = r
        BY <3>1
      <3> QED
        BY <3>1, <3>2 DEF r
    <2>4. NewIds(registry[t]) = RegisteredNew(t)
      BY DEF NewIds, RegisteredNew
    <2>5. Reused(t) = {i \in DOMAIN verified[t] : verified[t][i].action = "use_existing"}
      BY <1>1 DEF Reused
    <2> QED
      BY <1>1, <2>1, <2>3, <2>4, <2>5 DEF CountInv, EntryInv, NodesOf
  <1>2. AgentInv => RegistryIsComplete
    BY <1>1 DEF RegistryIsComplete
  <1> QED
    BY <1>2, AgentInit, AgentStep, PTL DEF Spec

\* What the context records as a generalization is in the graph and joins two
\* nodes of the agent's label.
THEOREM RecordedLinksAreReal == Spec => []LinksAreReal
  <1>1. AgentInv => LinksAreReal
    BY DEF AgentInv, TaskInv, NodeInv, LinksAreReal
  <1> QED
    BY <1>1, AgentInit, AgentStep, PTL DEF Spec

\* Generalizations lead to older nodes, so that they form no cycle, whatever
\* the other agents do meanwhile, unless a list names a concept twice.
THEOREM GeneralizationsLeadBack == Spec => []GeneralizationsPointBack
  <1>1. AgentInv => GeneralizationsPointBack
    BY DEF AgentInv
  <1> QED
    BY <1>1, AgentInit, AgentStep, PTL DEF Spec
=============================================================================
