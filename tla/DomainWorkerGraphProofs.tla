----------------------- MODULE DomainWorkerGraphProofs -----------------------
(***************************************************************************)
(* What concurrent invocations of DomainWorker make of the shared graph:   *)
(* GENERALIZES_TO stays acyclic, the relationships are well typed, and a   *)
(* delivery that reports a success has attached its node.                  *)
(***************************************************************************)
EXTENDS DomainWorkerProofs

-----------------------------------------------------------------------------
(* Acyclic relations. *)

LEMMA AcyclicSubset ==
    ASSUME NEW E, NEW F, F \subseteq E, Acyclic(E) PROVE Acyclic(F)
  BY DEF Acyclic

\* An edge from a node that no edge leads to closes no cycle.
LEMMA AcyclicFresh ==
    ASSUME NEW E, Acyclic(E), NEW a \in ElementId, NEW b, a # b,
           \A x : <<x, a>> \notin E
    PROVE  Acyclic(E \cup {<<a, b>>})
  <1> SUFFICES ASSUME NEW S \in SUBSET ElementId,
                      \A x \in S : \E y \in S : <<x, y>> \in E \cup {<<a, b>>}
               PROVE  S = {}
    BY DEF Acyclic
  <1> DEFINE T == S \ {a}
  <1>1. ASSUME NEW x \in T PROVE \E y \in T : <<x, y>> \in E
    <2>1. PICK y \in S : <<x, y>> \in E \cup {<<a, b>>}
      OBVIOUS
    <2>2. <<x, y>> \in E
      BY <2>1
    <2> QED
      BY <2>2
  <1>2. T = {}
    <2>1. T \in SUBSET ElementId
      OBVIOUS
    <2> HIDE DEF T
    <2> QED
      BY <1>1, <2>1 DEF Acyclic
  <1> QED
    BY <1>2

-----------------------------------------------------------------------------
(* GeneralizationsAcyclic is not inductive: between the CREATE of a node    *)
(* and the CREATE of its GENERALIZES_TO relationship other invocations may  *)
(* find the node and generalize to it.  The relation that stays acyclic     *)
(* also has the relationships that the invocations are still to create;     *)
(* such a relationship enters it at the search, when its source does not    *)
(* exist and so nothing leads to it.                                        *)

Plans(w) ==
    /\ pc[w] \in {"create", "generalize"}
    /\ plan[w].kind = "create_and_generalize"

Planned ==
    generalizes \cup {<<Current(w), plan[w].target>> : w \in {v \in Worker : Plans(v)}}

\* What an invocation knows of the graph at its next call.
Knows(w) ==
    /\ \A k \in 1..Len(batch[w]) :
          k > pos[w] \/ (k = pos[w] /\ pc[w] \in {"record", "create"})
          => node[batch[w][k]] = NoNode
    /\ Plans(w) => /\ node[plan[w].target] # NoNode
                   /\ node[plan[w].target].label = NodeTypeOf[Job(w)]
    /\ pc[w] \in {"generalize", "assign"} =>
          /\ node[elem[w]] # NoNode
          /\ node[elem[w]].label = NodeTypeOf[Job(w)]
    /\ pc[w] = "generalize" =>
          /\ elem[w] = Current(w)
          /\ NodeTypeOf[Job(w)] \in {"Knowledge", "Skill"}

FutureIsAbsent == \A r \in Receipt : r[2] > receives[r[1]] => node[r] = NoNode

GraphInv ==
    /\ \A w \in Worker : Knows(w)
    /\ FutureIsAbsent
    /\ GeneralizationsWellTyped
    /\ RequirementsWellTyped
    /\ Acyclic(Planned)

Inv == QueueInv /\ GraphInv

\* A step of w leaves the others as they are, and no node is changed.
Frame(w) ==
    /\ \A v \in Worker : v # w => /\ pc'[v] = pc[v]
                                  /\ batch'[v] = batch[v]
                                  /\ pos'[v] = pos[v]
                                  /\ plan'[v] = plan[v]
                                  /\ elem'[v] = elem[v]
    /\ \A id \in ElementId : node[id] # NoNode => node'[id] = node[id]
    /\ \A id \in ElementId : id # Current(w) => node'[id] = node[id]

\* A node that a delivery creates was not there before.
LEMMA NewNodeIsNew ==
    ASSUME Inv, NEW w \in Worker, pc[w] = "create", NewNode(w)
    PROVE  /\ Current(w) \in Receipt /\ Current(w) \in ElementId
           /\ node[Current(w)] = NoNode
           /\ node'[Current(w)] # NoNode
           /\ node'[Current(w)].label = NodeTypeOf[Job(w)]
           /\ \A id \in ElementId : node[id] # NoNode => node'[id] = node[id]
           /\ \A id \in ElementId : id # Current(w) => node'[id] = node[id]
  <1>1. TypeOK /\ pos[w] <= Len(batch[w])
    BY DEF Inv, QueueInv, TypeInv, Busy
  <1>2. /\ Current(w) \in Receipt /\ Current(w) \in ElementId /\ Job(w) \in Message
        /\ pos[w] \in 1..Len(batch[w])
    BY <1>1, CurrentIsReceipt DEF ElementId
  <1>3. node[Current(w)] = NoNode
    BY <1>2 DEF Inv, GraphInv, Knows, Current
  <1>4. PICK name \in GeneratedName[NameOf[Job(w)]] :
            node' = [node EXCEPT ![Current(w)] = [label |-> NodeTypeOf[Job(w)], name |-> name]]
    BY DEF NewNode
  <1>5. [label |-> NodeTypeOf[Job(w)], name |-> name] \in NodeRecord
    <2>1. NodeTypeOf[Job(w)] \in NodeType /\ NameOf[Job(w)] \in Concept
      BY <1>2, JobAssumption
    <2>2. name \in Concept
      BY <2>1, GraphAssumption
    <2> QED
      BY <2>1, <2>2 DEF NodeRecord
  <1>6. node'[Current(w)] = [label |-> NodeTypeOf[Job(w)], name |-> name]
    BY <1>1, <1>2, <1>4 DEF TypeOK
  <1>7. node'[Current(w)] # NoNode
    BY <1>5, <1>6, GraphAssumption
  <1>8. \A id \in ElementId : id # Current(w) => node'[id] = node[id]
    BY <1>1, <1>4 DEF TypeOK
  <1> QED
    BY <1>2, <1>3, <1>6, <1>7, <1>8

\* What the others know stays true.
LEMMA OthersKnow ==
    ASSUME Inv, NEW w \in Worker, Frame(w), NEW v \in Worker, v # w,
           pos[w] <= Len(batch[w]) \/ node' = node
    PROVE  Knows(v)'
  <1>1. TypeOK /\ Busy(v) /\ Knows(v)
    BY DEF Inv, QueueInv, TypeInv, GraphInv
  <1>2. \A k \in 1..Len(batch[v]) : batch[v][k] \in ElementId /\ node'[batch[v][k]] = node[batch[v][k]]
    <2>1. CASE pos[w] <= Len(batch[w])
      <3>1. pos[w] \in 1..Len(batch[w])
        BY <1>1, <2>1, CurrentIsReceipt
      <3>2. ASSUME NEW k \in 1..Len(batch[v])
            PROVE  batch[v][k] \in ElementId /\ batch[v][k] # Current(w)
        BY <1>1, <3>1, <3>2 DEF Inv, QueueInv, BatchInv, HeldOnce, TypeOK, Current, ElementId
      <3> QED
        BY <3>2 DEF Frame
    <2>2. CASE node' = node
      BY <1>1, <2>2 DEF TypeOK, ElementId
    <2> QED
      BY <2>1, <2>2
  <1>3. /\ pc'[v] = pc[v] /\ batch'[v] = batch[v] /\ pos'[v] = pos[v]
        /\ plan'[v] = plan[v] /\ elem'[v] = elem[v]
    BY DEF Frame
  <1>4. Current(v)' = Current(v) /\ Job(v)' = Job(v)
    BY <1>3 DEF Current, Job
  <1>5. Plans(v) => plan[v].target \in ElementId /\ node'[plan[v].target] = node[plan[v].target]
    BY <1>1 DEF Plans, Busy, Knows, Frame
  <1>6. pc[v] \in {"generalize", "assign"} => node'[elem[v]] = node[elem[v]]
    BY <1>1 DEF Busy, Knows, Frame
  <1>7. Plans(v)' <=> Plans(v)
    BY <1>3 DEF Plans
  <1> QED
    BY <1>1, <1>2, <1>3, <1>4, <1>5, <1>6, <1>7 DEF Knows

\* The typing of the relationships only depends on nodes that exist.
LEMMA TypingKept ==
    ASSUME Inv, \A id \in ElementId : node[id] # NoNode => node'[id] = node[id]
    PROVE  /\ \A g \in generalizes : g[1] \in Receipt
                /\ node'[g[1]] # NoNode /\ node'[g[2]] # NoNode
                /\ node'[g[1]].label = node'[g[2]].label
                /\ node'[g[1]].label \in {"Knowledge", "Skill"}
           /\ \A e \in requires : /\ node'[e.node] # NoNode
                                  /\ node'[e.node].label = e.kind
                                  /\ e.kind = NodeTypeOf[e.by[1]]
  <1>1. TypeOK /\ GeneralizationsWellTyped /\ RequirementsWellTyped
    BY DEF Inv, QueueInv, TypeInv, GraphInv
  <1>2. \A g \in generalizes : g[1] \in ElementId /\ g[2] \in ElementId
    BY <1>1 DEF TypeOK
  <1>3. \A e \in requires : e.node \in ElementId
    BY <1>1 DEF TypeOK, Requirement
  <1> QED
    BY <1>1, <1>2, <1>3 DEF GeneralizationsWellTyped, RequirementsWellTyped

\* Every planned or created GENERALIZES_TO relationship leads to a node.
LEMMA PlannedTargetExists ==
    ASSUME Inv, NEW x, NEW y, <<x, y>> \in Planned PROVE node[y] # NoNode
  BY DEF Inv, GraphInv, Knows, Planned, GeneralizationsWellTyped

\* The relation cannot grow when w plans nothing new.
LEMMA PlannedShrinks ==
    ASSUME NEW w \in Worker, Frame(w), generalizes' \subseteq Planned,
           Plans(w)' => /\ Plans(w)
                        /\ batch'[w] = batch[w] /\ pos'[w] = pos[w] /\ plan'[w] = plan[w]
    PROVE  Planned' \subseteq Planned
  <1>1. ASSUME NEW v \in Worker, Plans(v)'
        PROVE  <<Current(v), plan[v].target>>' \in Planned
    <2>1. Plans(v)
      BY <1>1 DEF Plans, Frame
    <2>2. batch'[v] = batch[v] /\ pos'[v] = pos[v] /\ plan'[v] = plan[v]
      BY <1>1 DEF Frame
    <2>3. <<Current(v), plan[v].target>>' = <<Current(v), plan[v].target>>
      BY <2>2 DEF Current
    <2> QED
      BY <2>1, <2>3 DEF Planned
  <1> QED
    BY <1>1 DEF Planned

\* Deliveries to come have no node, as long as nodes only appear under the
\* current record of a batch.
LEMMA FutureKept ==
    ASSUME Inv, NEW w \in Worker, Frame(w), UNCHANGED receives,
           pos[w] <= Len(batch[w]) \/ node' = node
    PROVE  FutureIsAbsent'
  <1>1. TypeOK /\ FutureIsAbsent
    BY DEF Inv, QueueInv, TypeInv, GraphInv
  <1>2. CASE node' = node
    BY <1>1, <1>2 DEF FutureIsAbsent
  <1>3. CASE pos[w] <= Len(batch[w])
    <2>1. pos[w] \in 1..Len(batch[w]) /\ Current(w) \in Receipt
      BY <1>1, <1>3, CurrentIsReceipt
    <2>2. Current(w)[2] <= receives[Current(w)[1]]
      BY <2>1 DEF Inv, QueueInv, BatchInv, HeldIsReceived, Current
    <2>3. Current(w)[2] \in Nat /\ receives[Current(w)[1]] \in Nat
      BY <1>1, <2>1, BoundsAssumption DEF TypeOK, Receipt
    <2>4. ASSUME NEW r \in Receipt, r[2] > receives[r[1]] PROVE node'[r] = NoNode
      <3>1. r # Current(w) /\ r \in ElementId
        BY <2>2, <2>3, <2>4 DEF ElementId
      <3> QED
        BY <1>1, <2>4, <3>1 DEF Frame, FutureIsAbsent
    <2> QED
      BY <2>4 DEF FutureIsAbsent
  <1> QED
    BY <1>2, <1>3

\* The nodes of a step that may create the node of the current record.
MayCreate(w) ==
    \/ node' = node
    \/ pc[w] = "create" /\ NewNode(w)

\* A step that ends the current record, or the invocation, plans nothing and
\* knows nothing but that the deliveries still to come have no node.
LEMMA AfterRecord ==
    ASSUME Inv, NEW w \in Worker, MayCreate(w),
           \/ EndInvocation(w)
           \/ pos[w] <= Len(batch[w]) /\ \E o \in Settled : NextRecord(w, o)
    PROVE  Frame(w) /\ Knows(w)' /\ ~Plans(w)'
  <1>1. TypeOK
    BY DEF Inv, QueueInv, TypeInv
  <1>2. /\ \A id \in ElementId : node[id] # NoNode => node'[id] = node[id]
        /\ \A id \in ElementId : id # Current(w) => node'[id] = node[id]
    BY NewNodeIsNew DEF MayCreate
  <1>3. Frame(w)
    BY <1>1, <1>2 DEF EndInvocation, NextRecord, Frame, TypeOK
  <1>4. pc'[w] \in {"idle", "record"}
    BY <1>1 DEF EndInvocation, NextRecord, TypeOK
  <1>5. ~Plans(w)'
    BY <1>4 DEF Plans
  <1>6. ASSUME NEW k \in 1..Len(batch'[w]),
               k > pos'[w] \/ (k = pos'[w] /\ pc'[w] \in {"record", "create"})
        PROVE  node'[batch'[w][k]] = NoNode
    <2>1. CASE EndInvocation(w)
      BY <1>1, <1>6, <2>1 DEF EndInvocation, TypeOK
    <2>2. CASE pos[w] <= Len(batch[w]) /\ \E o \in Settled : NextRecord(w, o)
      <3>1. batch' = batch /\ pos'[w] = pos[w] + 1 /\ pos[w] \in 1..Len(batch[w])
        BY <1>1, <2>2, CurrentIsReceipt DEF NextRecord, TypeOK
      <3>2. k > pos[w] /\ k \in 1..Len(batch[w])
        BY <1>6, <3>1
      <3>3. node[batch[w][k]] = NoNode
        BY <3>2 DEF Inv, GraphInv, Knows
      <3>4. batch[w][k] # Current(w)
        BY <3>1, <3>2 DEF Inv, QueueInv, BatchInv, HeldOnce, Current
      <3>5. batch[w][k] \in ElementId
        BY <1>1, <3>2 DEF TypeOK, ElementId
      <3> QED
        BY <1>2, <3>1, <3>3, <3>4, <3>5
    <2> QED
      BY <2>1, <2>2
  <1> QED
    BY <1>3, <1>4, <1>5, <1>6 DEF Knows

\* Putting the parts together.
LEMMA GraphFromParts ==
    ASSUME Inv, NEW w \in Worker, Frame(w), Knows(w)', UNCHANGED receives,
           pos[w] <= Len(batch[w]) \/ node' = node,
           generalizes' \subseteq Planned,
           GeneralizationsWellTyped', RequirementsWellTyped',
           Plans(w)' => /\ Plans(w)
                        /\ batch'[w] = batch[w] /\ pos'[w] = pos[w] /\ plan'[w] = plan[w]
    PROVE  GraphInv'
  <1>1. \A v \in Worker : Knows(v)'
    BY OthersKnow
  <1>2. FutureIsAbsent'
    BY FutureKept
  <1>3. Planned' \subseteq Planned
    BY PlannedShrinks
  <1>4. Acyclic(Planned)'
    <2>1. Acyclic(Planned) /\ Acyclic(Planned') <=> Acyclic(Planned) /\ Acyclic(Planned)'
      BY DEF Acyclic
    <2> QED
      BY <1>3, <2>1, AcyclicSubset DEF Inv, GraphInv
  <1> QED
    BY <1>1, <1>2, <1>4 DEF GraphInv

\* An error of process_job, whatever the write before it did.
LEMMA GraphFail ==
    ASSUME Inv, NEW w \in Worker, NEW e, Fail(w, e), UNCHANGED receives,
           pos[w] <= Len(batch[w]), MayCreate(w), generalizes' \subseteq Planned,
           GeneralizationsWellTyped', RequirementsWellTyped'
    PROVE  GraphInv'
  <1>1. Frame(w) /\ Knows(w)' /\ ~Plans(w)'
    BY AfterRecord DEF Fail, ReturnErr, Settled
  <1> QED
    BY <1>1, GraphFromParts

-----------------------------------------------------------------------------
(* One lemma per kind of step. *)

\* Steps that leave the invocations and the nodes alone.
LEMMA GraphQuiet ==
    ASSUME Inv, UNCHANGED <<receives, workerVars, node, generalizes>>,
           requires' \subseteq requires
    PROVE  GraphInv'
  <1>1. UNCHANGED <<pc, batch, pos, plan, elem>>
    BY DEF workerVars
  <1>2. Planned' = Planned
    BY <1>1 DEF Planned, Plans, Current
  <1>3. Acyclic(Planned)'
    BY <1>2 DEF Inv, GraphInv, Acyclic
  <1>4. \A w \in Worker : Knows(w)'
    BY <1>1 DEF Inv, GraphInv, Knows, Plans, Current, Job
  <1>5. FutureIsAbsent' /\ GeneralizationsWellTyped' /\ RequirementsWellTyped'
    BY DEF Inv, GraphInv, FutureIsAbsent, GeneralizationsWellTyped, RequirementsWellTyped
  <1> QED
    BY <1>3, <1>4, <1>5 DEF GraphInv

\* The deliveries of a new batch have no node yet.
LEMMA GraphReceive ==
    ASSUME Inv, NEW w \in Worker, Receive(w) PROVE GraphInv'
  <1>0. TypeOK
    BY DEF Inv, QueueInv, TypeInv
  <1>1. PICK n \in 1..BatchSize : \E ms \in [1..n -> Receivable] :
           /\ batch' = [batch EXCEPT ![w] = [i \in 1..n |-> <<ms[i], receives[ms[i]] + 1>>]]
           /\ receives' = [m \in Message |->
                            IF m \in {ms[i] : i \in 1..n} THEN receives[m] + 1 ELSE receives[m]]
    BY DEF Receive
  <1>2. PICK ms \in [1..n -> Receivable] :
           /\ batch' = [batch EXCEPT ![w] = [i \in 1..n |-> <<ms[i], receives[ms[i]] + 1>>]]
           /\ receives' = [m \in Message |->
                            IF m \in {ms[i] : i \in 1..n} THEN receives[m] + 1 ELSE receives[m]]
    BY <1>1
  <1>3. /\ pc' = [pc EXCEPT ![w] = "record"]
        /\ pos' = [pos EXCEPT ![w] = 1]
        /\ UNCHANGED <<plan, elem, node, generalizes, requires>>
    BY DEF Receive, graphVars
  <1>4. n \in Nat /\ \A i \in 1..n : ms[i] \in Message /\ receives[ms[i]] \in 0..MaxReceives
                                     /\ receives[ms[i]] < MaxReceives
    BY <1>0, BoundsAssumption DEF TypeOK, Receivable
  <1>5. /\ Len(batch'[w]) = n
        /\ \A i \in 1..n : batch'[w][i] = <<ms[i], receives[ms[i]] + 1>>
    BY <1>0, <1>2, <1>4 DEF TypeOK
  <1>6. \A i \in 1..n : node[<<ms[i], receives[ms[i]] + 1>>] = NoNode
    <2> SUFFICES ASSUME NEW i \in 1..n PROVE node[<<ms[i], receives[ms[i]] + 1>>] = NoNode
      OBVIOUS
    <2>1. <<ms[i], receives[ms[i]] + 1>> \in Receipt
      BY <1>4, BoundsAssumption DEF Receipt
    <2> QED
      BY <1>4, <2>1 DEF Inv, GraphInv, FutureIsAbsent
  <1>7. pc'[w] = "record" /\ ~Plans(w)'
    BY <1>0, <1>3 DEF TypeOK, Plans
  <1>8. Knows(w)'
    BY <1>3, <1>5, <1>6, <1>7 DEF Knows
  <1>9. Frame(w)
    BY <1>0, <1>2, <1>3 DEF Frame, TypeOK
  <1>10. \A v \in Worker : Knows(v)'
    BY <1>3, <1>8, <1>9, OthersKnow
  <1>11. FutureIsAbsent'
    <2> SUFFICES ASSUME NEW r \in Receipt, r[2] > receives'[r[1]] PROVE node[r] = NoNode
      BY <1>3 DEF FutureIsAbsent
    <2>1. r[1] \in Message /\ r[2] \in Nat
      BY BoundsAssumption DEF Receipt
    <2>2. receives[r[1]] \in Nat /\ receives[r[1]] <= receives'[r[1]] /\ receives'[r[1]] \in Nat
      BY <1>0, <1>2, <2>1 DEF TypeOK
    <2> QED
      BY <2>1, <2>2 DEF Inv, GraphInv, FutureIsAbsent
  <1>12. Planned' \subseteq Planned
    <2>1. generalizes' \subseteq Planned
      BY <1>3 DEF Planned
    <2> QED
      BY <1>7, <1>9, <2>1, PlannedShrinks
  <1>13. Acyclic(Planned')
    BY <1>12, AcyclicSubset DEF Inv, GraphInv
  <1>14. Acyclic(Planned)'
    BY <1>13 DEF Acyclic
  <1>15. GeneralizationsWellTyped' /\ RequirementsWellTyped'
    BY <1>3 DEF Inv, GraphInv, GeneralizationsWellTyped, RequirementsWellTyped
  <1> QED
    BY <1>10, <1>11, <1>14, <1>15 DEF GraphInv

\* A search may plan a relationship; its source does not exist, so that nothing
\* leads to it, and its target does.
LEMMA GraphSearch ==
    ASSUME Inv, NEW w \in Worker, Search(w) PROVE GraphInv'
  <1>0. TypeOK /\ pos[w] <= Len(batch[w]) /\ pc[w] = "record"
    BY DEF Inv, QueueInv, TypeInv, Search, WellFormed, HasRecord
  <1>1. Current(w) \in ElementId /\ pos[w] \in 1..Len(batch[w]) /\ Job(w) \in Message
    BY <1>0, CurrentIsReceipt DEF ElementId
  <1>2. PICK near \in NearestSets(NameOf[Job(w)]) :
          \E d \in decide_concept_action(NameOf[Job(w)], NodeTypeOf[Job(w)],
                                          WithLabel(near, NodeTypeOf[Job(w)])) :
            /\ plan' = [plan EXCEPT ![w] = d]
            /\ elem' = [elem EXCEPT ![w] = IF d.kind = "use_existing" THEN d.target ELSE NoNode]
            /\ pc' = [pc EXCEPT ![w] = IF d.kind = "use_existing" THEN "assign" ELSE "create"]
    BY DEF Search
  <1> DEFINE hits == WithLabel(near, NodeTypeOf[Job(w)])
  <1>3. PICK d \in decide_concept_action(NameOf[Job(w)], NodeTypeOf[Job(w)], hits) :
            /\ plan' = [plan EXCEPT ![w] = d]
            /\ elem' = [elem EXCEPT ![w] = IF d.kind = "use_existing" THEN d.target ELSE NoNode]
            /\ pc' = [pc EXCEPT ![w] = IF d.kind = "use_existing" THEN "assign" ELSE "create"]
    BY <1>2
  <1>4. hits \in SUBSET ElementId
        /\ \A id \in hits : node[id] # NoNode /\ node[id].label = NodeTypeOf[Job(w)]
    BY SearchFindsPresent DEF Present
  <1> HIDE DEF hits
  <1>5. d \in ConceptDecision
        /\ (d.kind \in {"use_existing", "create_and_generalize"} =>
              /\ d.target \in ElementId
              /\ node[d.target] # NoNode
              /\ node[d.target].label = NodeTypeOf[Job(w)])
    BY <1>3, <1>4, DecisionType
  <1>6. UNCHANGED <<receives, batch, pos, node, generalizes, requires>>
    BY DEF Search, queueVars, graphVars
  <1>7. /\ pc'[w] = IF d.kind = "use_existing" THEN "assign" ELSE "create"
        /\ plan'[w] = d
        /\ elem'[w] = IF d.kind = "use_existing" THEN d.target ELSE NoNode
    BY <1>0, <1>3 DEF TypeOK
  <1>8. Frame(w)
    BY <1>0, <1>3, <1>6 DEF Frame, TypeOK
  <1>9. Current(w)' = Current(w) /\ Job(w)' = Job(w)
    BY <1>6 DEF Current, Job
  <1>10. node[Current(w)] = NoNode
    BY <1>0, <1>1 DEF Inv, GraphInv, Knows, Current
  <1>11. Knows(w)'
    <2>1. \A k \in 1..Len(batch[w]) :
             k > pos[w] \/ k = pos[w] => node[batch[w][k]] = NoNode
      BY <1>0 DEF Inv, GraphInv, Knows
    <2> QED
      BY <1>5, <1>6, <1>7, <1>9, <2>1 DEF Knows, Plans
  <1>12. \A v \in Worker : Knows(v)'
    BY <1>6, <1>8, <1>11, OthersKnow
  <1>13. FutureIsAbsent' /\ GeneralizationsWellTyped' /\ RequirementsWellTyped'
    BY <1>6 DEF Inv, GraphInv, FutureIsAbsent, GeneralizationsWellTyped, RequirementsWellTyped
  <1>14. Acyclic(Planned')
    <2>1. CASE ~Plans(w)'
      <3>1. generalizes' \subseteq Planned
        BY <1>6 DEF Planned
      <3>2. Planned' \subseteq Planned
        BY <1>8, <2>1, <3>1, PlannedShrinks
      <3> QED
        BY <3>2, AcyclicSubset DEF Inv, GraphInv
    <2>2. CASE Plans(w)'
      <3>1. d.kind = "create_and_generalize"
        BY <1>7, <2>2 DEF Plans
      <3>2. d.target # Current(w)
        BY <1>5, <1>10, <3>1
      <3>3. \A x : <<x, Current(w)>> \notin Planned
        BY <1>10, PlannedTargetExists
      <3>4. Acyclic(Planned \cup {<<Current(w), d.target>>})
        BY <1>1, <3>2, <3>3, AcyclicFresh DEF Inv, GraphInv
      <3>5. ASSUME NEW v \in Worker, Plans(v)'
            PROVE  <<Current(v), plan[v].target>>' \in Planned \cup {<<Current(w), d.target>>}
        <4>1. CASE v = w
          BY <1>7, <1>9, <4>1
        <4>2. CASE v # w
          <5>1. pc'[v] = pc[v] /\ plan'[v] = plan[v]
            BY <1>8, <4>2 DEF Frame
          <5>2. Plans(v) /\ Current(v)' = Current(v)
            BY <1>6, <3>5, <5>1 DEF Plans, Current
          <5> QED
            BY <5>1, <5>2 DEF Planned
        <4> QED
          BY <4>1, <4>2
      <3>6. generalizes' \subseteq Planned
        BY <1>6 DEF Planned
      <3>7. Planned' \subseteq Planned \cup {<<Current(w), d.target>>}
        BY <3>5, <3>6 DEF Planned
      <3> QED
        BY <3>4, <3>7, AcyclicSubset
    <2> QED
      BY <2>1, <2>2
  <1>15. Acyclic(Planned)'
    BY <1>14 DEF Acyclic
  <1> QED
    BY <1>12, <1>13, <1>15 DEF GraphInv

LEMMA GraphStartMilestone ==
    ASSUME Inv, NEW w \in Worker, StartMilestone(w) PROVE GraphInv'
  <1>0. TypeOK /\ pos[w] <= Len(batch[w]) /\ pc[w] = "record"
    BY DEF Inv, QueueInv, TypeInv, StartMilestone, WellFormed, HasRecord
  <1>1. UNCHANGED <<receives, batch, pos, elem, node, generalizes, requires>>
    BY DEF StartMilestone, queueVars, graphVars
  <1>2. pc'[w] = "create" /\ plan'[w] = CreateNew
    BY <1>0 DEF StartMilestone, TypeOK
  <1>3. ~Plans(w)'
    BY <1>2 DEF Plans, CreateNew
  <1>4. Frame(w)
    BY <1>0, <1>1 DEF StartMilestone, Frame, TypeOK
  <1>5. Knows(w)'
    BY <1>0, <1>1, <1>2, <1>3 DEF Inv, GraphInv, Knows
  <1>6. generalizes' \subseteq Planned
    BY <1>1 DEF Planned
  <1>7. GeneralizationsWellTyped' /\ RequirementsWellTyped'
    BY <1>1 DEF Inv, GraphInv, GeneralizationsWellTyped, RequirementsWellTyped
  <1> QED
    BY <1>1, <1>3, <1>4, <1>5, <1>6, <1>7, GraphFromParts

\* create_node: from here on others may find the node.
LEMMA GraphCreateNode ==
    ASSUME Inv, NEW w \in Worker, CreateNode(w) PROVE GraphInv'
  <1>0. TypeOK /\ pc[w] = "create" /\ pos[w] <= Len(batch[w])
    BY DEF Inv, QueueInv, TypeInv, Busy, CreateNode
  <1>1. UNCHANGED <<receives, batch, pos, plan, generalizes, requires>>
    BY DEF CreateNode, queueVars
  <1>2. /\ Current(w) \in ElementId
        /\ node'[Current(w)] # NoNode
        /\ node'[Current(w)].label = NodeTypeOf[Job(w)]
        /\ \A id \in ElementId : node[id] # NoNode => node'[id] = node[id]
        /\ \A id \in ElementId : id # Current(w) => node'[id] = node[id]
    BY <1>0, NewNodeIsNew DEF CreateNode
  <1>3. /\ elem'[w] = Current(w)
        /\ pc'[w] = IF Generalizing(w) THEN "generalize" ELSE "assign"
    BY <1>0 DEF CreateNode, TypeOK
  <1>4. Frame(w)
    BY <1>0, <1>1, <1>2 DEF CreateNode, Frame, TypeOK
  <1>5. Current(w)' = Current(w) /\ Job(w)' = Job(w)
    BY <1>1 DEF Current, Job
  <1>6. Plans(w)' => Plans(w)
    BY <1>0, <1>1 DEF Plans
  <1>7. Knows(w)'
    <2>1. ASSUME NEW k \in 1..Len(batch[w]), k > pos[w] PROVE node'[batch[w][k]] = NoNode
      <3>1. batch[w][k] \in ElementId /\ node[batch[w][k]] = NoNode
        BY <1>0, <2>1 DEF Inv, GraphInv, Knows, TypeOK, ElementId
      <3>2. pos[w] \in 1..Len(batch[w])
        BY <1>0, CurrentIsReceipt
      <3>3. batch[w][k] # Current(w)
        BY <2>1, <3>2 DEF Inv, QueueInv, BatchInv, HeldOnce, Current
      <3> QED
        BY <1>2, <3>1, <3>3
    <2>2. ASSUME Plans(w) PROVE /\ node'[plan[w].target] # NoNode
                                /\ node'[plan[w].target].label = NodeTypeOf[Job(w)]
      <3>1. /\ plan[w].target \in ElementId
            /\ node[plan[w].target] # NoNode
            /\ node[plan[w].target].label = NodeTypeOf[Job(w)]
        BY <2>2 DEF Inv, QueueInv, TypeInv, Busy, GraphInv, Knows, Plans
      <3> QED
        BY <1>2, <3>1
    <2>3. pc'[w] = "generalize" => NodeTypeOf[Job(w)] \in {"Knowledge", "Skill"}
      BY <1>3 DEF Generalizing
    <2>4. pc'[w] \in {"generalize", "assign"}
      BY <1>3
    <2> QED
      BY <1>1, <1>2, <1>3, <1>5, <1>6, <2>1, <2>2, <2>3, <2>4 DEF Knows
  <1>8. generalizes' \subseteq Planned
    BY <1>1 DEF Planned
  <1>9. GeneralizationsWellTyped' /\ RequirementsWellTyped'
    BY <1>1, <1>2, TypingKept DEF GeneralizationsWellTyped, RequirementsWellTyped
  <1> QED
    BY <1>0, <1>1, <1>4, <1>6, <1>7, <1>8, <1>9, GraphFromParts

LEMMA GraphCreateNodeFails ==
    ASSUME Inv, NEW w \in Worker, CreateNodeFails(w) PROVE GraphInv'
  <1>0. pc[w] = "create" /\ pos[w] <= Len(batch[w])
    BY DEF Inv, QueueInv, TypeInv, Busy, CreateNodeFails
  <1>1. UNCHANGED <<receives, generalizes, requires>>
    BY DEF CreateNodeFails, queueVars
  <1>2. MayCreate(w)
    BY <1>0 DEF CreateNodeFails, MayCreate
  <1>3. \A id \in ElementId : node[id] # NoNode => node'[id] = node[id]
    BY <1>2, NewNodeIsNew DEF MayCreate
  <1>4. generalizes' \subseteq Planned
    BY <1>1 DEF Planned
  <1>5. GeneralizationsWellTyped' /\ RequirementsWellTyped'
    BY <1>1, <1>3, TypingKept DEF GeneralizationsWellTyped, RequirementsWellTyped
  <1>6. PICK e : Fail(w, e)
    BY DEF CreateNodeFails
  <1> QED
    BY <1>0, <1>1, <1>2, <1>4, <1>5, <1>6, GraphFail

\* The relationship that create_generalization makes was planned, and joins
\* nodes of the label of the job.
LEMMA GeneralizationWasPlanned ==
    ASSUME Inv, NEW w \in Worker, pc[w] = "generalize", UNCHANGED node,
           AddGeneralization(w) \/ UNCHANGED generalizes
    PROVE  generalizes' \subseteq Planned /\ GeneralizationsWellTyped'
  <1>1. /\ Knows(w) /\ pos[w] <= Len(batch[w]) /\ TypeOK
        /\ plan[w].kind = "create_and_generalize"
    BY DEF Inv, GraphInv, QueueInv, TypeInv, Busy
  <1>2. /\ Plans(w) /\ elem[w] = Current(w) /\ Current(w) \in Receipt
        /\ NodeTypeOf[Job(w)] \in {"Knowledge", "Skill"}
    BY <1>1, CurrentIsReceipt DEF Knows, Plans
  <1>3. CASE UNCHANGED generalizes
    BY <1>3 DEF Planned, Inv, GraphInv, GeneralizationsWellTyped
  <1>4. CASE AddGeneralization(w)
    <2>1. generalizes' = generalizes \cup {<<Current(w), plan[w].target>>}
      BY <1>2, <1>4 DEF AddGeneralization
    <2>2. generalizes' \subseteq Planned
      BY <1>2, <2>1 DEF Planned
    <2>3. /\ node[Current(w)] # NoNode /\ node[plan[w].target] # NoNode
          /\ node[Current(w)].label = NodeTypeOf[Job(w)]
          /\ node[plan[w].target].label = NodeTypeOf[Job(w)]
      BY <1>1, <1>2 DEF Knows
    <2>4. GeneralizationsWellTyped'
      BY <1>2, <2>1, <2>3 DEF Inv, GraphInv, GeneralizationsWellTyped
    <2> QED
      BY <2>2, <2>4
  <1> QED
    BY <1>3, <1>4

LEMMA GraphGeneralize ==
    ASSUME Inv, NEW w \in Worker, create_generalization(w) PROVE GraphInv'
  <1>0. TypeOK /\ pc[w] = "generalize" /\ pos[w] <= Len(batch[w])
    BY DEF Inv, QueueInv, TypeInv, Busy, create_generalization
  <1>1. UNCHANGED <<receives, batch, pos, plan, elem, node, requires>>
    BY DEF create_generalization, queueVars
  <1>2. generalizes' \subseteq Planned /\ GeneralizationsWellTyped'
    BY <1>0, <1>1, GeneralizationWasPlanned DEF create_generalization
  <1>3. pc'[w] = "assign"
    BY <1>0 DEF create_generalization, TypeOK
  <1>4. Frame(w)
    BY <1>0, <1>1 DEF create_generalization, Frame, TypeOK
  <1>5. Job(w)' = Job(w) /\ ~Plans(w)'
    BY <1>1, <1>3 DEF Current, Job, Plans
  <1>6. Knows(w)'
    BY <1>0, <1>1, <1>3, <1>5 DEF Inv, GraphInv, Knows
  <1>7. RequirementsWellTyped'
    BY <1>1 DEF Inv, GraphInv, RequirementsWellTyped
  <1> QED
    BY <1>0, <1>1, <1>2, <1>4, <1>5, <1>6, <1>7, GraphFromParts

LEMMA GraphGeneralizationFails ==
    ASSUME Inv, NEW w \in Worker, GeneralizationFails(w) PROVE GraphInv'
  <1>0. pc[w] = "generalize" /\ pos[w] <= Len(batch[w])
    BY DEF Inv, QueueInv, TypeInv, Busy, GeneralizationFails
  <1>1. UNCHANGED <<receives, node, requires>>
    BY DEF GeneralizationFails, queueVars
  <1>2. generalizes' \subseteq Planned /\ GeneralizationsWellTyped'
    BY <1>0, <1>1, GeneralizationWasPlanned DEF GeneralizationFails
  <1>3. RequirementsWellTyped'
    BY <1>1 DEF Inv, GraphInv, RequirementsWellTyped
  <1> QED
    BY <1>0, <1>1, <1>2, <1>3, GraphFail DEF GeneralizationFails, MayCreate

\* A new requirement leads to the element id the invocation holds.
LEMMA RequirementIsTyped ==
    ASSUME Inv, NEW w \in Worker, pc[w] = "assign", UNCHANGED node,
           AddRequirement(w) \/ UNCHANGED requires
    PROVE  RequirementsWellTyped'
  <1>1. Knows(w) /\ RequirementsWellTyped
    BY DEF Inv, GraphInv
  <1>2. node[elem[w]] # NoNode /\ node[elem[w]].label = NodeTypeOf[Job(w)]
    BY <1>1 DEF Knows
  <1>3. Current(w)[1] = Job(w)
    BY DEF Job
  <1> QED
    BY <1>1, <1>2, <1>3 DEF RequirementsWellTyped, AddRequirement

LEMMA GraphAssign ==
    ASSUME Inv, NEW w \in Worker, AssignLevel(w) \/ AssignLevelFails(w) PROVE GraphInv'
  <1>0. pc[w] = "assign" /\ pos[w] <= Len(batch[w])
    BY DEF Inv, QueueInv, TypeInv, Busy, AssignLevel, AssignLevelFails
  <1>1. UNCHANGED <<receives, node, generalizes>>
    BY DEF AssignLevel, AssignLevelFails, queueVars
  <1>2. RequirementsWellTyped'
    BY <1>0, <1>1, RequirementIsTyped DEF AssignLevel, AssignLevelFails
  <1>3. generalizes' \subseteq Planned /\ GeneralizationsWellTyped'
    BY <1>1 DEF Planned, Inv, GraphInv, GeneralizationsWellTyped
  <1>4. MayCreate(w)
    BY <1>1 DEF MayCreate
  <1>5. CASE AssignLevelFails(w)
    BY <1>0, <1>1, <1>2, <1>3, <1>4, <1>5, GraphFail DEF AssignLevelFails
  <1>6. CASE AssignLevel(w)
    <2>1. Frame(w) /\ Knows(w)' /\ ~Plans(w)'
      BY <1>0, <1>4, <1>6, AfterRecord DEF AssignLevel, Settled
    <2> QED
      BY <1>0, <1>1, <1>2, <1>3, <2>1, GraphFromParts
  <1> QED
    BY <1>5, <1>6

\* Steps that end a record or an invocation and do not write to the graph.
LEMMA GraphEnds ==
    ASSUME Inv, NEW w \in Worker, UNCHANGED <<receives, node, generalizes, requires>>,
           EndInvocation(w) \/ EndsRecord(w)
    PROVE  GraphInv'
  <1>1. Frame(w) /\ Knows(w)' /\ ~Plans(w)'
    BY AfterRecord DEF EndsRecord, ReturnErr, MayCreate
  <1>2. generalizes' \subseteq Planned
    BY DEF Planned
  <1>3. GeneralizationsWellTyped' /\ RequirementsWellTyped'
    BY DEF Inv, GraphInv, GeneralizationsWellTyped, RequirementsWellTyped
  <1> QED
    BY <1>1, <1>2, <1>3, GraphFromParts

-----------------------------------------------------------------------------

LEMMA GraphStep == Inv /\ [Next]_vars => Inv'
  <1> SUFFICES ASSUME Inv, [Next]_vars PROVE GraphInv'
    BY QueueStep DEF Inv
  <1>1. ASSUME NEW m \in Message, SendMessage(m) \/ VisibilityExpires(m) \/ MoveToDLQ(m)
        PROVE  GraphInv'
    BY <1>1, GraphQuiet DEF SendMessage, VisibilityExpires, MoveToDLQ, graphVars
  <1>2. ASSUME DeleteLevels \/ UNCHANGED vars PROVE GraphInv'
    BY <1>2, GraphQuiet DEF DeleteLevels, vars, queueVars, graphVars
  <1>3. ASSUME NEW w \in Worker, SkipMalformed(w) PROVE GraphInv'
    BY <1>3, GraphEnds DEF SkipMalformed, HasRecord, EndsRecord, Settled, queueVars, graphVars
  <1>4. ASSUME NEW w \in Worker, LlmMissing(w) \/ SearchFails(w) \/ VerificationFails(w)
        PROVE  GraphInv'
    <2>1. pos[w] <= Len(batch[w]) /\ (\E e : Fail(w, e)) /\ UNCHANGED <<queueVars, graphVars>>
      BY <1>4 DEF LlmMissing, SearchFails, VerificationFails, WellFormed, HasRecord
    <2>2. EndsRecord(w)
      BY <2>1, FailEndsRecord
    <2> QED
      BY <2>1, <2>2, GraphEnds DEF queueVars, graphVars
  <1>5. ASSUME NEW w \in Worker, ReturnOk(w) \/ InvocationLost(w) PROVE GraphInv'
    BY <1>5, GraphEnds DEF ReturnOk, InvocationLost, queueVars, graphVars
  <1> QED
    BY <1>1, <1>2, <1>3, <1>4, <1>5, GraphReceive, GraphSearch, GraphStartMilestone,
       GraphCreateNode, GraphCreateNodeFails, GraphGeneralize, GraphGeneralizationFails,
       GraphAssign DEF Next, WorkerStep

LEMMA GraphInit == AnyInit => Inv
  <1> SUFFICES ASSUME AnyInit PROVE GraphInv
    BY QueueInit DEF Inv
  <1>1. \A w \in Worker : pc[w] = "idle" /\ batch[w] = << >>
    BY DEF AnyInit, InitButLevels
  <1>2. \A w \in Worker : Knows(w) /\ ~Plans(w)
    BY <1>1 DEF Knows, Plans
  <1>3. FutureIsAbsent
    <2> SUFFICES ASSUME NEW r \in Receipt PROVE node[r] = NoNode
      BY DEF FutureIsAbsent
    <2>1. r \in ElementId /\ r \notin Seed
      BY GraphAssumption DEF ElementId
    <2> QED
      BY <2>1 DEF AnyInit, InitButLevels
  <1>4. GeneralizationsWellTyped /\ RequirementsWellTyped
    BY DEF AnyInit, InitButLevels, GeneralizationsWellTyped, RequirementsWellTyped
  <1>5. Planned = {}
    BY <1>2 DEF AnyInit, InitButLevels, Planned
  <1>6. Acyclic(Planned)
    BY <1>5 DEF Acyclic
  <1> QED
    BY <1>2, <1>3, <1>4, <1>6 DEF GraphInv

LEMMA GraphCorrect == Spec => []Inv
  BY InitIsAny, GraphInit, GraphStep, PTL DEF Spec

\* GENERALIZES_TO never closes a circle, however many invocations search and
\* write at once, whatever the LLM answers and whichever writes fail.
THEOREM NoCircularGeneralization == Spec => []GeneralizationsAcyclic
  <1>1. Inv => GeneralizationsAcyclic
    <2> SUFFICES ASSUME Inv PROVE Acyclic(generalizes)
      BY DEF GeneralizationsAcyclic
    <2>1. generalizes \subseteq Planned
      BY DEF Planned
    <2> QED
      BY <2>1, AcyclicSubset DEF Inv, GraphInv
  <1> QED
    BY GraphCorrect, <1>1, PTL

\* GENERALIZES_TO joins existing nodes of one label, Knowledge or Skill, and
\* starts at a node that a job created, whatever the LLM answers.
THEOREM GeneralizationsTyped == Spec => []GeneralizationsWellTyped
  <1>1. Inv => GeneralizationsWellTyped
    BY DEF Inv, GraphInv
  <1> QED
    BY GraphCorrect, <1>1, PTL

\* REQUIRES_<type> leads to an existing node of that type, although nodes of all
\* types share the similarity index and invocations write at the same time.
THEOREM RequirementsTyped == Spec => []RequirementsWellTyped
  <1>1. Inv => RequirementsWellTyped
    BY DEF Inv, GraphInv
  <1> QED
    BY GraphCorrect, <1>1, PTL
-----------------------------------------------------------------------------
(* SuccessIsLinked is not inductive.  The write of the requirement comes     *)
(* several calls after the search, so that a delivery which is about to      *)
(* attach another node has created none has to be carried to that write      *)
(* (Chosen); and what is said of a delivery that is over must not be undone  *)
(* by a node created later under its id, so a delivery with a requirement is *)
(* over (MadeByEnded).                                                       *)

Chosen(w) == pc[w] = "assign" /\ elem[w] # Current(w) => node[Current(w)] = NoNode

MadeByEnded == \A e \in requires : result[e.by] # "pending"

\* SuccessIsLinked, with the level that determine_level returns.
Linked ==
    \A r \in Receipt : result[r] = "ok" /\ LevelOf(r[1]) \in levels =>
        \E e \in requires :
            /\ e.by = r
            /\ e.level = LevelOf(r[1])
            /\ node[r] # NoNode => e.node = r

LinkInv ==
    /\ \A w \in Worker : Chosen(w)
    /\ MadeByEnded
    /\ Linked

\* determine_level finds the level that a job wants, and there is only one.
LEMMA LevelIsWanted ==
    ASSUME NEW m \in Message, NEW l \in DomainLevels
    PROVE  Wants(m, l) <=> l = LevelOf(m)
  <1> DEFINE s == SuggestedLevel[m]
  <1>1. s \in 0..255 \/ s = NoLevel
    BY JobAssumption
  <1>2. CASE s = NoLevel
    BY <1>2 DEF Wants, LevelOf, determine_level
  <1>3. CASE s # NoLevel
    <2>1. s \in 0..255 /\ LevelOf(m) = IF s < 1 THEN 1 ELSE IF s > 5 THEN 5 ELSE s
      BY <1>1, <1>3 DEF LevelOf, determine_level
    <2>2. Wants(m, l) <=> \A k \in 1..5 : Distance(s, l) <= Distance(s, k)
      BY <1>3 DEF Wants, DomainLevels
    <2> HIDE DEF s
    <2>3. ASSUME l = LevelOf(m), NEW k \in 1..5 PROVE Distance(s, l) <= Distance(s, k)
      BY <2>1, <2>3 DEF Distance
    <2>4. ASSUME \A k \in 1..5 : Distance(s, l) <= Distance(s, k) PROVE l = LevelOf(m)
      <3>1. LevelOf(m) \in 1..5 /\ l \in 1..5
        BY <2>1 DEF DomainLevels
      <3>2. Distance(s, l) <= Distance(s, LevelOf(m))
        BY <2>4, <3>1
      <3> QED
        BY <2>1, <3>1, <3>2 DEF Distance
    <2> QED
      BY <2>2, <2>3, <2>4
  <1> QED
    BY <1>2, <1>3

LEMMA LinkedIsSuccess == ASSUME TypeOK, Linked PROVE SuccessIsLinked
  <1> SUFFICES ASSUME NEW r \in Receipt, NEW l \in levels, result[r] = "ok", Wants(r[1], l)
               PROVE  \E e \in requires : /\ e.by = r /\ e.level = l
                                          /\ node[r] # NoNode => e.node = r
    BY DEF SuccessIsLinked
  <1>1. r[1] \in Message /\ l \in DomainLevels
    BY DEF Receipt, TypeOK
  <1>2. l = LevelOf(r[1])
    BY <1>1, LevelIsWanted
  <1> QED
    BY <1>2 DEF Linked

\* Nodes are kept, and so is all that is recorded under a delivery that is over.
EndedIsKept ==
    /\ \A id \in ElementId : node[id] # NoNode => node'[id] = node[id]
    /\ \A r \in Receipt : result[r] # "pending" => result'[r] = result[r] /\ node'[r] = node[r]

\* The current record of an invocation is open, and no other invocation's.
LEMMA CurrentIsOpen ==
    ASSUME Inv, NEW w \in Worker, pos[w] <= Len(batch[w])
    PROVE  /\ result[Current(w)] = "pending"
           /\ Current(w) \in Receipt /\ Current(w) \in ElementId
           /\ \A v \in Worker : v # w /\ pos[v] <= Len(batch[v]) => Current(v) # Current(w)
  <1>1. TypeOK
    BY DEF Inv, QueueInv, TypeInv
  <1>2. \A v \in Worker : pos[v] <= Len(batch[v]) => pos[v] \in 1..Len(batch[v])
    BY <1>1, CurrentIsReceipt
  <1>3. Current(w) \in Receipt /\ Current(w) \in ElementId
    BY <1>1, CurrentIsReceipt DEF ElementId
  <1>4. result[Current(w)] = "pending"
    BY <1>1, <1>2 DEF Inv, QueueInv, BatchInv, BatchProgress, Current, TypeOK
  <1>5. \A v \in Worker : v # w /\ pos[v] <= Len(batch[v]) => Current(v) # Current(w)
    BY <1>2 DEF Inv, QueueInv, BatchInv, HeldOnce, Current
  <1> QED
    BY <1>3, <1>4, <1>5

\* A step that writes under the current record only keeps what is over.
LEMMA EndedKept ==
    ASSUME Inv, NEW w \in Worker, pos[w] <= Len(batch[w]), MayCreate(w),
           UNCHANGED result \/ \E o : result' = [result EXCEPT ![Current(w)] = o]
    PROVE  EndedIsKept
  <1>1. result[Current(w)] = "pending" /\ Current(w) \in Receipt
    BY CurrentIsOpen
  <1>2. \A id \in ElementId : node[id] # NoNode => node'[id] = node[id]
    BY NewNodeIsNew DEF MayCreate
  <1>3. \A id \in ElementId : id # Current(w) => node'[id] = node[id]
    BY NewNodeIsNew DEF MayCreate
  <1>4. \A r \in Receipt : r # Current(w) => result'[r] = result[r]
    BY DEF Inv, QueueInv, TypeInv, TypeOK
  <1> QED
    BY <1>1, <1>2, <1>3, <1>4 DEF EndedIsKept, ElementId

\* The choices of the other invocations stay as they are.
LEMMA OthersChosen ==
    ASSUME Inv, LinkInv, NEW w \in Worker, Frame(w),
           pos[w] <= Len(batch[w]) \/ node' = node, NEW v \in Worker, v # w
    PROVE  Chosen(v)'
  <1> SUFFICES ASSUME pc'[v] = "assign", elem'[v] # Current(v)' PROVE node'[Current(v)'] = NoNode
    BY DEF Chosen
  <1>1. /\ pc[v] = "assign" /\ elem'[v] = elem[v] /\ Current(v)' = Current(v)
    BY DEF Frame, Current
  <1>2. node[Current(v)] = NoNode /\ pos[v] <= Len(batch[v]) /\ TypeOK
    BY <1>1 DEF LinkInv, Chosen, Inv, QueueInv, TypeInv, Busy
  <1>3. Current(v) \in ElementId
    BY <1>2, CurrentIsOpen
  <1>4. CASE node' = node
    BY <1>1, <1>2, <1>4
  <1>5. CASE pos[w] <= Len(batch[w])
    <2>1. Current(v) # Current(w)
      BY <1>2, <1>5, CurrentIsOpen
    <2> QED
      BY <1>1, <1>2, <1>3, <2>1 DEF Frame
  <1> QED
    BY <1>4, <1>5

\* A success that is linked stays linked.
LEMMA LinksKept ==
    ASSUME Inv, LinkInv, EndedIsKept,
           requires \subseteq requires',
           levels' = levels,
           \A e \in requires' \ requires : result'[e.by] # "pending",
           \A r \in Receipt : result'[r] = "ok" /\ result[r] # "ok" /\ LevelOf(r[1]) \in levels =>
              \E e \in requires' : /\ e.by = r /\ e.level = LevelOf(r[1])
                                   /\ node'[r] # NoNode => e.node = r
    PROVE  MadeByEnded' /\ Linked'
  <1>0. TypeOK
    BY DEF Inv, QueueInv, TypeInv
  <1>1. \A e \in requires : e.by \in Receipt
    BY <1>0 DEF TypeOK, Requirement
  <1>2. MadeByEnded'
    BY <1>1 DEF LinkInv, MadeByEnded, EndedIsKept
  <1>3. Linked'
    <2> SUFFICES ASSUME NEW r \in Receipt, result'[r] = "ok", LevelOf(r[1]) \in levels
                 PROVE  \E e \in requires' : /\ e.by = r /\ e.level = LevelOf(r[1])
                                             /\ node'[r] # NoNode => e.node = r
      BY DEF Linked
    <2>1. CASE result[r] = "ok"
      <3>1. node'[r] = node[r]
        BY <2>1 DEF EndedIsKept
      <3> QED
        BY <2>1, <3>1 DEF LinkInv, Linked
    <2>2. CASE result[r] # "ok"
      BY <2>2
    <2> QED
      BY <2>1, <2>2
  <1> QED
    BY <1>2, <1>3

\* Steps that attach nothing and report no success.
LEMMA LinkSteady ==
    ASSUME Inv, LinkInv, EndedIsKept, UNCHANGED <<requires, levels>>,
           \A r \in Receipt : result'[r] = "ok" => result[r] = "ok",
           NEW w \in Worker, Frame(w), pos[w] <= Len(batch[w]) \/ node' = node, Chosen(w)'
    PROVE  LinkInv'
  <1>1. MadeByEnded' /\ Linked'
    BY LinksKept
  <1>2. \A v \in Worker : Chosen(v)'
    BY OthersChosen
  <1> QED
    BY <1>1, <1>2 DEF LinkInv

-----------------------------------------------------------------------------
(* One lemma per kind of step. *)

\* Steps that leave the invocations, the nodes and the outcomes alone; one of
\* them may delete all levels with their requirements.
LEMMA LinkQuiet ==
    ASSUME Inv, LinkInv, UNCHANGED <<workerVars, node, result>>,
           UNCHANGED <<levels, requires>> \/ (levels' = {} /\ requires' = {})
    PROVE  LinkInv'
  <1>1. UNCHANGED <<pc, batch, pos, elem>>
    BY DEF workerVars
  <1>2. \A w \in Worker : Chosen(w)'
    BY <1>1 DEF LinkInv, Chosen, Current
  <1>3. CASE UNCHANGED <<levels, requires>>
    BY <1>2, <1>3 DEF LinkInv, MadeByEnded, Linked
  <1>4. CASE levels' = {} /\ requires' = {}
    BY <1>2, <1>4 DEF LinkInv, MadeByEnded, Linked
  <1> QED
    BY <1>3, <1>4

LEMMA LinkReceive ==
    ASSUME Inv, LinkInv, NEW w \in Worker, Receive(w) PROVE LinkInv'
  <1>1. TypeOK
    BY DEF Inv, QueueInv, TypeInv
  <1>2. UNCHANGED <<plan, elem, node, requires, levels, result>>
    BY DEF Receive, graphVars
  <1>3. Frame(w)
    BY <1>1, <1>2 DEF Receive, Frame, TypeOK
  <1>4. Chosen(w)'
    BY <1>1 DEF Receive, TypeOK, Chosen
  <1>5. EndedIsKept
    BY <1>2 DEF EndedIsKept
  <1> QED
    BY <1>2, <1>3, <1>4, <1>5, LinkSteady

\* Steps that end the record badly or skip it, or end the invocation.
LEMMA LinkEnds ==
    ASSUME Inv, LinkInv, NEW w \in Worker, MayCreate(w), UNCHANGED <<requires, levels>>,
           \/ EndInvocation(w) /\ UNCHANGED result /\ node' = node
           \/ pos[w] <= Len(batch[w]) /\ ReturnErr(w)
           \/ /\ pos[w] <= Len(batch[w])
              /\ \E o \in {"skipped", "dropped"} : NextRecord(w, o)
    PROVE  LinkInv'
  <1>1. TypeOK
    BY DEF Inv, QueueInv, TypeInv
  <1>2. Frame(w)
    BY AfterRecord DEF ReturnErr, Settled
  <1>3. pc'[w] \in {"idle", "record"}
    BY <1>1 DEF EndInvocation, ReturnErr, NextRecord, TypeOK
  <1>4. Chosen(w)'
    BY <1>3 DEF Chosen
  <1>5. CASE UNCHANGED <<result, node>>
    BY <1>2, <1>4, <1>5, LinkSteady DEF EndedIsKept
  <1>6. CASE pos[w] <= Len(batch[w]) /\
             \E o \in {"skipped", "dropped", "retry"} : result' = [result EXCEPT ![Current(w)] = o]
    <2>1. EndedIsKept
      BY <1>6, EndedKept
    <2>2. \A r \in Receipt : result'[r] = "ok" => result[r] = "ok"
      BY <1>1, <1>6 DEF TypeOK
    <2> QED
      BY <1>2, <1>4, <1>6, <2>1, <2>2, LinkSteady
  <1> QED
    BY <1>5, <1>6 DEF ReturnErr, NextRecord

LEMMA LinkFail ==
    ASSUME Inv, LinkInv, NEW w \in Worker, MayCreate(w), UNCHANGED <<requires, levels>>,
           pos[w] <= Len(batch[w]), NEW e, Fail(w, e)
    PROVE  LinkInv'
  BY LinkEnds DEF Fail

LEMMA LinkSearch ==
    ASSUME Inv, LinkInv, NEW w \in Worker, Search(w) PROVE LinkInv'
  <1>0. TypeOK /\ pos[w] <= Len(batch[w]) /\ pc[w] = "record"
    BY DEF Inv, QueueInv, TypeInv, Search, WellFormed, HasRecord
  <1>1. pos[w] \in 1..Len(batch[w])
    BY <1>0, CurrentIsReceipt
  <1>2. UNCHANGED <<batch, pos, node, requires, levels, result>>
    BY DEF Search, graphVars
  <1>3. Frame(w)
    BY <1>0, <1>2 DEF Search, Frame, TypeOK
  <1>4. node[Current(w)] = NoNode
    BY <1>0, <1>1 DEF Inv, GraphInv, Knows, Current
  <1>5. Chosen(w)'
    BY <1>2, <1>4 DEF Chosen, Current
  <1>6. EndedIsKept
    BY <1>2 DEF EndedIsKept
  <1> QED
    BY <1>2, <1>3, <1>5, <1>6, LinkSteady

LEMMA LinkStartMilestone ==
    ASSUME Inv, LinkInv, NEW w \in Worker, StartMilestone(w) PROVE LinkInv'
  <1>1. TypeOK
    BY DEF Inv, QueueInv, TypeInv
  <1>2. UNCHANGED <<batch, pos, elem, node, requires, levels, result>>
    BY DEF StartMilestone, graphVars
  <1>3. Frame(w)
    BY <1>1, <1>2 DEF StartMilestone, Frame, TypeOK
  <1>4. Chosen(w)'
    BY <1>1 DEF StartMilestone, TypeOK, Chosen
  <1> QED
    BY <1>2, <1>3, <1>4, LinkSteady DEF EndedIsKept

\* From here on the delivery assigns the node that it created.
LEMMA LinkCreateNode ==
    ASSUME Inv, LinkInv, NEW w \in Worker, CreateNode(w) PROVE LinkInv'
  <1>1. TypeOK /\ pc[w] = "create" /\ pos[w] <= Len(batch[w])
    BY DEF Inv, QueueInv, TypeInv, Busy, CreateNode
  <1>2. UNCHANGED <<batch, pos, plan, requires, levels, result>>
    BY DEF CreateNode
  <1>3. MayCreate(w)
    BY <1>1 DEF CreateNode, MayCreate
  <1>4. /\ \A id \in ElementId : node[id] # NoNode => node'[id] = node[id]
        /\ \A id \in ElementId : id # Current(w) => node'[id] = node[id]
    BY <1>1, NewNodeIsNew DEF CreateNode
  <1>5. Frame(w)
    BY <1>1, <1>2, <1>4 DEF CreateNode, Frame, TypeOK
  <1>6. elem'[w] = Current(w) /\ Current(w)' = Current(w)
    BY <1>1, <1>2 DEF CreateNode, TypeOK, Current
  <1>7. Chosen(w)'
    BY <1>6 DEF Chosen
  <1>8. EndedIsKept
    BY <1>1, <1>2, <1>3, EndedKept
  <1> QED
    BY <1>1, <1>2, <1>5, <1>7, <1>8, LinkSteady

LEMMA LinkGeneralize ==
    ASSUME Inv, LinkInv, NEW w \in Worker, create_generalization(w) PROVE LinkInv'
  <1>1. TypeOK /\ pc[w] = "generalize"
    BY DEF Inv, QueueInv, TypeInv, create_generalization
  <1>2. UNCHANGED <<batch, pos, plan, elem, node, requires, levels, result>>
    BY DEF create_generalization
  <1>3. Frame(w)
    BY <1>1, <1>2 DEF create_generalization, Frame, TypeOK
  <1>4. elem[w] = Current(w)
    BY <1>1 DEF Inv, GraphInv, Knows
  <1>5. Chosen(w)'
    BY <1>2, <1>4 DEF Chosen, Current
  <1> QED
    BY <1>2, <1>3, <1>5, LinkSteady DEF EndedIsKept

\* The write of the requirement.  Only a write that succeeded is a success.
LEMMA LinkAssign ==
    ASSUME Inv, LinkInv, NEW w \in Worker, AssignLevel(w) \/ AssignLevelFails(w)
    PROVE  LinkInv'
  <1>0. TypeOK /\ pc[w] = "assign" /\ pos[w] <= Len(batch[w])
    BY DEF Inv, QueueInv, TypeInv, Busy, AssignLevel, AssignLevelFails
  <1>1. UNCHANGED <<node, levels>> /\ MayCreate(w)
    BY DEF AssignLevel, AssignLevelFails, MayCreate
  <1>2. /\ Current(w) \in Receipt /\ Current(w)[1] = Job(w)
        /\ result[Current(w)] = "pending"
    BY <1>0, CurrentIsOpen DEF Job
  <1>3. PICK o \in {"ok", "retry"} :
           /\ result' = [result EXCEPT ![Current(w)] = o]
           /\ o = "ok" => AddRequirement(w)
    BY DEF AssignLevel, AssignLevelFails, Fail, is_retryable_error, ReturnErr, NextRecord
  <1>4. EndedIsKept
    BY <1>0, <1>1, <1>3, EndedKept
  <1>5. Frame(w)
    BY <1>0, <1>1, AfterRecord
    DEF AssignLevel, AssignLevelFails, Fail, is_retryable_error, ReturnErr, Settled
  <1>6. pc'[w] \in {"idle", "record"}
    BY <1>0
    DEF AssignLevel, AssignLevelFails, Fail, is_retryable_error, ReturnErr, NextRecord,
        EndInvocation, TypeOK
  <1>7. \A v \in Worker : Chosen(v)'
    <2>1. Chosen(w)'
      BY <1>6 DEF Chosen
    <2> QED
      BY <1>0, <1>5, <2>1, OthersChosen
  <1> DEFINE new == [level |-> LevelOf(Job(w)), kind |-> NodeTypeOf[Job(w)],
                     node |-> elem[w], by |-> Current(w)]
  <1>8. /\ new.level = LevelOf(Job(w)) /\ new.kind = NodeTypeOf[Job(w)]
        /\ new.node = elem[w] /\ new.by = Current(w)
    OBVIOUS
  <1>9. requires' = requires \/ requires' = requires \cup {new}
    BY DEF AssignLevel, AssignLevelFails, AddRequirement
  <1>10. o = "ok" /\ LevelOf(Job(w)) \in levels => new \in requires'
    BY <1>3 DEF AddRequirement
  <1> HIDE DEF new
  <1>11. result'[Current(w)] = o
    BY <1>0, <1>2, <1>3 DEF TypeOK
  <1>12. \A e \in requires' \ requires : result'[e.by] # "pending"
    BY <1>8, <1>9, <1>11
  <1>13. ASSUME NEW r \in Receipt, result'[r] = "ok", result[r] # "ok", LevelOf(r[1]) \in levels
         PROVE  \E e \in requires' : /\ e.by = r /\ e.level = LevelOf(r[1])
                                     /\ node'[r] # NoNode => e.node = r
    <2>1. r = Current(w) /\ o = "ok"
      BY <1>0, <1>2, <1>3, <1>13 DEF TypeOK
    <2>2. new \in requires'
      BY <1>2, <1>10, <1>13, <2>1
    <2>3. node[r] # NoNode => elem[w] = r
      BY <1>0, <2>1 DEF LinkInv, Chosen
    <2> QED
      BY <1>1, <1>2, <1>8, <2>1, <2>2, <2>3
  <1>14. MadeByEnded' /\ Linked'
    BY <1>1, <1>4, <1>9, <1>12, <1>13, LinksKept
  <1> QED
    BY <1>7, <1>14 DEF LinkInv

-----------------------------------------------------------------------------

LEMMA LinkStep == Inv /\ LinkInv /\ [Next]_vars => LinkInv'
  <1> SUFFICES ASSUME Inv, LinkInv, [Next]_vars PROVE LinkInv'
    OBVIOUS
  <1>1. ASSUME NEW m \in Message, SendMessage(m) \/ VisibilityExpires(m) \/ MoveToDLQ(m)
        PROVE  LinkInv'
    BY <1>1, LinkQuiet DEF SendMessage, VisibilityExpires, MoveToDLQ, graphVars
  <1>2. ASSUME DeleteLevels \/ UNCHANGED vars PROVE LinkInv'
    BY <1>2, LinkQuiet DEF DeleteLevels, vars, graphVars
  <1>3. ASSUME NEW w \in Worker, SkipMalformed(w) PROVE LinkInv'
    BY <1>3, LinkEnds DEF SkipMalformed, HasRecord, graphVars, MayCreate
  <1>4. ASSUME NEW w \in Worker, LlmMissing(w) \/ SearchFails(w) \/ VerificationFails(w)
        PROVE  LinkInv'
    <2>1. pos[w] <= Len(batch[w]) /\ (\E e : Fail(w, e)) /\ UNCHANGED graphVars
      BY <1>4 DEF LlmMissing, SearchFails, VerificationFails, WellFormed, HasRecord
    <2> QED
      BY <2>1, LinkFail DEF graphVars, MayCreate
  <1>5. ASSUME NEW w \in Worker, ReturnOk(w) \/ InvocationLost(w) PROVE LinkInv'
    BY <1>5, LinkEnds DEF ReturnOk, InvocationLost, graphVars, MayCreate
  <1>6. ASSUME NEW w \in Worker, CreateNodeFails(w) \/ GeneralizationFails(w) PROVE LinkInv'
    <2>1. pos[w] <= Len(batch[w])
      BY <1>6 DEF Inv, QueueInv, TypeInv, Busy, CreateNodeFails, GeneralizationFails
    <2>2. (\E e : Fail(w, e)) /\ UNCHANGED <<requires, levels>> /\ MayCreate(w)
      BY <1>6 DEF CreateNodeFails, GeneralizationFails, MayCreate
    <2> QED
      BY <2>1, <2>2, LinkFail
  <1> QED
    BY <1>1, <1>2, <1>3, <1>4, <1>5, <1>6, LinkReceive, LinkSearch, LinkStartMilestone,
       LinkCreateNode, LinkGeneralize, LinkAssign DEF Next, WorkerStep

LEMMA LinkInit == AnyInit => LinkInv
  BY DEF AnyInit, InitButLevels, LinkInv, Chosen, MadeByEnded, Linked

LEMMA LinkCorrect == Spec => []LinkInv
  BY InitIsAny, LinkInit, LinkStep, GraphCorrect, PTL DEF Spec

\* A delivery that is logged as a success has attached a node to the level its
\* job wants, its own if it created one, for any suggestion of the level, for any number of concurrent invocations and whatever
\* the other deliveries of the same job did (process, handle_sqs_event).
THEOREM SuccessIsReal == Spec => []SuccessIsLinked
  <1>1. Inv /\ LinkInv => SuccessIsLinked
    BY LinkedIsSuccess DEF Inv, QueueInv, TypeInv, LinkInv
  <1> QED
    BY LinkCorrect, GraphCorrect, <1>1, PTL
=============================================================================
