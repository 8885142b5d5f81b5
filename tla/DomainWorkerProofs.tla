------------------------- MODULE DomainWorkerProofs -------------------------
(***************************************************************************)
(* Proofs about DomainWorker, for any number of messages, invocations,     *)
(* deliveries and nodes, and for any similarity of names.                  *)
(***************************************************************************)
EXTENDS DomainWorker, TLAPS

-----------------------------------------------------------------------------
(* Type correctness. *)

\* An invocation that is between two calls of process() has a current record,
\* and the element ids that its next call uses.
Busy(w) ==
    /\ pc[w] \in {"create", "generalize", "assign"} => pos[w] <= Len(batch[w])
    /\ pc[w] \in {"generalize", "assign"} => elem[w] \in ElementId
    /\ pc[w] = "generalize" => plan[w].kind = "create_and_generalize"
    /\ plan[w].kind = "create_and_generalize" => plan[w].target \in ElementId

TypeInv == TypeOK /\ \A w \in Worker : Busy(w)

\* The current record of an invocation that has one is a delivery.
LEMMA CurrentIsReceipt ==
    ASSUME TypeOK, NEW w \in Worker, pos[w] <= Len(batch[w])
    PROVE  /\ Current(w) \in Receipt
           /\ Job(w) \in Message
           /\ pos[w] \in 1..Len(batch[w])
  BY DEF TypeOK, Current, Job, Receipt

\* The level that determine_level chooses is one of the five.
LEMMA LevelInRange == ASSUME NEW m \in Message PROVE LevelOf(m) \in DomainLevels
  BY JobAssumption DEF LevelOf, determine_level, DomainLevels

\* Going on with the next record keeps the types.
LEMMA NextRecordType ==
    ASSUME TypeInv, NEW w \in Worker, pos[w] <= Len(batch[w]),
           NEW o \in Outcome, NextRecord(w, o)
    PROVE  /\ pc' \in [Worker -> Step]
           /\ batch' \in [Worker -> Seq(Receipt)]
           /\ pos' \in [Worker -> Nat \ {0}]
           /\ plan' \in [Worker -> ConceptDecision]
           /\ elem' \in [Worker -> Target]
           /\ result' \in [Receipt -> Outcome]
           /\ \A v \in Worker : Busy(v)'
  <1> USE DEF TypeInv
  <1>1. Current(w) \in Receipt
    BY CurrentIsReceipt
  <1>2. CreateNew \in ConceptDecision /\ NoNode \in Target
    BY DEF CreateNew, ConceptDecision, Target
  <1>3. pos' \in [Worker -> Nat \ {0}] /\ pc' \in [Worker -> Step]
    BY DEF NextRecord, TypeOK, Step
  <1>4. plan' \in [Worker -> ConceptDecision] /\ elem' \in [Worker -> Target]
    BY <1>2 DEF NextRecord, TypeOK
  <1>5. result' \in [Receipt -> Outcome]
    BY <1>1 DEF NextRecord, TypeOK
  <1>6. \A v \in Worker : Busy(v)'
    BY DEF NextRecord, TypeOK, Busy, CreateNew
  <1> QED
    BY <1>3, <1>4, <1>5, <1>6 DEF NextRecord, TypeOK

\* So does the end of an invocation.
LEMMA EndInvocationType ==
    ASSUME TypeInv, NEW w \in Worker, EndInvocation(w)
    PROVE  /\ pc' \in [Worker -> Step]
           /\ batch' \in [Worker -> Seq(Receipt)]
           /\ pos' \in [Worker -> Nat \ {0}]
           /\ plan' \in [Worker -> ConceptDecision]
           /\ elem' \in [Worker -> Target]
           /\ \A v \in Worker : Busy(v)'
  <1> USE DEF TypeInv
  <1>1. CreateNew \in ConceptDecision /\ NoNode \in Target
    BY DEF CreateNew, ConceptDecision, Target
  <1>2. << >> \in Seq(Receipt)
    OBVIOUS
  <1>3. pc' \in [Worker -> Step] /\ pos' \in [Worker -> Nat \ {0}]
    BY DEF EndInvocation, TypeOK, Step
  <1>4. batch' \in [Worker -> Seq(Receipt)]
    BY <1>2 DEF EndInvocation, TypeOK
  <1>5. plan' \in [Worker -> ConceptDecision] /\ elem' \in [Worker -> Target]
    BY <1>1 DEF EndInvocation, TypeOK
  <1>6. \A v \in Worker : Busy(v)'
    BY DEF EndInvocation, TypeOK, Busy, CreateNew
  <1> QED
    BY <1>3, <1>4, <1>5, <1>6

\* And therefore an error of process_job, retryable or not.
LEMMA FailType ==
    ASSUME TypeInv, NEW w \in Worker, pos[w] <= Len(batch[w]), NEW e, Fail(w, e)
    PROVE  /\ pc' \in [Worker -> Step]
           /\ batch' \in [Worker -> Seq(Receipt)]
           /\ pos' \in [Worker -> Nat \ {0}]
           /\ plan' \in [Worker -> ConceptDecision]
           /\ elem' \in [Worker -> Target]
           /\ result' \in [Receipt -> Outcome]
           /\ \A v \in Worker : Busy(v)'
  <1>1. CASE is_retryable_error(e)
    <2>1. Current(w) \in Receipt
      BY CurrentIsReceipt DEF TypeInv
    <2>2. result' \in [Receipt -> Outcome]
      BY <1>1, <2>1 DEF Fail, ReturnErr, TypeInv, TypeOK, Outcome
    <2> QED
      BY <1>1, <2>2, EndInvocationType DEF Fail, ReturnErr
  <1>2. CASE ~is_retryable_error(e)
    BY <1>2, NextRecordType DEF Fail, Outcome
  <1> QED
    BY <1>1, <1>2

\* A node that a delivery creates is a node.
LEMMA NewNodeType ==
    ASSUME TypeOK, NEW w \in Worker, pos[w] <= Len(batch[w]), NewNode(w)
    PROVE  node' \in [ElementId -> NodeRecord \cup {NoNode}]
  <1>1. Current(w) \in ElementId /\ Job(w) \in Message
    BY CurrentIsReceipt DEF ElementId
  <1>2. PICK name \in GeneratedName[NameOf[Job(w)]] :
            node' = [node EXCEPT ![Current(w)] = [label |-> NodeTypeOf[Job(w)], name |-> name]]
    BY DEF NewNode
  <1>3. NodeTypeOf[Job(w)] \in NodeType /\ NameOf[Job(w)] \in Concept
    BY <1>1, JobAssumption
  <1>4. name \in Concept
    BY <1>3, GraphAssumption
  <1>5. [label |-> NodeTypeOf[Job(w)], name |-> name] \in NodeRecord
    BY <1>3, <1>4 DEF NodeRecord
  <1> QED
    BY <1>1, <1>2, <1>5 DEF TypeOK

LEMMA RequirementType ==
    ASSUME TypeOK, NEW w \in Worker, pos[w] <= Len(batch[w]),
           elem[w] \in ElementId, AddRequirement(w)
    PROVE  requires' \subseteq Requirement
  <1>1. Current(w) \in Receipt /\ Job(w) \in Message
    BY CurrentIsReceipt
  <1>2. LevelOf(Job(w)) \in DomainLevels
    BY <1>1, LevelInRange
  <1>3. [level |-> LevelOf(Job(w)), kind |-> NodeTypeOf[Job(w)],
         node |-> elem[w], by |-> Current(w)] \in Requirement
    BY <1>1, <1>2, JobAssumption DEF Requirement
  <1> QED
    BY <1>3 DEF AddRequirement, TypeOK

\* What decide_concept_action returns is a decision, and its target is one of
\* the nodes that the search found.
LEMMA DecisionType ==
    ASSUME NEW name, NEW label, NEW hits \in SUBSET ElementId,
           NEW d \in decide_concept_action(name, label, hits)
    PROVE  /\ d \in ConceptDecision
           /\ d.kind \in {"use_existing", "create_and_generalize"} => d.target \in hits
  <1> DEFINE reuse == {id \in TopMatches(name, hits) : ScoreOf(name, id) >= AutoReuse(label)}
             asked == IF AsksLlm(name, label, hits) THEN hits ELSE {}
  <1>1. reuse \subseteq hits /\ asked \subseteq hits
    BY DEF TopMatches
  <1>2. \/ d \in [kind : {"use_existing"}, target : reuse \cup asked]
        \/ d \in [kind : {"create_and_generalize"}, target : asked]
        \/ d = CreateNew
    BY DEF decide_concept_action
  <1> HIDE DEF reuse, asked
  <1> QED
    BY <1>1, <1>2 DEF ConceptDecision, CreateNew, Target

\* The nodes that a search returns are in the graph and have the label.
LEMMA SearchFindsPresent ==
    ASSUME NEW name, NEW label, NEW near \in NearestSets(name)
    PROVE  WithLabel(near, label) \subseteq {id \in Present : node[id].label = label}
  BY DEF WithLabel, NearestSets

-----------------------------------------------------------------------------

\* A step of the specification keeps the types: one step per action.
LEMMA TypeStep == TypeInv /\ [Next]_vars => TypeInv'
  <1> SUFFICES ASSUME TypeInv, [Next]_vars PROVE TypeInv'
    OBVIOUS
  <1>0. TypeOK /\ \A w \in Worker : Busy(w)
    BY DEF TypeInv
  <1>1. ASSUME NEW m \in Message, SendMessage(m) \/ VisibilityExpires(m) \/ MoveToDLQ(m)
        PROVE  TypeInv'
    BY <1>0, <1>1 DEF SendMessage, VisibilityExpires, MoveToDLQ, TypeInv, TypeOK, Busy,
       Status, workerVars, graphVars, Current, Job
  <1>2. ASSUME NEW w \in Worker, Receive(w) PROVE TypeInv'
    <2>1. PICK n \in 1..BatchSize : \E ms \in [1..n -> Receivable] :
             /\ batch' = [batch EXCEPT ![w] = [i \in 1..n |-> <<ms[i], receives[ms[i]] + 1>>]]
             /\ status' = [m \in Message |->
                              IF m \in {ms[i] : i \in 1..n} THEN "inflight" ELSE status[m]]
             /\ receives' = [m \in Message |->
                              IF m \in {ms[i] : i \in 1..n} THEN receives[m] + 1 ELSE receives[m]]
      BY <1>2 DEF Receive
    <2>2. PICK ms \in [1..n -> Receivable] :
             /\ batch' = [batch EXCEPT ![w] = [i \in 1..n |-> <<ms[i], receives[ms[i]] + 1>>]]
             /\ status' = [m \in Message |->
                              IF m \in {ms[i] : i \in 1..n} THEN "inflight" ELSE status[m]]
             /\ receives' = [m \in Message |->
                              IF m \in {ms[i] : i \in 1..n} THEN receives[m] + 1 ELSE receives[m]]
      BY <2>1
    <2>3. n \in Nat
      BY BoundsAssumption
    <2>4. \A i \in 1..n : /\ ms[i] \in Message
                          /\ receives[ms[i]] \in 0..MaxReceives
                          /\ receives[ms[i]] < MaxReceives
      BY <1>0 DEF Receivable, TypeOK
    <2>5. \A i \in 1..n : <<ms[i], receives[ms[i]] + 1>> \in Receipt
      BY <2>4, BoundsAssumption DEF Receipt
    <2>6. [i \in 1..n |-> <<ms[i], receives[ms[i]] + 1>>] \in Seq(Receipt)
      BY <2>3, <2>5
    <2>7. batch' \in [Worker -> Seq(Receipt)]
      BY <1>0, <2>2, <2>6 DEF TypeOK
    <2>8. status' \in [Message -> Status]
      BY <1>0, <2>2 DEF TypeOK, Status
    <2>9. receives' \in [Message -> 0..MaxReceives]
      BY <1>0, <2>2, <2>4, BoundsAssumption DEF TypeOK
    <2>10. pc' \in [Worker -> Step] /\ pos' \in [Worker -> Nat \ {0}]
      BY <1>0, <1>2 DEF Receive, TypeOK, Step
    <2>11. \A v \in Worker : Busy(v)'
      BY <1>0, <1>2, <2>2 DEF Receive, TypeOK, Busy
    <2> QED
      BY <1>0, <1>2, <2>7, <2>8, <2>9, <2>10, <2>11
      DEF Receive, TypeInv, TypeOK, graphVars
  <1>3. ASSUME NEW w \in Worker, SkipMalformed(w) PROVE TypeInv'
    BY <1>0, <1>3, NextRecordType
    DEF SkipMalformed, HasRecord, TypeInv, TypeOK, queueVars, graphVars, Outcome
  <1>4. ASSUME NEW w \in Worker, LlmMissing(w) PROVE TypeInv'
    BY <1>0, <1>4, FailType
    DEF LlmMissing, WellFormed, HasRecord, TypeInv, TypeOK, queueVars, graphVars
  <1>5. ASSUME NEW w \in Worker, Search(w) PROVE TypeInv'
    <2>1. PICK near \in NearestSets(NameOf[Job(w)]) :
            \E d \in decide_concept_action(NameOf[Job(w)], NodeTypeOf[Job(w)],
                                            WithLabel(near, NodeTypeOf[Job(w)])) :
              /\ plan' = [plan EXCEPT ![w] = d]
              /\ elem' = [elem EXCEPT ![w] = IF d.kind = "use_existing" THEN d.target ELSE NoNode]
              /\ pc' = [pc EXCEPT ![w] = IF d.kind = "use_existing" THEN "assign" ELSE "create"]
      BY <1>5 DEF Search
    <2> DEFINE hits == WithLabel(near, NodeTypeOf[Job(w)])
    <2>2. PICK d \in decide_concept_action(NameOf[Job(w)], NodeTypeOf[Job(w)], hits) :
              /\ plan' = [plan EXCEPT ![w] = d]
              /\ elem' = [elem EXCEPT ![w] = IF d.kind = "use_existing" THEN d.target ELSE NoNode]
              /\ pc' = [pc EXCEPT ![w] = IF d.kind = "use_existing" THEN "assign" ELSE "create"]
      BY <2>1
    <2>3. hits \in SUBSET ElementId
      BY SearchFindsPresent DEF Present
    <2> HIDE DEF hits
    <2>4. d \in ConceptDecision /\
          (d.kind \in {"use_existing", "create_and_generalize"} => d.target \in ElementId)
      BY <2>2, <2>3, DecisionType
    <2>5. plan' \in [Worker -> ConceptDecision] /\ elem' \in [Worker -> Target]
      BY <1>0, <2>2, <2>4 DEF TypeOK, Target
    <2>6. pc' \in [Worker -> Step]
      BY <1>0, <2>2 DEF TypeOK, Step
    <2>7. \A v \in Worker : Busy(v)'
      BY <1>0, <1>5, <2>2, <2>4 DEF Search, WellFormed, HasRecord, TypeOK, Busy
    <2> QED
      BY <1>0, <1>5, <2>5, <2>6, <2>7
      DEF Search, TypeInv, TypeOK, queueVars, graphVars
  <1>6. ASSUME NEW w \in Worker, SearchFails(w) PROVE TypeInv'
    BY <1>0, <1>6, FailType
    DEF SearchFails, WellFormed, HasRecord, TypeInv, TypeOK, queueVars, graphVars
  <1>7. ASSUME NEW w \in Worker, VerificationFails(w) PROVE TypeInv'
    <2>1. PICK e \in {"Llm", "InvalidData"} : Fail(w, e)
      BY <1>7 DEF VerificationFails
    <2> QED
      BY <1>0, <1>7, <2>1, FailType
      DEF VerificationFails, WellFormed, HasRecord, TypeInv, TypeOK, queueVars, graphVars
  <1>8. ASSUME NEW w \in Worker, StartMilestone(w) PROVE TypeInv'
    BY <1>0, <1>8
    DEF StartMilestone, WellFormed, HasRecord, TypeInv, TypeOK, Busy, Step, CreateNew,
        ConceptDecision, Target, queueVars, graphVars
  <1>9. ASSUME NEW w \in Worker, CreateNode(w) PROVE TypeInv'
    <2>1. pos[w] <= Len(batch[w])
      BY <1>0, <1>9 DEF CreateNode, Busy
    <2>2. Current(w) \in ElementId
      BY <1>0, <2>1, CurrentIsReceipt DEF ElementId
    <2>3. node' \in [ElementId -> NodeRecord \cup {NoNode}]
      BY <1>0, <1>9, <2>1, NewNodeType DEF CreateNode
    <2>4. elem' \in [Worker -> Target] /\ pc' \in [Worker -> Step]
      BY <1>0, <1>9, <2>2 DEF CreateNode, TypeOK, Target, Step
    <2>5. \A v \in Worker : Busy(v)'
      BY <1>0, <1>9, <2>1, <2>2 DEF CreateNode, TypeOK, Busy, Generalizing
    <2> QED
      BY <1>0, <1>9, <2>3, <2>4, <2>5 DEF CreateNode, TypeInv, TypeOK, queueVars
  <1>10. ASSUME NEW w \in Worker, CreateNodeFails(w) PROVE TypeInv'
    <2>1. pos[w] <= Len(batch[w])
      BY <1>0, <1>10 DEF CreateNodeFails, Busy
    <2>2. \E e : Fail(w, e)
      BY <1>10 DEF CreateNodeFails
    <2>3. node' \in [ElementId -> NodeRecord \cup {NoNode}]
      BY <1>0, <1>10, <2>1, NewNodeType DEF CreateNodeFails, TypeOK
    <2> QED
      BY <1>0, <1>10, <2>1, <2>2, <2>3, FailType
      DEF CreateNodeFails, TypeInv, TypeOK, queueVars
  <1>11. ASSUME NEW w \in Worker, create_generalization(w) PROVE TypeInv'
    <2>1. generalizes' \subseteq ElementId \X ElementId
      BY <1>0, <1>11 DEF create_generalization, AddGeneralization, TypeOK, Busy
    <2> QED
      BY <1>0, <1>11, <2>1
      DEF create_generalization, TypeInv, TypeOK, Busy, Step, queueVars
  <1>12. ASSUME NEW w \in Worker, GeneralizationFails(w) PROVE TypeInv'
    <2>1. /\ pos[w] <= Len(batch[w])
          /\ elem[w] \in ElementId
          /\ plan[w].target \in ElementId
      BY <1>0, <1>12 DEF GeneralizationFails, Busy
    <2>2. generalizes' \subseteq ElementId \X ElementId
      BY <1>0, <1>12, <2>1 DEF GeneralizationFails, AddGeneralization, TypeOK
    <2> QED
      BY <1>0, <1>12, <2>1, <2>2, FailType
      DEF GeneralizationFails, TypeInv, TypeOK, queueVars
  <1>13. ASSUME NEW w \in Worker, AssignLevel(w) PROVE TypeInv'
    <2>1. pos[w] <= Len(batch[w]) /\ elem[w] \in ElementId
      BY <1>0, <1>13 DEF AssignLevel, Busy
    <2>2. requires' \subseteq Requirement
      BY <1>0, <1>13, <2>1, RequirementType DEF AssignLevel
    <2> QED
      BY <1>0, <1>13, <2>1, <2>2, NextRecordType
      DEF AssignLevel, TypeInv, TypeOK, queueVars, Outcome
  <1>14. ASSUME NEW w \in Worker, AssignLevelFails(w) PROVE TypeInv'
    <2>1. pos[w] <= Len(batch[w]) /\ elem[w] \in ElementId
      BY <1>0, <1>14 DEF AssignLevelFails, Busy
    <2>2. requires' \subseteq Requirement
      BY <1>0, <1>14, <2>1, RequirementType DEF AssignLevelFails, TypeOK
    <2> QED
      BY <1>0, <1>14, <2>1, <2>2, FailType
      DEF AssignLevelFails, TypeInv, TypeOK, queueVars
  <1>15. ASSUME NEW w \in Worker, ReturnOk(w) PROVE TypeInv'
    <2>1. status' \in [Message -> Status]
      BY <1>0, <1>15 DEF ReturnOk, TypeOK, Status
    <2> QED
      BY <1>0, <1>15, <2>1, EndInvocationType DEF ReturnOk, TypeInv, TypeOK, graphVars
  <1>16. ASSUME NEW w \in Worker, InvocationLost(w) PROVE TypeInv'
    BY <1>0, <1>16, EndInvocationType
    DEF InvocationLost, TypeInv, TypeOK, queueVars, graphVars
  <1>17. ASSUME DeleteLevels PROVE TypeInv'
    BY <1>0, <1>17 DEF DeleteLevels, TypeInv, TypeOK, Busy, queueVars, workerVars
  <1>18. ASSUME UNCHANGED vars PROVE TypeInv'
    BY <1>0, <1>18 DEF vars, queueVars, workerVars, graphVars, TypeInv, TypeOK, Busy
  <1> QED
    BY <1>1, <1>2, <1>3, <1>4, <1>5, <1>6, <1>7, <1>8, <1>9, <1>10, <1>11, <1>12,
       <1>13, <1>14, <1>15, <1>16, <1>17, <1>18 DEF Next, WorkerStep

\* What the proofs need of an initial state: which levels there are does not
\* matter.
AnyInit == InitButLevels /\ levels \subseteq DomainLevels

LEMMA InitIsAny == Init => AnyInit
  BY DEF Init, AnyInit

LEMMA TypeInit == AnyInit => TypeInv
  <1> SUFFICES ASSUME AnyInit PROVE TypeInv
    OBVIOUS
  <1>1. node \in [ElementId -> NodeRecord \cup {NoNode}]
    BY GraphAssumption DEF AnyInit, InitButLevels, ElementId
  <1>2. CreateNew \in ConceptDecision /\ NoNode \in Target
    BY DEF CreateNew, ConceptDecision, Target
  <1>3. batch \in [Worker -> Seq(Receipt)]
    BY DEF AnyInit, InitButLevels
  <1>4. 0 \in 0..MaxReceives
    BY BoundsAssumption
  <1> QED
    BY <1>1, <1>2, <1>3, <1>4
    DEF AnyInit, InitButLevels, TypeInv, TypeOK, Busy, Status, Step, Outcome, CreateNew

\* Every reachable state is well typed, and every call of an invocation has
\* the record and the element ids it needs.
THEOREM TypeCorrect == Spec => []TypeInv
  BY InitIsAny, TypeInit, TypeStep, PTL DEF Spec

\* The type invariant that the runs check.
THEOREM TypeOKCorrect == Spec => []TypeOK
  <1>1. TypeInv => TypeOK
    BY DEF TypeInv
  <1> QED
    BY TypeCorrect, <1>1, PTL

-----------------------------------------------------------------------------
(* No job is lost.  AckedIsSettled is not inductive: ReturnOk deletes the   *)
(* messages of its batch, so one must know that each of them was settled by *)
(* this very invocation, which in turn needs that no other invocation       *)
(* overwrites the outcome of a delivery it does not hold.                   *)

IdleIsEmpty == \A w \in Worker : pc[w] = "idle" => batch[w] = << >>

\* A record of a batch is a delivery that has been counted.
HeldIsReceived ==
    \A w \in Worker : \A k \in 1..Len(batch[w]) :
        batch[w][k][2] <= receives[batch[w][k][1]]

\* A delivery is in one batch, once.
HeldOnce ==
    \A v, w \in Worker : \A j \in 1..Len(batch[v]), k \in 1..Len(batch[w]) :
        batch[v][j] = batch[w][k] => v = w /\ j = k

\* The records before the current one are settled, the others are open.
BatchProgress ==
    \A w \in Worker : \A k \in 1..Len(batch[w]) :
        /\ k < pos[w] => result[batch[w][k]] \in Settled
        /\ k >= pos[w] => result[batch[w][k]] = "pending"

FutureIsPending ==
    \A r \in Receipt : r[2] > receives[r[1]] => result[r] = "pending"

BatchInv ==
    /\ IdleIsEmpty
    /\ HeldIsReceived
    /\ HeldOnce
    /\ BatchProgress
    /\ FutureIsPending

\* A step that neither ends a record nor starts or ends an invocation.
Quiet ==
    /\ UNCHANGED <<batch, pos, result, receives>>
    /\ \A w \in Worker : pc'[w] = "idle" => pc[w] = "idle"
    /\ \A m \in Message : status'[m] = "deleted" => status[m] = "deleted"

\* A step that ends the current record of w, well or badly.
EndsRecord(w) ==
    /\ pos[w] <= Len(batch[w])
    /\ UNCHANGED queueVars
    /\ ReturnErr(w) \/ \E o \in Settled : NextRecord(w, o)

LEMMA FailEndsRecord ==
    ASSUME NEW w \in Worker, pos[w] <= Len(batch[w]), NEW e, Fail(w, e), UNCHANGED queueVars
    PROVE  EndsRecord(w)
  BY DEF Fail, EndsRecord, Settled

\* To the queue and the batches, every step is one of these five.
LEMMA StepShape ==
    ASSUME TypeInv, [Next]_vars
    PROVE  \/ Quiet
           \/ \E w \in Worker : Receive(w) \/ EndsRecord(w) \/ ReturnOk(w) \/ InvocationLost(w)
  <1>0. TypeOK /\ \A w \in Worker : Busy(w)
    BY DEF TypeInv
  <1>1. ASSUME NEW m \in Message, SendMessage(m) \/ VisibilityExpires(m) \/ MoveToDLQ(m)
        PROVE  Quiet
    BY <1>0, <1>1 DEF SendMessage, VisibilityExpires, MoveToDLQ, Quiet, TypeOK, workerVars
  <1>2. ASSUME NEW w \in Worker,
               Search(w) \/ StartMilestone(w) \/ CreateNode(w) \/ create_generalization(w)
        PROVE  Quiet
    BY <1>0, <1>2
    DEF Search, StartMilestone, CreateNode, create_generalization, Quiet, TypeOK, queueVars
  <1>3. ASSUME NEW w \in Worker, SkipMalformed(w) PROVE EndsRecord(w)
    BY <1>3 DEF SkipMalformed, HasRecord, EndsRecord, Settled
  <1>4. ASSUME NEW w \in Worker, LlmMissing(w) \/ SearchFails(w) PROVE EndsRecord(w)
    BY <1>4, FailEndsRecord DEF LlmMissing, SearchFails, WellFormed, HasRecord
  <1>5. ASSUME NEW w \in Worker, VerificationFails(w) PROVE EndsRecord(w)
    BY <1>5, FailEndsRecord DEF VerificationFails, WellFormed, HasRecord
  <1>6. ASSUME NEW w \in Worker,
               CreateNodeFails(w) \/ GeneralizationFails(w) \/ AssignLevelFails(w)
        PROVE  EndsRecord(w)
    <2>1. pos[w] <= Len(batch[w])
      BY <1>0, <1>6 DEF CreateNodeFails, GeneralizationFails, AssignLevelFails, Busy
    <2>2. (\E e : Fail(w, e)) /\ UNCHANGED queueVars
      BY <1>6 DEF CreateNodeFails, GeneralizationFails, AssignLevelFails
    <2> QED
      BY <2>1, <2>2, FailEndsRecord
  <1>7. ASSUME NEW w \in Worker, AssignLevel(w) PROVE EndsRecord(w)
    BY <1>0, <1>7 DEF AssignLevel, Busy, EndsRecord, Settled
  <1>8. ASSUME DeleteLevels \/ UNCHANGED vars PROVE Quiet
    BY <1>0, <1>8 DEF DeleteLevels, vars, Quiet, queueVars, workerVars
  <1> QED
    BY <1>1, <1>2, <1>3, <1>4, <1>5, <1>6, <1>7, <1>8 DEF Next, WorkerStep

\* A step that deletes no message keeps AckedIsSettled, if it does not take
\* back a settled outcome or a receive count.
LEMMA AckedKept ==
    ASSUME TypeOK, AckedIsSettled,
           receives' \in [Message -> 0..MaxReceives],
           \A m \in Message : status'[m] = "deleted" => status[m] = "deleted",
           \A m \in Message : receives[m] <= receives'[m],
           \A r \in Receipt : result[r] \in Settled => result'[r] \in Settled
    PROVE  AckedIsSettled'
  <1> SUFFICES ASSUME NEW m \in Message, status'[m] = "deleted"
               PROVE  \E r \in 1..receives'[m] : result'[<<m, r>>] \in Settled
    BY DEF AckedIsSettled
  <1>1. PICK r \in 1..receives[m] : result[<<m, r>>] \in Settled
    BY DEF AckedIsSettled
  <1>2. receives[m] \in 0..MaxReceives /\ receives'[m] \in 0..MaxReceives
    BY DEF TypeOK
  <1>3. <<m, r>> \in Receipt /\ r \in 1..receives'[m]
    BY <1>1, <1>2, BoundsAssumption DEF Receipt
  <1> QED
    BY <1>1, <1>3

LEMMA BatchQuiet ==
    ASSUME TypeOK, BatchInv, AckedIsSettled, Quiet
    PROVE  BatchInv' /\ AckedIsSettled'
  <1>1. BatchInv'
    BY DEF BatchInv, IdleIsEmpty, HeldIsReceived, HeldOnce, BatchProgress,
       FutureIsPending, Quiet
  <1>2. AckedIsSettled'
    BY AckedKept DEF Quiet, TypeOK
  <1> QED
    BY <1>1, <1>2

LEMMA BatchEndsRecord ==
    ASSUME TypeOK, BatchInv, AckedIsSettled, NEW w \in Worker, EndsRecord(w)
    PROVE  BatchInv' /\ AckedIsSettled'
  <1>1. Current(w) \in Receipt /\ pos[w] \in 1..Len(batch[w])
    BY CurrentIsReceipt DEF EndsRecord
  <1>2. result[Current(w)] = "pending" /\ Current(w)[2] <= receives[Current(w)[1]]
    BY <1>1 DEF BatchInv, BatchProgress, HeldIsReceived, Current, TypeOK
  <1>3. \A v \in Worker : \A k \in 1..Len(batch[v]) :
           batch[v][k] = Current(w) => v = w /\ k = pos[w]
    BY <1>1 DEF BatchInv, HeldOnce, Current
  <1>4. PICK o \in Outcome : result' = [result EXCEPT ![Current(w)] = o]
    BY DEF EndsRecord, ReturnErr, NextRecord, Outcome, Settled
  <1>5. UNCHANGED <<status, receives>>
    BY DEF EndsRecord, queueVars
  <1>6. CASE ReturnErr(w)
    <2>1. /\ pc' = [pc EXCEPT ![w] = "idle"]
          /\ batch' = [batch EXCEPT ![w] = << >>]
          /\ pos' = [pos EXCEPT ![w] = 1]
      BY <1>6 DEF ReturnErr, EndInvocation
    <2>2. \A v \in Worker : v # w => batch'[v] = batch[v] /\ pos'[v] = pos[v] /\ pc'[v] = pc[v]
      BY <2>1 DEF TypeOK
    <2>3. batch'[w] = << >>
      BY <2>1 DEF TypeOK
    <2>4. IdleIsEmpty'
      BY <2>2, <2>3 DEF BatchInv, IdleIsEmpty
    <2>5. HeldIsReceived'
      BY <1>5, <2>2, <2>3 DEF BatchInv, HeldIsReceived
    <2>6. HeldOnce'
      BY <2>2, <2>3 DEF BatchInv, HeldOnce
    <2>7. ASSUME NEW v \in Worker, NEW k \in 1..Len(batch'[v])
          PROVE  /\ k < pos'[v] => result'[batch'[v][k]] \in Settled
                 /\ k >= pos'[v] => result'[batch'[v][k]] = "pending"
      <3>1. v # w
        BY <2>3, <2>7
      <3>2. batch'[v] = batch[v] /\ pos'[v] = pos[v] /\ batch[v][k] # Current(w)
        BY <1>3, <2>2, <2>7, <3>1
      <3>3. batch[v][k] \in Receipt
        BY <2>7, <3>2 DEF TypeOK
      <3>4. result'[batch[v][k]] = result[batch[v][k]]
        BY <1>4, <3>2, <3>3 DEF TypeOK
      <3> QED
        BY <2>7, <3>2, <3>4 DEF BatchInv, BatchProgress
    <2>8. BatchProgress'
      BY <2>7 DEF BatchProgress
    <2>9. FutureIsPending'
      BY <1>1, <1>2, <1>4, <1>5 DEF BatchInv, FutureIsPending, TypeOK, Receipt
    <2>10. AckedIsSettled'
      BY <1>2, <1>4, <1>5, AckedKept DEF TypeOK, Settled
    <2> QED
      BY <2>4, <2>5, <2>6, <2>8, <2>9, <2>10 DEF BatchInv
  <1>7. CASE \E s \in Settled : NextRecord(w, s)
    <2>1. PICK s \in Settled : NextRecord(w, s)
      BY <1>7
    <2>2. /\ UNCHANGED batch
          /\ pos' = [pos EXCEPT ![w] = @ + 1]
          /\ pc' = [pc EXCEPT ![w] = "record"]
          /\ result' = [result EXCEPT ![Current(w)] = s]
      BY <2>1 DEF NextRecord
    <2>3. IdleIsEmpty' /\ HeldIsReceived' /\ HeldOnce'
      BY <1>5, <2>2 DEF BatchInv, IdleIsEmpty, HeldIsReceived, HeldOnce, TypeOK
    <2>4. ASSUME NEW v \in Worker, NEW k \in 1..Len(batch[v])
          PROVE  /\ k < pos'[v] => result'[batch[v][k]] \in Settled
                 /\ k >= pos'[v] => result'[batch[v][k]] = "pending"
      <3>1. batch[v][k] \in Receipt
        BY <2>4 DEF TypeOK
      <3>2. CASE v = w /\ k = pos[w]
        BY <1>1, <2>2, <3>1, <3>2 DEF TypeOK, Current
      <3>3. CASE ~(v = w /\ k = pos[w])
        <4>1. batch[v][k] # Current(w)
          BY <1>3, <2>4, <3>3
        <4>2. result'[batch[v][k]] = result[batch[v][k]]
          BY <2>2, <3>1, <4>1 DEF TypeOK
        <4>3. k < pos'[v] <=> k < pos[v]
          BY <2>2, <2>4, <3>3 DEF TypeOK
        <4>4. pos[v] \in Nat /\ pos'[v] \in Nat /\ k \in Nat
          BY <2>2, <2>4 DEF TypeOK
        <4> QED
          BY <2>4, <4>2, <4>3, <4>4 DEF BatchInv, BatchProgress
      <3> QED
        BY <3>2, <3>3
    <2>5. BatchProgress'
      BY <2>2, <2>4 DEF BatchProgress
    <2>6. FutureIsPending'
      BY <1>1, <1>2, <1>5, <2>2 DEF BatchInv, FutureIsPending, TypeOK, Receipt
    <2>7. AckedIsSettled'
      BY <1>5, <2>2, AckedKept DEF TypeOK
    <2> QED
      BY <2>3, <2>5, <2>6, <2>7 DEF BatchInv
  <1> QED
    BY <1>6, <1>7 DEF EndsRecord

LEMMA BatchLost ==
    ASSUME TypeOK, BatchInv, AckedIsSettled, NEW w \in Worker,
           EndInvocation(w), UNCHANGED <<receives, result>>
    PROVE  BatchInv'
  <1>1. \A v \in Worker : v # w => batch'[v] = batch[v] /\ pos'[v] = pos[v] /\ pc'[v] = pc[v]
    BY DEF EndInvocation, TypeOK
  <1>2. batch'[w] = << >>
    BY DEF EndInvocation, TypeOK
  <1>3. IdleIsEmpty'
    BY <1>1, <1>2 DEF BatchInv, IdleIsEmpty
  <1>4. HeldIsReceived' /\ HeldOnce'
    <2>1. \A v \in Worker : \A k \in 1..Len(batch'[v]) : batch'[v] = batch[v]
      BY <1>1, <1>2
    <2>2. HeldIsReceived'
      BY <2>1 DEF BatchInv, HeldIsReceived
    <2>3. HeldOnce'
      BY <2>1 DEF BatchInv, HeldOnce
    <2> QED
      BY <2>2, <2>3
  <1>5. BatchProgress'
    BY <1>1, <1>2 DEF BatchInv, BatchProgress
  <1>6. FutureIsPending'
    BY DEF BatchInv, FutureIsPending
  <1> QED
    BY <1>3, <1>4, <1>5, <1>6 DEF BatchInv

\* The heart of the matter: what ReturnOk deletes was settled by w itself.
LEMMA AckedReturnOk ==
    ASSUME TypeOK, BatchInv, AckedIsSettled, NEW w \in Worker, ReturnOk(w)
    PROVE  AckedIsSettled'
  <1> DEFINE acked == {batch[w][i] : i \in 1..Len(batch[w])}
  <1>1. UNCHANGED <<receives, result>>
    BY DEF ReturnOk
  <1>2. ASSUME NEW r \in acked
        PROVE  r \in Receipt /\ r[2] \in 1..receives[r[1]] /\ result[r] \in Settled
    <2>1. PICK i \in 1..Len(batch[w]) : r = batch[w][i]
      OBVIOUS
    <2>2. i < pos[w] /\ r \in Receipt
      BY <2>1 DEF ReturnOk, TypeOK
    <2>3. r[2] <= receives[r[1]] /\ result[r] \in Settled
      BY <2>1, <2>2 DEF BatchInv, HeldIsReceived, BatchProgress
    <2> QED
      BY <2>2, <2>3, BoundsAssumption DEF Receipt, TypeOK
  <1>3. ASSUME NEW m \in Message, status'[m] = "deleted", status[m] # "deleted"
        PROVE  \E r \in acked : r[1] = m
    BY <1>3 DEF ReturnOk
  <1> SUFFICES ASSUME NEW m \in Message, status'[m] = "deleted"
               PROVE  \E r \in 1..receives[m] : result[<<m, r>>] \in Settled
    BY <1>1 DEF AckedIsSettled
  <1>4. CASE status[m] = "deleted"
    BY <1>4 DEF AckedIsSettled
  <1>5. CASE status[m] # "deleted"
    <2>1. PICK r \in acked : r[1] = m
      BY <1>3, <1>5
    <2> HIDE DEF acked
    <2>2. r = <<m, r[2]>>
      BY <1>2, <2>1 DEF Receipt
    <2> QED
      BY <1>2, <2>1, <2>2
  <1> QED
    BY <1>4, <1>5

LEMMA BatchReceive ==
    ASSUME TypeInv, BatchInv, AckedIsSettled, NEW w \in Worker, Receive(w), TypeInv'
    PROVE  BatchInv' /\ AckedIsSettled'
  <1>0. TypeOK /\ TypeOK'
    BY DEF TypeInv
  <1>1. PICK n \in 1..BatchSize : \E ms \in [1..n -> Receivable] :
           /\ \A i, j \in 1..n : ms[i] = ms[j] => i = j
           /\ batch' = [batch EXCEPT ![w] = [i \in 1..n |-> <<ms[i], receives[ms[i]] + 1>>]]
           /\ status' = [m \in Message |->
                            IF m \in {ms[i] : i \in 1..n} THEN "inflight" ELSE status[m]]
           /\ receives' = [m \in Message |->
                            IF m \in {ms[i] : i \in 1..n} THEN receives[m] + 1 ELSE receives[m]]
    BY DEF Receive
  <1>2. PICK ms \in [1..n -> Receivable] :
           /\ \A i, j \in 1..n : ms[i] = ms[j] => i = j
           /\ batch' = [batch EXCEPT ![w] = [i \in 1..n |-> <<ms[i], receives[ms[i]] + 1>>]]
           /\ status' = [m \in Message |->
                            IF m \in {ms[i] : i \in 1..n} THEN "inflight" ELSE status[m]]
           /\ receives' = [m \in Message |->
                            IF m \in {ms[i] : i \in 1..n} THEN receives[m] + 1 ELSE receives[m]]
    BY <1>1
  <1>3. /\ pc[w] = "idle" /\ batch[w] = << >>
        /\ pc' = [pc EXCEPT ![w] = "record"]
        /\ pos' = [pos EXCEPT ![w] = 1]
        /\ UNCHANGED result
    BY DEF Receive, BatchInv, IdleIsEmpty
  <1>4. \A m \in Message : /\ receives[m] \in Nat
                           /\ receives'[m] \in Nat
                           /\ receives[m] <= receives'[m]
    BY <1>0, <1>2 DEF TypeOK
  <1>5. \A i \in 1..n : ms[i] \in Message /\ receives'[ms[i]] = receives[ms[i]] + 1
    BY <1>2 DEF Receivable
  <1>6. n \in Nat
    BY BoundsAssumption
  <1>7. /\ Len(batch'[w]) = n
        /\ \A i \in 1..n : batch'[w][i] = <<ms[i], receives[ms[i]] + 1>>
    BY <1>0, <1>2, <1>6 DEF TypeOK
  <1>8. \A v \in Worker : v # w => batch'[v] = batch[v] /\ pos'[v] = pos[v] /\ pc'[v] = pc[v]
    BY <1>0, <1>2, <1>3 DEF TypeOK
  <1>9. pos'[w] = 1 /\ pc'[w] = "record"
    BY <1>0, <1>3 DEF TypeOK
  <1>10. IdleIsEmpty'
    BY <1>8, <1>9 DEF BatchInv, IdleIsEmpty
  <1>11. ASSUME NEW v \in Worker, v # w, NEW k \in 1..Len(batch[v])
         PROVE  batch[v][k] \in Receipt /\ batch[v][k][2] <= receives[batch[v][k][1]]
    BY <1>0, <1>11, SMTT(30) DEF BatchInv, HeldIsReceived, TypeOK
  <1>12. HeldIsReceived'
    <2> SUFFICES ASSUME NEW v \in Worker, NEW k \in 1..Len(batch'[v])
                 PROVE  batch'[v][k][2] <= receives'[batch'[v][k][1]]
      BY DEF HeldIsReceived
    <2>1. CASE v = w
      BY <1>4, <1>5, <1>7, <2>1
    <2>2. CASE v # w
      <3>1. batch'[v] = batch[v] /\ batch[v][k] \in Receipt
        BY <1>8, <1>11, <2>2
      <3>2. batch[v][k][1] \in Message /\ batch[v][k][2] \in Nat
        BY <3>1, BoundsAssumption DEF Receipt
      <3> QED
        BY <1>4, <1>11, <2>2, <3>1, <3>2, SMTT(30)
    <2> QED
      BY <2>1, <2>2
  <1>13. ASSUME NEW v \in Worker, v # w, NEW k \in 1..Len(batch[v]), NEW i \in 1..n
         PROVE  batch[v][k] # <<ms[i], receives[ms[i]] + 1>>
    BY <1>4, <1>5, <1>11, <1>13
  <1>14. HeldOnce'
    <2> SUFFICES ASSUME NEW u \in Worker, NEW v \in Worker,
                        NEW j \in 1..Len(batch'[u]), NEW k \in 1..Len(batch'[v]),
                        batch'[u][j] = batch'[v][k]
                 PROVE  u = v /\ j = k
      BY DEF HeldOnce
    <2>1. CASE u = w /\ v = w
      BY <1>2, <1>7, <2>1
    <2>2. CASE u = w /\ v # w
      <3>1. j \in 1..n /\ batch'[u][j] = <<ms[j], receives[ms[j]] + 1>>
        BY <1>7, <2>2
      <3>2. batch'[v] = batch[v]
        BY <1>8, <2>2
      <3> QED
        BY <1>13, <2>2, <3>1, <3>2
    <2>3. CASE u # w /\ v = w
      <3>1. k \in 1..n /\ batch'[v][k] = <<ms[k], receives[ms[k]] + 1>>
        BY <1>7, <2>3
      <3>2. batch'[u] = batch[u]
        BY <1>8, <2>3
      <3> QED
        BY <1>13, <2>3, <3>1, <3>2
    <2>4. CASE u # w /\ v # w
      BY <1>8, <2>4 DEF BatchInv, HeldOnce
    <2> QED
      BY <2>1, <2>2, <2>3, <2>4
  <1>15. \A i \in 1..n : <<ms[i], receives[ms[i]] + 1>> \in Receipt
    <2>1. \A m \in Message : receives'[m] \in 0..MaxReceives
      BY <1>0 DEF TypeOK
    <2>2. ASSUME NEW i \in 1..n PROVE receives[ms[i]] + 1 \in 1..MaxReceives
      <3>1. ms[i] \in Message /\ receives'[ms[i]] = receives[ms[i]] + 1
        BY <1>5
      <3>2. receives'[ms[i]] \in 0..MaxReceives /\ receives[ms[i]] \in Nat
        BY <1>4, <2>1, <3>1
      <3> QED
        BY <3>1, <3>2, BoundsAssumption
    <2> QED
      BY <1>5, <2>2 DEF Receipt
  <1>16. \A i \in 1..n : result[<<ms[i], receives[ms[i]] + 1>>] = "pending"
    BY <1>4, <1>5, <1>15 DEF BatchInv, FutureIsPending
  <1>17. BatchProgress'
    <2> SUFFICES ASSUME NEW v \in Worker, NEW k \in 1..Len(batch'[v])
                 PROVE  /\ k < pos'[v] => result'[batch'[v][k]] \in Settled
                        /\ k >= pos'[v] => result'[batch'[v][k]] = "pending"
      BY DEF BatchProgress
    <2>1. CASE v = w
      <3>1. k \in 1..n /\ batch'[v][k] = <<ms[k], receives[ms[k]] + 1>>
        BY <1>7, <2>1
      <3>2. result'[batch'[v][k]] = "pending"
        BY <1>3, <1>16, <3>1
      <3>3. ~(k < pos'[v])
        BY <1>6, <1>9, <2>1, <3>1
      <3> QED
        BY <3>2, <3>3
    <2>2. CASE v # w
      BY <1>3, <1>8, <2>2 DEF BatchInv, BatchProgress
    <2> QED
      BY <2>1, <2>2
  <1>18. FutureIsPending'
    <2> SUFFICES ASSUME NEW r \in Receipt, r[2] > receives'[r[1]]
                 PROVE  result'[r] = "pending"
      BY DEF FutureIsPending
    <2>1. r[1] \in Message /\ r[2] \in Nat
      BY BoundsAssumption DEF Receipt
    <2> QED
      BY <1>3, <1>4, <2>1 DEF BatchInv, FutureIsPending
  <1>19. AckedIsSettled'
    <2>1. \A m \in Message : status'[m] = "deleted" => status[m] = "deleted"
      BY <1>2
    <2> QED
      BY <1>0, <1>3, <1>4, <2>1, AckedKept DEF TypeOK
  <1> QED
    BY <1>10, <1>12, <1>14, <1>17, <1>18, <1>19 DEF BatchInv

QueueInv == TypeInv /\ BatchInv /\ AckedIsSettled

LEMMA QueueStep == QueueInv /\ [Next]_vars => QueueInv'
  <1> SUFFICES ASSUME QueueInv, [Next]_vars PROVE QueueInv'
    OBVIOUS
  <1>1. TypeInv /\ TypeOK /\ BatchInv /\ AckedIsSettled
    BY DEF QueueInv, TypeInv
  <1>2. TypeInv' /\ TypeOK'
    BY <1>1, TypeStep DEF TypeInv
  <1>3. CASE Quiet
    BY <1>1, <1>2, <1>3, BatchQuiet DEF QueueInv
  <1>4. ASSUME NEW w \in Worker, Receive(w) PROVE QueueInv'
    BY <1>1, <1>2, <1>4, BatchReceive DEF QueueInv
  <1>5. ASSUME NEW w \in Worker, EndsRecord(w) PROVE QueueInv'
    BY <1>1, <1>2, <1>5, BatchEndsRecord DEF QueueInv
  <1>6. ASSUME NEW w \in Worker, ReturnOk(w) PROVE QueueInv'
    BY <1>1, <1>2, <1>6, BatchLost, AckedReturnOk DEF QueueInv, ReturnOk
  <1>7. ASSUME NEW w \in Worker, InvocationLost(w) PROVE QueueInv'
    <2>1. AckedIsSettled'
      BY <1>1, <1>2, <1>7, AckedKept DEF InvocationLost, queueVars, TypeOK
    <2> QED
      BY <1>1, <1>2, <1>7, <2>1, BatchLost DEF QueueInv, InvocationLost, queueVars
  <1> QED
    BY <1>1, <1>3, <1>4, <1>5, <1>6, <1>7, StepShape

LEMMA QueueInit == AnyInit => QueueInv
  <1> SUFFICES ASSUME AnyInit PROVE QueueInv
    OBVIOUS
  <1>1. TypeInv
    BY TypeInit
  <1>2. \A w \in Worker : Len(batch[w]) = 0 /\ batch[w] = << >>
    BY DEF AnyInit, InitButLevels
  <1>3. BatchInv
    BY <1>2 DEF AnyInit, InitButLevels, BatchInv, IdleIsEmpty, HeldIsReceived, HeldOnce, BatchProgress,
       FutureIsPending
  <1>4. AckedIsSettled
    BY DEF AnyInit, InitButLevels, AckedIsSettled
  <1> QED
    BY <1>1, <1>3, <1>4 DEF QueueInv

LEMMA QueueCorrect == Spec => []QueueInv
  BY InitIsAny, QueueInit, QueueStep, PTL DEF Spec

\* No job is lost by a retryable failure, an aborted batch, a crash, or a
\* visibility timeout that expires under a running invocation, for any number
\* of messages and invocations, any batch size and any redrive limit.
THEOREM NoJobLost == Spec => []AckedIsSettled
  <1>1. QueueInv => AckedIsSettled
    BY DEF QueueInv
  <1> QED
    BY QueueCorrect, <1>1, PTL
-----------------------------------------------------------------------------
(* The queue and its workers implement JobQueue, under the mapping Promise. *)

\* A step that changes what JobQueue sees is one of these six.
LEMMA QueueShape ==
    ASSUME TypeInv, [Next]_vars
    PROVE  \/ UNCHANGED <<status, receives, result>>
           \/ \E m \in Message : SendMessage(m) \/ VisibilityExpires(m) \/ MoveToDLQ(m)
           \/ \E w \in Worker : Receive(w) \/ EndsRecord(w) \/ ReturnOk(w)
  <1>0. \A w \in Worker : Busy(w)
    BY DEF TypeInv
  <1>1. ASSUME NEW w \in Worker,
               Search(w) \/ StartMilestone(w) \/ CreateNode(w) \/ create_generalization(w)
               \/ InvocationLost(w)
        PROVE  UNCHANGED <<status, receives, result>>
    BY <1>1
    DEF Search, StartMilestone, CreateNode, create_generalization, InvocationLost, queueVars
  <1>2. ASSUME NEW w \in Worker, SkipMalformed(w) PROVE EndsRecord(w)
    BY <1>2 DEF SkipMalformed, HasRecord, EndsRecord, Settled
  <1>3. ASSUME NEW w \in Worker, LlmMissing(w) \/ SearchFails(w) \/ VerificationFails(w)
        PROVE  EndsRecord(w)
    <2>1. pos[w] <= Len(batch[w]) /\ (\E e : Fail(w, e)) /\ UNCHANGED queueVars
      BY <1>3 DEF LlmMissing, SearchFails, VerificationFails, WellFormed, HasRecord
    <2> QED
      BY <2>1, FailEndsRecord
  <1>4. ASSUME NEW w \in Worker,
               CreateNodeFails(w) \/ GeneralizationFails(w) \/ AssignLevelFails(w)
        PROVE  EndsRecord(w)
    <2>1. pos[w] <= Len(batch[w])
      BY <1>0, <1>4 DEF CreateNodeFails, GeneralizationFails, AssignLevelFails, Busy
    <2>2. (\E e : Fail(w, e)) /\ UNCHANGED queueVars
      BY <1>4 DEF CreateNodeFails, GeneralizationFails, AssignLevelFails
    <2> QED
      BY <2>1, <2>2, FailEndsRecord
  <1>5. ASSUME NEW w \in Worker, AssignLevel(w) PROVE EndsRecord(w)
    BY <1>0, <1>5 DEF AssignLevel, Busy, EndsRecord, Settled
  <1>6. ASSUME DeleteLevels \/ UNCHANGED vars PROVE UNCHANGED <<status, receives, result>>
    BY <1>6 DEF DeleteLevels, vars, queueVars
  <1> QED
    BY <1>1, <1>2, <1>3, <1>4, <1>5, <1>6 DEF Next, WorkerStep

\* What the mapping makes of status and result.
JobState ==
    [m \in Message |->
        CASE status[m] \in {"visible", "inflight"} -> "pending"
          [] status[m] = "deleted" -> "removed"
          [] status[m] = "dlq" -> "dead"
          [] OTHER -> "unsent"]

SettledJobs == {m \in Message : \E r \in 1..MaxReceives : result[<<m, r>>] \in Settled}

LEMMA PromiseInit == AnyInit => Promise!Init
  <1> SUFFICES ASSUME AnyInit PROVE Promise!Init
    OBVIOUS
  <1>1. \A m \in Message : \A r \in 1..MaxReceives : result[<<m, r>>] = "pending"
    BY DEF AnyInit, InitButLevels, Receipt
  <1>2. SettledJobs = {}
    BY <1>1 DEF SettledJobs, Settled
  <1>3. JobState = [m \in Message |-> "unsent"]
    BY DEF JobState, AnyInit, InitButLevels
  <1> QED
    BY <1>2, <1>3 DEF Promise!Init, SettledJobs, JobState, AnyInit, InitButLevels

\* A record that ends well settles its job; a retryable error settles nothing.
LEMMA PromiseEndsRecord ==
    ASSUME TypeOK, BatchInv, NEW w \in Worker, EndsRecord(w)
    PROVE  SettledJobs' = SettledJobs \/ SettledJobs' = SettledJobs \cup {Job(w)}
  <1>1. Current(w) \in Receipt /\ pos[w] \in 1..Len(batch[w]) /\ Job(w) \in Message
    BY CurrentIsReceipt DEF EndsRecord
  <1>2. result[Current(w)] = "pending"
    BY <1>1 DEF BatchInv, BatchProgress, Current, TypeOK
  <1>3. PICK k \in 1..MaxReceives : Current(w) = <<Job(w), k>>
    BY <1>1 DEF Receipt, Job
  <1>4. \A m \in Message : \A r \in 1..MaxReceives :
           <<m, r>> \in Receipt /\ (<<m, r>> = Current(w) <=> m = Job(w) /\ r = k)
    BY <1>3 DEF Receipt
  <1>5. CASE ReturnErr(w)
    <2>1. result' = [result EXCEPT ![Current(w)] = "retry"]
      BY <1>5 DEF ReturnErr
    <2>2. \A m \in Message : \A r \in 1..MaxReceives :
             result'[<<m, r>>] \in Settled <=> result[<<m, r>>] \in Settled
      BY <1>1, <1>2, <1>4, <2>1 DEF TypeOK, Settled
    <2> QED
      BY <2>2 DEF SettledJobs
  <1>6. ASSUME NEW o \in Settled, NextRecord(w, o)
        PROVE  SettledJobs' = SettledJobs \cup {Job(w)}
    <2>1. result' = [result EXCEPT ![Current(w)] = o]
      BY <1>6 DEF NextRecord
    <2>2. \A m \in Message : \A r \in 1..MaxReceives :
             result'[<<m, r>>] \in Settled <=>
             result[<<m, r>>] \in Settled \/ (m = Job(w) /\ r = k)
      BY <1>1, <1>2, <1>4, <1>6, <2>1 DEF TypeOK
    <2> QED
      BY <1>1, <2>2 DEF SettledJobs
  <1> QED
    BY <1>5, <1>6 DEF EndsRecord

\* The jobs that ReturnOk removes are pending, and settled by this invocation.
LEMMA PromiseReturnOk ==
    ASSUME TypeOK, BatchInv, NEW w \in Worker, ReturnOk(w)
    PROVE  \E S \in SUBSET {m \in Message : JobState[m] = "pending"} :
              /\ S \subseteq SettledJobs
              /\ JobState' = [m \in Message |-> IF m \in S THEN "removed" ELSE JobState[m]]
              /\ UNCHANGED <<receives, SettledJobs>>
  <1> DEFINE S == {m \in Message : status[m] # "deleted" /\ status'[m] = "deleted"}
  <1>1. UNCHANGED <<receives, result>>
    BY DEF ReturnOk
  <1>2. ASSUME NEW m \in Message
        PROVE  \/ status'[m] = status[m]
               \/ /\ status[m] \in {"visible", "inflight"} /\ status'[m] = "deleted"
                  /\ \E i \in 1..Len(batch[w]) : batch[w][i][1] = m
    BY <1>2 DEF ReturnOk
  <1>3. ASSUME NEW m \in S PROVE m \in SettledJobs
    <2>1. PICK i \in 1..Len(batch[w]) : batch[w][i][1] = m
      BY <1>2
    <2>2. i < pos[w] /\ batch[w][i] \in Receipt
      BY <2>1 DEF ReturnOk, TypeOK
    <2>3. result[batch[w][i]] \in Settled
      BY <2>1, <2>2 DEF BatchInv, BatchProgress
    <2>4. PICK r \in 1..MaxReceives : batch[w][i] = <<m, r>>
      BY <2>1, <2>2 DEF Receipt
    <2> QED
      BY <2>3, <2>4 DEF SettledJobs
  <1>4. JobState' = [m \in Message |-> IF m \in S THEN "removed" ELSE JobState[m]]
    BY <1>2 DEF JobState
  <1>5. S \subseteq {m \in Message : JobState[m] = "pending"}
    BY <1>2 DEF JobState
  <1>6. UNCHANGED SettledJobs
    BY <1>1 DEF SettledJobs
  <1> HIDE DEF S
  <1> QED
    BY <1>1, <1>3, <1>4, <1>5, <1>6

LEMMA PromiseReceive ==
    ASSUME TypeOK, NEW w \in Worker, Receive(w)
    PROVE  \E S \in SUBSET {m \in Message : JobState[m] = "pending"} :
              /\ \A m \in S : receives[m] < MaxReceives
              /\ receives' = [m \in Message |-> IF m \in S THEN receives[m] + 1 ELSE receives[m]]
              /\ UNCHANGED <<JobState, SettledJobs>>
  <1>1. PICK n \in 1..BatchSize : \E ms \in [1..n -> Receivable] :
           /\ status' = [m \in Message |->
                            IF m \in {ms[i] : i \in 1..n} THEN "inflight" ELSE status[m]]
           /\ receives' = [m \in Message |->
                            IF m \in {ms[i] : i \in 1..n} THEN receives[m] + 1 ELSE receives[m]]
    BY DEF Receive
  <1>2. PICK ms \in [1..n -> Receivable] :
           /\ status' = [m \in Message |->
                            IF m \in {ms[i] : i \in 1..n} THEN "inflight" ELSE status[m]]
           /\ receives' = [m \in Message |->
                            IF m \in {ms[i] : i \in 1..n} THEN receives[m] + 1 ELSE receives[m]]
    BY <1>1
  <1> DEFINE S == {ms[i] : i \in 1..n}
  <1>3. \A m \in S : m \in Message /\ status[m] = "visible" /\ receives[m] < MaxReceives
    BY DEF Receivable
  <1>4. /\ status' = [m \in Message |-> IF m \in S THEN "inflight" ELSE status[m]]
        /\ receives' = [m \in Message |-> IF m \in S THEN receives[m] + 1 ELSE receives[m]]
    BY <1>2
  <1> HIDE DEF S
  <1>5. S \subseteq {m \in Message : JobState[m] = "pending"}
    BY <1>3 DEF JobState
  <1>6. \A m \in Message : status'[m] = status[m]
                           \/ (status[m] = "visible" /\ status'[m] = "inflight")
    BY <1>3, <1>4
  <1>7. UNCHANGED JobState
    BY <1>6 DEF JobState
  <1>8. UNCHANGED SettledJobs
    BY DEF Receive, SettledJobs
  <1> QED
    BY <1>3, <1>4, <1>5, <1>7, <1>8

LEMMA PromiseStep == QueueInv /\ [Next]_vars => [Promise!Next]_(Promise!vars)
  <1> SUFFICES ASSUME QueueInv, [Next]_vars PROVE Promise!Next \/ UNCHANGED Promise!vars
    OBVIOUS
  <1>0. TypeInv /\ TypeOK /\ BatchInv
    BY DEF QueueInv, TypeInv
  <1>1. CASE UNCHANGED <<status, receives, result>>
    BY <1>1 DEF Promise!vars
  <1>2. ASSUME NEW m \in Message, SendMessage(m) PROVE Promise!Queue(m)
    <2>1. JobState[m] = "unsent" /\ JobState' = [JobState EXCEPT ![m] = "pending"]
      BY <1>0, <1>2 DEF SendMessage, JobState, TypeOK
    <2> QED
      BY <1>2, <2>1 DEF Promise!Queue, SendMessage, JobState
  <1>3. ASSUME NEW m \in Message, VisibilityExpires(m) PROVE UNCHANGED Promise!vars
    <2>1. JobState' = JobState
      BY <1>0, <1>3 DEF VisibilityExpires, JobState, TypeOK
    <2> QED
      BY <1>3, <2>1 DEF Promise!vars, VisibilityExpires, JobState
  <1>4. ASSUME NEW m \in Message, MoveToDLQ(m) PROVE Promise!GiveUp(m)
    <2>1. JobState[m] = "pending" /\ JobState' = [JobState EXCEPT ![m] = "dead"]
      BY <1>0, <1>4 DEF MoveToDLQ, JobState, TypeOK
    <2> QED
      BY <1>4, <2>1 DEF Promise!GiveUp, MoveToDLQ, JobState
  <1>5. ASSUME NEW w \in Worker, Receive(w)
        PROVE  \E S \in SUBSET Promise!Pending : Promise!Deliver(S)
    BY <1>0, <1>5, PromiseReceive DEF Promise!Deliver, Promise!Pending, JobState, SettledJobs
  <1>6. ASSUME NEW w \in Worker, ReturnOk(w)
        PROVE  \E S \in SUBSET Promise!Pending : Promise!Remove(S)
    BY <1>0, <1>6, PromiseReturnOk DEF Promise!Remove, Promise!Pending, JobState, SettledJobs
  <1>7. ASSUME NEW w \in Worker, EndsRecord(w)
        PROVE  UNCHANGED Promise!vars \/ \E m \in Message : Promise!Settle(m)
    <2>1. Job(w) \in Message /\ Current(w) \in Receipt /\ pos[w] \in 1..Len(batch[w])
      BY <1>0, <1>7, CurrentIsReceipt DEF EndsRecord
    <2>2. receives[Job(w)] > 0
      BY <1>0, <2>1, BoundsAssumption
      DEF BatchInv, HeldIsReceived, Current, Job, Receipt, TypeOK
    <2>3. UNCHANGED <<status, receives>>
      BY <1>7 DEF EndsRecord, queueVars
    <2>4. CASE SettledJobs' = SettledJobs
      BY <2>3, <2>4 DEF Promise!vars, SettledJobs
    <2>5. CASE SettledJobs' = SettledJobs \cup {Job(w)}
      <3>1. \E m \in Message : m = Job(w) /\ Promise!Settle(m)
        BY <2>1, <2>2, <2>3, <2>5 DEF Promise!Settle, SettledJobs
      <3> QED
        BY <3>1
    <2> QED
      BY <1>0, <1>7, <2>4, <2>5, PromiseEndsRecord
  <1> QED
    BY <1>0, <1>1, <1>2, <1>3, <1>4, <1>5, <1>6, <1>7, QueueShape DEF Promise!Next

\* The worker and its queue implement JobQueue: with any number of concurrent
\* invocations, any batch size and any interleaving of timeouts, duplicates,
\* retries and crashes, a job is removed only once it is settled, given up only
\* after MaxReceives deliveries, and neither is ever undone (handle_sqs_event).
THEOREM QueuePromiseKept == Spec => KeepsQueuePromise
  BY InitIsAny, PromiseInit, PromiseStep, QueueCorrect, PTL DEF Spec, KeepsQueuePromise, Promise!Spec
=============================================================================
