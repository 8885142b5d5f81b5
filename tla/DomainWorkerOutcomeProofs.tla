---------------------- MODULE DomainWorkerOutcomeProofs ----------------------
(***************************************************************************)
(* Why a delivery of DomainWorker was allowed to reuse a node, that a      *)
(* success has carried out its decision, and when no node is made twice.   *)
(***************************************************************************)
EXTENDS DomainWorkerGraphProofs, FiniteSetTheorems

-----------------------------------------------------------------------------
(* What the search finds. *)

LEMMA GraphIsFinite == IsFiniteSet(ElementId)
  <1>1. MaxReceives \in Nat
    BY BoundsAssumption
  <1>2. IsFiniteSet(1..MaxReceives)
    BY <1>1, FS_Interval
  <1>3. IsFiniteSet(Receipt)
    BY <1>2, FiniteAssumption, FS_Product DEF Receipt
  <1> QED
    BY <1>3, FiniteAssumption, FS_Union DEF ElementId

LEMMA ScoreIsPercent ==
    ASSUME TypeOK, NEW m \in Message, NEW id \in Present
    PROVE  ScoreOf(NameOf[m], id) \in 0..100
  <1>1. NameOf[m] \in Concept
    BY JobAssumption
  <1>2. node[id] \in NodeRecord
    BY DEF TypeOK, Present
  <1>3. node[id].name \in Concept
    BY <1>2 DEF NodeRecord
  <1> QED
    BY <1>1, <1>3, GraphAssumption DEF ScoreOf

\* What decide_concept_action makes of the hits of a search can be justified by
\* all the nodes in the graph: the index cuts its result off by distance before
\* the labels are looked at, so it passes over no better node.
LEMMA SearchJustifies ==
    ASSUME TypeOK, NEW m \in Message, NEW near \in NearestSets(NameOf[m]),
           NEW d \in decide_concept_action(NameOf[m], NodeTypeOf[m],
                                           WithLabel(near, NodeTypeOf[m])),
           d.kind = "use_existing"
    PROVE  MayReuse(m, d.target)
  <1> DEFINE name == NameOf[m]
             type == NodeTypeOf[m]
             hits == WithLabel(near, type)
             reuse == {id \in TopMatches(name, hits) : ScoreOf(name, id) >= AutoReuse(type)}
             asked == IF AsksLlm(name, type, hits) THEN hits ELSE {}
             alike == {other \in Present : node[other].label = type}
             t == d.target
             closer == {other \in Present : ScoreOf(name, other) > ScoreOf(name, t)}
  <1>1. t \in reuse \/ t \in asked
    <2>1. \/ d \in [kind : {"use_existing"}, target : reuse \cup asked]
          \/ d \in [kind : {"create_and_generalize"}, target : asked]
          \/ d = CreateNew
      BY DEF decide_concept_action
    <2> HIDE DEF reuse, asked
    <2> QED
      BY <2>1 DEF CreateNew
  <1>2. /\ near \subseteq Present
        /\ Cardinality(near) <= Limit
        /\ \A a \in near, b \in Present \ near : ScoreOf(name, a) >= ScoreOf(name, b)
    BY DEF NearestSets
  <1>3. \A id \in Present : ScoreOf(name, id) \in 0..100
    BY ScoreIsPercent
  <1>4. AutoReuse(type) \in Nat /\ AutoCreate(type) \in Nat
    BY DEF AutoReuse, AutoCreate
  <1>5. hits = {id \in near : node[id].label = type} /\ hits \subseteq alike /\ t \in hits
    BY <1>1, <1>2 DEF WithLabel, TopMatches
  \* The first of the hits is the best node of the type.
  <1>6. ASSUME NEW top \in TopMatches(name, hits), NEW other \in alike
        PROVE  ScoreOf(name, other) <= ScoreOf(name, top)
    <2>1. top \in near /\ top \in Present /\ other \in Present
      BY <1>2, <1>5 DEF TopMatches
    <2>2. ScoreOf(name, top) >= ScoreOf(name, other)
      BY <1>2, <1>5, <2>1 DEF TopMatches
    <2> HIDE DEF name
    <2> QED
      BY <1>3, <2>1, <2>2
  <1>7. Cardinality(closer) < Limit
    <2>1. closer \subseteq near \ {t}
      <3> SUFFICES ASSUME NEW other \in closer PROVE other \in near /\ other # t
        OBVIOUS
      <3>1. other \in Present /\ t \in Present /\ t \in near
        BY <1>2, <1>5
      <3>2. ScoreOf(name, other) > ScoreOf(name, t)
        OBVIOUS
      <3>3. other \notin near => ScoreOf(name, t) >= ScoreOf(name, other)
        BY <1>2, <3>1
      <3> HIDE DEF name, t, closer
      <3> QED
        BY <1>3, <3>1, <3>2, <3>3
    <2>2. IsFiniteSet(near)
      BY <1>2, GraphIsFinite, FS_Subset DEF Present
    <2> HIDE DEF closer, t
    <2>3. IsFiniteSet(near \ {t}) /\ Cardinality(near \ {t}) = Cardinality(near) - 1
      BY <1>5, <2>2, FS_RemoveElement
    <2>4. IsFiniteSet(closer) /\ Cardinality(closer) <= Cardinality(near \ {t})
      BY <2>1, <2>3, FS_Subset
    <2>5. Cardinality(closer) \in Nat /\ Cardinality(near) \in Nat /\ Limit \in Nat
      BY <2>2, <2>4, FS_CardinalityType, BoundsAssumption
    <2> QED
      BY <1>2, <2>3, <2>4, <2>5
  <1>8. CASE t \in reuse
    <2>1. t \in TopMatches(name, hits) /\ ScoreOf(name, t) >= AutoReuse(type)
      BY <1>8
    <2>2. \A other \in alike : ScoreOf(name, other) <= ScoreOf(name, t)
      BY <1>6, <2>1
    <2> QED
      BY <1>5, <1>7, <2>1, <2>2 DEF MayReuse
  <1>9. CASE t \in asked
    <2>1. PICK top \in TopMatches(name, hits) : /\ ScoreOf(name, top) < AutoReuse(type)
                                                /\ ScoreOf(name, top) >= AutoCreate(type)
      BY <1>9 DEF AsksLlm
    <2>2. top \in alike /\ top \in Present
      BY <1>5, <2>1 DEF TopMatches
    <2>3. ASSUME NEW other \in alike PROVE ScoreOf(name, other) < AutoReuse(type)
      <3>1. ScoreOf(name, other) <= ScoreOf(name, top) /\ other \in Present
        BY <1>6, <2>1
      <3> HIDE DEF name, type
      <3> QED
        BY <1>3, <1>4, <2>1, <2>2, <3>1
    <2> QED
      BY <1>5, <1>7, <2>1, <2>2, <2>3 DEF MayReuse
  <1> QED
    BY <1>1, <1>8, <1>9

-----------------------------------------------------------------------------
(* From its decision to its end, a delivery carries the decision out call by *)
(* call (Follows), while other invocations write to the same graph.          *)

From(r) == {g \in generalizes : g[1] = r}

\* How far an invocation has come with the decision of its current record.
Follows(w) ==
    /\ pc[w] \in {"create", "generalize"} => plan[w].kind # "use_existing"
    /\ pc[w] = "generalize" => From(Current(w)) = {}
    /\ pc[w] = "assign" =>
          /\ node[Current(w)] = NoNode <=> plan[w].kind = "use_existing"
          /\ elem[w] = IF plan[w].kind = "use_existing" THEN plan[w].target ELSE Current(w)
          /\ From(Current(w)) = Generalizations(w)

FollowInv == \A w \in Worker : Follows(w)

\* A step of w touches the generalizations of no other delivery.
TouchesOnly(w) ==
    \/ UNCHANGED generalizes
    \/ /\ pos[w] <= Len(batch[w])
       /\ \A r \in Receipt : r # Current(w) => From(r)' = From(r)

\* The other invocations go on following their decisions.
LEMMA OthersFollow ==
    ASSUME Inv, FollowInv, NEW w \in Worker, Frame(w),
           node' = node \/ pos[w] <= Len(batch[w]), TouchesOnly(w),
           NEW v \in Worker, v # w
    PROVE  Follows(v)'
  <1>0. CASE pc[v] \notin {"create", "generalize", "assign"}
    BY <1>0 DEF Frame, Follows
  <1>1. CASE pc[v] \in {"create", "generalize", "assign"}
    <2>1. /\ pc'[v] = pc[v] /\ plan'[v] = plan[v] /\ elem'[v] = elem[v]
          /\ Current(v)' = Current(v) /\ Job(v)' = Job(v)
      BY DEF Frame, Current, Job
    <2>2. pos[v] <= Len(batch[v])
      BY <1>1 DEF Inv, QueueInv, TypeInv, Busy
    <2>3. PICK r \in Receipt : r = Current(v) /\ r \in ElementId
      BY <2>2, CurrentIsOpen
    <2>4. pos[w] <= Len(batch[w]) => r # Current(w)
      BY <2>2, <2>3, CurrentIsOpen
    <2>5. node'[r] = node[r]
      BY <2>3, <2>4 DEF Frame
    <2>6. From(r)' = From(r)
      BY <2>3, <2>4 DEF TouchesOnly, From
    <2>7. From(Current(v))' = From(r)' /\ Generalizations(v)' = Generalizations(v)
      BY <2>1, <2>3 DEF From, Generalizations
    <2>8. Follows(v)
      BY DEF FollowInv
    <2> QED
      BY <2>1, <2>3, <2>5, <2>6, <2>7, <2>8 DEF Follows
  <1> QED
    BY <1>0, <1>1

\* Steps that end the record or the invocation, whatever the write before them did.
LEMMA FollowEnds ==
    ASSUME Inv, FollowInv, NEW w \in Worker, MayCreate(w), TouchesOnly(w),
           \/ EndInvocation(w)
           \/ pos[w] <= Len(batch[w]) /\ ReturnErr(w)
           \/ pos[w] <= Len(batch[w]) /\ \E o \in Settled : NextRecord(w, o)
    PROVE  FollowInv'
  <1>1. TypeOK
    BY DEF Inv, QueueInv, TypeInv
  <1>2. Frame(w)
    BY AfterRecord DEF ReturnErr
  <1>3. pc'[w] \in {"idle", "record"}
    BY <1>1 DEF EndInvocation, ReturnErr, NextRecord, TypeOK
  <1>4. node' = node \/ pos[w] <= Len(batch[w])
    BY DEF MayCreate, Inv, QueueInv, TypeInv, Busy
  <1>5. Follows(w)'
    BY <1>3 DEF Follows
  <1> QED
    BY <1>2, <1>4, <1>5, OthersFollow DEF FollowInv

LEMMA FollowFail ==
    ASSUME Inv, FollowInv, NEW w \in Worker, MayCreate(w), TouchesOnly(w),
           pos[w] <= Len(batch[w]), \E e : Fail(w, e)
    PROVE  FollowInv'
  BY FollowEnds DEF Fail, Settled

\* The queue, update_domain, and steps in which nothing happens.
LEMMA FollowQuiet ==
    ASSUME FollowInv, UNCHANGED <<workerVars, node, generalizes>>
    PROVE  FollowInv'
  BY DEF FollowInv, Follows, From, Generalizations, Current, Job, workerVars

\* A delivery without a node generalizes to none.
LEMMA NoneFromAbsent ==
    ASSUME Inv, NEW r, node[r] = NoNode PROVE From(r) = {}
  BY DEF Inv, GraphInv, GeneralizationsWellTyped, From

LEMMA FollowDecides ==
    ASSUME Inv, FollowInv, NEW w \in Worker, Frame(w), pc[w] = "record", pos[w] <= Len(batch[w]),
           UNCHANGED <<batch, pos, node, generalizes>>,
           \/ pc'[w] = "create" /\ plan'[w].kind # "use_existing"
           \/ /\ pc'[w] = "assign" /\ plan'[w].kind = "use_existing"
              /\ elem'[w] = plan'[w].target
    PROVE  FollowInv'
  <1>0. pos[w] \in 1..Len(batch[w])
    BY DEF Inv, QueueInv, TypeInv, TypeOK
  <1>1. PICK r \in Receipt : r = Current(w)
    BY CurrentIsOpen
  <1>2. node[r] = NoNode
    BY <1>0, <1>1 DEF Inv, GraphInv, Knows, Current
  <1>3. Current(w)' = r /\ From(r)' = {}
    BY <1>1, <1>2, NoneFromAbsent DEF Current, From
  <1>4. From(Current(w))' = {}
    BY <1>3 DEF From
  <1>5. plan'[w].kind = "use_existing" => Generalizations(w)' = {}
    BY DEF Generalizations
  <1>6. Follows(w)'
    BY <1>2, <1>3, <1>4, <1>5 DEF Follows
  <1>7. TouchesOnly(w)
    BY DEF TouchesOnly
  <1> QED
    BY <1>6, <1>7, OthersFollow DEF FollowInv

LEMMA FollowSearch ==
    ASSUME Inv, FollowInv, NEW w \in Worker, Search(w) PROVE FollowInv'
  <1>0. TypeOK /\ pos[w] <= Len(batch[w]) /\ pc[w] = "record"
    BY DEF Inv, QueueInv, TypeInv, Search, WellFormed, HasRecord
  <1>1. PICK d :
            /\ plan' = [plan EXCEPT ![w] = d]
            /\ elem' = [elem EXCEPT ![w] = IF d.kind = "use_existing" THEN d.target ELSE NoNode]
            /\ pc' = [pc EXCEPT ![w] = IF d.kind = "use_existing" THEN "assign" ELSE "create"]
    BY DEF Search
  <1>2. UNCHANGED <<batch, pos, node, generalizes>>
    BY DEF Search, graphVars
  <1>3. Frame(w)
    BY <1>0, <1>1, <1>2 DEF Frame, TypeOK
  <1>4. /\ plan'[w] = d
        /\ elem'[w] = IF d.kind = "use_existing" THEN d.target ELSE NoNode
        /\ pc'[w] = IF d.kind = "use_existing" THEN "assign" ELSE "create"
    BY <1>0, <1>1 DEF TypeOK
  <1> QED
    BY <1>0, <1>2, <1>3, <1>4, FollowDecides

LEMMA FollowStartMilestone ==
    ASSUME Inv, FollowInv, NEW w \in Worker, StartMilestone(w) PROVE FollowInv'
  <1>1. TypeOK /\ pos[w] <= Len(batch[w]) /\ pc[w] = "record"
    BY DEF Inv, QueueInv, TypeInv, StartMilestone, WellFormed, HasRecord
  <1>2. UNCHANGED <<batch, pos, elem, node, generalizes>>
    BY DEF StartMilestone, graphVars
  <1>3. Frame(w)
    BY <1>1, <1>2 DEF StartMilestone, Frame, TypeOK
  <1>4. plan'[w].kind # "use_existing" /\ pc'[w] = "create"
    BY <1>1 DEF StartMilestone, TypeOK, CreateNew
  <1> QED
    BY <1>1, <1>2, <1>3, <1>4, FollowDecides

LEMMA FollowCreateNode ==
    ASSUME Inv, FollowInv, NEW w \in Worker, CreateNode(w) PROVE FollowInv'
  <1>1. TypeOK /\ pc[w] = "create" /\ pos[w] <= Len(batch[w])
    BY DEF Inv, QueueInv, TypeInv, Busy, CreateNode
  <1>2. UNCHANGED <<batch, pos, plan, generalizes>>
    BY DEF CreateNode
  <1>3. /\ node[Current(w)] = NoNode /\ node'[Current(w)] # NoNode
        /\ \A id \in ElementId : node[id] # NoNode => node'[id] = node[id]
        /\ \A id \in ElementId : id # Current(w) => node'[id] = node[id]
    BY <1>1, NewNodeIsNew DEF CreateNode
  <1>4. Frame(w)
    BY <1>1, <1>2, <1>3 DEF CreateNode, Frame, TypeOK
  <1>5. PICK r \in Receipt : r = Current(w)
    BY <1>1, CurrentIsOpen
  <1>6. /\ elem'[w] = r /\ Current(w)' = r
        /\ pc'[w] = IF Generalizing(w) THEN "generalize" ELSE "assign"
    BY <1>1, <1>2, <1>5 DEF CreateNode, TypeOK, Current
  <1>7. plan[w].kind # "use_existing" /\ plan'[w] = plan[w]
    BY <1>1, <1>2 DEF FollowInv, Follows
  <1>8. From(Current(w))' = {}
    BY <1>2, <1>3, <1>5, <1>6, NoneFromAbsent DEF From
  <1>9. ~Generalizing(w) => Generalizations(w)' = {}
    BY <1>2 DEF Generalizing, Generalizations, Job, Current
  <1>10. Follows(w)'
    BY <1>3, <1>5, <1>6, <1>7, <1>8, <1>9 DEF Follows
  <1>11. TouchesOnly(w)
    BY <1>2 DEF TouchesOnly
  <1> QED
    BY <1>1, <1>4, <1>10, <1>11, OthersFollow DEF FollowInv

LEMMA FollowGeneralize ==
    ASSUME Inv, FollowInv, NEW w \in Worker, create_generalization(w) PROVE FollowInv'
  <1>1. TypeOK /\ pc[w] = "generalize" /\ pos[w] <= Len(batch[w])
        /\ plan[w].kind = "create_and_generalize"
    BY DEF Inv, QueueInv, TypeInv, Busy, create_generalization
  <1>2. UNCHANGED <<batch, pos, plan, elem, node>> /\ pc'[w] = "assign"
    BY <1>1 DEF create_generalization, TypeOK
  <1>3. Frame(w)
    BY <1>1, <1>2 DEF create_generalization, Frame, TypeOK
  <1>4. PICK r \in Receipt : r = Current(w)
    BY <1>1, CurrentIsOpen
  <1>5. /\ elem[w] = r /\ node[r] # NoNode
        /\ NodeTypeOf[Job(w)] \in {"Knowledge", "Skill"}
    BY <1>1, <1>4 DEF Inv, GraphInv, Knows
  <1>6. generalizes' = generalizes \cup {<<r, plan[w].target>>}
    BY <1>5 DEF create_generalization, AddGeneralization
  <1>7. From(r) = {}
    BY <1>1, <1>4 DEF FollowInv, Follows
  <1>8. From(r)' = {<<r, plan[w].target>>}
    BY <1>6, <1>7 DEF From
  <1>9. Current(w)' = r /\ Job(w)' = Job(w) /\ plan'[w] = plan[w] /\ elem'[w] = r
    BY <1>2, <1>4, <1>5 DEF Current, Job
  <1>10. Generalizations(w)' = {<<r, plan[w].target>>}
    BY <1>1, <1>5, <1>9 DEF Generalizations
  <1>11. From(Current(w))' = From(r)'
    BY <1>9 DEF From
  <1>12. Follows(w)'
    BY <1>1, <1>2, <1>5, <1>8, <1>9, <1>10, <1>11 DEF Follows
  <1>13. TouchesOnly(w)
    BY <1>1, <1>4, <1>6 DEF TouchesOnly, From
  <1> QED
    BY <1>2, <1>3, <1>12, <1>13, OthersFollow DEF FollowInv

LEMMA FollowStep == Inv /\ FollowInv /\ [Next]_vars => FollowInv'
  <1> SUFFICES ASSUME Inv, FollowInv, [Next]_vars PROVE FollowInv'
    OBVIOUS
  <1>1. CASE \/ UNCHANGED vars
             \/ \E m \in Message : SendMessage(m) \/ VisibilityExpires(m) \/ MoveToDLQ(m)
             \/ DeleteLevels
    <2>1. UNCHANGED <<workerVars, node, generalizes>>
      BY <1>1 DEF SendMessage, VisibilityExpires, MoveToDLQ, DeleteLevels, vars, graphVars
    <2> QED
      BY <2>1, FollowQuiet
  <1>2. ASSUME NEW w \in Worker, Receive(w) PROVE FollowInv'
    <2>1. TypeOK
      BY DEF Inv, QueueInv, TypeInv
    <2>2. UNCHANGED <<plan, elem, node, generalizes>>
      BY <1>2 DEF Receive, graphVars
    <2>3. Frame(w)
      BY <1>2, <2>1, <2>2 DEF Receive, Frame, TypeOK
    <2>4. pc'[w] = "record"
      BY <1>2, <2>1 DEF Receive, TypeOK
    <2>5. Follows(w)' /\ TouchesOnly(w)
      BY <2>2, <2>4 DEF Follows, TouchesOnly
    <2> QED
      BY <2>2, <2>3, <2>5, OthersFollow DEF FollowInv
  <1>3. ASSUME NEW w \in Worker, SkipMalformed(w) \/ ReturnOk(w) \/ InvocationLost(w)
        PROVE  FollowInv'
    <2>1. MayCreate(w) /\ TouchesOnly(w)
      BY <1>3 DEF SkipMalformed, ReturnOk, InvocationLost, graphVars, MayCreate, TouchesOnly
    <2> QED
      BY <1>3, <2>1, FollowEnds DEF SkipMalformed, ReturnOk, InvocationLost, HasRecord, Settled
  <1>4. ASSUME NEW w \in Worker, LlmMissing(w) \/ SearchFails(w) \/ VerificationFails(w)
        PROVE  FollowInv'
    <2>1. pos[w] <= Len(batch[w]) /\ (\E e : Fail(w, e)) /\ UNCHANGED graphVars
      BY <1>4 DEF LlmMissing, SearchFails, VerificationFails, WellFormed, HasRecord
    <2> QED
      BY <2>1, FollowFail DEF graphVars, MayCreate, TouchesOnly
  <1>5. ASSUME NEW w \in Worker, CreateNodeFails(w) PROVE FollowInv'
    <2>1. pos[w] <= Len(batch[w])
      BY <1>5 DEF Inv, QueueInv, TypeInv, Busy, CreateNodeFails
    <2>2. (\E e : Fail(w, e)) /\ TouchesOnly(w) /\ MayCreate(w)
      BY <1>5 DEF CreateNodeFails, MayCreate, TouchesOnly
    <2> QED
      BY <2>1, <2>2, FollowFail
  <1>6. ASSUME NEW w \in Worker, GeneralizationFails(w) PROVE FollowInv'
    <2>1. pos[w] <= Len(batch[w]) /\ pc[w] = "generalize"
      BY <1>6 DEF Inv, QueueInv, TypeInv, Busy, GeneralizationFails
    <2>2. (\E e : Fail(w, e)) /\ MayCreate(w)
      BY <1>6 DEF GeneralizationFails, MayCreate
    <2>3. elem[w] = Current(w)
      BY <2>1 DEF Inv, GraphInv, Knows
    <2>4. TouchesOnly(w)
      BY <1>6, <2>1, <2>3 DEF GeneralizationFails, AddGeneralization, From, TouchesOnly
    <2> QED
      BY <2>1, <2>2, <2>4, FollowFail
  <1>7. ASSUME NEW w \in Worker, AssignLevel(w) \/ AssignLevelFails(w) PROVE FollowInv'
    <2>1. pos[w] <= Len(batch[w])
      BY <1>7 DEF Inv, QueueInv, TypeInv, Busy, AssignLevel, AssignLevelFails
    <2>2. MayCreate(w) /\ TouchesOnly(w)
      BY <1>7 DEF AssignLevel, AssignLevelFails, MayCreate, TouchesOnly
    <2> QED
      BY <1>7, <2>1, <2>2, FollowEnds, FollowFail DEF AssignLevel, AssignLevelFails, Settled
  <1> QED
    BY <1>1, <1>2, <1>3, <1>4, <1>5, <1>6, <1>7, FollowSearch, FollowStartMilestone,
       FollowCreateNode, FollowGeneralize DEF Next, WorkerStep

LEMMA FollowCorrect == Spec => []FollowInv
  <1>1. Init => FollowInv
    BY DEF Init, InitButLevels, FollowInv, Follows
  <1> QED
    BY <1>1, FollowStep, GraphCorrect, PTL DEF Spec

-----------------------------------------------------------------------------

\* Only three calls lead to the assignment.
LEMMA ComesToAssign ==
    ASSUME TypeOK, Next, NEW w \in Worker, pc[w] # "assign", pc'[w] = "assign"
    PROVE  Search(w) \/ CreateNode(w) \/ create_generalization(w)
  <1>1. ~UNCHANGED pc
    OBVIOUS
  <1>2. PICK v \in Worker : Receive(v) \/ WorkerStep(v) \/ InvocationLost(v)
    BY <1>1 DEF Next, SendMessage, VisibilityExpires, MoveToDLQ, DeleteLevels, workerVars
  <1>3. CASE Search(v) \/ CreateNode(v) \/ create_generalization(v)
    BY <1>3 DEF TypeOK, Search, CreateNode, create_generalization
  <1>4. CASE \/ EndInvocation(v)
             \/ \E o \in Outcome : NextRecord(v, o)
             \/ ReturnErr(v)
             \/ Receive(v)
             \/ StartMilestone(v)
    BY <1>4 DEF TypeOK, EndInvocation, NextRecord, ReturnErr, Receive, StartMilestone
  <1> QED
    BY <1>2, <1>3, <1>4
    DEF WorkerStep, InvocationLost, ReturnOk, SkipMalformed, LlmMissing, SearchFails,
        VerificationFails, CreateNodeFails, GeneralizationFails, AssignLevel,
        AssignLevelFails, Fail, Outcome

\* When an invocation comes to attach a node its delivery did not create, the
\* search of this delivery returns that node in that very step, of the type asked
\* for and among the Limit nearest, and it is the best of its type and at or
\* above auto_reuse, or the best of its type lies between the thresholds, where
\* the LLM has the choice (decide_concept_action, process).
THEOREM ReuseWasDecided == Spec => ReuseIsJustified
  <1> DEFINE Comes(w) == pc[w] # "assign" /\ pc'[w] = "assign" /\ elem'[w] # Current(w)
             Justified(w) == /\ NodeTypeOf[Job(w)] # "Milestone"
                             /\ node[Current(w)] = NoNode
                             /\ MayReuse(Job(w), elem'[w])
  <1>1. ASSUME Inv, Next, NEW w \in Worker, Comes(w) PROVE Justified(w)
    <2>1. TypeOK
      BY <1>1 DEF Inv, QueueInv, TypeInv
    <2>2. ~CreateNode(w)
      BY <1>1, <2>1 DEF CreateNode, TypeOK
    <2>3. ~create_generalization(w)
      BY <1>1, <2>1 DEF create_generalization, Inv, GraphInv, Knows
    <2>4. Search(w)
      BY <1>1, <2>1, <2>2, <2>3, ComesToAssign
    <2>5. pos[w] \in 1..Len(batch[w]) /\ pc[w] = "record" /\ NodeTypeOf[Job(w)] # "Milestone"
      BY <2>1, <2>4 DEF Search, WellFormed, HasRecord, TypeOK
    <2>6. Job(w) \in Message /\ node[Current(w)] = NoNode
      BY <1>1, <2>1, <2>5, CurrentIsReceipt DEF Inv, GraphInv, Knows, Current
    <2>7. PICK near \in NearestSets(NameOf[Job(w)]) :
            \E d \in decide_concept_action(NameOf[Job(w)], NodeTypeOf[Job(w)],
                                            WithLabel(near, NodeTypeOf[Job(w)])) :
              /\ elem' = [elem EXCEPT ![w] = IF d.kind = "use_existing" THEN d.target ELSE NoNode]
              /\ pc' = [pc EXCEPT ![w] = IF d.kind = "use_existing" THEN "assign" ELSE "create"]
      BY <2>4 DEF Search
    <2>8. PICK d \in decide_concept_action(NameOf[Job(w)], NodeTypeOf[Job(w)],
                                            WithLabel(near, NodeTypeOf[Job(w)])) :
              /\ elem' = [elem EXCEPT ![w] = IF d.kind = "use_existing" THEN d.target ELSE NoNode]
              /\ pc' = [pc EXCEPT ![w] = IF d.kind = "use_existing" THEN "assign" ELSE "create"]
      BY <2>7
    <2>9. d.kind = "use_existing" /\ elem'[w] = d.target
      BY <1>1, <2>1, <2>8 DEF TypeOK
    <2>10. MayReuse(Job(w), d.target)
      BY <2>1, <2>6, <2>9, SearchJustifies
    <2> QED
      BY <2>5, <2>6, <2>9, <2>10
  <1> DEFINE AllJustified == \A w \in Worker : Comes(w) => Justified(w)
  <1>2. Inv /\ [Next]_vars => [AllJustified]_vars
    BY <1>1
  <1> HIDE DEF AllJustified
  <1>3. Spec => [][AllJustified]_vars
    BY <1>2, GraphCorrect, PTL DEF Spec
  <1> QED
    BY <1>3 DEF AllJustified, ReuseIsJustified

\* Only the last call of a delivery makes it a success.
LEMMA BecomesSuccess ==
    ASSUME Inv, Next, NEW w \in Worker, pos[w] <= Len(batch[w]),
           result[Current(w)] # "ok", result'[Current(w)] = "ok"
    PROVE  AssignLevel(w)
  <1>1. TypeOK
    BY DEF Inv, QueueInv, TypeInv
  <1>2. Current(w) \in Receipt
    BY CurrentIsOpen
  <1>3. \E v \in Worker : pos[v] <= Len(batch[v]) /\ AssignLevel(v) /\ Current(v) = Current(w)
    <2>1. PICK v \in Worker : WorkerStep(v)
      BY <1>1 DEF Next, SendMessage, VisibilityExpires, MoveToDLQ, DeleteLevels, Receive, InvocationLost
    <2>2. PICK o \in Outcome : result' = [result EXCEPT ![Current(v)] = o]
                               /\ (o = "ok" => AssignLevel(v))
      <3>1. ~UNCHANGED result
        OBVIOUS
      <3> QED
        BY <2>1, <3>1
        DEF WorkerStep, ReturnOk, SkipMalformed, LlmMissing, Search, SearchFails, StartMilestone,
            VerificationFails, CreateNode, CreateNodeFails, create_generalization,
            GeneralizationFails, AssignLevel, AssignLevelFails, Fail, ReturnErr, NextRecord,
            Outcome
    <2>3. o = "ok" /\ Current(v) = Current(w)
      BY <1>1, <1>2, <2>2 DEF TypeOK
    <2> QED
      BY <2>2, <2>3 DEF AssignLevel, Inv, QueueInv, TypeInv, Busy
  <1> QED
    BY <1>3, CurrentIsOpen

\* A delivery that becomes a success has created, generalized and attached just
\* what it decided at its search, however many invocations wrote to the graph in
\* the meantime and whatever was left behind before (process).
THEOREM SuccessCarriesOutDecision == Spec => DecisionIsCarriedOut
  <1>1. ASSUME Inv, LinkInv, FollowInv, Next, NEW w \in Worker PROVE SuccessFollowsPlan(w)
    <2> DEFINE r == Current(w)
               reuses == plan[w].kind = "use_existing"
    <2> SUFFICES ASSUME pos[w] <= Len(batch[w]), result[r] # "ok", result'[r] = "ok"
                 PROVE  /\ node'[r] = NoNode <=> reuses
                        /\ {g \in generalizes' : g[1] = r} = Generalizations(w)
                        /\ \A e \in requires' :
                              e.by = r => e.node = IF reuses THEN plan[w].target ELSE r
      BY DEF SuccessFollowsPlan
    <2>1. AssignLevel(w)
      BY <1>1, BecomesSuccess
    <2>2. /\ node[r] = NoNode <=> reuses
          /\ elem[w] = IF reuses THEN plan[w].target ELSE r
          /\ From(r) = Generalizations(w)
      BY <1>1, <2>1 DEF FollowInv, Follows, AssignLevel
    <2>3. node' = node /\ generalizes' = generalizes
      BY <2>1 DEF AssignLevel
    <2>4. ASSUME NEW e \in requires', e.by = r PROVE e.node = elem[w]
      <3>1. e \notin requires
        BY <1>1, <2>4, CurrentIsOpen DEF LinkInv, MadeByEnded
      <3> QED
        BY <2>1, <2>4, <3>1 DEF AssignLevel, AddRequirement
    <2> QED
      BY <2>2, <2>3, <2>4 DEF From
  <1>2. Inv /\ LinkInv /\ FollowInv /\ [Next]_vars => [\A w \in Worker : SuccessFollowsPlan(w)]_vars
    BY <1>1
  <1> QED
    BY <1>2, GraphCorrect, LinkCorrect, FollowCorrect, PTL DEF Spec, DecisionIsCarriedOut

-----------------------------------------------------------------------------
(* No duplicates.  Search and CREATE are two calls, so this holds only while *)
(* one invocation at most can write: the others have no LLM key.  It also    *)
(* takes an embedding that tells names apart, an LLM that keeps the name it  *)
(* is given, and names that belong to one type: the index returns the Limit  *)
(* nearest nodes of any type, so that enough namesakes of other types would  *)
(* push the node out of the result.                                          *)

OneWriter == \A v, w \in Worker \ Keyless : v = w

NamesTell ==
    /\ \A a, b \in Concept : a # b => Score[<<a, b>>] < Score[<<a, a>>]
    /\ \A a \in Concept : Score[<<a, a>>] >= 95
    /\ \A a \in Concept : GeneratedName[a] \subseteq {a}
    /\ \A m, n \in Message : NameOf[m] = NameOf[n] => NodeTypeOf[m] = NodeTypeOf[n]
    /\ \A s \in Seed, m \in Message :
          SeedNode[s].name = NameOf[m] => SeedNode[s].label = NodeTypeOf[m]
    /\ \A s, t \in Seed : SeedNode[s] = SeedNode[t] /\ SeedNode[s].label # "Milestone" => s = t

\* The node that a job asks for.
NodeFor(m) == [label |-> NodeTypeOf[m], name |-> NameOf[m]]

\* The strengthening: every node is a seed or the node of its job, and nothing
\* like the node at hand is there until it is created.
NodesAreOfJobs ==
    /\ \A s \in Seed : node[s] = SeedNode[s]
    /\ \A r \in Receipt : node[r] # NoNode => node[r] = NodeFor(r[1])

NothingLike(w) ==
    pc[w] = "create" /\ NodeTypeOf[Job(w)] # "Milestone" =>
        \A id \in Present : node[id] # NodeFor(Job(w))

\* An invocation without a key gets no further than its records.
KeylessWritesNothing == \A w \in Keyless : pc[w] \in {"idle", "record"}

UniqueInv ==
    /\ NoDuplicateNodes
    /\ NodesAreOfJobs
    /\ KeylessWritesNothing
    /\ \A w \in Worker : NothingLike(w)

\* A node of a job's name is the node the job asks for.
LEMMA NamesakeIsSame ==
    ASSUME NamesTell, NodesAreOfJobs, NEW m \in Message, NEW id \in Present, node[id].name = NameOf[m]
    PROVE  node[id] = NodeFor(m) /\ node[id].label = NodeTypeOf[m]
  <1>1. CASE id \in Seed
    <2>1. node[id] \in NodeRecord
      BY <1>1, GraphAssumption DEF NodesAreOfJobs
    <2>2. node[id].label = NodeTypeOf[m]
      BY <1>1 DEF NodesAreOfJobs, NamesTell
    <2> QED
      BY <2>1, <2>2 DEF NodeRecord, NodeFor
  <1>2. CASE id \in Receipt
    <2>1. node[id] = NodeFor(id[1]) /\ id[1] \in Message
      BY <1>2 DEF NodesAreOfJobs, Present, Receipt
    <2>2. NameOf[id[1]] = NameOf[m] /\ node[id].label = NodeTypeOf[id[1]]
      BY <2>1 DEF NodeFor
    <2>3. NodeTypeOf[id[1]] = NodeTypeOf[m]
      BY <2>1, <2>2 DEF NamesTell
    <2> QED
      BY <2>1, <2>2, <2>3 DEF NodeFor
  <1> QED
    BY <1>1, <1>2 DEF Present, ElementId

\* A name scores highest against itself.
LEMMA ScoresOfPresent ==
    ASSUME TypeOK, NamesTell, NEW m \in Message, NEW id \in Present
    PROVE  /\ NameOf[m] \in Concept /\ node[id].name \in Concept
           /\ ScoreOf(NameOf[m], id) \in Nat /\ Score[<<NameOf[m], NameOf[m]>>] \in Nat
           /\ Score[<<NameOf[m], NameOf[m]>>] >= 95
           /\ ScoreOf(NameOf[m], id) <= Score[<<NameOf[m], NameOf[m]>>]
           /\ ScoreOf(NameOf[m], id) = Score[<<NameOf[m], NameOf[m]>>] <=> node[id].name = NameOf[m]
  <1>1. NameOf[m] \in Concept
    BY JobAssumption
  <1>2. node[id] \in NodeRecord
    BY DEF TypeOK, Present
  <1>3. node[id].name \in Concept
    BY <1>2 DEF NodeRecord
  <1> DEFINE a == NameOf[m]
             b == node[id].name
  <1>4. a \in Concept /\ b \in Concept /\ ScoreOf(a, id) = Score[<<a, b>>]
    BY <1>1, <1>3 DEF ScoreOf
  <1> HIDE DEF a, b
  <1>5. Score[<<a, b>>] \in Nat /\ Score[<<a, a>>] \in Nat /\ Score[<<a, a>>] >= 95
    BY <1>4, GraphAssumption DEF NamesTell
  <1>6. a # b => Score[<<a, b>>] < Score[<<a, a>>]
    BY <1>4 DEF NamesTell
  <1>7. Score[<<a, b>>] <= Score[<<a, a>>] /\ (Score[<<a, b>>] = Score[<<a, a>>] <=> b = a)
    BY <1>5, <1>6
  <1> QED
    BY <1>4, <1>5, <1>7 DEF a, b

\* The index returns the node a job asks for, if there is one.
LEMMA SearchFindsNamesake ==
    ASSUME TypeOK, NamesTell, NodesAreOfJobs, NEW m \in Message, NEW b \in Present,
           node[b] = NodeFor(m), NEW near \in NearestSets(NameOf[m])
    PROVE  \E a \in WithLabel(near, NodeTypeOf[m]) : node[a] = NodeFor(m)
  <1>1. node[b].name = NameOf[m] /\ node[b].label = NodeTypeOf[m]
    BY DEF NodeFor
  <1>2. CASE b \in near
    BY <1>1, <1>2 DEF WithLabel
  <1>3. CASE b \notin near
    <2>1. near \subseteq Present /\ Cardinality(near) = Limit
      BY <1>3 DEF NearestSets
    <2>2. near # {}
      BY <2>1, FS_EmptySet, BoundsAssumption
    <2>3. PICK a \in near : TRUE
      BY <2>2
    <2>4. ScoreOf(NameOf[m], a) >= ScoreOf(NameOf[m], b)
      BY <1>3, <2>3 DEF NearestSets
    <2>5. ScoreOf(NameOf[m], b) = Score[<<NameOf[m], NameOf[m]>>]
      BY <1>1, ScoresOfPresent
    <2>6. ScoreOf(NameOf[m], a) = Score[<<NameOf[m], NameOf[m]>>]
      <3>1. /\ ScoreOf(NameOf[m], a) <= Score[<<NameOf[m], NameOf[m]>>]
            /\ ScoreOf(NameOf[m], a) \in Nat /\ Score[<<NameOf[m], NameOf[m]>>] \in Nat
        BY <2>1, <2>3, ScoresOfPresent
      <3> QED
        BY <2>4, <2>5, <3>1
    <2>7. a \in Present /\ node[a].name = NameOf[m]
      BY <2>1, <2>3, <2>6, ScoresOfPresent
    <2>8. node[a] = NodeFor(m) /\ node[a].label = NodeTypeOf[m]
      BY <2>7, NamesakeIsSame
    <2> QED
      BY <2>3, <2>8 DEF WithLabel
  <1> QED
    BY <1>2, <1>3

\* A hit of the job's own name is reused without asking the LLM.
LEMMA NamesakeIsReused ==
    ASSUME TypeOK, NamesTell, NEW m \in Message, NEW hits, hits \subseteq Present,
           NEW a \in hits, node[a] = NodeFor(m),
           NEW d \in decide_concept_action(NameOf[m], NodeTypeOf[m], hits)
    PROVE  d.kind = "use_existing"
  <1> DEFINE best == Score[<<NameOf[m], NameOf[m]>>]
  <1>1. node[a].name = NameOf[m]
    BY DEF NodeFor
  <1>2. \A id \in hits : ScoreOf(NameOf[m], id) \in Nat /\ ScoreOf(NameOf[m], id) <= best
    BY ScoresOfPresent
  <1>3. ScoreOf(NameOf[m], a) = best /\ best >= 95 /\ best \in Nat
    BY <1>1, ScoresOfPresent
  <1>4. AutoReuse(NodeTypeOf[m]) \in {85, 95}
    BY DEF AutoReuse
  <1> HIDE DEF best
  <1>5. a \in TopMatches(NameOf[m], hits)
    BY <1>2, <1>3 DEF TopMatches
  <1>6. \A top \in TopMatches(NameOf[m], hits) : ScoreOf(NameOf[m], top) >= 95
    BY <1>2, <1>3 DEF TopMatches
  <1>7. ~AsksLlm(NameOf[m], NodeTypeOf[m], hits)
    <2> SUFFICES ASSUME NEW top \in TopMatches(NameOf[m], hits)
                 PROVE  ~(ScoreOf(NameOf[m], top) < AutoReuse(NodeTypeOf[m]))
      BY DEF AsksLlm
    <2>1. ScoreOf(NameOf[m], top) \in Nat /\ ScoreOf(NameOf[m], top) >= 95
      BY <1>2, <1>6 DEF TopMatches
    <2> QED
      BY <1>4, <2>1
  <1>8. ScoreOf(NameOf[m], a) >= AutoReuse(NodeTypeOf[m])
    BY <1>3, <1>4
  <1> DEFINE reuse == {id \in TopMatches(NameOf[m], hits) :
                          ScoreOf(NameOf[m], id) >= AutoReuse(NodeTypeOf[m])}
  <1>9. reuse # {}
    BY <1>5, <1>8
  <1>10. d \in [kind : {"use_existing"}, target : reuse \cup {}]
    <2>1. d \in [kind : {"use_existing"}, target : reuse \cup {}]
                \cup [kind : {"create_and_generalize"}, target : {}]
                \cup {}
      BY <1>7, <1>9 DEF decide_concept_action
    <2>2. [kind : {"create_and_generalize"}, target : {}] = {}
      OBVIOUS
    <2> QED
      BY <2>1, <2>2
  <1> HIDE DEF reuse
  <1> QED
    BY <1>10

\* What every step of w keeps if it writes no node.
LEMMA UniqueQuiet ==
    ASSUME UniqueInv, UNCHANGED node, NEW w \in Worker,
           \A v \in Worker : v # w => pc'[v] = pc[v] /\ Job(v)' = Job(v),
           w \in Keyless => pc'[w] \in {"idle", "record"},
           NothingLike(w)'
    PROVE  UniqueInv'
  <1>1. NoDuplicateNodes' /\ NodesAreOfJobs'
    BY DEF UniqueInv, NoDuplicateNodes, NodesAreOfJobs, Present
  <1>2. KeylessWritesNothing'
    BY BoundsAssumption DEF UniqueInv, KeylessWritesNothing
  <1>3. ASSUME NEW v \in Worker, v # w PROVE NothingLike(v)'
    <2>1. NothingLike(v) /\ Present' = Present /\ pc'[v] = pc[v] /\ Job(v)' = Job(v)
      BY <1>3 DEF UniqueInv, Present
    <2> QED
      BY <2>1 DEF NothingLike, NodeFor
  <1> QED
    BY <1>1, <1>2, <1>3 DEF UniqueInv

\* The search makes sure of it.
LEMMA UniqueSearch ==
    ASSUME Inv, UniqueInv, NamesTell, NEW w \in Worker, Search(w)
    PROVE  UniqueInv'
  <1>0. TypeOK /\ pos[w] <= Len(batch[w]) /\ UNCHANGED <<batch, pos, node>>
    BY DEF Inv, QueueInv, TypeInv, Search, WellFormed, HasRecord, graphVars
  <1>1. Job(w) \in Message /\ Job(w)' = Job(w)
    BY <1>0, CurrentIsReceipt DEF Job, Current
  <1>2. PICK near \in NearestSets(NameOf[Job(w)]) :
          \E d \in decide_concept_action(NameOf[Job(w)], NodeTypeOf[Job(w)],
                                          WithLabel(near, NodeTypeOf[Job(w)])) :
            pc' = [pc EXCEPT ![w] = IF d.kind = "use_existing" THEN "assign" ELSE "create"]
    BY DEF Search
  <1> DEFINE hits == WithLabel(near, NodeTypeOf[Job(w)])
  <1>3. PICK d \in decide_concept_action(NameOf[Job(w)], NodeTypeOf[Job(w)], hits) :
            pc' = [pc EXCEPT ![w] = IF d.kind = "use_existing" THEN "assign" ELSE "create"]
    BY <1>2
  <1>4. hits \subseteq Present
    BY SearchFindsPresent
  <1>5. ASSUME pc'[w] = "create", NEW id \in Present, node[id] = NodeFor(Job(w)) PROVE FALSE
    <2>1. PICK a \in hits : node[a] = NodeFor(Job(w))
      BY <1>0, <1>1, <1>5, SearchFindsNamesake DEF UniqueInv
    <2> HIDE DEF hits
    <2>2. d.kind = "use_existing"
      BY <1>0, <1>1, <1>3, <1>4, <2>1, NamesakeIsReused
    <2> QED
      BY <1>0, <1>3, <1>5, <2>2 DEF TypeOK
  <1>6. NothingLike(w)'
    <2>1. Present' = Present /\ \A m : NodeFor(m)' = NodeFor(m)
      BY <1>0 DEF Present, NodeFor
    <2> QED
      BY <1>0, <1>1, <1>5, <2>1 DEF NothingLike, NodeFor
  <1>7. \A v \in Worker : v # w => pc'[v] = pc[v] /\ Job(v)' = Job(v)
    BY <1>0, <1>3 DEF TypeOK, Job, Current
  <1>8. w \notin Keyless
    BY DEF Search
  <1> QED
    BY <1>0, <1>6, <1>7, <1>8, UniqueQuiet

\* The node that is created is one of a kind, or a Milestone.
LEMMA UniqueCreate ==
    ASSUME Inv, UniqueInv, OneWriter, NamesTell, NEW w \in Worker,
           pc[w] = "create", NewNode(w), pc'[w] # "create",
           \A v \in Worker : v # w => pc'[v] = pc[v]
    PROVE  UniqueInv'
  <1>0. TypeOK /\ pos[w] <= Len(batch[w])
    BY DEF Inv, QueueInv, TypeInv, Busy
  <1>1. Job(w) \in Message /\ Current(w) \in Receipt /\ Current(w)[1] = Job(w)
    BY <1>0, CurrentIsReceipt DEF Job
  <1>2. /\ node[Current(w)] = NoNode /\ Current(w) \in ElementId
        /\ \A id \in ElementId : id # Current(w) => node'[id] = node[id]
    BY NewNodeIsNew
  <1>3. node'[Current(w)] = NodeFor(Job(w))
    <2>1. PICK name \in GeneratedName[NameOf[Job(w)]] :
             node' = [node EXCEPT ![Current(w)] = [label |-> NodeTypeOf[Job(w)], name |-> name]]
      BY DEF NewNode
    <2>2. name = NameOf[Job(w)]
      BY <1>1, <2>1, JobAssumption DEF NamesTell
    <2> QED
      BY <1>0, <1>2, <2>1, <2>2 DEF NodeFor, TypeOK
  <1>4. NodesAreOfJobs'
    <2>1. \A s \in Seed : s \in ElementId /\ s # Current(w)
      BY <1>1, GraphAssumption DEF ElementId
    <2>2. \A r \in Receipt : r \in ElementId
      BY DEF ElementId
    <2> QED
      BY <1>1, <1>2, <1>3, <2>1, <2>2 DEF UniqueInv, NodesAreOfJobs, NodeFor
  <1>5. NodeFor(Job(w)).label = NodeTypeOf[Job(w)]
    BY DEF NodeFor
  <1>6. \A id \in Present' : id = Current(w) \/ (id \in Present /\ node'[id] = node[id])
    BY <1>2 DEF Present
  <1>7. NodeTypeOf[Job(w)] # "Milestone" => \A id \in Present : node[id] # NodeFor(Job(w))
    BY DEF UniqueInv, NothingLike
  <1>8. NoDuplicateNodes'
    <2> SUFFICES ASSUME NEW a \in Present', NEW b \in Present',
                        node'[a] = node'[b], node'[a].label # "Milestone"
                 PROVE  a = b
      BY DEF NoDuplicateNodes
    <2>1. CASE a \in Present /\ b \in Present /\ node'[a] = node[a] /\ node'[b] = node[b]
      BY <2>1 DEF UniqueInv, NoDuplicateNodes
    <2> QED
      BY <1>3, <1>5, <1>6, <1>7, <2>1
  \* No other invocation is about to create a node.
  <1>9. w \notin Keyless /\ \A v \in Worker : v # w => v \in Keyless
    BY DEF UniqueInv, KeylessWritesNothing, OneWriter
  <1>10. KeylessWritesNothing'
    BY <1>9, BoundsAssumption DEF UniqueInv, KeylessWritesNothing
  <1>11. \A v \in Worker : NothingLike(v)'
    BY <1>9, <1>10 DEF KeylessWritesNothing, NothingLike
  <1> QED
    BY <1>4, <1>8, <1>10, <1>11 DEF UniqueInv

\* After its record, an invocation writes nothing.
LEMMA EndsWriting ==
    ASSUME TypeOK, NEW w \in Worker, EndInvocation(w) \/ \E o : NextRecord(w, o)
    PROVE  /\ pc'[w] \in {"idle", "record"}
           /\ \A v \in Worker : v # w => pc'[v] = pc[v] /\ Job(v)' = Job(v)
  BY DEF TypeOK, EndInvocation, NextRecord, Job, Current

LEMMA FailsWriting ==
    ASSUME TypeOK, NEW w \in Worker, \E e : Fail(w, e)
    PROVE  /\ pc'[w] \in {"idle", "record"}
           /\ \A v \in Worker : v # w => pc'[v] = pc[v] /\ Job(v)' = Job(v)
  BY EndsWriting DEF Fail, ReturnErr

LEMMA UniqueStep ==
    ASSUME OneWriter, NamesTell, Inv, UniqueInv, [Next]_vars PROVE UniqueInv'
  <1>0. TypeOK
    BY DEF Inv, QueueInv, TypeInv
  <1>1. CASE \/ \E m \in Message : SendMessage(m) \/ VisibilityExpires(m) \/ MoveToDLQ(m)
             \/ DeleteLevels \/ UNCHANGED vars
    <2>1. UNCHANGED <<pc, batch, pos, node>>
      BY <1>1 DEF SendMessage, VisibilityExpires, MoveToDLQ, DeleteLevels, vars, workerVars, graphVars
    <2> QED
      BY <2>1 DEF UniqueInv, NoDuplicateNodes, NodesAreOfJobs, KeylessWritesNothing, NothingLike,
         NodeFor, Present, Job, Current
  <1>2. ASSUME NEW w \in Worker, UNCHANGED node, pc'[w] \in {"idle", "record"},
               \A v \in Worker : v # w => pc'[v] = pc[v] /\ Job(v)' = Job(v)
        PROVE  UniqueInv'
    BY <1>2, UniqueQuiet DEF NothingLike
  <1>3. ASSUME NEW w \in Worker,
               \/ Receive(w) \/ SkipMalformed(w) \/ LlmMissing(w) \/ SearchFails(w)
               \/ VerificationFails(w) \/ GeneralizationFails(w)
               \/ AssignLevel(w) \/ AssignLevelFails(w) \/ ReturnOk(w) \/ InvocationLost(w)
        PROVE  UniqueInv'
    <2>1. UNCHANGED node
      BY <1>3 DEF Receive, SkipMalformed, LlmMissing, SearchFails, VerificationFails,
         GeneralizationFails, AssignLevel, AssignLevelFails, ReturnOk, InvocationLost, graphVars
    <2>2. CASE Receive(w)
      BY <1>0, <1>2, <2>1, <2>2 DEF Receive, TypeOK, Job, Current
    <2>3. CASE SkipMalformed(w) \/ AssignLevel(w) \/ ReturnOk(w) \/ InvocationLost(w)
      BY <1>0, <1>2, <2>1, <2>3, EndsWriting DEF SkipMalformed, AssignLevel, ReturnOk, InvocationLost
    <2>4. CASE \/ LlmMissing(w) \/ SearchFails(w) \/ VerificationFails(w)
               \/ GeneralizationFails(w) \/ AssignLevelFails(w)
      BY <1>0, <1>2, <2>1, <2>4, FailsWriting
      DEF LlmMissing, SearchFails, VerificationFails, GeneralizationFails, AssignLevelFails
    <2> QED
      BY <1>3, <2>2, <2>3, <2>4
  <1>4. ASSUME NEW w \in Worker, Search(w) PROVE UniqueInv'
    BY <1>4, UniqueSearch
  \* A milestone is not searched for.
  <1>5. ASSUME NEW w \in Worker, StartMilestone(w) PROVE UniqueInv'
    <2>1. /\ UNCHANGED <<batch, pos, node>> /\ NodeTypeOf[Job(w)] = "Milestone" /\ w \notin Keyless
          /\ \A v \in Worker : v # w => pc'[v] = pc[v]
      BY <1>0, <1>5 DEF StartMilestone, graphVars, TypeOK
    <2>2. \A v \in Worker : Job(v)' = Job(v)
      BY <2>1 DEF Job, Current
    <2>3. NothingLike(w)'
      BY <2>1, <2>2 DEF NothingLike
    <2> QED
      BY <2>1, <2>2, <2>3, UniqueQuiet
  <1>6. ASSUME NEW w \in Worker, CreateNode(w) PROVE UniqueInv'
    <2>1. pc'[w] # "create" /\ \A v \in Worker : v # w => pc'[v] = pc[v]
      BY <1>0, <1>6 DEF CreateNode, TypeOK
    <2> QED
      BY <1>6, <2>1, UniqueCreate DEF CreateNode
  <1>7. ASSUME NEW w \in Worker, CreateNodeFails(w) PROVE UniqueInv'
    <2>1. /\ pc[w] = "create" /\ pc'[w] \in {"idle", "record"}
          /\ \A v \in Worker : v # w => pc'[v] = pc[v] /\ Job(v)' = Job(v)
      BY <1>0, <1>7, FailsWriting DEF CreateNodeFails
    <2>2. UNCHANGED node \/ NewNode(w)
      BY <1>7 DEF CreateNodeFails
    <2> QED
      BY <1>2, <2>1, <2>2, UniqueCreate
  <1>8. ASSUME NEW w \in Worker, create_generalization(w) PROVE UniqueInv'
    <2>1. /\ UNCHANGED <<batch, pos, node>> /\ pc[w] = "generalize" /\ pc'[w] = "assign"
          /\ \A v \in Worker : v # w => pc'[v] = pc[v]
      BY <1>0, <1>8 DEF create_generalization, TypeOK
    <2>2. w \notin Keyless
      BY <2>1 DEF UniqueInv, KeylessWritesNothing
    <2>3. NothingLike(w)' /\ \A v \in Worker : Job(v)' = Job(v)
      BY <2>1 DEF NothingLike, Job, Current
    <2> QED
      BY <2>1, <2>2, <2>3, UniqueQuiet
  <1> QED
    BY <1>1, <1>3, <1>4, <1>5, <1>6, <1>7, <1>8 DEF Next, WorkerStep

LEMMA UniqueInit == ASSUME NamesTell, AnyInit PROVE UniqueInv
  <1>1. /\ pc = [w \in Worker |-> "idle"]
        /\ node = [id \in ElementId |-> IF id \in Seed THEN SeedNode[id] ELSE NoNode]
    BY DEF AnyInit, InitButLevels
  <1>2. \A s \in Seed : s \in ElementId /\ node[s] = SeedNode[s]
    BY <1>1 DEF ElementId
  <1>3. \A r \in Receipt : node[r] = NoNode
    BY <1>1, GraphAssumption DEF ElementId
  <1>4. Present \subseteq Seed
    BY <1>1 DEF Present
  <1>5. NoDuplicateNodes
    BY <1>2, <1>4 DEF NoDuplicateNodes, NamesTell
  <1>6. KeylessWritesNothing /\ \A w \in Worker : NothingLike(w)
    BY <1>1, BoundsAssumption DEF NothingLike, KeylessWritesNothing
  <1> QED
    BY <1>2, <1>3, <1>5, <1>6 DEF UniqueInv, NodesAreOfJobs

\* While one invocation at most can write, a job that is delivered again, or
\* another job for the same concept, finds the node that is there, whatever failed
\* before, and reuses it (handle_sqs_event, decide_concept_action).
THEOREM NoDuplicates ==
    ASSUME OneWriter, NamesTell
    PROVE  Spec => []NoDuplicateNodes
  <1>1. Init => UniqueInv
    BY InitIsAny, UniqueInit
  <1>2. Inv /\ UniqueInv /\ [Next]_vars => UniqueInv'
    BY UniqueStep
  <1>3. UniqueInv => NoDuplicateNodes
    BY DEF UniqueInv
  <1> QED
    BY <1>1, <1>2, <1>3, GraphCorrect, PTL DEF Spec
=============================================================================
