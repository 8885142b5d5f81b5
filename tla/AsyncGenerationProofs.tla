------------------------ MODULE AsyncGenerationProofs ------------------------
(***************************************************************************)
(* Proofs about AsyncGeneration: the producer, the queue and the workers   *)
(* together.  What is proved of the workers alone is used for the steps    *)
(* that are theirs; the producer adds levels to their graph and messages   *)
(* to their queue.                                                         *)
(***************************************************************************)
EXTENDS AsyncGeneration, DomainWorkerGraphProofs, FiniteSetTheorems

-----------------------------------------------------------------------------
(* RequirementsReachable is not inductive: a worker attaches to any level   *)
(* that exists, so one must know that no level is left unlinked once a job  *)
(* is on the queue, although every call of the producer may fail half-done  *)
(* and update_domain may delete the levels linked so far at any time.       *)

Sent(m) == status[m] # "unsent"

ReceivedWasSent == \A m \in Message : receives[m] > 0 => Sent(m)

\* All levels hang on the domain, except the one between its two queries.
LevelsAreLinked ==
    /\ ppc \in {"start", "level", "conceptualize", "queue", "replied"} => levels = linked
    /\ ppc = "link" => level \in levels /\ levels \subseteq linked \cup {level}
    /\ ppc \in {"start", "level", "link"} => \A l \in linked : l < level

\* Nothing is queued before the levels are all linked, and from then on nobody
\* makes another one.
SentAfterLinking ==
    (\E m \in Message : Sent(m)) =>
        ppc \in {"queue", "replied", "dropped"} /\ levels = linked

\* What the producer's loop has been through.
TriedIsQueued ==
    /\ \A i \in 1..sequence : Sent(jobs[i]) \/ jobs[i] \in logged
    /\ ppc \in {"start", "level", "link", "conceptualize"} => sequence = 0
    /\ ppc = "replied" => sequence = Len(jobs)

ProducerInv ==
    /\ ProducerTypeOK
    /\ ReceivedWasSent
    /\ LevelsAreLinked
    /\ SentAfterLinking
    /\ TriedIsQueued
    /\ RequirementsReachable

AsyncInv == Inv /\ LinkInv /\ ProducerInv

-----------------------------------------------------------------------------
(* The job lists. *)

LEMMA JobListIsSeq ==
    ASSUME NEW s \in JobLists
    PROVE  /\ Len(s) \in Nat
           /\ s \in Seq(Generated)
           /\ \A i \in 1..Len(s) : s[i] \in Message /\ s[i] \in Generated
  <1>1. PICK n \in 0..Cardinality(Generated) : s \in [1..n -> Generated]
    BY DEF JobLists
  <1>2. n \in Nat
    OBVIOUS
  <1>3. s \in Seq(Generated) /\ Len(s) = n
    BY <1>1, <1>2
  <1> QED
    BY <1>1, <1>2, <1>3 DEF Generated

LEMMA EmptyIsJobList == << >> \in JobLists
  <1>1. IsFiniteSet(Generated)
    BY FiniteAssumption, FS_Subset DEF Generated
  <1>2. 0 \in 0..Cardinality(Generated)
    BY <1>1, FS_CardinalityType
  <1>3. << >> \in [1..0 -> Generated]
    OBVIOUS
  <1>4. << >> \in {s \in [1..0 -> Generated] :
                \A i, j \in 1..0 : i < j =>
                    s[i] # s[j] /\ TypeRank[NodeTypeOf[s[i]]] <= TypeRank[NodeTypeOf[s[j]]]}
    BY <1>3
  <1> QED
    BY <1>2, <1>4 DEF JobLists

-----------------------------------------------------------------------------
(* The workers' part of the invariant. *)

\* A step that only changes which levels there are, and takes the requirements
\* of those that go.
LEMMA LevelsOnly ==
    ASSUME Inv, LinkInv, UNCHANGED <<queueVars, workerVars, node, generalizes, result>>,
           requires' \subseteq requires, levels' \subseteq DomainLevels, Linked'
    PROVE  Inv' /\ LinkInv'
  <1>0. TypeInv /\ TypeOK /\ BatchInv /\ AckedIsSettled
    BY DEF Inv, QueueInv, TypeInv
  <1>1. UNCHANGED <<status, receives, pc, batch, pos, plan, elem>>
    BY DEF queueVars, workerVars
  <1>2. TypeInv'
    BY <1>0, <1>1 DEF TypeInv, TypeOK, Busy
  <1>3. BatchInv' /\ AckedIsSettled'
    BY <1>0, <1>1, BatchQuiet DEF Quiet
  <1>4. GraphInv'
    BY <1>1, GraphQuiet
  <1>5. \A w \in Worker : Chosen(w)'
    BY <1>1 DEF LinkInv, Chosen, Current
  <1>6. MadeByEnded'
    BY DEF LinkInv, MadeByEnded
  <1> QED
    BY <1>2, <1>3, <1>4, <1>5, <1>6 DEF Inv, QueueInv, LinkInv

\* Before the first job is sent no delivery has an outcome.
LEMMA UnsentIsPending ==
    ASSUME AsyncInv, \A m \in Message : ~Sent(m), NEW r \in Receipt
    PROVE  result[r] = "pending"
  <1>1. r[1] \in Message /\ r[2] \in 1..MaxReceives
    BY DEF Receipt
  <1>2. receives[r[1]] \in Nat /\ ~(receives[r[1]] > 0)
    BY <1>1, BoundsAssumption DEF AsyncInv, ProducerInv, ReceivedWasSent, Inv, QueueInv, TypeInv, TypeOK
  <1>3. r[2] > receives[r[1]]
    BY <1>1, <1>2, BoundsAssumption
  <1> QED
    BY <1>3 DEF AsyncInv, Inv, QueueInv, BatchInv, FutureIsPending

\* The producer has a level added while nothing is on the queue.
LEMMA AddLevelKeeps ==
    ASSUME AsyncInv, ppc = "level",
           AddLevel \/ UNCHANGED levels,
           UNCHANGED <<queueVars, workerVars, node, generalizes, requires, result>>
    PROVE  Inv' /\ LinkInv'
  <1>1. \A m \in Message : ~Sent(m)
    BY DEF AsyncInv, ProducerInv, SentAfterLinking
  <1>2. Linked'
    BY <1>1, UnsentIsPending DEF Linked
  <1>3. levels' \subseteq DomainLevels
    BY DEF AsyncInv, Inv, QueueInv, TypeInv, TypeOK, ProducerInv, ProducerTypeOK, AddLevel
  <1> QED
    BY <1>2, <1>3, LevelsOnly DEF AsyncInv

\* update_domain takes the linked levels and just their requirements.
LEMMA DeletionKeeps ==
    ASSUME AsyncInv, DeleteLinkedLevels
    PROVE  Inv' /\ LinkInv'
  <1>1. requires' \subseteq requires /\ levels' \subseteq DomainLevels
    BY DEF DeleteLinkedLevels, AsyncInv, Inv, QueueInv, TypeInv, TypeOK
  <1>2. Linked'
    <2> SUFFICES ASSUME NEW r \in Receipt, result[r] = "ok", LevelOf(r[1]) \in levels \ linked
                 PROVE  \E e \in requires' : /\ e.by = r /\ e.level = LevelOf(r[1])
                                             /\ node[r] # NoNode => e.node = r
      BY DEF DeleteLinkedLevels, Linked
    <2>1. PICK e \in requires : /\ e.by = r /\ e.level = LevelOf(r[1])
                                /\ node[r] # NoNode => e.node = r
      BY DEF AsyncInv, LinkInv, Linked
    <2>2. e \in requires'
      BY <2>1 DEF DeleteLinkedLevels
    <2> QED
      BY <2>1, <2>2
  <1> QED
    BY <1>1, <1>2, LevelsOnly DEF AsyncInv, DeleteLinkedLevels

\* What the workers, and SendMessage, do keeps what is proved of the workers.
LEMMA WorkersKeep ==
    ASSUME AsyncInv, [Next]_vars PROVE Inv' /\ LinkInv'
  BY GraphStep, LinkStep DEF AsyncInv

-----------------------------------------------------------------------------
(* The producer's part of the invariant. *)

\* No invocation sends a job or takes one back.
LEMMA WorkerSends ==
    ASSUME TypeOK, NEW w \in Worker, Receive(w) \/ WorkerStep(w) \/ InvocationLost(w)
    PROVE  /\ \A m \in Message : Sent(m)' <=> Sent(m)
           /\ UNCHANGED levels
           /\ \A m \in Message : receives'[m] = receives[m] \/ Sent(m)
  <1>1. CASE Receive(w)
    <2>1. PICK n \in 1..BatchSize : \E ms \in [1..n -> Receivable] :
           /\ status' = [m \in Message |->
                            IF m \in {ms[i] : i \in 1..n} THEN "inflight" ELSE status[m]]
           /\ receives' = [m \in Message |->
                            IF m \in {ms[i] : i \in 1..n} THEN receives[m] + 1 ELSE receives[m]]
      BY <1>1 DEF Receive
    <2>2. PICK ms \in [1..n -> Receivable] :
           /\ status' = [m \in Message |->
                            IF m \in {ms[i] : i \in 1..n} THEN "inflight" ELSE status[m]]
           /\ receives' = [m \in Message |->
                            IF m \in {ms[i] : i \in 1..n} THEN receives[m] + 1 ELSE receives[m]]
      BY <2>1
    <2>3. \A i \in 1..n : Sent(ms[i])
      BY DEF Receivable, Sent
    <2> QED
      BY <1>1, <2>2, <2>3 DEF Sent, Receive, graphVars
  <1>2. CASE ReturnOk(w)
    BY <1>2 DEF ReturnOk, Sent, graphVars
  <1>3. CASE ~Receive(w) /\ ~ReturnOk(w)
    <2>1. UNCHANGED <<queueVars, levels>>
      BY <1>3
      DEF WorkerStep, InvocationLost, SkipMalformed, LlmMissing, Search, SearchFails,
          VerificationFails, StartMilestone, CreateNode, CreateNodeFails,
          create_generalization, GeneralizationFails, AssignLevel, AssignLevelFails, graphVars
    <2> QED
      BY <2>1 DEF queueVars, Sent
  <1> QED
    BY <1>1, <1>2, <1>3

\* An invocation attaches nodes to linked levels only.
LEMMA WorkerReaches ==
    ASSUME AsyncInv, NEW w \in Worker, Receive(w) \/ WorkerStep(w) \/ InvocationLost(w)
    PROVE  \A e \in requires' : e.level \in linked
  <1>1. RequirementsReachable /\ TypeOK /\ Busy(w) /\ SentAfterLinking /\ ReceivedWasSent
    BY DEF AsyncInv, ProducerInv, Inv, QueueInv, TypeInv
  <1>2. CASE requires' = requires
    BY <1>1, <1>2 DEF RequirementsReachable
  <1>3. CASE AssignLevel(w) \/ AssignLevelFails(w)
    <2>1. pos[w] <= Len(batch[w])
      BY <1>1, <1>3 DEF AssignLevel, AssignLevelFails, Busy
    <2>2. Current(w) \in Receipt /\ Job(w) \in Message /\ pos[w] \in 1..Len(batch[w])
      BY <1>1, <2>1, CurrentIsReceipt
    <2>3. Current(w)[2] <= receives[Job(w)] /\ Current(w)[2] \in 1..MaxReceives
      BY <2>2 DEF AsyncInv, Inv, QueueInv, BatchInv, HeldIsReceived, Current, Job, Receipt
    <2>4. receives[Job(w)] > 0
      BY <1>1, <2>2, <2>3, BoundsAssumption DEF TypeOK
    <2>5. levels = linked
      BY <1>1, <2>2, <2>4 DEF ReceivedWasSent, SentAfterLinking
    <2>6. AddRequirement(w) \/ UNCHANGED requires
      BY <1>3 DEF AssignLevel, AssignLevelFails
    <2> QED
      BY <1>1, <2>5, <2>6 DEF AddRequirement, RequirementsReachable
  <1> QED
    BY <1>2, <1>3
    DEF WorkerStep, Receive, ReturnOk, InvocationLost, SkipMalformed, LlmMissing, Search,
        SearchFails, VerificationFails, StartMilestone, CreateNode, CreateNodeFails,
        create_generalization, GeneralizationFails, graphVars

LEMMA ProducerWorkers ==
    ASSUME AsyncInv, QueueAndWorkers PROVE ProducerInv'
  <1>0. TypeOK /\ ProducerInv
    BY DEF AsyncInv, Inv, QueueInv, TypeInv
  <1>1. UNCHANGED <<ppc, level, linked, jobs, sequence, logged>>
    BY DEF QueueAndWorkers, producerVars
  <1>2. /\ \A m \in Message : Sent(m)' <=> Sent(m)
        /\ UNCHANGED levels
        /\ \A m \in Message : receives'[m] = receives[m] \/ Sent(m)
    <2>1. ASSUME NEW m \in Message, VisibilityExpires(m) \/ MoveToDLQ(m)
          PROVE  (\A k \in Message : Sent(k)' <=> Sent(k)) /\ UNCHANGED <<levels, receives>>
      BY <1>0, <2>1 DEF VisibilityExpires, MoveToDLQ, Sent, TypeOK, graphVars
    <2> QED
      BY <1>0, <2>1, WorkerSends DEF QueueAndWorkers
  <1>3. RequirementsReachable'
    <2>1. ASSUME NEW m \in Message, VisibilityExpires(m) \/ MoveToDLQ(m)
          PROVE  \A e \in requires' : e.level \in linked
      BY <1>0, <2>1
      DEF VisibilityExpires, MoveToDLQ, graphVars, ProducerInv, RequirementsReachable
    <2>2. \A e \in requires' : e.level \in linked
      BY <2>1, WorkerReaches DEF QueueAndWorkers
    <2> QED
      BY <1>1, <2>2 DEF RequirementsReachable
  <1>4. ProducerTypeOK' /\ LevelsAreLinked'
    BY <1>0, <1>1, <1>2 DEF ProducerInv, ProducerTypeOK, LevelsAreLinked
  <1>5. ReceivedWasSent' /\ SentAfterLinking'
    BY <1>0, <1>1, <1>2 DEF ProducerInv, ReceivedWasSent, SentAfterLinking
  <1>6. TriedIsQueued'
    <2>1. \A i \in 1..sequence : jobs[i] \in Message
      BY <1>0, JobListIsSeq DEF ProducerInv, ProducerTypeOK
    <2> QED
      BY <1>0, <1>1, <1>2, <2>1 DEF ProducerInv, TriedIsQueued
  <1> QED
    BY <1>3, <1>4, <1>5, <1>6 DEF ProducerInv

\* Steps of the producer that leave the queue, the graph and the list alone.
LEMMA ProducerMoves ==
    ASSUME AsyncInv, UNCHANGED <<vars, level, linked, jobs, sequence, logged>>,
           ppc' \in ProducerStep,
           LevelsAreLinked', TriedIsQueued',
           (\E m \in Message : Sent(m)) => ppc' \in {"queue", "replied", "dropped"}
    PROVE  ProducerInv'
  <1>1. UNCHANGED <<status, receives, levels, requires>>
    BY DEF vars, queueVars, graphVars
  <1>2. ProducerTypeOK' /\ ReceivedWasSent' /\ RequirementsReachable'
    BY <1>1
    DEF AsyncInv, ProducerInv, ProducerTypeOK, ReceivedWasSent, RequirementsReachable, Sent
  <1>3. SentAfterLinking'
    BY <1>1 DEF AsyncInv, ProducerInv, SentAfterLinking, Sent
  <1> QED
    BY <1>2, <1>3 DEF ProducerInv

LEMMA ProducerStarts ==
    ASSUME AsyncInv, Refuse \/ CreateDomain \/ ConceptualizeFails \/ Reply \/ HandlerDropped
    PROVE  ProducerInv'
  <1>1. LevelsAreLinked /\ TriedIsQueued /\ SentAfterLinking
    BY DEF AsyncInv, ProducerInv
  <1>2. UNCHANGED <<vars, level, linked, jobs, sequence, logged>>
    BY DEF Refuse, CreateDomain, ConceptualizeFails, Reply, HandlerDropped
  <1>3. UNCHANGED <<status, levels>>
    BY <1>2 DEF vars, queueVars, graphVars
  <1>4. ppc' \in ProducerStep
    BY DEF Refuse, CreateDomain, ConceptualizeFails, Reply, HandlerDropped, ProducerStep
  <1>5. LevelsAreLinked'
    BY <1>1, <1>2, <1>3
    DEF Refuse, CreateDomain, ConceptualizeFails, Reply, HandlerDropped, LevelsAreLinked
  <1>6. TriedIsQueued'
    BY <1>1, <1>2, <1>3
    DEF Refuse, CreateDomain, ConceptualizeFails, Reply, HandlerDropped, TriedIsQueued, Sent
  <1>7. (\E m \in Message : Sent(m)) => ppc' \in {"queue", "replied", "dropped"}
    BY <1>1
    DEF Refuse, CreateDomain, ConceptualizeFails, Reply, HandlerDropped, SentAfterLinking
  <1> QED
    BY <1>2, <1>4, <1>5, <1>6, <1>7, ProducerMoves

\* The two queries of a level, done, failed, or failed but committed.
LEMMA ProducerLevels ==
    ASSUME AsyncInv, CreateLevel \/ LinkLevel \/ CreationFails
    PROVE  ProducerInv'
  <1>0. /\ ProducerTypeOK /\ ReceivedWasSent /\ LevelsAreLinked /\ SentAfterLinking
        /\ TriedIsQueued /\ RequirementsReachable
    BY DEF AsyncInv, ProducerInv
  <1>1. UNCHANGED <<status, receives, requires, jobs, sequence, logged>>
    BY DEF CreateLevel, LinkLevel, CreationFails, vars, queueVars, graphVars
  <1>2. ppc \in {"start", "level", "link"}
    BY DEF CreateLevel, LinkLevel, CreationFails
  <1>3. \A m \in Message : ~Sent(m) /\ ~Sent(m)'
    BY <1>0, <1>1, <1>2 DEF SentAfterLinking, Sent
  <1>4. \/ linked' = linked
        \/ ppc = "link" /\ linked' = linked \cup {level}
    BY DEF CreateLevel, LinkLevel, CreationFails, AddLink
  <1>5. \/ levels' = levels
        \/ ppc = "level" /\ levels' = levels \cup {level} /\ linked' = linked
    BY DEF CreateLevel, LinkLevel, CreationFails, AddLevel, vars, graphVars
  <1>6. linked' \subseteq levels'
    BY <1>0, <1>4, <1>5 DEF ProducerTypeOK, LevelsAreLinked
  <1>7. level' \in DomainLevels /\ ppc' \in ProducerStep
    BY <1>0
    DEF CreateLevel, LinkLevel, CreationFails, NextLevel, ProducerTypeOK, DomainLevels, ProducerStep
  <1>8. ProducerTypeOK'
    BY <1>0, <1>1, <1>6, <1>7 DEF ProducerTypeOK
  <1>9. LevelsAreLinked'
    <2>0. level \in 1..5 /\ \A l \in linked : l \in 1..5
      BY <1>0 DEF ProducerTypeOK, DomainLevels, AsyncInv, Inv, QueueInv, TypeInv, TypeOK
    <2>1. CASE CreateLevel
      BY <1>0, <2>1 DEF CreateLevel, AddLevel, LevelsAreLinked
    <2>2. CASE CreationFails
      BY <2>2 DEF CreationFails, LevelsAreLinked
    <2>3. CASE LinkLevel
      <3>1. linked' = linked \cup {level} /\ levels' = levels /\ ppc = "link"
        BY <2>3 DEF LinkLevel, AddLink, vars, graphVars
      <3>2. levels' = linked'
        BY <1>0, <1>6, <3>1 DEF LevelsAreLinked
      <3>3. CASE level = 5
        BY <2>3, <3>2, <3>3 DEF LinkLevel, NextLevel, LevelsAreLinked
      <3>4. CASE level # 5
        <4>1. ppc' = "level" /\ level' = level + 1
          BY <2>3, <3>4 DEF LinkLevel, NextLevel
        <4>2. \A l \in linked' : l < level'
          BY <1>0, <2>0, <3>1, <4>1 DEF LevelsAreLinked
        <4> QED
          BY <3>2, <4>1, <4>2 DEF LevelsAreLinked
      <3> QED
        BY <3>3, <3>4
    <2> QED
      BY <2>1, <2>2, <2>3
  <1>10. ReceivedWasSent' /\ SentAfterLinking'
    BY <1>0, <1>1, <1>3 DEF ReceivedWasSent, SentAfterLinking, Sent
  <1>11. TriedIsQueued'
    <2>1. sequence = 0
      BY <1>0, <1>2 DEF TriedIsQueued
    <2>2. ppc' # "replied"
      BY DEF CreateLevel, LinkLevel, CreationFails, NextLevel
    <2> QED
      BY <1>1, <2>1, <2>2 DEF TriedIsQueued
  <1>12. RequirementsReachable'
    BY <1>0, <1>1, <1>4 DEF RequirementsReachable
  <1> QED
    BY <1>8, <1>9, <1>10, <1>11, <1>12 DEF ProducerInv

LEMMA ProducerConceptualizes ==
    ASSUME AsyncInv, Conceptualize PROVE ProducerInv'
  <1>0. /\ ProducerTypeOK /\ ReceivedWasSent /\ LevelsAreLinked /\ SentAfterLinking
        /\ TriedIsQueued /\ RequirementsReachable
    BY DEF AsyncInv, ProducerInv
  <1>1. /\ UNCHANGED <<status, receives, levels, requires, level, linked, sequence, logged>>
        /\ ppc = "conceptualize" /\ ppc' = "queue" /\ jobs' \in JobLists
    BY DEF Conceptualize, vars, queueVars, graphVars
  <1>2. sequence = 0
    BY <1>0, <1>1 DEF TriedIsQueued
  <1>3. ProducerTypeOK'
    <2>1. Len(jobs') \in Nat
      BY <1>1, JobListIsSeq
    <2> QED
      BY <1>0, <1>1, <1>2, <2>1 DEF ProducerTypeOK, ProducerStep
  <1>4. ReceivedWasSent' /\ SentAfterLinking' /\ RequirementsReachable'
    BY <1>0, <1>1 DEF ReceivedWasSent, SentAfterLinking, RequirementsReachable, Sent
  <1>5. LevelsAreLinked' /\ TriedIsQueued'
    BY <1>0, <1>1, <1>2 DEF LevelsAreLinked, TriedIsQueued
  <1> QED
    BY <1>3, <1>4, <1>5 DEF ProducerInv

\* One turn of the loop: the job is on the queue, or its failure is logged.
LEMMA ProducerQueues ==
    ASSUME AsyncInv, QueueJob \/ QueueJobFails PROVE ProducerInv'
  <1>0. /\ ProducerTypeOK /\ ReceivedWasSent /\ LevelsAreLinked /\ SentAfterLinking
        /\ TriedIsQueued /\ RequirementsReachable /\ TypeOK
    BY DEF AsyncInv, ProducerInv, Inv, QueueInv, TypeInv
  <1>1. /\ ppc = "queue" /\ sequence < Len(jobs) /\ sequence' = sequence + 1
        /\ UNCHANGED <<ppc, level, linked, jobs>>
        /\ SendMessage(NextJob) \/ UNCHANGED vars
    BY DEF QueueJob, QueueJobFails, HasJob
  <1>2. Len(jobs) \in Nat /\ sequence \in Nat /\ sequence + 1 \in 1..Len(jobs)
    BY <1>0, <1>1, JobListIsSeq DEF ProducerTypeOK
  <1>3. NextJob \in Generated /\ NextJob \in Message
    BY <1>0, <1>2, JobListIsSeq DEF ProducerTypeOK, NextJob
  <1>4. UNCHANGED <<receives, levels, requires>>
    BY <1>1 DEF SendMessage, vars, queueVars, graphVars
  <1>5. \A m \in Message : Sent(m) => Sent(m)'
    BY <1>0, <1>1, <1>3 DEF SendMessage, Sent, TypeOK, vars, queueVars
  <1>6. status'[NextJob] # "unsent" \/ NextJob \in logged'
    BY <1>0, <1>3 DEF QueueJob, QueueJobFails, SendMessage, TypeOK
  <1>7. (logged \subseteq logged') /\ (logged' \subseteq Generated)
    BY <1>0, <1>3 DEF QueueJob, QueueJobFails, ProducerTypeOK
  <1>8. ProducerTypeOK'
    BY <1>0, <1>1, <1>2, <1>4, <1>7 DEF ProducerTypeOK
  <1>9. ReceivedWasSent'
    BY <1>0, <1>4, <1>5 DEF ReceivedWasSent
  <1>10. LevelsAreLinked' /\ SentAfterLinking' /\ RequirementsReachable'
    BY <1>0, <1>1, <1>4 DEF LevelsAreLinked, SentAfterLinking, RequirementsReachable
  <1>11. ASSUME NEW i \in 1..sequence' PROVE Sent(jobs[i])' \/ jobs[i] \in logged'
    <2>1. CASE i = sequence + 1
      <3>1. jobs[i] = NextJob
        BY <2>1 DEF NextJob
      <3>2. status'[NextJob] # "unsent" \/ NextJob \in logged'
        BY <1>6
      <3> QED
        BY <1>1, <3>1, <3>2 DEF Sent
    <2>2. CASE i # sequence + 1
      <3>1. i \in 1..sequence /\ jobs[i] \in Message
        BY <1>0, <1>1, <1>2, <2>2, JobListIsSeq DEF ProducerTypeOK
      <3>2. Sent(jobs[i]) \/ jobs[i] \in logged
        BY <1>0, <3>1 DEF TriedIsQueued
      <3>3. Sent(jobs[i]) => status'[jobs[i]] # "unsent"
        BY <1>5, <3>1 DEF Sent
      <3> QED
        BY <1>1, <1>7, <3>2, <3>3 DEF Sent
    <2> QED
      BY <2>1, <2>2
  <1>12. TriedIsQueued'
    BY <1>1, <1>11 DEF TriedIsQueued, Sent
  <1> QED
    BY <1>8, <1>9, <1>10, <1>12 DEF ProducerInv

LEMMA ProducerDeletion ==
    ASSUME AsyncInv, DeleteLinkedLevels PROVE ProducerInv'
  <1>0. /\ ProducerTypeOK /\ ReceivedWasSent /\ LevelsAreLinked /\ SentAfterLinking
        /\ TriedIsQueued /\ RequirementsReachable
    BY DEF AsyncInv, ProducerInv
  <1>1. /\ UNCHANGED <<status, receives, ppc, level, jobs, sequence, logged>>
        /\ levels' = levels \ linked /\ linked' = {}
        /\ requires' = {e \in requires : e.level \notin linked}
    BY DEF DeleteLinkedLevels, queueVars
  <1>2. requires' = {}
    BY <1>0, <1>1 DEF RequirementsReachable
  <1>3. LevelsAreLinked'
    <2>1. level \in Nat
      BY <1>0 DEF ProducerTypeOK, DomainLevels
    <2>2. ppc = "link" => level \notin linked
      BY <1>0, <2>1 DEF LevelsAreLinked
    <2> QED
      BY <1>0, <1>1, <2>2 DEF LevelsAreLinked
  <1>4. ProducerTypeOK' /\ ReceivedWasSent' /\ TriedIsQueued' /\ RequirementsReachable'
    BY <1>0, <1>1, <1>2
    DEF ProducerTypeOK, ReceivedWasSent, TriedIsQueued, RequirementsReachable, Sent
  <1>5. SentAfterLinking'
    BY <1>0, <1>1 DEF SentAfterLinking, Sent
  <1> QED
    BY <1>3, <1>4, <1>5 DEF ProducerInv

-----------------------------------------------------------------------------

LEMMA AsyncStep == AsyncInv /\ [AsyncNext]_allVars => AsyncInv'
  <1> SUFFICES ASSUME AsyncInv, [AsyncNext]_allVars PROVE AsyncInv'
    OBVIOUS
  <1>1. CASE Refuse \/ CreateDomain \/ ConceptualizeFails \/ Reply \/ HandlerDropped
    <2>1. UNCHANGED vars
      BY <1>1 DEF Refuse, CreateDomain, ConceptualizeFails, Reply, HandlerDropped
    <2> QED
      BY <1>1, <2>1, ProducerStarts, WorkersKeep DEF AsyncInv
  <1>2. CASE LinkLevel
    <2>1. UNCHANGED vars
      BY <1>2 DEF LinkLevel
    <2> QED
      BY <1>2, <2>1, ProducerLevels, WorkersKeep DEF AsyncInv
  <1>3. CASE CreateLevel
    BY <1>3, ProducerLevels, AddLevelKeeps DEF AsyncInv, CreateLevel
  <1>4. CASE CreationFails
    <2>1. CASE ppc = "level" /\ AddLevel
      BY <1>4, <2>1, ProducerLevels, AddLevelKeeps DEF AsyncInv, CreationFails
    <2>2. CASE ~(ppc = "level" /\ AddLevel)
      <3>1. UNCHANGED vars
        BY <1>4, <2>2 DEF CreationFails, vars, graphVars
      <3> QED
        BY <1>4, <3>1, ProducerLevels, WorkersKeep DEF AsyncInv
    <2> QED
      BY <2>1, <2>2
  <1>5. CASE Conceptualize
    <2>1. UNCHANGED vars
      BY <1>5 DEF Conceptualize
    <2> QED
      BY <1>5, <2>1, ProducerConceptualizes, WorkersKeep DEF AsyncInv
  <1>6. CASE QueueJob \/ QueueJobFails
    <2>1. SendMessage(NextJob) \/ UNCHANGED vars
      BY <1>6 DEF QueueJob, QueueJobFails
    <2>2. NextJob \in Message
      BY <1>6, JobListIsSeq
      DEF QueueJob, QueueJobFails, HasJob, NextJob, AsyncInv, ProducerInv, ProducerTypeOK
    <2>3. [Next]_vars
      BY <2>1, <2>2 DEF Next
    <2> QED
      BY <1>6, <2>3, ProducerQueues, WorkersKeep DEF AsyncInv
  <1>7. CASE DeleteLinkedLevels
    BY <1>7, ProducerDeletion, DeletionKeeps DEF AsyncInv
  <1>8. CASE QueueAndWorkers
    <2>1. Next
      BY <1>8 DEF QueueAndWorkers, Next
    <2> QED
      BY <1>8, <2>1, ProducerWorkers, WorkersKeep DEF AsyncInv
  <1>9. CASE UNCHANGED allVars
    <2>1. UNCHANGED <<vars, ppc, level, linked, jobs, sequence, logged>>
      BY <1>9 DEF allVars, producerVars
    <2>2. UNCHANGED <<status, receives, levels, requires>>
      BY <2>1 DEF vars, queueVars, graphVars
    <2>3. ProducerInv'
      BY <2>1, <2>2
      DEF AsyncInv, ProducerInv, ProducerTypeOK, ReceivedWasSent, LevelsAreLinked,
          SentAfterLinking, TriedIsQueued, RequirementsReachable, Sent
    <2> QED
      BY <2>1, <2>3, WorkersKeep DEF AsyncInv
  <1> QED
    BY <1>1, <1>2, <1>3, <1>4, <1>5, <1>6, <1>7, <1>8, <1>9
    DEF AsyncNext, generate_domain_async

LEMMA AsyncInitially == AsyncInit => AsyncInv
  <1> SUFFICES ASSUME AsyncInit PROVE AsyncInv
    OBVIOUS
  <1>1. AnyInit
    BY DEF AsyncInit, ProducerInit, AnyInit
  <1>2. Inv /\ LinkInv
    BY <1>1, GraphInit, LinkInit
  <1>3. ProducerTypeOK
    <2>1. jobs \in JobLists /\ Len(jobs) \in Nat
      BY EmptyIsJobList, JobListIsSeq DEF AsyncInit, ProducerInit
    <2> QED
      BY <2>1 DEF AsyncInit, ProducerInit, ProducerTypeOK, ProducerStep, DomainLevels
  <1>4. ReceivedWasSent /\ SentAfterLinking /\ RequirementsReachable
    BY DEF AsyncInit, ProducerInit, InitButLevels, ReceivedWasSent, SentAfterLinking,
       RequirementsReachable, Sent
  <1>5. LevelsAreLinked /\ TriedIsQueued
    BY DEF AsyncInit, ProducerInit, LevelsAreLinked, TriedIsQueued
  <1> QED
    BY <1>2, <1>3, <1>4, <1>5 DEF AsyncInv, ProducerInv

LEMMA AsyncCorrect == AsyncSpec => []AsyncInv
  BY AsyncInitially, AsyncStep, PTL DEF AsyncSpec

\* Every reachable state of the producer with the workers is well typed.
THEOREM AsyncTypeCorrect == AsyncSpec => []AsyncTypeOK
  <1>1. AsyncInv => AsyncTypeOK
    BY DEF AsyncInv, AsyncTypeOK, ProducerInv, Inv, QueueInv, TypeInv
  <1> QED
    BY AsyncCorrect, <1>1, PTL

\* Whatever a worker attaches hangs on the domain, although the producer may
\* fail or be dropped between any two of its queries and update_domain may
\* delete the levels meanwhile (create_domain_and_levels,
\* create_level_requirement).
THEOREM AttachedIsReachable == AsyncSpec => []RequirementsReachable
  <1>1. AsyncInv => RequirementsReachable
    BY DEF AsyncInv, ProducerInv
  <1> QED
    BY AsyncCorrect, <1>1, PTL

\* Each concept that the answer of generate_domain_async counts was accepted by
\* the queue or its failure was logged.
THEOREM ReplyAccountsForAll == AsyncSpec => []EveryJobIsAccountedFor
  <1>1. AsyncInv => EveryJobIsAccountedFor
    BY DEF AsyncInv, ProducerInv, TriedIsQueued, Sent, EveryJobIsAccountedFor
  <1> QED
    BY AsyncCorrect, <1>1, PTL

\* What holds of the workers alone holds with the producer: no job is lost, no
\* success is reported without its link, and generalizations stay acyclic.
THEOREM AsyncWorkersCorrect ==
    AsyncSpec => [](AckedIsSettled /\ SuccessIsLinked /\ GeneralizationsAcyclic)
  <1>1. AsyncInv => AckedIsSettled /\ SuccessIsLinked
    BY LinkedIsSuccess DEF AsyncInv, Inv, QueueInv, TypeInv, LinkInv
  <1>2. AsyncInv => GeneralizationsAcyclic
    <2> SUFFICES ASSUME AsyncInv PROVE Acyclic(generalizes)
      BY DEF GeneralizationsAcyclic
    <2>1. generalizes \subseteq Planned
      BY DEF Planned
    <2> QED
      BY <2>1, AcyclicSubset DEF AsyncInv, Inv, GraphInv
  <1> QED
    BY AsyncCorrect, <1>1, <1>2, PTL

\* Together with the producer, too, the workers and the queue implement
\* JobQueue: creating and deleting levels is invisible to it.
THEOREM AsyncPromiseKept == AsyncSpec => KeepsQueuePromise
  <1>1. AsyncInit => Promise!Init
    BY PromiseInit DEF AsyncInit, ProducerInit, AnyInit
  <1>2. AsyncInv /\ [AsyncNext]_allVars => [Promise!Next]_(Promise!vars)
    <2> SUFFICES ASSUME AsyncInv, [AsyncNext]_allVars PROVE [Promise!Next]_(Promise!vars)
      OBVIOUS
    <2>1. [Next]_vars \/ UNCHANGED <<status, receives, result>>
      <3>1. CASE CreateLevel \/ CreationFails \/ DeleteLinkedLevels
        BY <3>1 DEF CreateLevel, CreationFails, DeleteLinkedLevels, queueVars
      <3>2. CASE QueueJob \/ QueueJobFails
        <4>1. NextJob \in Message
          BY <3>2, JobListIsSeq
          DEF QueueJob, QueueJobFails, HasJob, NextJob, AsyncInv, ProducerInv, ProducerTypeOK
        <4> QED
          BY <3>2, <4>1 DEF QueueJob, QueueJobFails, Next
      <3>3. CASE QueueAndWorkers
        BY <3>3 DEF QueueAndWorkers, Next
      <3> QED
        BY <3>1, <3>2, <3>3
        DEF AsyncNext, generate_domain_async, Refuse, CreateDomain, LinkLevel, Conceptualize,
            ConceptualizeFails, Reply, HandlerDropped, allVars
    <2>2. CASE [Next]_vars
      BY <2>2, PromiseStep DEF AsyncInv, Inv
    <2>3. CASE UNCHANGED <<status, receives, result>>
      BY <2>3 DEF Promise!vars
    <2> QED
      BY <2>1, <2>2, <2>3
  <1> QED
    BY AsyncCorrect, <1>1, <1>2, PTL DEF AsyncSpec, KeepsQueuePromise, Promise!Spec
=============================================================================
