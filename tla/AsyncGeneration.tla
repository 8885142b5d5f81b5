-------------------------- MODULE AsyncGeneration ---------------------------
(***************************************************************************)
(* Asynchronous generation of a domain, end to end: the handler            *)
(* generate_domain_async of the REST API (the producer) together with the  *)
(* workers of DomainWorker, whose queue and graph it shares.               *)
(*                                                                         *)
(* The producer creates the domain and its five levels one query at a      *)
(* time, asks the LLM for the concepts and queues one job per concept.     *)
(* The handler is dropped at whatever call it is in when its client goes   *)
(* away or the server stops.  Meanwhile update_domain may come.            *)
(***************************************************************************)
EXTENDS DomainWorker

VARIABLES
    ppc,       \* the call the producer makes next
    level,     \* the level create_domain_and_levels is at
    linked,    \* the levels that hang on the domain by HAS_DOMAIN_LEVEL
    jobs,      \* the jobs of the concepts, in the order they are queued
    sequence,  \* how many of them were tried
    logged     \* the jobs whose queueing returned an error

producerVars == <<ppc, level, linked, jobs, sequence, logged>>
allVars == <<vars, producerVars>>

ProducerStep == {"start", "level", "link", "conceptualize", "queue", "replied", "err", "dropped"}
Ended == {"replied", "err", "dropped"}

Generated == Message \ Malformed

\* Knowledge is queued first, then skills, traits and milestones.
TypeRank == [Knowledge |-> 1, Skill |-> 2, Trait |-> 3, Milestone |-> 4]

\* The job lists that the LLM's answer may lead to.
JobLists ==
    UNION {{s \in [1..n -> Generated] :
                \A i, j \in 1..n : i < j =>
                    s[i] # s[j] /\ TypeRank[NodeTypeOf[s[i]]] <= TypeRank[NodeTypeOf[s[j]]]}
           : n \in 0..Cardinality(Generated)}

ProducerTypeOK ==
    /\ ppc \in ProducerStep
    /\ level \in DomainLevels
    /\ linked \subseteq levels
    /\ jobs \in JobLists
    /\ sequence \in 0..Len(jobs)
    /\ logged \subseteq Generated

ProducerInit ==
    /\ levels = {}
    /\ ppc = "start"
    /\ level = 1
    /\ linked = {}
    /\ jobs = << >>
    /\ sequence = 0
    /\ logged = {}

-----------------------------------------------------------------------------
(* generate_domain_async. *)

\* The request does not validate, or no queue is configured.
Refuse ==
    /\ ppc = "start"
    /\ ppc' = "err"
    /\ UNCHANGED <<vars, level, linked, jobs, sequence, logged>>

CreateDomain ==
    /\ ppc = "start"
    /\ ppc' = "level"
    /\ UNCHANGED <<vars, level, linked, jobs, sequence, logged>>

AddLevel == levels' = levels \cup {level}
AddLink == linked' = linked \cup {level}

CreateLevel ==
    /\ ppc = "level"
    /\ AddLevel
    /\ ppc' = "link"
    /\ UNCHANGED <<queueVars, workerVars, node, generalizes, requires, result>>
    /\ UNCHANGED <<level, linked, jobs, sequence, logged>>

\* Mutant of NextLevel: the loop runs over six levels.
NextLevelPast ==
    IF level = 6
    THEN ppc' = "conceptualize" /\ UNCHANGED level
    ELSE ppc' = "level" /\ level' = level + 1

NextLevel ==
    IF level = 5
    THEN ppc' = "conceptualize" /\ UNCHANGED level
    ELSE ppc' = "level" /\ level' = level + 1

LinkLevel ==
    /\ ppc = "link"
    /\ AddLink
    /\ NextLevel
    /\ UNCHANGED <<vars, jobs, sequence, logged>>

\* Mutant of CreationFails: as in create_domain, a level that fails is skipped.
CreationFailureSkipped ==
    /\ ppc = "link"
    /\ NextLevel
    /\ UNCHANGED <<vars, linked, jobs, sequence, logged>>

\* A call of create_domain_and_levels fails, committed or not.
CreationFails ==
    /\ ppc \in {"start", "level", "link"}
    /\ ppc' = "err"
    /\ \/ ppc = "level" /\ AddLevel /\ UNCHANGED linked
       \/ ppc = "link" /\ AddLink /\ UNCHANGED levels
       \/ UNCHANGED <<levels, linked>>
    /\ UNCHANGED <<queueVars, workerVars, node, generalizes, requires, result>>
    /\ UNCHANGED <<level, jobs, sequence, logged>>

\* The avatar's job is queued first; whether that succeeds changes nothing.
Conceptualize ==
    /\ ppc = "conceptualize"
    /\ jobs' \in JobLists
    /\ ppc' = "queue"
    /\ UNCHANGED <<vars, level, linked, sequence, logged>>

ConceptualizeFails ==
    /\ ppc = "conceptualize"
    /\ ppc' = "err"
    /\ UNCHANGED <<vars, level, linked, jobs, sequence, logged>>

NextJob == jobs[sequence + 1]
HasJob == ppc = "queue" /\ sequence < Len(jobs)

QueueJob ==
    /\ HasJob
    /\ SendMessage(NextJob)
    /\ sequence' = sequence + 1
    /\ UNCHANGED <<ppc, level, linked, jobs, logged>>

\* Mutant of QueueJobFails: the error is not recorded anywhere.
QueueJobFailsSilently ==
    /\ HasJob
    /\ SendMessage(NextJob) \/ UNCHANGED vars
    /\ sequence' = sequence + 1
    /\ UNCHANGED <<ppc, level, linked, jobs, logged>>

\* An error is logged and the loop goes on; the message may have been accepted.
QueueJobFails ==
    /\ HasJob
    /\ SendMessage(NextJob) \/ UNCHANGED vars
    /\ logged' = logged \cup {NextJob}
    /\ sequence' = sequence + 1
    /\ UNCHANGED <<ppc, level, linked, jobs>>

\* The answer says that all of jobs are queued.
Reply ==
    /\ ppc = "queue"
    /\ sequence = Len(jobs)
    /\ ppc' = "replied"
    /\ UNCHANGED <<vars, level, linked, jobs, sequence, logged>>

\* The client disconnects or the server stops: the handler's future is dropped.
HandlerDropped ==
    /\ ppc \notin Ended
    /\ ppc' = "dropped"
    /\ UNCHANGED <<vars, level, linked, jobs, sequence, logged>>

-----------------------------------------------------------------------------
(* The rest of the world. *)

\* update_domain deletes the levels that hang on the domain, with their
\* requirements: not the one that is created but not linked yet.
DeleteLinkedLevels ==
    /\ linked # {}
    /\ levels' = levels \ linked
    /\ linked' = {}
    /\ requires' = {e \in requires : e.level \notin linked}
    /\ UNCHANGED <<queueVars, workerVars, node, generalizes, result>>
    /\ UNCHANGED <<ppc, level, jobs, sequence, logged>>

generate_domain_async ==
    \/ Refuse
    \/ CreateDomain
    \/ CreateLevel
    \/ LinkLevel
    \/ CreationFails
    \/ Conceptualize
    \/ ConceptualizeFails
    \/ QueueJob
    \/ QueueJobFails
    \/ Reply

QueueAndWorkers ==
    /\ \/ \E m \in Message : VisibilityExpires(m) \/ MoveToDLQ(m)
       \/ \E w \in Worker : Receive(w) \/ WorkerStep(w) \/ InvocationLost(w)
    /\ UNCHANGED producerVars

AsyncNext ==
    \/ generate_domain_async
    \/ HandlerDropped
    \/ DeleteLinkedLevels
    \/ QueueAndWorkers

AsyncInit == InitButLevels /\ ProducerInit

AsyncSpec == AsyncInit /\ [][AsyncNext]_allVars

-----------------------------------------------------------------------------
(* Properties. *)

AsyncTypeOK == TypeOK /\ ProducerTypeOK

\* Whatever a worker attaches can be reached from the domain: no job is queued
\* before all levels it names are linked, and nobody deletes a level but
\* through its link (create_domain_and_levels, create_level_requirement).
RequirementsReachable == \A e \in requires : e.level \in linked

\* The answer "N nodes queued for generation" counts concepts, not messages: a
\* job that it counts was accepted by the queue, or its failure was logged
\* (and then it may be on the queue all the same).
EveryJobIsAccountedFor ==
    ppc = "replied" =>
        \A i \in 1..Len(jobs) : status[jobs[i]] # "unsent" \/ jobs[i] \in logged
=============================================================================
