------------------------- MODULE RestRequestsProofs -------------------------
(***************************************************************************)
(* Proofs about RestRequests, for any number of concurrent requests with   *)
(* any bodies and any graph beforehand: where a requirement ends up, that  *)
(* an update replaces the levels, that an error adds nothing, that an      *)
(* undisturbed request is complete, and that a signup leads to a login.    *)
(*                                                                         *)
(* The invariant says of each request where it is in its lists and what it *)
(* has left in the graph.  A step of another request adds to the graph or, *)
(* in an update, takes levels away with their requirements.                *)
(***************************************************************************)
EXTENDS RestRequests, FiniteSetTheorems, TLAPS

-----------------------------------------------------------------------------
(* The inductive invariant. *)

Filling == {"requirements", "merge", "relate"}
Domainlike == {"create", "update"}

\* Where a request can be, and what it has checked.
ControlInv(r) ==
    /\ pc[r] \notin {"start", "err"} => Valid(r)
    /\ pc[r] = "create" => Kind(r) = "create"
    /\ pc[r] \in {"rename", "delete"} => Kind(r) = "update" /\ domain[r] \in DOMAIN domains
    /\ pc[r] \in {"levels"} \cup Filling => Kind(r) \in Domainlike /\ domain[r] \in DOMAIN domains
    /\ pc[r] = "hash" => Kind(r) = "signup"
    /\ \A q \in before[r] : pc[q] \in Ended

\* The levels made so far: each is after its position by the number of levels
\* skipped before it.
IdsInv(r) ==
    /\ pc[r] \notin {"levels", "ok"} \cup Filling =>
          at[r] = 1 /\ item[r] = 1 /\ ids[r] = << >> /\ skipped[r] = {}
    /\ pc[r] = "levels" =>
          /\ item[r] = 1 /\ at[r] <= NumLevels(r) + 1
          /\ skipped[r] \subseteq 1..(at[r] - 1)
          /\ Len(ids[r]) + Cardinality(skipped[r]) = at[r] - 1
          /\ \A k \in DOMAIN ids[r] : ids[r][k].idx < at[r]
    /\ pc[r] \in {"ok"} \cup Filling /\ Kind(r) \in Domainlike =>
          Len(ids[r]) + Cardinality(skipped[r]) = NumLevels(r)
    /\ \A k \in DOMAIN ids[r] :
          /\ ids[r][k].by = r /\ ids[r][k].domain = domain[r]
          /\ k <= ids[r][k].idx
          /\ ids[r][k].idx - k = Cardinality(skipped[r] \cap 1..ids[r][k].idx)
    /\ skipped[r] # {} => failed[r]

\* The requirement at hand and the node found or made for it.
ItemInv(r) ==
    /\ pc[r] \in {"merge", "relate"} =>
          at[r] <= NumLevels(r) /\ HasLevel(r) /\ item[r] <= Len(Requirements(r))
    /\ pc[r] = "merge" => Current(r).id = None /\ Current(r).new # None
    /\ pc[r] = "relate" =>
          IF Current(r).id # None
          THEN node_id[r] = Current(r).id
          ELSE /\ Current(r).new # None /\ node_id[r] \in DOMAIN components
               /\ components[node_id[r]] = [label |-> Current(r).label, name |-> Current(r).new]
    /\ pc[r] = "ok" /\ Kind(r) \in Domainlike => at[r] > NumLevels(r)

LevelInv ==
    \A l \in levels : Kind(l.by) \in Domainlike /\ pc[l.by] \in {"levels", "ok"} \cup Filling

\* Requirement e was added when its request was at its place.
Passed(r, i, k) == i < at[r] \/ (i = at[r] /\ k < item[r])
RequiresInv ==
    \A e \in requires :
        LET listed == request[e.by].levels[e.idx][e.item]
            leads == components[e.target]
        IN  /\ e.by \in Request /\ Kind(e.by) \in Domainlike /\ pc[e.by] \in {"ok"} \cup Filling
            /\ e.idx \in DOMAIN ids[e.by] /\ e.level = ids[e.by][e.idx]
            /\ e.idx \in 1..NumLevels(e.by) /\ e.item \in DOMAIN request[e.by].levels[e.idx]
            /\ Passed(e.by, e.idx, e.item)
            /\ leads.label = listed.label
            /\ IF listed.id # None THEN e.target = listed.id ELSE leads.name = listed.new

OnceInv ==
    \A e, f \in requires : e.by = f.by /\ e.idx = f.idx /\ e.item = f.item => e = f

\* What an undisturbed request has passed is there.
DoneInv(r) ==
    Kind(r) \in Domainlike /\ pc[r] \in {"ok"} \cup Filling /\ Undisturbed(r) =>
        \A i \in 1..NumLevels(r) : \A k \in DOMAIN request[r].levels[i] :
            Passed(r, i, k) /\ Satisfiable(request[r].levels[i][k]) =>
                \E e \in requires : e.by = r /\ e.idx = i /\ e.item = k

SeedInv ==
    /\ Len(SeedComponent) <= Len(components)
    /\ \A i \in DOMAIN SeedComponent : components[i] = SeedComponent[i]

PersonOf(r) ==
    [by |-> r, username |-> request[r].username,
     phone |-> request[r].phone, password |-> request[r].password]
HasPerson(r) == \E p \in persons : p.by = r
PersonInv ==
    /\ \A p \in persons : /\ p.by \in Request /\ Kind(p.by) = "signup"
                          /\ p = PersonOf(p.by) /\ pc[p.by] \in {"ok", "err"}
    /\ \A r \in Request : Kind(r) = "signup" /\ pc[r] = "ok" => PersonOf(r) \in persons

\* Who has signed up found no person of that name among those of earlier signups.
SignupInv ==
    \A s, q \in Request :
        (pc[s] = "hash" \/ HasPerson(s)) /\ q \in before[s] /\ HasPerson(q) =>
            request[q].username # request[s].username

\* A login is refused to someone who signed up only if there is another person
\* of that name.
LoginInv ==
    \A l, s \in Request :
        /\ Kind(l) = "login" /\ pc[l] = "refused"
        /\ Kind(s) = "signup" /\ pc[s] = "ok" /\ s \in before[l]
        /\ request[s].username = request[l].username
        /\ request[s].password = request[l].password
        => \E q \in Request \ {s} : HasPerson(q) /\ request[q].username = request[s].username

RequestInv(r) == ControlInv(r) /\ IdsInv(r) /\ ItemInv(r) /\ DoneInv(r)

RestInv ==
    /\ TypeOK
    /\ \A r \in Request : RequestInv(r)
    /\ LevelInv /\ RequiresInv /\ OnceInv /\ SeedInv /\ UpdateReplaces
    /\ PersonInv /\ SignupInv /\ LoginInv

-----------------------------------------------------------------------------
(* Types. *)

LEMMA InSequence ==
    ASSUME NEW S, NEW s \in Seq(S)
    PROVE  /\ Len(s) \in Nat /\ DOMAIN s = 1..Len(s)
           /\ \A i \in DOMAIN s : s[i] \in S
  OBVIOUS

LEMMA AppendFacts ==
    ASSUME NEW S, NEW s \in Seq(S), NEW e \in S
    PROVE  /\ Append(s, e) \in Seq(S) /\ Len(Append(s, e)) = Len(s) + 1 /\ Len(s) \in Nat
           /\ DOMAIN s = 1..Len(s)
           /\ DOMAIN Append(s, e) = DOMAIN s \cup {Len(s) + 1}
           /\ Append(s, e)[Len(s) + 1] = e
           /\ \A k \in DOMAIN s : Append(s, e)[k] = s[k]
  OBVIOUS

ComponentRecord == [label : Label, name : STRING]

LEMMA TypesOf ==
    ASSUME TypeOK, NEW r \in Request
    PROVE  /\ pc[r] \in Step \cup Ended /\ before[r] \in SUBSET Request /\ domain[r] \in Nat
           /\ failed[r] \in BOOLEAN
           /\ ids[r] \in Seq(Level) /\ skipped[r] \subseteq Nat \ {0}
           /\ Len(ids[r]) \in Nat /\ DOMAIN ids[r] = 1..Len(ids[r])
           /\ at[r] \in Nat /\ at[r] >= 1 /\ item[r] \in Nat /\ item[r] >= 1
           /\ node_id[r] \in Nat
           /\ domains \in Seq(STRING) /\ components \in Seq(ComponentRecord)
  <1>1. ids[r] \in Seq(Level)
    BY DEF TypeOK
  <1>2. Len(ids[r]) \in Nat /\ DOMAIN ids[r] = 1..Len(ids[r])
    BY <1>1, InSequence
  <1>3. at[r] \in Nat \ {0} /\ item[r] \in Nat \ {0}
    BY DEF TypeOK
  <1>4. at[r] \in Nat /\ at[r] >= 1 /\ item[r] \in Nat /\ item[r] >= 1
    BY <1>3
  <1>5. components \in Seq(ComponentRecord) /\ domains \in Seq(STRING)
    BY DEF TypeOK, ComponentRecord
  <1> QED
    BY <1>1, <1>2, <1>4, <1>5 DEF TypeOK

\* The body of a domain request.
LEMMA Bodies ==
    ASSUME TypeOK, NEW r \in Request, Kind(r) \in Domainlike
    PROVE  /\ request[r].levels \in Seq(Seq(Requirement)) /\ request[r].name \in Name
           /\ NumLevels(r) \in Nat /\ DOMAIN request[r].levels = 1..NumLevels(r)
           /\ \A i \in 1..NumLevels(r) :
                 /\ request[r].levels[i] \in Seq(Requirement)
                 /\ Len(request[r].levels[i]) \in Nat
                 /\ DOMAIN request[r].levels[i] = 1..Len(request[r].levels[i])
                 /\ \A k \in DOMAIN request[r].levels[i] : request[r].levels[i][k] \in Requirement
  <1>1. request[r] \in CreateBody \cup UpdateBody
    <2>1. request \in Scenarios
      BY DEF TypeOK
    <2>2. request[r] \in CreateBody \cup UpdateBody \/ request[r].kind \in {"signup", "login"}
      BY <2>1, ScenarioAssumption DEF Request
    <2> QED
      BY <2>2 DEF Kind, Domainlike
  <1>2. request[r].levels \in Seq(Seq(Requirement)) /\ request[r].name \in Name
    BY <1>1 DEF CreateBody, UpdateBody
  <1>3. NumLevels(r) \in Nat /\ DOMAIN request[r].levels = 1..NumLevels(r)
        /\ \A i \in 1..NumLevels(r) : request[r].levels[i] \in Seq(Requirement)
    BY <1>2, InSequence DEF NumLevels
  <1> QED
    BY <1>2, <1>3, InSequence

LEMMA UpdateDomain ==
    ASSUME NEW s \in Scenarios, NEW r \in DOMAIN s, s[r].kind = "update"
    PROVE  s[r].domain \in Nat
  <1>1. s[r] \in UpdateBody
    BY ScenarioAssumption DEF CreateBody
  <1> QED
    BY <1>1 DEF UpdateBody

-----------------------------------------------------------------------------
(* A step of a request changes its own place only. *)

FailedOf(r) == failed' = failed \/ failed' = [failed EXCEPT ![r] = TRUE]

OnlyOf(r) ==
    /\ request' = request
    /\ pc' = [pc EXCEPT ![r] = pc'[r]]
    /\ before' = [before EXCEPT ![r] = before'[r]]
    /\ domain' = [domain EXCEPT ![r] = domain'[r]]
    /\ ids' = [ids EXCEPT ![r] = ids'[r]]
    /\ skipped' = [skipped EXCEPT ![r] = skipped'[r]]
    /\ at' = [at EXCEPT ![r] = at'[r]]
    /\ item' = [item EXCEPT ![r] = item'[r]]
    /\ node_id' = [node_id EXCEPT ![r] = node_id'[r]]

\* Any step of a request.
RequestStep(r) ==
    \/ Invalid(r) \/ FirstQueryFails(r)
    \/ create_domain(r) \/ update_domain(r)
    \/ create_levels(r) \/ process_level_requirements(r)
    \/ signup(r) \/ Login(r)

\* The variables of the requests are functions, of which only that matters here.
Functions(S) ==
    /\ pc \in [Request -> S] /\ before \in [Request -> S] /\ domain \in [Request -> S]
    /\ ids \in [Request -> S] /\ skipped \in [Request -> S]
    /\ at \in [Request -> S] /\ item \in [Request -> S] /\ node_id \in [Request -> S]

LEMMA StepIsOwn ==
    ASSUME NEW S, Functions(S), NEW r \in Request, RequestStep(r)
    PROVE  OnlyOf(r)
  <1> USE DEF Functions, OnlyOf, requestVars, domainVars, graphVars
  <1>1. CASE Invalid(r)
    BY <1>1 DEF Invalid, Begin, Goto
  <1>2. CASE FirstQueryFails(r)
    BY <1>2 DEF FirstQueryFails, Begin, Goto, QueryFails
  <1>3. CASE CheckName(r)
    BY <1>3 DEF CheckName, Begin, Goto, QueryFails
  <1>4. CASE CreateDomain(r)
    BY <1>4 DEF CreateDomain, Goto
  <1>5. CASE CreateDomainFails(r)
    BY <1>5 DEF CreateDomainFails, Goto, QueryFails
  <1>6. CASE VerifyDomain(r)
    BY <1>6 DEF VerifyDomain, Begin, Goto, QueryFails
  <1>7. CASE RenameDomain(r)
    BY <1>7 DEF RenameDomain, Goto
  <1>8. CASE RenameFails(r)
    BY <1>8 DEF RenameFails, Goto, QueryFails
  <1>9. CASE DeleteLevels(r)
    BY <1>9 DEF DeleteLevels, Goto, DeleteOldLevels
  <1>10. CASE DeleteLevelsFails(r)
    BY <1>10 DEF DeleteLevelsFails, Goto, QueryFails, DeleteOldLevels
  <1>11. CASE CreateLevel(r)
    BY <1>11 DEF CreateLevel
  <1>12. CASE CreateLevelFails(r)
    BY <1>12 DEF CreateLevelFails, QueryFails
  <1>13. CASE LevelsDone(r)
    BY <1>13 DEF LevelsDone, Goto
  <1>14. CASE UseExisting(r)
    BY <1>14 DEF UseExisting, Goto, NextItem
  <1>15. CASE MergeFinds(r)
    BY <1>15 DEF MergeFinds, Goto
  <1>16. CASE MergeCreates(r)
    BY <1>16 DEF MergeCreates, Goto
  <1>17. CASE MergeFails(r)
    BY <1>17 DEF MergeFails, Goto, QueryFails, NextItem
  <1>18. CASE Relate(r)
    BY <1>18 DEF Relate, Goto, QueryFails, NextItem
  <1>19. CASE LevelDone(r)
    BY <1>19 DEF LevelDone, NextLevel
  <1>20. CASE Reply(r)
    BY <1>20 DEF Reply, Goto
  <1>21. CASE CheckPerson(r)
    BY <1>21 DEF CheckPerson, Begin, Goto
  <1>22. CASE CreatePerson(r)
    BY <1>22 DEF CreatePerson, Goto
  <1>23. CASE CreatePersonFails(r)
    BY <1>23 DEF CreatePersonFails, Goto, QueryFails
  <1>24. CASE Login(r)
    BY <1>24 DEF Login, Begin, Goto
  <1> QED
    BY <1>1, <1>2, <1>3, <1>4, <1>5, <1>6, <1>7, <1>8, <1>9, <1>10, <1>11, <1>12,
       <1>13, <1>14, <1>15, <1>16, <1>17, <1>18, <1>19, <1>20, <1>21, <1>22, <1>23, <1>24
       DEF RequestStep, create_domain, update_domain, create_levels, process_level_requirements, signup

\* Whatever happens, a failure is not forgotten.
LEMMA FailureStays ==
    ASSUME TypeOK, NEW r \in Request, FailedOf(r)
    PROVE  /\ failed' \in [Request -> BOOLEAN]
           /\ \A u \in Request : u # r => failed'[u] = failed[u]
           /\ \A u \in Request : failed[u] => failed'[u]
  <1>1. failed \in [Request -> BOOLEAN]
    BY DEF TypeOK
  <1>2. CASE failed' = failed
    BY <1>1, <1>2
  <1>3. CASE failed' = [failed EXCEPT ![r] = TRUE]
    <2>1. failed' \in [Request -> BOOLEAN]
      BY <1>1, <1>3
    <2>2. \A u \in Request : u # r => failed'[u] = failed[u]
      BY <1>1, <1>3
    <2>3. failed'[r]
      BY <1>1, <1>3
    <2>4. \A u \in Request : failed[u] => failed'[u]
      BY <2>2, <2>3
    <2> QED
      BY <2>1, <2>2, <2>4
  <1> QED
    BY <1>2, <1>3 DEF FailedOf

LEMMA StepMayFail ==
    ASSUME NEW r \in Request, RequestStep(r)
    PROVE  FailedOf(r)
  <1> USE DEF FailedOf, requestVars, domainVars, graphVars
  <1>1. CASE Invalid(r)
    BY <1>1 DEF Invalid
  <1>2. CASE FirstQueryFails(r)
    BY <1>2 DEF FirstQueryFails, QueryFails
  <1>3. CASE CheckName(r)
    BY <1>3 DEF CheckName, QueryFails
  <1>4. CASE CreateDomain(r)
    BY <1>4 DEF CreateDomain
  <1>5. CASE CreateDomainFails(r)
    BY <1>5 DEF CreateDomainFails, QueryFails
  <1>6. CASE VerifyDomain(r)
    BY <1>6 DEF VerifyDomain, QueryFails
  <1>7. CASE RenameDomain(r)
    BY <1>7 DEF RenameDomain
  <1>8. CASE RenameFails(r)
    BY <1>8 DEF RenameFails, QueryFails
  <1>9. CASE DeleteLevels(r)
    BY <1>9 DEF DeleteLevels
  <1>10. CASE DeleteLevelsFails(r)
    BY <1>10 DEF DeleteLevelsFails, QueryFails
  <1>11. CASE CreateLevel(r)
    BY <1>11 DEF CreateLevel
  <1>12. CASE CreateLevelFails(r)
    BY <1>12 DEF CreateLevelFails, QueryFails
  <1>13. CASE LevelsDone(r)
    BY <1>13 DEF LevelsDone
  <1>14. CASE UseExisting(r)
    BY <1>14 DEF UseExisting
  <1>15. CASE MergeFinds(r)
    BY <1>15 DEF MergeFinds
  <1>16. CASE MergeCreates(r)
    BY <1>16 DEF MergeCreates
  <1>17. CASE MergeFails(r)
    BY <1>17 DEF MergeFails, QueryFails
  <1>18. CASE Relate(r)
    BY <1>18 DEF Relate, QueryFails
  <1>19. CASE LevelDone(r)
    BY <1>19 DEF LevelDone
  <1>20. CASE Reply(r)
    BY <1>20 DEF Reply
  <1>21. CASE CheckPerson(r)
    BY <1>21 DEF CheckPerson
  <1>22. CASE CreatePerson(r)
    BY <1>22 DEF CreatePerson
  <1>23. CASE CreatePersonFails(r)
    BY <1>23 DEF CreatePersonFails, QueryFails
  <1>24. CASE Login(r)
    BY <1>24 DEF Login
  <1> QED
    BY <1>1, <1>2, <1>3, <1>4, <1>5, <1>6, <1>7, <1>8, <1>9, <1>10, <1>11, <1>12,
       <1>13, <1>14, <1>15, <1>16, <1>17, <1>18, <1>19, <1>20, <1>21, <1>22, <1>23, <1>24
       DEF RequestStep, create_domain, update_domain, create_levels, process_level_requirements, signup

LEMMA AreFunctions ==
    ASSUME TypeOK PROVE \E S : Functions(S)
  <1> DEFINE A == Step \cup Ended
             B == SUBSET Request
             C == Seq(Level)
             D == SUBSET (Nat \ {0})
             S == A \cup B \cup C \cup D \cup Nat
  <1>1. /\ pc \in [Request -> A] /\ before \in [Request -> B] /\ domain \in [Request -> Nat]
        /\ ids \in [Request -> C] /\ skipped \in [Request -> D]
        /\ at \in [Request -> Nat] /\ item \in [Request -> Nat] /\ node_id \in [Request -> Nat]
    BY DEF TypeOK
  <1> HIDE DEF A, B, C, D
  <1>2. Functions(S)
    BY <1>1 DEF Functions
  <1> QED
    BY <1>2

LEMMA OwnStep ==
    ASSUME TypeOK, NEW r \in Request, RequestStep(r)
    PROVE  OnlyOf(r) /\ FailedOf(r)
  BY AreFunctions, StepIsOwn, StepMayFail

-----------------------------------------------------------------------------
(* What a step does to the graph. *)

LEMMA CurrentTyped ==
    ASSUME TypeOK, NEW r \in Request, Kind(r) \in Domainlike,
           at[r] <= NumLevels(r), item[r] <= Len(Requirements(r))
    PROVE  /\ at[r] \in 1..NumLevels(r) /\ item[r] \in DOMAIN request[r].levels[at[r]]
           /\ Current(r) \in Requirement /\ Current(r).label \in Label
           /\ Current(r).id # None => Current(r).id \in Nat
           /\ Current(r).new # None => Current(r).new \in STRING
           /\ Current(r) = request[r].levels[at[r]][item[r]]
  <1>1. at[r] \in 1..NumLevels(r)
    BY TypesOf, Bodies
  <1>2. item[r] \in DOMAIN request[r].levels[at[r]]
    <2>1. /\ DOMAIN request[r].levels[at[r]] = 1..Len(request[r].levels[at[r]])
          /\ Len(request[r].levels[at[r]]) \in Nat
      BY <1>1, Bodies
    <2>2. item[r] \in Nat /\ item[r] >= 1 /\ item[r] <= Len(request[r].levels[at[r]])
      BY TypesOf DEF Requirements
    <2> QED
      BY <2>1, <2>2
  <1>3. Current(r) = request[r].levels[at[r]][item[r]]
    BY DEF Current, Requirements
  <1>4. Current(r) \in Requirement
    BY <1>1, <1>2, <1>3, Bodies
  <1> QED
    BY <1>1, <1>2, <1>3, <1>4 DEF Requirement

NewRequirement(r) ==
    [level |-> LevelFor(r), target |-> node_id[r], by |-> r, idx |-> at[r], item |-> item[r]]

DomainsStep ==
    domains' \in Seq(STRING) /\ DOMAIN domains \subseteq DOMAIN domains'

ComponentsStep ==
    /\ components' \in Seq(ComponentRecord) /\ Len(components) <= Len(components')
    /\ \A i \in DOMAIN components : i \in DOMAIN components' /\ components'[i] = components[i]

LevelsStep(r) ==
    /\ \A l \in levels' :
         l \in levels \/ (l = NewLevel(r) /\ pc[r] = "levels" /\ at[r] <= NumLevels(r))
    /\ \A e \in requires' :
         e \in requires \/ (pc[r] = "relate" /\ Matches(r) /\ e = NewRequirement(r))
    /\ \A e \in requires' : e.level \in levels'
    /\ \A e \in requires : e.level \in levels' => e \in requires'

PersonsStep(r) ==
    /\ persons \subseteq persons'
    /\ \A p \in persons' : p \in persons \/ (pc[r] = "hash" /\ p = PersonOf(r))

LEMMA NotAnswered ==
    ASSUME NEW r \in Request, RequestStep(r)
    PROVE  pc[r] \notin Ended
  <1> USE DEF Ended, AtRequirement, AtNewNode
  <1>1. CASE Invalid(r)
    BY <1>1 DEF Invalid
  <1>2. CASE FirstQueryFails(r)
    BY <1>2 DEF FirstQueryFails
  <1>3. CASE CheckName(r)
    BY <1>3 DEF CheckName
  <1>4. CASE CreateDomain(r)
    BY <1>4 DEF CreateDomain
  <1>5. CASE CreateDomainFails(r)
    BY <1>5 DEF CreateDomainFails
  <1>6. CASE VerifyDomain(r)
    BY <1>6 DEF VerifyDomain
  <1>7. CASE RenameDomain(r)
    BY <1>7 DEF RenameDomain
  <1>8. CASE RenameFails(r)
    BY <1>8 DEF RenameFails
  <1>9. CASE DeleteLevels(r)
    BY <1>9 DEF DeleteLevels
  <1>10. CASE DeleteLevelsFails(r)
    BY <1>10 DEF DeleteLevelsFails
  <1>11. CASE CreateLevel(r)
    BY <1>11 DEF CreateLevel
  <1>12. CASE CreateLevelFails(r)
    BY <1>12 DEF CreateLevelFails
  <1>13. CASE LevelsDone(r)
    BY <1>13 DEF LevelsDone
  <1>14. CASE UseExisting(r)
    BY <1>14 DEF UseExisting
  <1>15. CASE MergeFinds(r)
    BY <1>15 DEF MergeFinds
  <1>16. CASE MergeCreates(r)
    BY <1>16 DEF MergeCreates
  <1>17. CASE MergeFails(r)
    BY <1>17 DEF MergeFails
  <1>18. CASE Relate(r)
    BY <1>18 DEF Relate
  <1>19. CASE LevelDone(r)
    BY <1>19 DEF LevelDone
  <1>20. CASE Reply(r)
    BY <1>20 DEF Reply
  <1>21. CASE CheckPerson(r)
    BY <1>21 DEF CheckPerson
  <1>22. CASE CreatePerson(r)
    BY <1>22 DEF CreatePerson
  <1>23. CASE CreatePersonFails(r)
    BY <1>23 DEF CreatePersonFails
  <1>24. CASE Login(r)
    BY <1>24 DEF Login
  <1> QED
    BY <1>1, <1>2, <1>3, <1>4, <1>5, <1>6, <1>7, <1>8, <1>9, <1>10, <1>11, <1>12,
       <1>13, <1>14, <1>15, <1>16, <1>17, <1>18, <1>19, <1>20, <1>21, <1>22, <1>23, <1>24
       DEF RequestStep, create_domain, update_domain, create_levels, process_level_requirements, signup

LEMMA NameTyped ==
    ASSUME TypeOK, NEW r \in Request, ControlInv(r), pc[r] \in {"create", "rename"}
    PROVE  request[r].name \in STRING
  <1>1. Kind(r) \in Domainlike /\ Valid(r)
    BY DEF ControlInv, Domainlike
  <1>2. request[r].name \in Name /\ request[r].name # None
    BY <1>1, Bodies DEF Valid, Domainlike
  <1> QED
    BY <1>2 DEF Name

LEMMA RenamedDomains ==
    ASSUME NEW s \in Seq(STRING), NEW d, NEW name \in STRING
    PROVE  [s EXCEPT ![d] = name] \in Seq(STRING) /\ DOMAIN [s EXCEPT ![d] = name] = DOMAIN s
  <1> DEFINE u == [s EXCEPT ![d] = name]
  <1>1. Len(s) \in Nat /\ s \in [1..Len(s) -> STRING]
    OBVIOUS
  <1>2. u \in [1..Len(s) -> STRING] /\ DOMAIN u = DOMAIN s
    BY <1>1
  <1> HIDE DEF u
  <1>3. u \in Seq(STRING)
    BY <1>1, <1>2
  <1> QED
    BY <1>2, <1>3 DEF u

LEMMA DomainsGrow ==
    ASSUME TypeOK, NEW r \in Request, ControlInv(r), RequestStep(r)
    PROVE  DomainsStep
  <1> USE DEF requestVars, domainVars, graphVars
  <1>0. domains \in Seq(STRING)
    BY DEF TypeOK
  <1>a. CASE UNCHANGED domains
    BY <1>0, <1>a DEF DomainsStep
  <1>b. ASSUME NEW name \in STRING, domains' = Append(domains, name) PROVE DomainsStep
    <2>1. domains' \in Seq(STRING) /\ DOMAIN domains' = DOMAIN domains \cup {Len(domains) + 1}
      BY <1>0, <1>b, AppendFacts
    <2> QED
      BY <2>1 DEF DomainsStep
  <1>c. ASSUME NEW d, NEW name \in STRING, domains' = [domains EXCEPT ![d] = name] PROVE DomainsStep
    BY <1>0, <1>c, RenamedDomains DEF DomainsStep
  <1>1. CASE Invalid(r)
    BY <1>1, <1>a DEF Invalid
  <1>2. CASE FirstQueryFails(r)
    BY <1>2, <1>a DEF FirstQueryFails
  <1>3. CASE CheckName(r)
    BY <1>3, <1>a DEF CheckName
  <1>4. CASE CreateDomain(r)
    BY <1>4, <1>b, NameTyped DEF CreateDomain
  <1>5. CASE CreateDomainFails(r)
    BY <1>5, <1>a, <1>b, NameTyped DEF CreateDomainFails
  <1>6. CASE VerifyDomain(r)
    BY <1>6, <1>a DEF VerifyDomain
  <1>7. CASE RenameDomain(r)
    BY <1>7, <1>c, NameTyped DEF RenameDomain
  <1>8. CASE RenameFails(r)
    BY <1>8, <1>a, <1>c, NameTyped DEF RenameFails
  <1>9. CASE DeleteLevels(r)
    BY <1>9, <1>a DEF DeleteLevels
  <1>10. CASE DeleteLevelsFails(r)
    BY <1>10, <1>a DEF DeleteLevelsFails
  <1>11. CASE CreateLevel(r)
    BY <1>11, <1>a DEF CreateLevel
  <1>12. CASE CreateLevelFails(r)
    BY <1>12, <1>a DEF CreateLevelFails
  <1>13. CASE LevelsDone(r)
    BY <1>13, <1>a DEF LevelsDone
  <1>14. CASE UseExisting(r)
    BY <1>14, <1>a DEF UseExisting
  <1>15. CASE MergeFinds(r)
    BY <1>15, <1>a DEF MergeFinds
  <1>16. CASE MergeCreates(r)
    BY <1>16, <1>a DEF MergeCreates
  <1>17. CASE MergeFails(r)
    BY <1>17, <1>a DEF MergeFails
  <1>18. CASE Relate(r)
    BY <1>18, <1>a DEF Relate
  <1>19. CASE LevelDone(r)
    BY <1>19, <1>a DEF LevelDone
  <1>20. CASE Reply(r)
    BY <1>20, <1>a DEF Reply
  <1>21. CASE CheckPerson(r)
    BY <1>21, <1>a DEF CheckPerson
  <1>22. CASE CreatePerson(r)
    BY <1>22, <1>a DEF CreatePerson
  <1>23. CASE CreatePersonFails(r)
    BY <1>23, <1>a DEF CreatePersonFails
  <1>24. CASE Login(r)
    BY <1>24, <1>a DEF Login
  <1> QED
    BY <1>1, <1>2, <1>3, <1>4, <1>5, <1>6, <1>7, <1>8, <1>9, <1>10, <1>11, <1>12,
       <1>13, <1>14, <1>15, <1>16, <1>17, <1>18, <1>19, <1>20, <1>21, <1>22, <1>23, <1>24
       DEF RequestStep, create_domain, update_domain, create_levels, process_level_requirements, signup

LEMMA ComponentsGrow ==
    ASSUME TypeOK, NEW r \in Request, ControlInv(r), ItemInv(r), RequestStep(r)
    PROVE  ComponentsStep
  <1> USE DEF requestVars, domainVars, graphVars
  <1>0. components \in Seq(ComponentRecord) /\ Len(components) \in Nat
    BY DEF TypeOK, ComponentRecord
  <1>a. CASE UNCHANGED components
    BY <1>0, <1>a DEF ComponentsStep
  <1> DEFINE new == [label |-> Current(r).label, name |-> Current(r).new]
  <1>b. ASSUME pc[r] = "merge", components' = Append(components, new) PROVE ComponentsStep
    <2>1. Kind(r) \in Domainlike /\ at[r] <= NumLevels(r) /\ item[r] <= Len(Requirements(r))
          /\ Current(r).new # None
      BY <1>b DEF ControlInv, ItemInv, Filling
    <2>2. new \in ComponentRecord
      BY <2>1, CurrentTyped DEF ComponentRecord
    <2> HIDE DEF new
    <2>3. /\ components' \in Seq(ComponentRecord) /\ Len(components') = Len(components) + 1
          /\ DOMAIN components' = DOMAIN components \cup {Len(components) + 1}
          /\ \A i \in DOMAIN components : components'[i] = components[i]
      BY <1>0, <1>b, <2>2, AppendFacts
    <2> QED
      BY <1>0, <2>3 DEF ComponentsStep
  <1>1. CASE Invalid(r)
    BY <1>1, <1>a DEF Invalid
  <1>2. CASE FirstQueryFails(r)
    BY <1>2, <1>a DEF FirstQueryFails
  <1>3. CASE CheckName(r)
    BY <1>3, <1>a DEF CheckName
  <1>4. CASE CreateDomain(r)
    BY <1>4, <1>a DEF CreateDomain
  <1>5. CASE CreateDomainFails(r)
    BY <1>5, <1>a DEF CreateDomainFails
  <1>6. CASE VerifyDomain(r)
    BY <1>6, <1>a DEF VerifyDomain
  <1>7. CASE RenameDomain(r)
    BY <1>7, <1>a DEF RenameDomain
  <1>8. CASE RenameFails(r)
    BY <1>8, <1>a DEF RenameFails
  <1>9. CASE DeleteLevels(r)
    BY <1>9, <1>a DEF DeleteLevels
  <1>10. CASE DeleteLevelsFails(r)
    BY <1>10, <1>a DEF DeleteLevelsFails
  <1>11. CASE CreateLevel(r)
    BY <1>11, <1>a DEF CreateLevel
  <1>12. CASE CreateLevelFails(r)
    BY <1>12, <1>a DEF CreateLevelFails
  <1>13. CASE LevelsDone(r)
    BY <1>13, <1>a DEF LevelsDone
  <1>14. CASE UseExisting(r)
    BY <1>14, <1>a DEF UseExisting
  <1>15. CASE MergeFinds(r)
    BY <1>15, <1>a DEF MergeFinds
  <1>16. CASE MergeCreates(r)
    BY <1>16, <1>b DEF MergeCreates
  <1>17. CASE MergeFails(r)
    BY <1>17, <1>a, <1>b DEF MergeFails
  <1>18. CASE Relate(r)
    BY <1>18, <1>a DEF Relate
  <1>19. CASE LevelDone(r)
    BY <1>19, <1>a DEF LevelDone
  <1>20. CASE Reply(r)
    BY <1>20, <1>a DEF Reply
  <1>21. CASE CheckPerson(r)
    BY <1>21, <1>a DEF CheckPerson
  <1>22. CASE CreatePerson(r)
    BY <1>22, <1>a DEF CreatePerson
  <1>23. CASE CreatePersonFails(r)
    BY <1>23, <1>a DEF CreatePersonFails
  <1>24. CASE Login(r)
    BY <1>24, <1>a DEF Login
  <1> QED
    BY <1>1, <1>2, <1>3, <1>4, <1>5, <1>6, <1>7, <1>8, <1>9, <1>10, <1>11, <1>12,
       <1>13, <1>14, <1>15, <1>16, <1>17, <1>18, <1>19, <1>20, <1>21, <1>22, <1>23, <1>24
       DEF RequestStep, create_domain, update_domain, create_levels, process_level_requirements, signup

LEMMA LevelsChange ==
    ASSUME TypeOK, NEW r \in Request, RequestStep(r)
    PROVE  LevelsStep(r)
  <1> USE DEF requestVars, domainVars, graphVars
  <1>0. \A e \in requires : e.level \in levels
    BY DEF TypeOK
  <1>a. CASE UNCHANGED <<levels, requires>>
    BY <1>0, <1>a DEF LevelsStep
  <1>b. CASE DeleteOldLevels(r)
    BY <1>0, <1>b DEF LevelsStep, DeleteOldLevels
  <1>c. ASSUME pc[r] = "levels", at[r] <= NumLevels(r), levels' = levels \cup {NewLevel(r)},
               requires' = requires
        PROVE  LevelsStep(r)
    BY <1>0, <1>c DEF LevelsStep
  <1>d. ASSUME pc[r] = "relate", CreateRequirement(r), levels' = levels PROVE LevelsStep(r)
    <2>1. CASE Matches(r)
      <3>1. requires' = requires \cup {NewRequirement(r)}
        BY <1>d, <2>1 DEF CreateRequirement, NewRequirement
      <3>2. LevelFor(r) \in levels
        BY <2>1 DEF Matches
      <3>3. NewRequirement(r).level = LevelFor(r)
        BY DEF NewRequirement
      <3> QED
        BY <1>0, <1>d, <2>1, <3>1, <3>2, <3>3 DEF LevelsStep
    <2>2. CASE ~Matches(r)
      <3>1. requires' = requires
        BY <1>d, <2>2 DEF CreateRequirement
      <3> QED
        BY <1>a, <1>d, <3>1
    <2> QED
      BY <2>1, <2>2
  <1>1. CASE Invalid(r)
    BY <1>1, <1>a DEF Invalid
  <1>2. CASE FirstQueryFails(r)
    BY <1>2, <1>a DEF FirstQueryFails
  <1>3. CASE CheckName(r)
    BY <1>3, <1>a DEF CheckName
  <1>4. CASE CreateDomain(r)
    BY <1>4, <1>a DEF CreateDomain
  <1>5. CASE CreateDomainFails(r)
    BY <1>5, <1>a DEF CreateDomainFails
  <1>6. CASE VerifyDomain(r)
    BY <1>6, <1>a DEF VerifyDomain
  <1>7. CASE RenameDomain(r)
    BY <1>7, <1>a DEF RenameDomain
  <1>8. CASE RenameFails(r)
    BY <1>8, <1>a DEF RenameFails
  <1>9. CASE DeleteLevels(r)
    BY <1>9, <1>b DEF DeleteLevels
  <1>10. CASE DeleteLevelsFails(r)
    BY <1>10, <1>a, <1>b DEF DeleteLevelsFails
  <1>11. CASE CreateLevel(r)
    BY <1>11, <1>c DEF CreateLevel
  <1>12. CASE CreateLevelFails(r)
    BY <1>12, <1>a, <1>c DEF CreateLevelFails
  <1>13. CASE LevelsDone(r)
    BY <1>13, <1>a DEF LevelsDone
  <1>14. CASE UseExisting(r)
    BY <1>14, <1>a DEF UseExisting
  <1>15. CASE MergeFinds(r)
    BY <1>15, <1>a DEF MergeFinds
  <1>16. CASE MergeCreates(r)
    BY <1>16, <1>a DEF MergeCreates
  <1>17. CASE MergeFails(r)
    BY <1>17, <1>a DEF MergeFails
  <1>18. CASE Relate(r)
    BY <1>18, <1>a, <1>d DEF Relate
  <1>19. CASE LevelDone(r)
    BY <1>19, <1>a DEF LevelDone
  <1>20. CASE Reply(r)
    BY <1>20, <1>a DEF Reply
  <1>21. CASE CheckPerson(r)
    BY <1>21, <1>a DEF CheckPerson
  <1>22. CASE CreatePerson(r)
    BY <1>22, <1>a DEF CreatePerson
  <1>23. CASE CreatePersonFails(r)
    BY <1>23, <1>a DEF CreatePersonFails
  <1>24. CASE Login(r)
    BY <1>24, <1>a DEF Login
  <1> QED
    BY <1>1, <1>2, <1>3, <1>4, <1>5, <1>6, <1>7, <1>8, <1>9, <1>10, <1>11, <1>12,
       <1>13, <1>14, <1>15, <1>16, <1>17, <1>18, <1>19, <1>20, <1>21, <1>22, <1>23, <1>24
       DEF RequestStep, create_domain, update_domain, create_levels, process_level_requirements, signup

LEMMA PersonsGrow ==
    ASSUME NEW r \in Request, RequestStep(r)
    PROVE  PersonsStep(r)
  <1> USE DEF requestVars, domainVars, graphVars
  <1>a. CASE UNCHANGED persons
    BY <1>a DEF PersonsStep
  <1>b. CASE pc[r] = "hash" /\ NewPerson(r)
    BY <1>b DEF PersonsStep, NewPerson, PersonOf
  <1>1. CASE Invalid(r)
    BY <1>1, <1>a DEF Invalid
  <1>2. CASE FirstQueryFails(r)
    BY <1>2, <1>a DEF FirstQueryFails
  <1>3. CASE CheckName(r)
    BY <1>3, <1>a DEF CheckName
  <1>4. CASE CreateDomain(r)
    BY <1>4, <1>a DEF CreateDomain
  <1>5. CASE CreateDomainFails(r)
    BY <1>5, <1>a DEF CreateDomainFails
  <1>6. CASE VerifyDomain(r)
    BY <1>6, <1>a DEF VerifyDomain
  <1>7. CASE RenameDomain(r)
    BY <1>7, <1>a DEF RenameDomain
  <1>8. CASE RenameFails(r)
    BY <1>8, <1>a DEF RenameFails
  <1>9. CASE DeleteLevels(r)
    BY <1>9, <1>a DEF DeleteLevels
  <1>10. CASE DeleteLevelsFails(r)
    BY <1>10, <1>a DEF DeleteLevelsFails
  <1>11. CASE CreateLevel(r)
    BY <1>11, <1>a DEF CreateLevel
  <1>12. CASE CreateLevelFails(r)
    BY <1>12, <1>a DEF CreateLevelFails
  <1>13. CASE LevelsDone(r)
    BY <1>13, <1>a DEF LevelsDone
  <1>14. CASE UseExisting(r)
    BY <1>14, <1>a DEF UseExisting
  <1>15. CASE MergeFinds(r)
    BY <1>15, <1>a DEF MergeFinds
  <1>16. CASE MergeCreates(r)
    BY <1>16, <1>a DEF MergeCreates
  <1>17. CASE MergeFails(r)
    BY <1>17, <1>a DEF MergeFails
  <1>18. CASE Relate(r)
    BY <1>18, <1>a DEF Relate
  <1>19. CASE LevelDone(r)
    BY <1>19, <1>a DEF LevelDone
  <1>20. CASE Reply(r)
    BY <1>20, <1>a DEF Reply
  <1>21. CASE CheckPerson(r)
    BY <1>21, <1>a DEF CheckPerson
  <1>22. CASE CreatePerson(r)
    BY <1>22, <1>b DEF CreatePerson
  <1>23. CASE CreatePersonFails(r)
    BY <1>23, <1>a, <1>b DEF CreatePersonFails
  <1>24. CASE Login(r)
    BY <1>24, <1>a DEF Login
  <1> QED
    BY <1>1, <1>2, <1>3, <1>4, <1>5, <1>6, <1>7, <1>8, <1>9, <1>10, <1>11, <1>12,
       <1>13, <1>14, <1>15, <1>16, <1>17, <1>18, <1>19, <1>20, <1>21, <1>22, <1>23, <1>24
       DEF RequestStep, create_domain, update_domain, create_levels, process_level_requirements, signup

-----------------------------------------------------------------------------
(* What a step does to the place of its request. *)

PlaceStep(r) ==
    /\ before'[r] = before[r] \/ before'[r] = {q \in Request : pc[q] \in Ended}
    /\ domain'[r] = domain[r] \/ (pc[r] = "create" /\ domain'[r] = Len(domains) + 1)
    /\ ids'[r] = ids[r] \/ (pc[r] = "levels" /\ at[r] <= NumLevels(r)
                            /\ ids'[r] = Append(ids[r], NewLevel(r)))
    /\ skipped'[r] = skipped[r] \/ (pc[r] = "levels" /\ skipped'[r] = skipped[r] \cup {at[r]})
    /\ at'[r] \in {1, at[r], at[r] + 1} /\ item'[r] \in {1, item[r], item[r] + 1}
    /\ \/ node_id'[r] = node_id[r]
       \/ AtRequirement(r) /\ Current(r).id # None /\ node_id'[r] = Current(r).id
       \/ node_id'[r] \in DOMAIN components
       \/ node_id'[r] = Len(components) + 1

LEMMA PlaceMoves ==
    ASSUME NEW S, Functions(S), NEW r \in Request, RequestStep(r)
    PROVE  PlaceStep(r)
  <1> USE DEF Functions, PlaceStep, requestVars, domainVars, graphVars
  <1>1. CASE Invalid(r)
    BY <1>1 DEF Invalid, Begin, Goto
  <1>2. CASE FirstQueryFails(r)
    BY <1>2 DEF FirstQueryFails, Begin, Goto
  <1>3. CASE CheckName(r)
    BY <1>3 DEF CheckName, Begin, Goto
  <1>4. CASE CreateDomain(r)
    BY <1>4 DEF CreateDomain, Goto
  <1>5. CASE CreateDomainFails(r)
    BY <1>5 DEF CreateDomainFails, Goto
  <1>6. CASE VerifyDomain(r)
    BY <1>6 DEF VerifyDomain, Begin, Goto
  <1>7. CASE RenameDomain(r)
    BY <1>7 DEF RenameDomain, Goto
  <1>8. CASE RenameFails(r)
    BY <1>8 DEF RenameFails, Goto
  <1>9. CASE DeleteLevels(r)
    BY <1>9 DEF DeleteLevels, Goto
  <1>10. CASE DeleteLevelsFails(r)
    BY <1>10 DEF DeleteLevelsFails, Goto
  <1>11. CASE CreateLevel(r)
    BY <1>11 DEF CreateLevel
  <1>12. CASE CreateLevelFails(r)
    BY <1>12 DEF CreateLevelFails
  <1>13. CASE LevelsDone(r)
    BY <1>13 DEF LevelsDone, Goto
  <1>14. CASE UseExisting(r)
    BY <1>14 DEF UseExisting, Goto, NextItem
  <1>15. CASE MergeFinds(r)
    BY <1>15 DEF MergeFinds, Goto, AtNewNode, Named
  <1>16. CASE MergeCreates(r)
    BY <1>16 DEF MergeCreates, Goto
  <1>17. CASE MergeFails(r)
    BY <1>17 DEF MergeFails, Goto, NextItem
  <1>18. CASE Relate(r)
    BY <1>18 DEF Relate, Goto, NextItem
  <1>19. CASE LevelDone(r)
    BY <1>19 DEF LevelDone, NextLevel
  <1>20. CASE Reply(r)
    BY <1>20 DEF Reply, Goto
  <1>21. CASE CheckPerson(r)
    BY <1>21 DEF CheckPerson, Begin, Goto
  <1>22. CASE CreatePerson(r)
    BY <1>22 DEF CreatePerson, Goto
  <1>23. CASE CreatePersonFails(r)
    BY <1>23 DEF CreatePersonFails, Goto
  <1>24. CASE Login(r)
    BY <1>24 DEF Login, Begin, Goto
  <1> QED
    BY <1>1, <1>2, <1>3, <1>4, <1>5, <1>6, <1>7, <1>8, <1>9, <1>10, <1>11, <1>12,
       <1>13, <1>14, <1>15, <1>16, <1>17, <1>18, <1>19, <1>20, <1>21, <1>22, <1>23, <1>24
       DEF RequestStep, create_domain, update_domain, create_levels, process_level_requirements, signup

LEMMA PcMoves ==
    ASSUME NEW S, Functions(S), NEW r \in Request, pc[r] \in Step \cup Ended, RequestStep(r)
    PROVE  pc'[r] \in Step \cup Ended
  <1> USE DEF Functions, Step, Ended, requestVars, domainVars, graphVars
  <1>1. CASE Invalid(r)
    BY <1>1 DEF Invalid, Begin, Goto
  <1>2. CASE FirstQueryFails(r)
    BY <1>2 DEF FirstQueryFails, Begin, Goto
  <1>3. CASE CheckName(r)
    BY <1>3 DEF CheckName, Begin, Goto
  <1>4. CASE CreateDomain(r)
    BY <1>4 DEF CreateDomain, Goto
  <1>5. CASE CreateDomainFails(r)
    BY <1>5 DEF CreateDomainFails, Goto
  <1>6. CASE VerifyDomain(r)
    BY <1>6 DEF VerifyDomain, Begin, Goto
  <1>7. CASE RenameDomain(r)
    BY <1>7 DEF RenameDomain, Goto
  <1>8. CASE RenameFails(r)
    BY <1>8 DEF RenameFails, Goto
  <1>9. CASE DeleteLevels(r)
    BY <1>9 DEF DeleteLevels, Goto
  <1>10. CASE DeleteLevelsFails(r)
    BY <1>10 DEF DeleteLevelsFails, Goto
  <1>11. CASE CreateLevel(r)
    BY <1>11 DEF CreateLevel
  <1>12. CASE CreateLevelFails(r)
    BY <1>12 DEF CreateLevelFails
  <1>13. CASE LevelsDone(r)
    BY <1>13 DEF LevelsDone, Goto
  <1>14. CASE UseExisting(r)
    BY <1>14 DEF UseExisting, Goto, NextItem
  <1>15. CASE MergeFinds(r)
    BY <1>15 DEF MergeFinds, Goto, AtNewNode, Named
  <1>16. CASE MergeCreates(r)
    BY <1>16 DEF MergeCreates, Goto
  <1>17. CASE MergeFails(r)
    BY <1>17 DEF MergeFails, Goto, NextItem
  <1>18. CASE Relate(r)
    BY <1>18 DEF Relate, Goto, NextItem
  <1>19. CASE LevelDone(r)
    BY <1>19 DEF LevelDone, NextLevel
  <1>20. CASE Reply(r)
    BY <1>20 DEF Reply, Goto
  <1>21. CASE CheckPerson(r)
    BY <1>21 DEF CheckPerson, Begin, Goto
  <1>22. CASE CreatePerson(r)
    BY <1>22 DEF CreatePerson, Goto
  <1>23. CASE CreatePersonFails(r)
    BY <1>23 DEF CreatePersonFails, Goto
  <1>24. CASE Login(r)
    BY <1>24 DEF Login, Begin, Goto
  <1> QED
    BY <1>1, <1>2, <1>3, <1>4, <1>5, <1>6, <1>7, <1>8, <1>9, <1>10, <1>11, <1>12,
       <1>13, <1>14, <1>15, <1>16, <1>17, <1>18, <1>19, <1>20, <1>21, <1>22, <1>23, <1>24
       DEF RequestStep, create_domain, update_domain, create_levels, process_level_requirements, signup

LEMMA RestTypes ==
    ASSUME TypeOK, NEW r \in Request, ControlInv(r), ItemInv(r), RequestStep(r)
    PROVE  TypeOK'
  <1>1. /\ OnlyOf(r) /\ FailedOf(r) /\ DomainsStep /\ ComponentsStep /\ LevelsStep(r)
        /\ PersonsStep(r) /\ PlaceStep(r) /\ pc'[r] \in Step \cup Ended
    BY OwnStep, DomainsGrow, ComponentsGrow, LevelsChange, PersonsGrow, AreFunctions, PlaceMoves,
       PcMoves, TypesOf
  <1>2. /\ pc[r] \in Step \cup Ended /\ before[r] \in SUBSET Request /\ domain[r] \in Nat
        /\ ids[r] \in Seq(Level) /\ skipped[r] \subseteq Nat \ {0}
        /\ at[r] \in Nat /\ at[r] >= 1 /\ item[r] \in Nat /\ item[r] >= 1
        /\ node_id[r] \in Nat
        /\ domains \in Seq(STRING) /\ components \in Seq(ComponentRecord)
    BY TypesOf
  <1>3. Len(domains) \in Nat /\ Len(components) \in Nat /\ DOMAIN components = 1..Len(components)
    BY <1>2
  <1>4. Request' = Request /\ Level' = Level
    BY <1>1 DEF OnlyOf, Request, Level
  <1>5. pc[r] = "levels" => NewLevel(r) \in Level /\ NewLevel(r).domain \in DOMAIN domains
    <2>1. pc[r] = "levels" => domain[r] \in DOMAIN domains
      BY DEF ControlInv
    <2> QED
      BY <1>2, <2>1 DEF NewLevel, Level
  <1>6. before'[r] \in SUBSET Request /\ domain'[r] \in Nat
    BY <1>1, <1>2, <1>3 DEF PlaceStep
  <1>7. ids'[r] \in Seq(Level)
    <2>1. CASE ids'[r] = ids[r]
      BY <1>2, <2>1
    <2>2. CASE pc[r] = "levels" /\ ids'[r] = Append(ids[r], NewLevel(r))
      <3>1. NewLevel(r) \in Level
        BY <1>5, <2>2
      <3>2. Append(ids[r], NewLevel(r)) \in Seq(Level)
        BY <1>2, <3>1, AppendFacts
      <3> QED
        BY <2>2, <3>2
    <2> QED
      BY <1>1, <2>1, <2>2 DEF PlaceStep
  <1>8. skipped'[r] \in SUBSET (Nat \ {0})
    <2>1. at[r] \in Nat \ {0}
      BY <1>2
    <2> QED
      BY <1>1, <1>2, <2>1 DEF PlaceStep
  <1>9. at'[r] \in Nat \ {0} /\ item'[r] \in Nat \ {0}
    BY <1>1, <1>2 DEF PlaceStep
  <1>10. node_id'[r] \in Nat
    <2>1. CASE AtRequirement(r) /\ Current(r).id # None
      <3>1. Kind(r) \in Domainlike /\ at[r] <= NumLevels(r) /\ item[r] <= Len(Requirements(r))
        BY <2>1 DEF AtRequirement, ControlInv, Filling
      <3>2. Current(r).id \in Nat
        BY <2>1, <3>1, CurrentTyped
      <3> QED
        BY <1>1, <1>2, <1>3, <3>2 DEF PlaceStep
    <2>2. CASE ~(AtRequirement(r) /\ Current(r).id # None)
      BY <1>1, <1>2, <1>3, <2>2 DEF PlaceStep
    <2> QED
      BY <2>1, <2>2
  <1>11. /\ pc' \in [Request -> Step \cup Ended] /\ before' \in [Request -> SUBSET Request]
         /\ domain' \in [Request -> Nat]
    BY <1>1, <1>6 DEF TypeOK, OnlyOf
  <1>12. ids' \in [Request -> Seq(Level)] /\ skipped' \in [Request -> SUBSET (Nat \ {0})]
    BY <1>1, <1>7, <1>8 DEF TypeOK, OnlyOf
  <1>13. /\ at' \in [Request -> Nat \ {0}] /\ item' \in [Request -> Nat \ {0}]
         /\ node_id' \in [Request -> Nat]
    BY <1>1, <1>9, <1>10 DEF TypeOK, OnlyOf
  <1>14. failed' \in [Request -> BOOLEAN]
    BY <1>1, FailureStays
  <1>15. levels' \subseteq Level /\ \A l \in levels' : l.domain \in DOMAIN domains'
    <2>1. \A l \in levels' : l \in Level /\ l.domain \in DOMAIN domains
      BY <1>1, <1>5 DEF TypeOK, LevelsStep
    <2> QED
      BY <1>1, <2>1 DEF DomainsStep
  <1>16. \A e \in requires' : e.level \in levels' /\ e.target \in DOMAIN components'
    <2>1. \A e \in requires' : e.target \in DOMAIN components
      BY <1>1 DEF TypeOK, LevelsStep, Matches, NewRequirement
    <2> QED
      BY <1>1, <2>1 DEF LevelsStep, ComponentsStep
  <1>17. \A p \in persons' : p.by \in Request
    BY <1>1 DEF TypeOK, PersonsStep, PersonOf
  <1>18. domains' \in Seq(STRING) /\ components' \in Seq([label : Label, name : STRING])
         /\ request' \in Scenarios
    BY <1>1 DEF DomainsStep, ComponentsStep, ComponentRecord, OnlyOf, TypeOK
  <1> QED
    BY <1>4, <1>11, <1>12, <1>13, <1>14, <1>15, <1>16, <1>17, <1>18 DEF TypeOK

-----------------------------------------------------------------------------
(* Requests other than the one that takes the step. *)

Place(u) ==
    <<pc[u], before[u], failed[u], domain[u], ids[u], skipped[u], at[u], item[u], node_id[u]>>

StepOf(r) ==
    /\ OnlyOf(r) /\ FailedOf(r) /\ DomainsStep /\ ComponentsStep /\ LevelsStep(r)
    /\ PersonsStep(r) /\ PlaceStep(r) /\ pc[r] \notin Ended /\ TypeOK'

LEMMA StepFacts ==
    ASSUME RestInv, NEW r \in Request, RequestStep(r)
    PROVE  /\ TypeOK /\ RequestInv(r) /\ StepOf(r)
           /\ Request' = Request /\ request' = request
           /\ \A u \in Request : u # r => UNCHANGED Place(u)
  <1>1. TypeOK /\ RequestInv(r) /\ ControlInv(r) /\ ItemInv(r)
    BY DEF RestInv, RequestInv
  <1>2. OnlyOf(r) /\ FailedOf(r) /\ PlaceStep(r)
    BY <1>1, OwnStep, AreFunctions, PlaceMoves
  <1>3. DomainsStep /\ ComponentsStep /\ LevelsStep(r) /\ PersonsStep(r) /\ pc[r] \notin Ended /\ TypeOK'
    BY <1>1, DomainsGrow, ComponentsGrow, LevelsChange, PersonsGrow, NotAnswered, RestTypes
  <1>4. \A u \in Request : u # r => failed'[u] = failed[u]
    BY <1>1, <1>2, FailureStays
  <1>5. \A u \in Request : u # r =>
           UNCHANGED <<pc[u], before[u], domain[u], ids[u], skipped[u], at[u], item[u], node_id[u]>>
    <2>1. PICK S : Functions(S)
      BY <1>1, AreFunctions
    <2> QED
      BY <1>2, <2>1 DEF OnlyOf, Functions
  <1>6. Request' = Request /\ request' = request
    BY <1>2 DEF OnlyOf, Request
  <1> QED
    BY <1>1, <1>2, <1>3, <1>4, <1>5, <1>6 DEF StepOf, Place

\* What a request has put in the graph stays as long as its levels do.
LEMMA StillThere ==
    ASSUME RestInv, NEW r \in Request, RequestStep(r),
           NEW u \in Request, Kind(u) \in Domainlike, pc[u] \in {"ok"} \cup Filling,
           ids'[u] = ids[u], Undisturbed(u)'
    PROVE  /\ Undisturbed(u)
           /\ \A e \in requires : e.by = u => e \in requires'
  <1>1. TypeOK /\ StepOf(r) /\ IdsInv(u)
    BY StepFacts DEF RestInv, RequestInv
  <1>2. ~failed[u]
    <2>1. failed[u] => failed'[u]
      BY <1>1, FailureStays DEF StepOf
    <2>2. ~failed'[u]
      BY DEF Undisturbed
    <2> QED
      BY <2>1, <2>2
  <1>3. \A i \in DOMAIN ids[u] : ids[u][i] \in levels'
    BY DEF Undisturbed
  <1>4. ASSUME NEW i \in DOMAIN ids[u] PROVE ids[u][i] \in levels
    <2>1. ids[u][i].by = u
      BY <1>1 DEF IdsInv
    <2>2. ids[u][i] \in levels \/ (ids[u][i] = NewLevel(r) /\ pc[r] = "levels")
      BY <1>1, <1>3 DEF StepOf, LevelsStep
    <2>3. NewLevel(r).by = r
      BY DEF NewLevel
    <2> QED
      BY <2>1, <2>2, <2>3 DEF Filling
  <1>5. ASSUME NEW e \in requires, e.by = u PROVE e \in requires'
    <2>1. e.idx \in DOMAIN ids[u] /\ e.level = ids[u][e.idx]
      BY <1>5 DEF RestInv, RequiresInv
    <2> QED
      BY <1>1, <1>3, <2>1 DEF StepOf, LevelsStep
  <1> QED
    BY <1>2, <1>4, <1>5 DEF Undisturbed

LEMMA OtherKeeps ==
    ASSUME RestInv, NEW r \in Request, RequestStep(r), NEW u \in Request, u # r
    PROVE  RequestInv(u)'
  <1>1. /\ TypeOK /\ StepOf(r) /\ request' = request /\ UNCHANGED Place(u)
        /\ Request' = Request /\ \A q \in Request : q # r => pc'[q] = pc[q]
    BY StepFacts DEF Place
  <1>2. ControlInv(u) /\ IdsInv(u) /\ ItemInv(u) /\ DoneInv(u)
    BY DEF RestInv, RequestInv
  <1>3. ControlInv(u)'
    <2>1. \A q \in before[u] : pc'[q] \in Ended
      <3> TAKE q \in before[u]
      <3>1. q \in Request /\ pc[q] \in Ended
        BY <1>1, <1>2, TypesOf DEF ControlInv
      <3> QED
        BY <1>1, <3>1 DEF StepOf
    <2>2. Kind(u)' = Kind(u) /\ Valid(u)' = Valid(u)
      BY <1>1 DEF Kind, Valid
    <2>3. DOMAIN domains \subseteq DOMAIN domains'
      BY <1>1 DEF StepOf, DomainsStep
    <2> QED
      BY <1>1, <1>2, <2>1, <2>2, <2>3 DEF ControlInv, Place
  <1>4. IdsInv(u)'
    BY <1>1, <1>2, ZenonT(60) DEF IdsInv, Place, NumLevels, Kind
  <1>5. ItemInv(u)'
    <2>1. Current(u)' = Current(u) /\ Requirements(u)' = Requirements(u) /\ Kind(u)' = Kind(u)
          /\ NumLevels(u)' = NumLevels(u) /\ HasLevel(u)' = HasLevel(u)
      BY <1>1 DEF Current, Requirements, Kind, NumLevels, HasLevel, Place
    <2> QED
      BY <1>1, <1>2, <2>1 DEF ItemInv, Place, StepOf, ComponentsStep
  <1>6. DoneInv(u)'
    <2> SUFFICES ASSUME Kind(u) \in Domainlike, pc[u] \in {"ok"} \cup Filling, Undisturbed(u)',
                        NEW i \in 1..NumLevels(u), NEW k \in DOMAIN request[u].levels[i],
                        Passed(u, i, k), Satisfiable(request[u].levels[i][k])
                 PROVE  \E e \in requires' : e.by = u /\ e.idx = i /\ e.item = k
      BY <1>1 DEF DoneInv, Kind, NumLevels, Passed, Place, Satisfiable
    <2>1. ids'[u] = ids[u]
      BY <1>1 DEF Place
    <2>2. Undisturbed(u) /\ \A e \in requires : e.by = u => e \in requires'
      BY <2>1, StillThere
    <2>3. \E e \in requires : e.by = u /\ e.idx = i /\ e.item = k
      BY <1>2, <2>2 DEF DoneInv
    <2> QED
      BY <2>2, <2>3
  <1> QED
    BY <1>3, <1>4, <1>5, <1>6 DEF RequestInv

-----------------------------------------------------------------------------
(* The request that takes the step: where it can be. *)

LEMMA BeforeAnswered ==
    ASSUME RestInv, NEW r \in Request, RequestStep(r)
    PROVE  \A q \in before'[r] : q \in Request /\ q # r /\ pc[q] \in Ended /\ pc'[q] \in Ended
  <1>1. /\ TypeOK /\ ControlInv(r) /\ StepOf(r) /\ before[r] \in SUBSET Request
        /\ \A u \in Request : u # r => pc'[u] = pc[u]
    BY StepFacts, TypesOf DEF RequestInv, Place
  <1>2. \A q \in before'[r] : q \in Request /\ pc[q] \in Ended
    BY <1>1 DEF StepOf, PlaceStep, ControlInv
  <1> QED
    BY <1>1, <1>2 DEF StepOf

\* What ControlInv says of a request that goes to step p, to work on domain d.
MayBeAt(r, p, d) ==
    /\ p \notin {"start", "err"} => Valid(r)
    /\ p = "create" => Kind(r) = "create"
    /\ p \in {"rename", "delete"} => Kind(r) = "update" /\ d \in DOMAIN domains'
    /\ p \in {"levels"} \cup Filling => Kind(r) \in Domainlike /\ d \in DOMAIN domains'
    /\ p = "hash" => Kind(r) = "signup"

LEMMA GoesWhereItMay ==
    ASSUME NEW S, Functions(S), NEW r \in Request, RequestStep(r), ControlInv(r), DomainsStep,
           domains \in Seq(STRING)
    PROVE  MayBeAt(r, pc'[r], domain'[r])
  <1> USE DEF Functions, ControlInv, MayBeAt, Filling, Domainlike, DomainsStep,
             requestVars, domainVars, graphVars
  <1>1. CASE Invalid(r)
    BY <1>1 DEF Invalid, Begin, Goto
  <1>2. CASE FirstQueryFails(r)
    BY <1>2 DEF FirstQueryFails, Begin, Goto
  <1>3. CASE CheckName(r)
    BY <1>3 DEF CheckName, Begin, Goto
  <1>4. CASE CreateDomain(r)
    <2>1. Len(domains) + 1 \in DOMAIN Append(domains, request[r].name)
      OBVIOUS
    <2>2. domain'[r] \in DOMAIN domains' /\ pc'[r] = "levels"
      BY <1>4, <2>1 DEF CreateDomain, Goto
    <2> QED
      BY <1>4, <2>2 DEF CreateDomain
  <1>5. CASE CreateDomainFails(r)
    BY <1>5 DEF CreateDomainFails, Goto
  <1>6. CASE VerifyDomain(r)
    BY <1>6 DEF VerifyDomain, Begin, Goto
  <1>7. CASE RenameDomain(r)
    BY <1>7 DEF RenameDomain, Goto
  <1>8. CASE RenameFails(r)
    BY <1>8 DEF RenameFails, Goto
  <1>9. CASE DeleteLevels(r)
    BY <1>9 DEF DeleteLevels, Goto
  <1>10. CASE DeleteLevelsFails(r)
    BY <1>10 DEF DeleteLevelsFails, Goto
  <1>11. CASE CreateLevel(r)
    BY <1>11 DEF CreateLevel
  <1>12. CASE CreateLevelFails(r)
    BY <1>12 DEF CreateLevelFails
  <1>13. CASE LevelsDone(r)
    BY <1>13 DEF LevelsDone, Goto
  <1>14. CASE UseExisting(r)
    BY <1>14 DEF UseExisting, Goto, NextItem, AtRequirement
  <1>15. CASE MergeFinds(r)
    BY <1>15 DEF MergeFinds, Goto, AtNewNode, AtRequirement
  <1>16. CASE MergeCreates(r)
    BY <1>16 DEF MergeCreates, Goto
  <1>17. CASE MergeFails(r)
    BY <1>17 DEF MergeFails, Goto, NextItem, AtRequirement, AtNewNode
  <1>18. CASE Relate(r)
    BY <1>18 DEF Relate, Goto, NextItem
  <1>19. CASE LevelDone(r)
    BY <1>19 DEF LevelDone, NextLevel
  <1>20. CASE Reply(r)
    BY <1>20 DEF Reply, Goto
  <1>21. CASE CheckPerson(r)
    BY <1>21 DEF CheckPerson, Begin, Goto
  <1>22. CASE CreatePerson(r)
    BY <1>22 DEF CreatePerson, Goto
  <1>23. CASE CreatePersonFails(r)
    BY <1>23 DEF CreatePersonFails, Goto
  <1>24. CASE Login(r)
    BY <1>24 DEF Login, Begin, Goto
  <1> QED
    BY <1>1, <1>2, <1>3, <1>4, <1>5, <1>6, <1>7, <1>8, <1>9, <1>10, <1>11, <1>12,
       <1>13, <1>14, <1>15, <1>16, <1>17, <1>18, <1>19, <1>20, <1>21, <1>22, <1>23, <1>24
       DEF RequestStep, create_domain, update_domain, create_levels, process_level_requirements, signup

LEMMA ControlKept ==
    ASSUME RestInv, NEW r \in Request, RequestStep(r)
    PROVE  ControlInv(r)'
  <1>1. TypeOK /\ ControlInv(r) /\ StepOf(r) /\ request' = request
    BY StepFacts DEF RequestInv
  <1>2. PICK S : Functions(S)
    BY <1>1, AreFunctions
  <1>3. MayBeAt(r, pc'[r], domain'[r])
    BY <1>1, <1>2, GoesWhereItMay, TypesOf DEF StepOf
  <1>4. Kind(r)' = Kind(r) /\ Valid(r)' = Valid(r)
    BY <1>1 DEF Kind, Valid
  <1>5. \A q \in before'[r] : pc'[q] \in Ended
    BY BeforeAnswered
  <1> QED
    BY <1>3, <1>4, <1>5 DEF MayBeAt, ControlInv

\* A step before the levels.
EarlyStep(r) ==
    /\ pc[r] \in {"start", "create", "rename", "delete", "hash"}
    /\ pc'[r] \notin Filling /\ (pc'[r] = "ok" => Kind(r) \notin Domainlike)
    /\ ids'[r] = ids[r] /\ skipped'[r] = skipped[r] /\ at'[r] = at[r] /\ item'[r] = item[r]

\* A step at the levels or at the requirements.
LateStep(r) ==
    \/ CreateLevel(r) \/ CreateLevelFails(r) \/ LevelsDone(r)
    \/ UseExisting(r) \/ MergeFinds(r) \/ MergeCreates(r) \/ MergeFails(r)
    \/ Relate(r) \/ LevelDone(r) \/ Reply(r)

LEMMA EarlyOrLate ==
    ASSUME NEW S, Functions(S), NEW r \in Request, RequestStep(r), ControlInv(r)
    PROVE  EarlyStep(r) \/ LateStep(r)
  <1> USE DEF EarlyStep, Functions, ControlInv, Filling, Domainlike, requestVars, domainVars, graphVars
  <1>1. CASE Invalid(r)
    BY <1>1 DEF Invalid, Begin, Goto
  <1>2. CASE FirstQueryFails(r)
    BY <1>2 DEF FirstQueryFails, Begin, Goto
  <1>3. CASE CheckName(r)
    BY <1>3 DEF CheckName, Begin, Goto
  <1>4. CASE CreateDomain(r)
    BY <1>4 DEF CreateDomain, Goto
  <1>5. CASE CreateDomainFails(r)
    BY <1>5 DEF CreateDomainFails, Goto
  <1>6. CASE VerifyDomain(r)
    BY <1>6 DEF VerifyDomain, Begin, Goto
  <1>7. CASE RenameDomain(r)
    BY <1>7 DEF RenameDomain, Goto
  <1>8. CASE RenameFails(r)
    BY <1>8 DEF RenameFails, Goto
  <1>9. CASE DeleteLevels(r)
    BY <1>9 DEF DeleteLevels, Goto
  <1>10. CASE DeleteLevelsFails(r)
    BY <1>10 DEF DeleteLevelsFails, Goto
  <1>11. CASE CreateLevel(r)
    BY <1>11 DEF LateStep
  <1>12. CASE CreateLevelFails(r)
    BY <1>12 DEF LateStep
  <1>13. CASE LevelsDone(r)
    BY <1>13 DEF LateStep
  <1>14. CASE UseExisting(r)
    BY <1>14 DEF LateStep
  <1>15. CASE MergeFinds(r)
    BY <1>15 DEF LateStep
  <1>16. CASE MergeCreates(r)
    BY <1>16 DEF LateStep
  <1>17. CASE MergeFails(r)
    BY <1>17 DEF LateStep
  <1>18. CASE Relate(r)
    BY <1>18 DEF LateStep
  <1>19. CASE LevelDone(r)
    BY <1>19 DEF LateStep
  <1>20. CASE Reply(r)
    BY <1>20 DEF LateStep
  <1>21. CASE CheckPerson(r)
    BY <1>21 DEF CheckPerson, Begin, Goto
  <1>22. CASE CreatePerson(r)
    BY <1>22 DEF CreatePerson, Goto
  <1>23. CASE CreatePersonFails(r)
    BY <1>23 DEF CreatePersonFails, Goto
  <1>24. CASE Login(r)
    BY <1>24 DEF Login, Begin, Goto
  <1> QED
    BY <1>1, <1>2, <1>3, <1>4, <1>5, <1>6, <1>7, <1>8, <1>9, <1>10, <1>11, <1>12,
       <1>13, <1>14, <1>15, <1>16, <1>17, <1>18, <1>19, <1>20, <1>21, <1>22, <1>23, <1>24
       DEF RequestStep, create_domain, update_domain, create_levels, process_level_requirements, signup

\* Nothing of IdsInv, ItemInv and DoneInv is to be said before the levels but
\* that there are none.
LEMMA EarlyKeeps ==
    ASSUME RestInv, NEW r \in Request, RequestStep(r), EarlyStep(r)
    PROVE  RequestInv(r)'
  <1>1. TypeOK /\ IdsInv(r) /\ request' = request /\ Request' = Request /\ StepOf(r)
    BY StepFacts DEF RequestInv
  <1>2. ControlInv(r)'
    BY ControlKept
  <1>3. at'[r] = 1 /\ item'[r] = 1 /\ ids'[r] = << >> /\ skipped'[r] = {}
    BY <1>1 DEF EarlyStep, IdsInv, Filling
  <1>4. Kind(r)' = Kind(r) /\ NumLevels(r)' = NumLevels(r)
    BY <1>1 DEF Kind, NumLevels
  <1>5. IdsInv(r)'
    <2>1. pc'[r] = "levels" => NumLevels(r) \in Nat
      BY <1>1, <1>2, <1>4, Bodies DEF ControlInv
    <2>2. Len(<< >>) = 0 /\ DOMAIN << >> = {} /\ Cardinality({}) = 0
      BY FS_EmptySet
    <2>3. pc'[r] = "ok" \/ pc'[r] \in Filling => Kind(r) \notin Domainlike
      BY DEF EarlyStep
    <2> QED
      BY <1>3, <1>4, <2>1, <2>2, <2>3 DEF IdsInv
  <1>6. ItemInv(r)' /\ DoneInv(r)'
    BY <1>4 DEF EarlyStep, ItemInv, DoneInv, Filling
  <1> QED
    BY <1>2, <1>5, <1>6 DEF RequestInv

-----------------------------------------------------------------------------
(* The request that takes the step: its levels. *)

\* The skipped levels below a position, when one more is skipped.
LEMMA SkipOneMore ==
    ASSUME NEW s, NEW n \in Nat, n >= 1, s \subseteq 1..(n - 1)
    PROVE  /\ Cardinality(s) \in Nat
           /\ Cardinality(s \cup {n}) = Cardinality(s) + 1
           /\ s \cap 1..n = s
           /\ \A i \in Nat : i < n => (s \cup {n}) \cap 1..i = s \cap 1..i
  <1>1. n \notin s
    OBVIOUS
  <1>2. IsFiniteSet(1..(n - 1))
    BY FS_Interval
  <1>3. IsFiniteSet(s)
    BY <1>2, FS_Subset
  <1>4. Cardinality(s) \in Nat
    BY <1>3, FS_CardinalityType
  <1>5. Cardinality(s \cup {n}) = Cardinality(s) + 1
    BY <1>1, <1>3, FS_AddElement
  <1>6. s \cap 1..n = s
    <2>1. \A x \in s : x \in 1..n
      OBVIOUS
    <2> QED
      BY <2>1
  <1>7. ASSUME NEW i \in Nat, i < n PROVE (s \cup {n}) \cap 1..i = s \cap 1..i
    <2>1. n \notin 1..i
      BY <1>7
    <2> QED
      BY <2>1
  <1> QED
    BY <1>4, <1>5, <1>6, <1>7

LEMMA PositionTyped ==
    ASSUME NEW s \in Seq(Level), NEW k \in DOMAIN s PROVE s[k].idx \in Nat
  <1>1. s[k] \in Level
    BY InSequence
  <1> QED
    BY <1>1 DEF Level

\* The sums of the invariant, when a level is created or skipped.
LEMMA LevelSums ==
    ASSUME NEW len \in Nat, NEW card \in Nat, NEW n \in Nat, len + card = n - 1
    PROVE  /\ len + 1 <= n /\ n - (len + 1) = card
           /\ (len + 1) + card = (n + 1) - 1 /\ len + (card + 1) = (n + 1) - 1
  OBVIOUS

LEMMA CreateLevelKeepsIds ==
    ASSUME RestInv, NEW r \in Request, CreateLevel(r)
    PROVE  IdsInv(r)'
  <1>1. RequestStep(r)
    BY DEF RequestStep, create_levels
  <1>2. TypeOK /\ ControlInv(r) /\ IdsInv(r) /\ request' = request /\ OnlyOf(r) /\ TypeOK'
    BY <1>1, StepFacts DEF RequestInv, StepOf
  <1>3. PICK S : Functions(S)
    BY <1>2, AreFunctions
  <1>4. /\ pc'[r] = "levels" /\ pc[r] = "levels" /\ at[r] <= NumLevels(r)
        /\ ids'[r] = Append(ids[r], NewLevel(r)) /\ at'[r] = at[r] + 1
        /\ skipped'[r] = skipped[r] /\ item'[r] = item[r] /\ domain'[r] = domain[r]
        /\ failed'[r] = failed[r]
    BY <1>3 DEF CreateLevel, Functions, requestVars
  <1>5. /\ Kind(r) \in Domainlike /\ NumLevels(r) \in Nat
        /\ at[r] \in Nat /\ at[r] >= 1 /\ ids[r] \in Seq(Level) /\ Len(ids[r]) \in Nat
        /\ domain[r] \in Nat
    BY <1>2, <1>4, TypesOf, Bodies DEF ControlInv
  <1>6. /\ item[r] = 1 /\ skipped[r] \subseteq 1..(at[r] - 1)
        /\ Len(ids[r]) + Cardinality(skipped[r]) = at[r] - 1
        /\ \A k \in DOMAIN ids[r] : ids[r][k].idx < at[r]
    BY <1>2, <1>4 DEF IdsInv
  <1>7. Cardinality(skipped[r]) \in Nat /\ skipped[r] \cap 1..at[r] = skipped[r]
    BY <1>5, <1>6, SkipOneMore
  <1>8. NewLevel(r) \in Level /\ NewLevel(r).by = r /\ NewLevel(r).idx = at[r]
        /\ NewLevel(r).domain = domain[r]
    BY <1>5 DEF NewLevel, Level
  <1> DEFINE n == Len(ids[r]) + 1
             new == ids'[r]
  <1>9. /\ Len(new) = n /\ DOMAIN new = DOMAIN ids[r] \cup {n} /\ DOMAIN ids[r] = 1..Len(ids[r])
        /\ new[n] = NewLevel(r) /\ \A k \in DOMAIN ids[r] : new[k] = ids[r][k]
    BY <1>4, <1>5, <1>8, AppendFacts
  <1>10. /\ n <= at[r] /\ at[r] - n = Cardinality(skipped[r] \cap 1..at[r])
         /\ n + Cardinality(skipped[r]) = (at[r] + 1) - 1
    <2> DEFINE len == Len(ids[r])
               card == Cardinality(skipped[r])
    <2>1. len \in Nat /\ card \in Nat /\ at[r] \in Nat /\ len + card = at[r] - 1
      BY <1>5, <1>6, <1>7
    <2>2. card = Cardinality(skipped[r] \cap 1..at[r])
      BY <1>7
    <2> HIDE DEF len, card
    <2>3. /\ len + 1 <= at[r] /\ at[r] - (len + 1) = card
          /\ (len + 1) + card = (at[r] + 1) - 1
      BY <2>1, LevelSums
    <2> QED
      BY <2>2, <2>3 DEF len, card
  <1>11. \A k \in DOMAIN ids[r] : ids[r][k].idx \in Nat
    BY <1>5, PositionTyped
  <1>12. \A k \in DOMAIN new :
            /\ new[k].by = r /\ new[k].domain = domain[r] /\ new[k].idx < at[r] + 1
            /\ k <= new[k].idx /\ new[k].idx - k = Cardinality(skipped[r] \cap 1..new[k].idx)
    <2> TAKE k \in DOMAIN new
    <2>1. CASE k = n
      <3>1. new[k] = NewLevel(r) /\ at[r] < at[r] + 1
        BY <1>5, <1>9, <2>1
      <3>2. new[k].by = r /\ new[k].domain = domain[r] /\ new[k].idx = at[r]
        BY <1>8, <3>1
      <3> HIDE DEF new, n
      <3> QED
        BY <1>10, <2>1, <3>1, <3>2
    <2>2. CASE k \in DOMAIN ids[r]
      <3>1. new[k] = ids[r][k] /\ ids[r][k].idx < at[r] /\ ids[r][k].idx \in Nat
        BY <1>6, <1>9, <1>11, <2>2
      <3>2. ids[r][k].idx < at[r] + 1
        BY <1>5, <3>1
      <3> QED
        BY <1>2, <2>2, <3>1, <3>2 DEF IdsInv
    <2> QED
      BY <1>9, <2>1, <2>2
  <1>13. /\ item'[r] = 1 /\ at'[r] <= NumLevels(r) + 1
         /\ skipped'[r] \subseteq 1..(at'[r] - 1)
         /\ Len(new) + Cardinality(skipped'[r]) = at'[r] - 1
    <2>1. at'[r] - 1 = at[r] /\ 1..(at[r] - 1) \subseteq 1..at[r]
      BY <1>4, <1>5
    <2> QED
      BY <1>4, <1>5, <1>6, <1>9, <1>10, <2>1
  <1>14. skipped'[r] # {} => failed'[r]
    BY <1>2, <1>4 DEF IdsInv
  <1> HIDE DEF new, n
  <1>15. NumLevels(r)' = NumLevels(r) /\ pc'[r] \notin {"ok"} \cup Filling
    BY <1>2, <1>4 DEF NumLevels, Filling
  <1>16. \A k \in DOMAIN ids'[r] :
            /\ ids'[r][k].by = r /\ ids'[r][k].domain = domain'[r] /\ ids'[r][k].idx < at'[r]
            /\ k <= ids'[r][k].idx
            /\ ids'[r][k].idx - k = Cardinality(skipped'[r] \cap 1..ids'[r][k].idx)
    BY <1>4, <1>12 DEF new
  <1> QED
    BY <1>4, <1>13, <1>14, <1>15, <1>16 DEF IdsInv, new

LEMMA CreateLevelFailsKeepsIds ==
    ASSUME RestInv, NEW r \in Request, CreateLevelFails(r)
    PROVE  IdsInv(r)'
  <1>1. RequestStep(r)
    BY DEF RequestStep, create_levels
  <1>2. TypeOK /\ ControlInv(r) /\ IdsInv(r) /\ request' = request /\ OnlyOf(r) /\ TypeOK'
    BY <1>1, StepFacts DEF RequestInv, StepOf
  <1>3. PICK S : Functions(S)
    BY <1>2, AreFunctions
  <1>4. /\ pc'[r] = "levels" /\ pc[r] = "levels" /\ at[r] <= NumLevels(r)
        /\ ids'[r] = ids[r] /\ at'[r] = at[r] + 1
        /\ skipped'[r] = skipped[r] \cup {at[r]} /\ item'[r] = item[r] /\ domain'[r] = domain[r]
    BY <1>3 DEF CreateLevelFails, Functions
  <1>5. failed'[r]
    BY <1>2 DEF CreateLevelFails, QueryFails, TypeOK
  <1>6. /\ Kind(r) \in Domainlike /\ NumLevels(r) \in Nat
        /\ at[r] \in Nat /\ at[r] >= 1 /\ ids[r] \in Seq(Level) /\ Len(ids[r]) \in Nat
    BY <1>2, <1>4, TypesOf, Bodies DEF ControlInv
  <1>7. /\ item[r] = 1 /\ skipped[r] \subseteq 1..(at[r] - 1)
        /\ Len(ids[r]) + Cardinality(skipped[r]) = at[r] - 1
        /\ \A k \in DOMAIN ids[r] : ids[r][k].idx < at[r]
    BY <1>2, <1>4 DEF IdsInv
  <1>8. /\ Cardinality(skipped[r]) \in Nat
        /\ Cardinality(skipped'[r]) = Cardinality(skipped[r]) + 1
        /\ \A i \in Nat : i < at[r] => skipped'[r] \cap 1..i = skipped[r] \cap 1..i
    <2> DEFINE s == skipped[r]
               n == at[r]
    <2>1. n \in Nat /\ n >= 1 /\ s \subseteq 1..(n - 1) /\ skipped'[r] = s \cup {n}
      BY <1>4, <1>6, <1>7
    <2> HIDE DEF s, n
    <2>2. /\ Cardinality(s) \in Nat /\ Cardinality(s \cup {n}) = Cardinality(s) + 1
          /\ \A i \in Nat : i < n => (s \cup {n}) \cap 1..i = s \cap 1..i
      BY <2>1, SkipOneMore
    <2>3. /\ Cardinality(s) \in Nat /\ Cardinality(skipped'[r]) = Cardinality(s) + 1
          /\ \A i \in Nat : i < n => skipped'[r] \cap 1..i = s \cap 1..i
      BY <2>1, <2>2, Zenon
    <2> QED
      BY <2>3 DEF s, n
  <1>9. \A k \in DOMAIN ids[r] : ids[r][k].idx \in Nat
    BY <1>6, PositionTyped
  <1>10. \A k \in DOMAIN ids[r] :
            /\ ids[r][k].by = r /\ ids[r][k].domain = domain[r] /\ ids[r][k].idx < at[r] + 1
            /\ k <= ids[r][k].idx
            /\ ids[r][k].idx - k = Cardinality(skipped'[r] \cap 1..ids[r][k].idx)
    <2> TAKE k \in DOMAIN ids[r]
    <2>1. ids[r][k].idx < at[r] /\ ids[r][k].idx \in Nat
      BY <1>7, <1>9
    <2>2. skipped'[r] \cap 1..ids[r][k].idx = skipped[r] \cap 1..ids[r][k].idx
      BY <1>8, <2>1
    <2>3. ids[r][k].idx < at[r] + 1
      BY <1>6, <2>1
    <2> QED
      BY <1>2, <2>2, <2>3 DEF IdsInv
  <1>11. /\ at'[r] <= NumLevels(r) + 1
         /\ Len(ids[r]) + Cardinality(skipped'[r]) = at'[r] - 1
    <2>1. Len(ids[r]) + (Cardinality(skipped[r]) + 1) = (at[r] + 1) - 1
      BY <1>6, <1>7, <1>8, LevelSums, ZenonT(60)
    <2>2. at[r] + 1 <= NumLevels(r) + 1
      BY <1>4, <1>6
    <2> QED
      BY <1>4, <1>8, <2>1, <2>2
  <1>12. skipped'[r] \subseteq 1..(at'[r] - 1)
    <2>1. at'[r] - 1 = at[r] /\ 1..(at[r] - 1) \subseteq 1..at[r] /\ at[r] \in 1..at[r]
      BY <1>4, <1>6
    <2> QED
      BY <1>4, <1>7, <2>1
  <1>13. NumLevels(r)' = NumLevels(r) /\ pc'[r] \notin {"ok"} \cup Filling
    BY <1>2, <1>4 DEF NumLevels, Filling
  <1> QED
    BY <1>4, <1>5, <1>7, <1>10, <1>11, <1>12, <1>13, ZenonT(60) DEF IdsInv

LEMMA LevelsDoneKeepsIds ==
    ASSUME RestInv, NEW r \in Request, LevelsDone(r)
    PROVE  IdsInv(r)' /\ at'[r] = 1 /\ item'[r] = 1 /\ pc'[r] = "requirements"
  <1>1. RequestStep(r)
    BY DEF RequestStep, create_levels
  <1>2. TypeOK /\ ControlInv(r) /\ IdsInv(r) /\ request' = request
    BY <1>1, StepFacts DEF RequestInv
  <1>3. PICK S : Functions(S)
    BY <1>2, AreFunctions
  <1>4. /\ pc[r] = "levels" /\ pc'[r] = "requirements" /\ at[r] > NumLevels(r)
        /\ ids'[r] = ids[r] /\ at'[r] = 1 /\ skipped'[r] = skipped[r]
        /\ item'[r] = item[r] /\ domain'[r] = domain[r] /\ failed'[r] = failed[r]
    BY <1>3 DEF LevelsDone, Goto, Functions
  <1>5. NumLevels(r) \in Nat /\ at[r] \in Nat
    BY <1>2, <1>4, TypesOf, Bodies DEF ControlInv
  <1>6. item[r] = 1 /\ at[r] <= NumLevels(r) + 1 /\ Len(ids[r]) + Cardinality(skipped[r]) = at[r] - 1
    BY <1>2, <1>4 DEF IdsInv
  <1>7. at[r] - 1 = NumLevels(r)
    BY <1>4, <1>5, <1>6
  <1>8. NumLevels(r)' = NumLevels(r) /\ Kind(r)' = Kind(r)
    BY <1>2 DEF NumLevels, Kind
  <1> QED
    BY <1>2, <1>4, <1>6, <1>7, <1>8 DEF IdsInv, Filling

-----------------------------------------------------------------------------
(* The request that takes the step: its requirements. *)

\* A step at the requirements leaves the levels of the request alone.
FillStep(r) ==
    /\ pc[r] \in Filling /\ pc'[r] \in {"ok"} \cup Filling
    /\ ids'[r] = ids[r] /\ skipped'[r] = skipped[r] /\ domain'[r] = domain[r]

LEMMA FillsOnly ==
    ASSUME NEW S, Functions(S), NEW r \in Request, process_level_requirements(r)
    PROVE  FillStep(r)
  <1> USE DEF Functions, FillStep, Filling, graphVars
  <1>1. CASE UseExisting(r)
    BY <1>1 DEF UseExisting, AtRequirement, Goto
  <1>2. CASE MergeFinds(r)
    BY <1>2 DEF MergeFinds, AtNewNode, AtRequirement, Goto
  <1>3. CASE MergeCreates(r)
    BY <1>3 DEF MergeCreates, Goto
  <1>4. CASE MergeFails(r)
    BY <1>4 DEF MergeFails, AtNewNode, AtRequirement, Goto
  <1>5. CASE Relate(r)
    BY <1>5 DEF Relate, Goto
  <1>6. CASE LevelDone(r)
    BY <1>6 DEF LevelDone, requestVars
  <1>7. CASE Reply(r)
    BY <1>7 DEF Reply, domainVars, Goto
  <1> QED
    BY <1>1, <1>2, <1>3, <1>4, <1>5, <1>6, <1>7 DEF process_level_requirements

LEMMA FillKeepsIds ==
    ASSUME RestInv, NEW r \in Request, process_level_requirements(r)
    PROVE  FillStep(r) /\ Kind(r) \in Domainlike /\ IdsInv(r)'
  <1>1. RequestStep(r)
    BY DEF RequestStep
  <1>2. TypeOK /\ ControlInv(r) /\ IdsInv(r) /\ request' = request /\ StepOf(r)
    BY <1>1, StepFacts DEF RequestInv
  <1>3. FillStep(r)
    BY <1>2, AreFunctions, FillsOnly
  <1>4. failed[r] => failed'[r]
    BY <1>2, FailureStays DEF StepOf
  <1>5. Kind(r) \in Domainlike
    BY <1>2, <1>3 DEF FillStep, ControlInv
  <1>6. NumLevels(r)' = NumLevels(r) /\ pc'[r] # "levels" /\ pc'[r] \in {"ok"} \cup Filling
    BY <1>2, <1>3 DEF NumLevels, FillStep, Filling
  <1> QED
    BY <1>2, <1>3, <1>4, <1>5, <1>6 DEF IdsInv, FillStep

LEMMA FillKeepsItem ==
    ASSUME RestInv, NEW r \in Request, process_level_requirements(r)
    PROVE  ItemInv(r)'
  <1>1. RequestStep(r)
    BY DEF RequestStep
  <1>2. TypeOK /\ ControlInv(r) /\ ItemInv(r) /\ request' = request /\ StepOf(r)
    BY <1>1, StepFacts DEF RequestInv
  <1>3. FillStep(r) /\ Kind(r) \in Domainlike /\ ids'[r] = ids[r]
    BY FillKeepsIds DEF FillStep
  <1>4. PICK S : Functions(S)
    BY <1>2, AreFunctions
  <1>5. NumLevels(r)' = NumLevels(r) /\ (at'[r] = at[r] => HasLevel(r)' = HasLevel(r))
        /\ (at'[r] = at[r] => Requirements(r)' = Requirements(r))
        /\ (at'[r] = at[r] /\ item'[r] = item[r] => Current(r)' = Current(r))
    BY <1>2, <1>3 DEF NumLevels, HasLevel, Requirements, Current
  <1>6. components \in Seq(ComponentRecord)
    BY <1>2, TypesOf
  <1>7. \A i \in DOMAIN components : i \in DOMAIN components' /\ components'[i] = components[i]
    BY <1>2 DEF StepOf, ComponentsStep
  <1>8. CASE pc'[r] = "requirements"
    BY <1>8 DEF ItemInv
  <1>9. CASE UseExisting(r)
    <2>1. CASE pc'[r] = "relate" /\ node_id'[r] = Current(r).id /\ Current(r).id # None
               /\ at'[r] = at[r] /\ item'[r] = item[r]
      BY <1>5, <1>9, <2>1 DEF ItemInv, UseExisting, AtRequirement
    <2>2. CASE pc'[r] = "requirements"
      BY <1>8, <2>2
    <2> QED
      BY <1>4, <1>9, <2>1, <2>2 DEF UseExisting, Functions, Goto, AtRequirement
  <1>10. CASE MergeFinds(r)
    <2>1. /\ AtRequirement(r) /\ Current(r).id = None /\ Current(r).new # None
          /\ at'[r] = at[r] /\ item'[r] = item[r]
      BY <1>10 DEF MergeFinds, AtNewNode
    <2>2. CASE pc'[r] = "merge"
      BY <1>5, <2>1, <2>2 DEF ItemInv, AtRequirement
    <2>3. CASE pc'[r] = "relate" /\ node_id'[r] \in Named(r)
      <3>1. /\ node_id'[r] \in DOMAIN components'
            /\ components'[node_id'[r]] = [label |-> Current(r).label, name |-> Current(r).new]
        BY <1>7, <2>3 DEF Named
      <3> QED
        BY <1>5, <2>1, <2>3, <3>1 DEF ItemInv, AtRequirement
    <2> QED
      BY <1>4, <1>10, <2>2, <2>3 DEF MergeFinds, Functions, Goto
  <1>11. CASE MergeCreates(r)
    <2> DEFINE new == [label |-> Current(r).label, name |-> Current(r).new]
    <2>1. /\ pc[r] = "merge" /\ pc'[r] = "relate" /\ node_id'[r] = Len(components) + 1
          /\ at'[r] = at[r] /\ item'[r] = item[r] /\ components' = Append(components, new)
      BY <1>4, <1>11 DEF MergeCreates, Functions, Goto
    <2>2. /\ at[r] <= NumLevels(r) /\ HasLevel(r) /\ item[r] <= Len(Requirements(r))
          /\ Current(r).id = None /\ Current(r).new # None
      BY <1>2, <2>1 DEF ItemInv
    <2>3. new \in ComponentRecord
      BY <1>2, <1>3, <2>2, CurrentTyped DEF ComponentRecord
    <2>4. Len(components) + 1 \in DOMAIN components' /\ components'[Len(components) + 1] = new
      <3> HIDE DEF new
      <3> QED
        BY <1>6, <2>1, <2>3, AppendFacts
    <2>5. /\ node_id'[r] \in DOMAIN components'
          /\ components'[node_id'[r]] = [label |-> Current(r).label, name |-> Current(r).new]
      BY <2>1, <2>4
    <2> QED
      BY <1>5, <2>1, <2>2, <2>5 DEF ItemInv
  <1>12. CASE MergeFails(r) \/ Relate(r)
    BY <1>4, <1>8, <1>12 DEF MergeFails, Relate, Functions, Goto
  <1>13. CASE LevelDone(r)
    BY <1>8, <1>13 DEF LevelDone, requestVars
  <1>14. CASE Reply(r)
    <2>1. pc'[r] = "ok" /\ at[r] > NumLevels(r) /\ at'[r] = at[r]
      BY <1>4, <1>14 DEF Reply, domainVars, Functions, Goto
    <2> QED
      BY <1>5, <2>1 DEF ItemInv
  <1> QED
    BY <1>9, <1>10, <1>11, <1>12, <1>13, <1>14 DEF process_level_requirements

\* What the step passes is there afterwards, if it can be had.
PassedNow(r, i, k) == Passed(r, i, k)' /\ ~Passed(r, i, k)

LEMMA SatisfiableMatches ==
    ASSUME RestInv, NEW r \in Request, pc[r] = "relate", Satisfiable(Current(r))
    PROVE  node_id[r] \in DOMAIN components /\ components[node_id[r]].label = Current(r).label
  <1>1. ItemInv(r) /\ SeedInv /\ TypeOK
    BY DEF RestInv, RequestInv
  <1>2. CASE Current(r).id = None
    BY <1>1, <1>2 DEF ItemInv
  <1>3. CASE Current(r).id # None
    <2>1. node_id[r] = Current(r).id
      BY <1>1, <1>3 DEF ItemInv
    <2>2. node_id[r] \in DOMAIN SeedComponent /\ SeedComponent[node_id[r]].label = Current(r).label
      BY <1>3, <2>1 DEF Satisfiable
    <2>3. DOMAIN SeedComponent \subseteq DOMAIN components
      <3>1. components \in Seq(ComponentRecord) /\ SeedComponent \in Seq(ComponentRecord)
        BY <1>1, ScenarioAssumption DEF TypeOK, ComponentRecord
      <3> QED
        BY <1>1, <3>1 DEF SeedInv
    <2>4. components[node_id[r]] = SeedComponent[node_id[r]]
      BY <1>1, <2>2 DEF SeedInv
    <2> QED
      BY <2>2, <2>3, <2>4
  <1> QED
    BY <1>2, <1>3

LEMMA PassedIsThere ==
    ASSUME RestInv, NEW r \in Request, process_level_requirements(r), Undisturbed(r)',
           NEW i \in 1..NumLevels(r), NEW k \in DOMAIN request[r].levels[i],
           PassedNow(r, i, k), Satisfiable(request[r].levels[i][k])
    PROVE  \E e \in requires' : e.by = r /\ e.idx = i /\ e.item = k
  <1>1. RequestStep(r)
    BY DEF RequestStep
  <1>2. TypeOK /\ IdsInv(r) /\ ItemInv(r) /\ StepOf(r)
    BY <1>1, StepFacts DEF RequestInv
  <1>3. Kind(r) \in Domainlike /\ ids'[r] = ids[r]
    BY FillKeepsIds DEF FillStep
  <1>4. PICK S : Functions(S)
    BY <1>2, AreFunctions
  <1>5. /\ at[r] \in Nat /\ at[r] >= 1 /\ item[r] \in Nat /\ item[r] >= 1
        /\ Len(ids[r]) \in Nat /\ DOMAIN ids[r] = 1..Len(ids[r])
    BY <1>2, TypesOf
  <1>6. /\ i \in Nat /\ i >= 1 /\ i <= NumLevels(r) /\ NumLevels(r) \in Nat
        /\ DOMAIN request[r].levels[i] = 1..Len(request[r].levels[i])
        /\ Len(request[r].levels[i]) \in Nat
    BY <1>2, <1>3, Bodies
  <1>7. k \in Nat /\ k >= 1 /\ k <= Len(request[r].levels[i])
    BY <1>6
  <1>8. ~failed'[r] /\ \A j \in DOMAIN ids[r] : ids[r][j] \in levels'
    BY <1>3 DEF Undisturbed
  <1>9. /\ i < at'[r] \/ (i = at'[r] /\ k < item'[r])
        /\ ~(i < at[r] \/ (i = at[r] /\ k < item[r]))
    BY DEF PassedNow, Passed
  <1>10. ~(at'[r] = at[r] /\ item'[r] = item[r])
    BY <1>9
  \* The item at hand is passed.
  <1>11. ASSUME at'[r] = at[r], item'[r] = item[r] + 1 PROVE i = at[r] /\ k = item[r]
    BY <1>5, <1>6, <1>7, <1>9, <1>11
  <1>12. CASE UseExisting(r)
    <2>1. at'[r] = at[r] /\ item'[r] = item[r] + 1 /\ Current(r).id = None /\ Current(r).new = None
      BY <1>4, <1>10, <1>12 DEF UseExisting, NextItem, Functions
    <2>2. Current(r) = request[r].levels[i][k]
      BY <1>11, <2>1 DEF Current, Requirements
    <2> QED
      BY <2>1, <2>2 DEF Satisfiable
  <1>13. CASE MergeFinds(r) \/ MergeCreates(r) \/ Reply(r)
    <2>1. at'[r] = at[r] /\ item'[r] = item[r]
      BY <1>13 DEF MergeFinds, MergeCreates, Reply, domainVars
    <2> QED
      BY <1>10, <2>1
  <1>14. CASE MergeFails(r)
    <2>1. failed'[r]
      BY <1>2, <1>14 DEF MergeFails, QueryFails, TypeOK
    <2> QED
      BY <1>8, <2>1
  <1>15. CASE Relate(r)
    <2>1. pc[r] = "relate" /\ at'[r] = at[r] /\ item'[r] = item[r] + 1 /\ levels' = levels
      BY <1>4, <1>15 DEF Relate, NextItem, Functions
    <2>2. CreateRequirement(r)
      <3>1. failed' = [failed EXCEPT ![r] = TRUE] => failed'[r]
        BY <1>2 DEF TypeOK
      <3> QED
        BY <1>8, <1>15, <3>1 DEF Relate, QueryFails
    <2>3. i = at[r] /\ k = item[r] /\ Current(r) = request[r].levels[i][k]
      BY <1>11, <2>1 DEF Current, Requirements
    <2>4. LevelFor(r) \in levels
      <3>1. at[r] \in DOMAIN ids[r]
        BY <1>2, <1>5, <2>1 DEF ItemInv, HasLevel
      <3> QED
        BY <1>8, <2>1, <3>1 DEF LevelFor
    <2>5. Matches(r)
      BY <2>1, <2>3, <2>4, SatisfiableMatches DEF Matches
    <2>6. NewRequirement(r) \in requires'
      BY <2>2, <2>5 DEF CreateRequirement, NewRequirement
    <2>7. NewRequirement(r).by = r /\ NewRequirement(r).idx = i /\ NewRequirement(r).item = k
      BY <2>3 DEF NewRequirement
    <2> QED
      BY <2>6, <2>7
  <1>16. CASE LevelDone(r)
    <2>1. /\ at'[r] = at[r] + 1 /\ item'[r] = 1 /\ pc[r] = "requirements" /\ failed'[r] = failed[r]
          /\ ~HasLevel(r) \/ item[r] > Len(Requirements(r))
      BY <1>4, <1>16 DEF LevelDone, NextLevel, Functions, requestVars
    <2>2. i = at[r] /\ k >= item[r]
      BY <1>5, <1>6, <1>7, <1>9, <2>1
    <2>3. Len(ids[r]) = NumLevels(r)
      <3>1. skipped[r] = {}
        BY <1>2, <1>8, <2>1 DEF IdsInv
      <3>2. Cardinality(skipped[r]) = 0
        BY <3>1, FS_EmptySet
      <3>3. Len(ids[r]) + Cardinality(skipped[r]) = NumLevels(r)
        BY <1>2, <1>3, <2>1 DEF IdsInv, Filling
      <3> QED
        BY <1>5, <3>2, <3>3
    <2>4. HasLevel(r)
      BY <1>6, <2>2, <2>3 DEF HasLevel
    <2>5. item[r] > Len(request[r].levels[i])
      BY <2>1, <2>2, <2>4 DEF Requirements
    <2> QED
      BY <1>5, <1>6, <1>7, <2>2, <2>5
  <1> QED
    BY <1>12, <1>13, <1>14, <1>15, <1>16 DEF process_level_requirements

LEMMA FillKeepsDone ==
    ASSUME RestInv, NEW r \in Request, process_level_requirements(r)
    PROVE  DoneInv(r)'
  <1>1. RequestStep(r)
    BY DEF RequestStep
  <1>2. TypeOK /\ DoneInv(r) /\ request' = request
    BY <1>1, StepFacts DEF RequestInv
  <1>3. Kind(r) \in Domainlike /\ ids'[r] = ids[r] /\ pc[r] \in Filling
    BY FillKeepsIds DEF FillStep
  <1> SUFFICES ASSUME Undisturbed(r)',
                      NEW i \in 1..NumLevels(r), NEW k \in DOMAIN request[r].levels[i],
                      Passed(r, i, k)', Satisfiable(request[r].levels[i][k])
               PROVE  \E e \in requires' : e.by = r /\ e.idx = i /\ e.item = k
    BY <1>2 DEF DoneInv, Kind, NumLevels, Satisfiable
  <1>4. CASE Passed(r, i, k)
    <2>1. Undisturbed(r) /\ \A e \in requires : e.by = r => e \in requires'
      BY <1>1, <1>3, StillThere
    <2>2. \E e \in requires : e.by = r /\ e.idx = i /\ e.item = k
      BY <1>2, <1>3, <1>4, <2>1 DEF DoneInv
    <2> QED
      BY <2>1, <2>2
  <1>5. CASE ~Passed(r, i, k)
    BY <1>5, PassedIsThere DEF PassedNow
  <1> QED
    BY <1>4, <1>5

LEMMA OwnKeeps ==
    ASSUME RestInv, NEW r \in Request, RequestStep(r)
    PROVE  RequestInv(r)'
  <1>1. TypeOK /\ ControlInv(r) /\ request' = request
    BY StepFacts DEF RequestInv
  <1>2. PICK S : Functions(S)
    BY <1>1, AreFunctions
  <1>3. ControlInv(r)'
    BY ControlKept
  <1>4. CASE EarlyStep(r)
    BY <1>4, EarlyKeeps
  <1>5. CASE CreateLevel(r) \/ CreateLevelFails(r)
    <2>1. pc'[r] = "levels"
      BY <1>5 DEF CreateLevel, CreateLevelFails, requestVars
    <2>2. ItemInv(r)' /\ DoneInv(r)'
      BY <2>1 DEF ItemInv, DoneInv, Filling
    <2> QED
      BY <1>3, <1>5, <2>2, CreateLevelKeepsIds, CreateLevelFailsKeepsIds DEF RequestInv
  <1>6. CASE LevelsDone(r)
    <2>1. IdsInv(r)' /\ at'[r] = 1 /\ item'[r] = 1 /\ pc'[r] = "requirements"
      BY <1>6, LevelsDoneKeepsIds
    <2>2. ItemInv(r)'
      BY <2>1 DEF ItemInv
    <2>3. DoneInv(r)'
      <3>1. ASSUME Kind(r) \in Domainlike,
                   NEW i \in 1..NumLevels(r), NEW k \in DOMAIN request[r].levels[i],
                   i < at'[r] \/ (i = at'[r] /\ k < item'[r])
            PROVE  FALSE
        <4>1. NumLevels(r) \in Nat /\ DOMAIN request[r].levels[i] = 1..Len(request[r].levels[i])
              /\ Len(request[r].levels[i]) \in Nat
          BY <1>1, <3>1, Bodies
        <4>2. i >= 1 /\ i \in Nat /\ k \in Nat /\ k >= 1
          BY <4>1
        <4> QED
          BY <2>1, <3>1, <4>2
      <3>2. Kind(r)' = Kind(r) /\ NumLevels(r)' = NumLevels(r)
        BY <1>1 DEF Kind, NumLevels
      <3> QED
        BY <1>1, <3>1, <3>2 DEF DoneInv, Passed
    <2> QED
      BY <1>3, <2>1, <2>2, <2>3 DEF RequestInv
  <1>7. CASE process_level_requirements(r)
    BY <1>3, <1>7, FillKeepsIds, FillKeepsItem, FillKeepsDone DEF RequestInv
  <1> QED
    BY <1>1, <1>2, <1>4, <1>5, <1>6, <1>7, EarlyOrLate DEF LateStep, process_level_requirements

-----------------------------------------------------------------------------
(* The graph after the step. *)

\* The steps that lead to some places, or away from them.
WhichStep(r) ==
    /\ pc[r] = "hash" => CreatePerson(r) \/ CreatePersonFails(r)
    /\ pc'[r] = "hash" => CheckPerson(r)
    /\ pc'[r] = "ok" /\ Kind(r) = "signup" => CreatePerson(r)
    /\ pc'[r] = "refused" /\ Kind(r) = "login" => Login(r)
    /\ pc[r] = "relate" => Relate(r)
    /\ pc[r] \in Filling => process_level_requirements(r)
    /\ pc[r] = "levels" => pc'[r] \in {"levels", "requirements"}
    /\ pc'[r] \in {"levels", "ok"} \cup Filling /\ Kind(r) = "update" =>
          DeleteLevels(r) \/ (pc[r] \in {"levels"} \cup Filling /\ before'[r] = before[r])

LEMMA StepKnown ==
    ASSUME NEW S, Functions(S), NEW r \in Request, RequestStep(r), ControlInv(r)
    PROVE  WhichStep(r)
  <1> USE DEF WhichStep, Functions, ControlInv, Filling, Domainlike, AtRequirement, AtNewNode,
              requestVars, domainVars, graphVars
  <1>1. CASE Invalid(r)
    BY <1>1 DEF Invalid, Begin, Goto
  <1>2. CASE FirstQueryFails(r)
    BY <1>2 DEF FirstQueryFails, Begin, Goto
  <1>3. CASE CheckName(r)
    BY <1>3 DEF CheckName, Begin, Goto
  <1>4. CASE CreateDomain(r)
    BY <1>4 DEF CreateDomain, Goto
  <1>5. CASE CreateDomainFails(r)
    BY <1>5 DEF CreateDomainFails, Goto
  <1>6. CASE VerifyDomain(r)
    BY <1>6 DEF VerifyDomain, Begin, Goto
  <1>7. CASE RenameDomain(r)
    BY <1>7 DEF RenameDomain, Goto
  <1>8. CASE RenameFails(r)
    BY <1>8 DEF RenameFails, Goto
  <1>9. CASE DeleteLevels(r)
    BY <1>9 DEF DeleteLevels, Goto
  <1>10. CASE DeleteLevelsFails(r)
    BY <1>10 DEF DeleteLevelsFails, Goto
  <1>11. CASE CreateLevel(r)
    BY <1>11 DEF CreateLevel
  <1>12. CASE CreateLevelFails(r)
    BY <1>12 DEF CreateLevelFails
  <1>13. CASE LevelsDone(r)
    BY <1>13 DEF LevelsDone, Goto
  <1>14. CASE UseExisting(r)
    BY <1>14 DEF UseExisting, Goto, NextItem, process_level_requirements
  <1>15. CASE MergeFinds(r)
    BY <1>15 DEF MergeFinds, Goto, process_level_requirements
  <1>16. CASE MergeCreates(r)
    BY <1>16 DEF MergeCreates, Goto, process_level_requirements
  <1>17. CASE MergeFails(r)
    BY <1>17 DEF MergeFails, Goto, NextItem, process_level_requirements
  <1>18. CASE Relate(r)
    BY <1>18 DEF Relate, Goto, NextItem, process_level_requirements
  <1>19. CASE LevelDone(r)
    BY <1>19 DEF LevelDone, NextLevel, process_level_requirements
  <1>20. CASE Reply(r)
    BY <1>20 DEF Reply, Goto, process_level_requirements
  <1>21. CASE CheckPerson(r)
    BY <1>21 DEF CheckPerson, Begin, Goto
  <1>22. CASE CreatePerson(r)
    BY <1>22 DEF CreatePerson, Goto
  <1>23. CASE CreatePersonFails(r)
    BY <1>23 DEF CreatePersonFails, Goto
  <1>24. CASE Login(r)
    BY <1>24 DEF Login, Begin, Goto
  <1> QED
    BY <1>1, <1>2, <1>3, <1>4, <1>5, <1>6, <1>7, <1>8, <1>9, <1>10, <1>11, <1>12,
       <1>13, <1>14, <1>15, <1>16, <1>17, <1>18, <1>19, <1>20, <1>21, <1>22, <1>23, <1>24
       DEF RequestStep, create_domain, update_domain, create_levels, process_level_requirements, signup

\* What is passed stays passed.
LEMMA PassedStays ==
    ASSUME TypeOK, NEW r \in Request, process_level_requirements(r),
           NEW i \in Nat, NEW k \in Nat, Passed(r, i, k)
    PROVE  Passed(r, i, k)'
  <1>1. PICK S : Functions(S)
    BY AreFunctions
  <1>2. at[r] \in Nat /\ item[r] \in Nat
    BY TypesOf
  <1>3. \/ at'[r] = at[r] /\ item'[r] = item[r]
        \/ at'[r] = at[r] /\ item'[r] = item[r] + 1
        \/ at'[r] = at[r] + 1 /\ item'[r] = 1
    BY <1>1 DEF process_level_requirements, UseExisting, MergeFinds, MergeCreates, MergeFails, Relate,
                LevelDone, Reply, NextItem, NextLevel, Functions, domainVars
  <1>4. i < at[r] \/ (i = at[r] /\ k < item[r])
    BY DEF Passed
  <1>5. i < at'[r] \/ (i = at'[r] /\ k < item'[r])
    BY <1>2, <1>3, <1>4
  <1> QED
    BY <1>5 DEF Passed

LEMMA LevelsKept ==
    ASSUME RestInv, NEW r \in Request, RequestStep(r)
    PROVE  LevelInv'
  <1>1. /\ TypeOK /\ ControlInv(r) /\ StepOf(r) /\ request' = request /\ LevelInv
        /\ \A u \in Request : u # r => pc'[u] = pc[u]
    BY StepFacts DEF RestInv, RequestInv, Place
  <1>2. WhichStep(r)
    BY <1>1, AreFunctions, StepKnown
  <1>3. pc[r] \in {"levels"} \cup Filling => pc'[r] \in {"levels", "ok"} \cup Filling
    BY <1>2, FillKeepsIds DEF WhichStep, FillStep, Filling
  <1>4. ASSUME NEW l \in levels' PROVE Kind(l.by) \in Domainlike /\ pc'[l.by] \in {"levels", "ok"} \cup Filling
    <2>1. CASE l \in levels
      <3>1. l.by \in Request /\ Kind(l.by) \in Domainlike /\ pc[l.by] \in {"levels", "ok"} \cup Filling
        BY <1>1, <2>1 DEF LevelInv, TypeOK, Level
      <3>2. pc[r] # "ok"
        BY <1>1 DEF StepOf, Ended
      <3> QED
        BY <1>1, <1>3, <3>1, <3>2
    <2>2. CASE l = NewLevel(r) /\ pc[r] = "levels"
      <3>1. l.by = r
        BY <2>2 DEF NewLevel
      <3> QED
        BY <1>1, <1>3, <2>2, <3>1 DEF ControlInv
    <2> QED
      BY <1>1, <2>1, <2>2 DEF StepOf, LevelsStep
  <1> QED
    BY <1>1, <1>4 DEF LevelInv, Kind

\* What RequiresInv says of one relationship.
RequirementInv(e) ==
    LET listed == request[e.by].levels[e.idx][e.item]
        leads == components[e.target]
    IN  /\ e.by \in Request /\ Kind(e.by) \in Domainlike /\ pc[e.by] \in {"ok"} \cup Filling
        /\ e.idx \in DOMAIN ids[e.by] /\ e.level = ids[e.by][e.idx]
        /\ e.idx \in 1..NumLevels(e.by) /\ e.item \in DOMAIN request[e.by].levels[e.idx]
        /\ Passed(e.by, e.idx, e.item)
        /\ leads.label = listed.label
        /\ IF listed.id # None THEN e.target = listed.id ELSE leads.name = listed.new

LEMMA OldRequirement ==
    ASSUME RestInv, NEW r \in Request, RequestStep(r), NEW e \in requires
    PROVE  RequirementInv(e)'
  <1>1. /\ TypeOK /\ ControlInv(r) /\ StepOf(r) /\ request' = request /\ Request' = Request
        /\ \A u \in Request : u # r => UNCHANGED Place(u)
    BY StepFacts DEF RequestInv
  <1>2. RequirementInv(e) /\ e.target \in DOMAIN components
    BY <1>1 DEF RestInv, RequiresInv, RequirementInv, TypeOK
  <1> DEFINE u == e.by
  <1>3. u \in Request /\ Kind(u) \in Domainlike /\ pc[u] \in {"ok"} \cup Filling
    BY <1>2 DEF RequirementInv
  <1>4. pc'[u] \in {"ok"} \cup Filling /\ ids'[u] = ids[u] /\ Passed(u, e.idx, e.item)'
    <2>1. CASE u # r
      BY <1>1, <1>2, <1>3, <2>1 DEF Place, Passed, RequirementInv
    <2>2. CASE u = r
      <3>1. pc[r] \in Filling
        BY <1>1, <1>3, <2>2 DEF StepOf, Ended
      <3>2. process_level_requirements(r)
        BY <1>1, <3>1, AreFunctions, StepKnown DEF WhichStep
      <3>3. FillStep(r)
        BY <3>2, FillKeepsIds
      <3>4. e.idx \in Nat /\ e.item \in Nat
        BY <1>1, <1>2, <1>3, Bodies, SMTT(30) DEF RequirementInv
      <3>5. Passed(r, e.idx, e.item)'
        BY <1>1, <1>2, <2>2, <3>2, <3>4, PassedStays DEF RequirementInv
      <3> QED
        BY <2>2, <3>3, <3>5 DEF FillStep
    <2> QED
      BY <2>1, <2>2
  <1>5. components'[e.target] = components[e.target]
    BY <1>1, <1>2 DEF StepOf, ComponentsStep
  <1>6. Kind(u)' = Kind(u) /\ NumLevels(u)' = NumLevels(u)
    BY <1>1 DEF Kind, NumLevels
  <1> QED
    BY <1>1, <1>2, <1>4, <1>5, <1>6 DEF RequirementInv

LEMMA FreshRequirement ==
    ASSUME RestInv, NEW r \in Request, RequestStep(r), pc[r] = "relate", Matches(r),
           NEW e, e = NewRequirement(r)
    PROVE  RequirementInv(e)'
  <1>1. /\ TypeOK /\ ControlInv(r) /\ ItemInv(r) /\ StepOf(r) /\ request' = request /\ Request' = Request
    BY StepFacts DEF RequestInv
  <1>2. PICK S : Functions(S)
    BY <1>1, AreFunctions
  <1>3. Relate(r)
    BY <1>1, <1>2, StepKnown DEF WhichStep
  <1>4. FillStep(r) /\ Kind(r) \in Domainlike
    BY <1>3, FillKeepsIds DEF process_level_requirements
  <1>5. /\ pc'[r] = "requirements" /\ at'[r] = at[r] /\ item'[r] = item[r] + 1 /\ ids'[r] = ids[r]
        /\ components' = components
    BY <1>2, <1>3, <1>4 DEF Relate, Functions, Goto, NextItem, FillStep
  <1>6. at[r] <= NumLevels(r) /\ HasLevel(r) /\ item[r] <= Len(Requirements(r))
    BY <1>1 DEF ItemInv
  <1>7. /\ at[r] \in 1..NumLevels(r) /\ item[r] \in DOMAIN request[r].levels[at[r]]
        /\ Current(r) = request[r].levels[at[r]][item[r]]
    BY <1>1, <1>4, <1>6, CurrentTyped
  <1>8. at[r] \in DOMAIN ids[r] /\ item[r] \in Nat
    BY <1>1, <1>6, TypesOf DEF HasLevel
  <1>9. components[node_id[r]].label = Current(r).label
    BY DEF Matches
  <1>10. IF Current(r).id # None THEN node_id[r] = Current(r).id
         ELSE components[node_id[r]].name = Current(r).new
    BY <1>1 DEF ItemInv
  <1>11. /\ e.level = ids[r][at[r]] /\ e.target = node_id[r] /\ e.by = r /\ e.idx = at[r]
         /\ e.item = item[r]
    BY DEF NewRequirement, LevelFor
  <1> QED
    <2>1. Passed(e.by, e.idx, e.item)'
      BY <1>5, <1>8, <1>11 DEF Passed
    <2>2. Kind(r)' = Kind(r) /\ NumLevels(r)' = NumLevels(r)
      BY <1>1 DEF Kind, NumLevels
    <2> QED
      BY <1>1, <1>4, <1>5, <1>7, <1>8, <1>9, <1>10, <1>11, <2>1, <2>2 DEF RequirementInv, Filling

LEMMA RequiresKept ==
    ASSUME RestInv, NEW r \in Request, RequestStep(r)
    PROVE  RequiresInv' /\ OnceInv'
  <1>1. StepOf(r) /\ TypeOK /\ RequiresInv /\ OnceInv
    BY StepFacts DEF RestInv
  <1>2. \A e \in requires' : RequirementInv(e)'
    BY <1>1, OldRequirement, FreshRequirement DEF StepOf, LevelsStep
  <1>3. RequiresInv'
    BY <1>2 DEF RequiresInv, RequirementInv
  <1>4. \A e \in requires : ~(e.by = r /\ e.idx = at[r] /\ e.item = item[r])
    <2> TAKE e \in requires
    <2>1. Passed(e.by, e.idx, e.item)
      BY <1>1 DEF RequiresInv
    <2>2. at[r] \in Nat /\ item[r] \in Nat
      BY <1>1, TypesOf
    <2> QED
      BY <2>1, <2>2 DEF Passed
  <1>5. /\ NewRequirement(r).by = r /\ NewRequirement(r).idx = at[r]
        /\ NewRequirement(r).item = item[r]
    BY DEF NewRequirement
  <1>6. \A e \in requires' : e \in requires \/ e = NewRequirement(r)
    BY <1>1 DEF StepOf, LevelsStep
  <1>7. OnceInv'
    <2> SUFFICES ASSUME NEW e \in requires', NEW f \in requires',
                        e.by = f.by, e.idx = f.idx, e.item = f.item
                 PROVE  e = f
      BY DEF OnceInv
    <2>1. CASE e \in requires /\ f \in requires
      BY <1>1, <2>1 DEF OnceInv
    <2>2. CASE e = NewRequirement(r) /\ f \in requires
      BY <1>4, <1>5, <2>2
    <2>3. CASE f = NewRequirement(r) /\ e \in requires
      BY <1>4, <1>5, <2>3
    <2> QED
      BY <1>6, <2>1, <2>2, <2>3
  <1> QED
    BY <1>3, <1>7

LEMMA SeedKept ==
    ASSUME RestInv, NEW r \in Request, RequestStep(r)
    PROVE  SeedInv'
  <1>1. StepOf(r) /\ TypeOK /\ SeedInv
    BY StepFacts DEF RestInv
  <1>2. components \in Seq(ComponentRecord) /\ SeedComponent \in Seq(ComponentRecord)
    BY <1>1, ScenarioAssumption DEF TypeOK, ComponentRecord
  <1>3. /\ components' \in Seq(ComponentRecord) /\ Len(components) <= Len(components')
        /\ \A i \in DOMAIN components : components'[i] = components[i]
    BY <1>1 DEF StepOf, ComponentsStep
  <1>4. DOMAIN SeedComponent \subseteq DOMAIN components /\ Len(SeedComponent) <= Len(components')
    <2>1. /\ Len(components) \in Nat /\ DOMAIN components = 1..Len(components)
          /\ Len(SeedComponent) \in Nat /\ DOMAIN SeedComponent = 1..Len(SeedComponent)
          /\ Len(components') \in Nat
      BY <1>2, <1>3, InSequence
    <2> QED
      BY <1>1, <1>3, <2>1 DEF SeedInv
  <1> QED
    BY <1>1, <1>3, <1>4 DEF SeedInv

\* A level made after an update began is not of a request answered before.
LEMMA UpdateKept ==
    ASSUME RestInv, NEW r \in Request, RequestStep(r)
    PROVE  UpdateReplaces'
  <1>1. /\ TypeOK /\ ControlInv(r) /\ StepOf(r) /\ request' = request /\ Request' = Request
        /\ UpdateReplaces /\ \A u \in Request : u # r => UNCHANGED Place(u)
    BY StepFacts DEF RestInv, RequestInv
  <1>2. WhichStep(r)
    BY <1>1, AreFunctions, StepKnown
  <1>3. \A l \in levels' : l \in levels \/ l.by = r
    BY <1>1 DEF StepOf, LevelsStep, NewLevel
  <1> SUFFICES ASSUME NEW u \in Request, Kind(u) = "update",
                      pc'[u] \in {"levels", "requirements", "merge", "relate", "ok"},
                      NEW l \in levels', l.domain = domain'[u]
               PROVE  l.by \notin before'[u]
    BY <1>1 DEF UpdateReplaces, Kind
  <1>4. CASE u # r
    <2>1. r \notin before[u]
      <3>1. ControlInv(u)
        BY DEF RestInv, RequestInv
      <3> QED
        BY <1>1, <3>1 DEF ControlInv, StepOf
    <2>2. pc[u] = pc'[u] /\ before'[u] = before[u] /\ domain'[u] = domain[u]
      BY <1>1, <1>4 DEF Place
    <2> QED
      BY <1>1, <1>3, <2>1, <2>2 DEF UpdateReplaces
  <1>5. CASE u = r
    <2>1. r \notin before'[r]
      BY BeforeAnswered
    <2>2. domain'[r] = domain[r]
      BY <1>1, <1>5 DEF StepOf, PlaceStep, ControlInv
    <2>3. CASE DeleteLevels(r)
      <3>1. l \in levels /\ l.domain # domain[r]
        BY <2>3 DEF DeleteLevels, DeleteOldLevels, OldLevels
      <3> QED
        BY <1>5, <2>2, <3>1
    <2>4. CASE pc[r] \in {"levels"} \cup Filling /\ before'[r] = before[r]
      BY <1>1, <1>3, <1>5, <2>1, <2>2, <2>4 DEF UpdateReplaces, Filling
    <2> QED
      BY <1>2, <1>5, <2>3, <2>4 DEF WhichStep, Filling
  <1> QED
    BY <1>4, <1>5

-----------------------------------------------------------------------------
(* The persons after the step. *)

LEMMA PersonsKept ==
    ASSUME RestInv, NEW r \in Request, RequestStep(r)
    PROVE  PersonInv'
  <1>1. /\ TypeOK /\ ControlInv(r) /\ StepOf(r) /\ request' = request /\ Request' = Request
        /\ PersonInv /\ \A u \in Request : u # r => pc'[u] = pc[u]
    BY StepFacts DEF RestInv, RequestInv, Place
  <1>2. WhichStep(r)
    BY <1>1, AreFunctions, StepKnown
  <1>3. PICK S : Functions(S)
    BY <1>1, AreFunctions
  <1>4. pc[r] \notin {"ok", "err"}
    BY <1>1 DEF StepOf, Ended
  <1>5. ASSUME NEW p \in persons'
        PROVE  /\ p.by \in Request /\ Kind(p.by) = "signup"
               /\ p = PersonOf(p.by) /\ pc'[p.by] \in {"ok", "err"}
    <2>1. CASE p \in persons
      BY <1>1, <1>4, <2>1 DEF PersonInv
    <2>2. CASE pc[r] = "hash" /\ p = PersonOf(r)
      <3>1. p.by = r
        BY <2>2 DEF PersonOf
      <3>2. pc'[r] \in {"ok", "err"}
        BY <1>2, <1>3, <2>2 DEF WhichStep, CreatePerson, CreatePersonFails, Functions, Goto
      <3> QED
        BY <1>1, <2>2, <3>1, <3>2 DEF ControlInv
    <2> QED
      BY <1>1, <2>1, <2>2 DEF StepOf, PersonsStep
  <1>6. ASSUME NEW u \in Request, Kind(u) = "signup", pc'[u] = "ok" PROVE PersonOf(u) \in persons'
    <2>1. CASE u # r
      BY <1>1, <1>6, <2>1 DEF PersonInv, StepOf, PersonsStep
    <2>2. CASE u = r
      <3>1. NewPerson(r)
        BY <1>2, <1>6, <2>2 DEF WhichStep, CreatePerson
      <3> QED
        BY <2>2, <3>1 DEF NewPerson, PersonOf
    <2> QED
      BY <2>1, <2>2
  <1> QED
    BY <1>1, <1>5, <1>6 DEF PersonInv, Kind, PersonOf

LEMMA SignupKept ==
    ASSUME RestInv, NEW r \in Request, RequestStep(r)
    PROVE  SignupInv'
  <1>1. /\ TypeOK /\ ControlInv(r) /\ StepOf(r) /\ request' = request /\ Request' = Request
        /\ PersonInv /\ SignupInv /\ \A u \in Request : u # r => UNCHANGED Place(u)
    BY StepFacts DEF RestInv, RequestInv
  <1>2. WhichStep(r)
    BY <1>1, AreFunctions, StepKnown
  <1>3. ASSUME NEW u \in Request, HasPerson(u)' PROVE HasPerson(u) \/ (u = r /\ pc[r] = "hash")
    BY <1>1, <1>3 DEF HasPerson, StepOf, PersonsStep, PersonOf
  <1>4. ~HasPerson(r)
    BY <1>1 DEF HasPerson, PersonInv, StepOf, Ended
  <1> SUFFICES ASSUME NEW s \in Request, NEW q \in Request, pc'[s] = "hash" \/ HasPerson(s)',
                      q \in before'[s], HasPerson(q)'
               PROVE  request[q].username # request[s].username
    BY <1>1 DEF SignupInv
  <1>5. q # r
    <2>1. CASE s = r
      BY <2>1, BeforeAnswered
    <2>2. CASE s # r
      <3>1. ControlInv(s) /\ before'[s] = before[s]
        BY <1>1, <2>2 DEF RestInv, RequestInv, Place
      <3> QED
        BY <1>1, <3>1 DEF ControlInv, StepOf
    <2> QED
      BY <2>1, <2>2
  <1>6. HasPerson(q)
    BY <1>3, <1>5
  <1>7. CASE s # r
    <2>1. pc[s] = pc'[s] /\ before'[s] = before[s]
      BY <1>1, <1>7 DEF Place
    <2>2. pc[s] = "hash" \/ HasPerson(s)
      BY <1>3, <1>7, <2>1
    <2> QED
      BY <1>1, <1>6, <2>1, <2>2 DEF SignupInv
  <1>8. CASE s = r /\ pc[r] = "hash"
    <2>1. before'[r] = before[r]
      BY <1>2, <1>8 DEF WhichStep, CreatePerson, CreatePersonFails
    <2> QED
      BY <1>1, <1>6, <1>8, <2>1 DEF SignupInv
  <1>9. CASE s = r /\ pc[r] # "hash"
    <2>1. CheckPerson(r) /\ pc'[r] = "hash"
      BY <1>2, <1>3, <1>4, <1>9 DEF WhichStep
    <2>2. ~PersonTaken(r)
      BY <1>1, <2>1 DEF CheckPerson, Goto, TypeOK
    <2>3. PICK p \in persons : p.by = q
      BY <1>6 DEF HasPerson
    <2>4. p = PersonOf(q)
      BY <1>1, <2>3 DEF PersonInv
    <2>5. p.username = request[q].username
      BY <2>4 DEF PersonOf
    <2> QED
      BY <1>9, <2>2, <2>5 DEF PersonTaken
  <1> QED
    BY <1>7, <1>8, <1>9

\* Login is refused when two persons have the name, or the passwords differ.
LEMMA LoginKept ==
    ASSUME RestInv, NEW r \in Request, RequestStep(r)
    PROVE  LoginInv'
  <1>1. /\ TypeOK /\ ControlInv(r) /\ StepOf(r) /\ request' = request /\ Request' = Request
        /\ PersonInv /\ LoginInv /\ \A u \in Request : u # r => UNCHANGED Place(u)
    BY StepFacts DEF RestInv, RequestInv
  <1>2. WhichStep(r)
    BY <1>1, AreFunctions, StepKnown
  <1>3. \A u \in Request : HasPerson(u) => HasPerson(u)'
    BY <1>1 DEF HasPerson, StepOf, PersonsStep
  <1> SUFFICES ASSUME NEW l \in Request, NEW s \in Request,
                      Kind(l) = "login", pc'[l] = "refused",
                      Kind(s) = "signup", pc'[s] = "ok", s \in before'[l],
                      request[s].username = request[l].username,
                      request[s].password = request[l].password
               PROVE  \E q \in Request \ {s} :
                          HasPerson(q)' /\ request[q].username = request[s].username
    BY <1>1 DEF LoginInv, Kind
  <1>4. s # r /\ pc[s] = "ok"
    <2>1. s # r
      <3>1. CASE l = r
        BY <3>1, BeforeAnswered
      <3>2. CASE l # r
        <4>1. ControlInv(l) /\ before'[l] = before[l]
          BY <1>1, <3>2 DEF RestInv, RequestInv, Place
        <4> QED
          BY <1>1, <4>1 DEF ControlInv, StepOf
      <3> QED
        BY <3>1, <3>2
    <2> QED
      BY <1>1, <2>1 DEF Place
  <1>5. CASE l # r
    <2>1. pc[l] = "refused" /\ s \in before[l]
      BY <1>1, <1>5 DEF Place
    <2>2. \E q \in Request \ {s} : HasPerson(q) /\ request[q].username = request[s].username
      BY <1>1, <1>4, <2>1 DEF LoginInv
    <2> QED
      BY <1>3, <2>2
  <1>6. CASE l = r
    <2>1. Login(r) /\ pc'[r] = "refused"
      BY <1>2, <1>6 DEF WhichStep
    <2> DEFINE rows == {p \in persons : p.username = request[r].username}
    <2>2. ~(Cardinality(rows) = 1 /\ \A p \in rows : p.password = request[r].password)
      BY <1>1, <2>1 DEF Login, Goto, TypeOK
    <2>3. PersonOf(s) \in rows
      <3>1. PersonOf(s) \in persons
        BY <1>1, <1>4 DEF PersonInv
      <3>2. PersonOf(s).username = request[s].username
        BY DEF PersonOf
      <3> QED
        BY <1>6, <3>1, <3>2
    <2>4. rows # {PersonOf(s)}
      <3>1. Cardinality({PersonOf(s)}) = 1
        BY FS_Singleton
      <3>2. PersonOf(s).password = request[r].password
        BY <1>6 DEF PersonOf
      <3> QED
        BY <2>2, <3>1, <3>2
    <2>5. PICK p \in rows : p # PersonOf(s)
      BY <2>3, <2>4
    <2>6. p \in persons /\ p.by \in Request /\ p = PersonOf(p.by) /\ p.by # s
      BY <1>1, <2>5 DEF PersonInv
    <2>7. request[p.by].username = request[s].username
      <3>1. p.username = request[p.by].username
        BY <2>6 DEF PersonOf
      <3> QED
        BY <1>6, <2>5, <3>1
    <2>8. HasPerson(p.by)
      BY <2>6 DEF HasPerson
    <2> QED
      BY <1>3, <2>6, <2>7, <2>8
  <1> QED
    BY <1>5, <1>6

-----------------------------------------------------------------------------
(* The invariant. *)

LEMMA RestInit ==
    ASSUME Init PROVE RestInv
  <1> USE DEF Init
  <1>1. \A r \in Request : Kind(r) = "update" => request[r].domain \in Nat
    BY UpdateDomain DEF Request, Kind
  <1>2. TypeOK
    <2>1. domain \in [Request -> Nat]
      BY <1>1
    <2>2. /\ pc \in [Request -> Step \cup Ended] /\ before \in [Request -> SUBSET Request]
          /\ failed \in [Request -> BOOLEAN] /\ ids \in [Request -> Seq(Level)]
      BY DEF Step
    <2>3. /\ skipped \in [Request -> SUBSET (Nat \ {0})] /\ at \in [Request -> Nat \ {0}]
          /\ item \in [Request -> Nat \ {0}] /\ node_id \in [Request -> Nat]
      OBVIOUS
    <2> QED
      BY <2>1, <2>2, <2>3, ScenarioAssumption DEF TypeOK
  <1>3. ASSUME NEW r \in Request PROVE RequestInv(r)
    <2>1. pc[r] = "start" /\ at[r] = 1 /\ item[r] = 1 /\ ids[r] = << >> /\ skipped[r] = {} /\ before[r] = {}
      OBVIOUS
    <2>2. ControlInv(r)
      BY <2>1 DEF ControlInv, Filling
    <2>3. IdsInv(r)
      BY <2>1 DEF IdsInv, Filling
    <2>4. ItemInv(r) /\ DoneInv(r)
      BY <2>1 DEF ItemInv, DoneInv, Filling
    <2> QED
      BY <2>2, <2>3, <2>4 DEF RequestInv
  <1>4. LevelInv /\ RequiresInv /\ OnceInv /\ UpdateReplaces
    BY DEF LevelInv, RequiresInv, OnceInv, UpdateReplaces
  <1>5. SeedInv
    BY ScenarioAssumption DEF SeedInv
  <1>6. PersonInv /\ SignupInv /\ LoginInv
    BY DEF PersonInv, SignupInv, LoginInv, HasPerson
  <1> QED
    BY <1>2, <1>3, <1>4, <1>5, <1>6 DEF RestInv

LEMMA Unmoved ==
    ASSUME RestInv, UNCHANGED vars PROVE RestInv'
  <1> USE DEF vars, requestVars, domainVars, graphVars
  <1>1. Request' = Request /\ Level' = Level
    BY DEF Request, Level
  <1>2. TypeOK'
    BY <1>1 DEF RestInv, TypeOK
  <1>3. ASSUME NEW r \in Request PROVE RequestInv(r)'
    <2>1. /\ Kind(r)' = Kind(r) /\ Valid(r)' = Valid(r) /\ NumLevels(r)' = NumLevels(r)
          /\ HasLevel(r)' = HasLevel(r) /\ Requirements(r)' = Requirements(r)
          /\ Current(r)' = Current(r) /\ Undisturbed(r)' = Undisturbed(r)
      BY DEF Kind, Valid, NumLevels, HasLevel, Requirements, Current, Undisturbed
    <2>2. ControlInv(r)'
      BY <2>1 DEF RestInv, RequestInv, ControlInv
    <2>3. IdsInv(r)'
      BY <2>1 DEF RestInv, RequestInv, IdsInv
    <2>4. ItemInv(r)'
      BY <2>1 DEF RestInv, RequestInv, ItemInv
    <2>5. DoneInv(r)'
      <3>1. DoneInv(r)
        BY DEF RestInv, RequestInv
      <3>2. Undisturbed(r)' => Undisturbed(r)
        BY DEF Undisturbed
      <3> SUFFICES ASSUME Kind(r) \in Domainlike, pc[r] \in {"ok"} \cup Filling, Undisturbed(r)',
                          NEW i \in 1..NumLevels(r), NEW k \in DOMAIN request[r].levels[i],
                          Passed(r, i, k), Satisfiable(request[r].levels[i][k])
                   PROVE  \E e \in requires : e.by = r /\ e.idx = i /\ e.item = k
        BY DEF DoneInv, Kind, NumLevels, Passed, Satisfiable
      <3> QED
        BY <3>1, <3>2 DEF DoneInv
    <2> QED
      BY <2>2, <2>3, <2>4, <2>5 DEF RequestInv
  <1>4. LevelInv' /\ OnceInv' /\ SeedInv'
    BY DEF RestInv, LevelInv, OnceInv, SeedInv, Kind
  <1>5. RequiresInv'
    BY <1>1 DEF RestInv, RequiresInv, Kind, NumLevels, Passed
  <1>6. UpdateReplaces'
    BY <1>1 DEF RestInv, UpdateReplaces, Kind
  <1>7. PersonInv'
    BY <1>1 DEF RestInv, PersonInv, PersonOf, Kind
  <1>8. SignupInv' /\ LoginInv'
    BY <1>1 DEF RestInv, SignupInv, LoginInv, HasPerson, Kind
  <1> QED
    BY <1>1, <1>2, <1>3, <1>4, <1>5, <1>6, <1>7, <1>8 DEF RestInv

LEMMA RestStep ==
    ASSUME RestInv, [Next]_vars PROVE RestInv'
  <1>1. ASSUME NEW r \in Request, RequestStep(r) PROVE RestInv'
    <2>1. Request' = Request /\ TypeOK'
      BY <1>1, StepFacts DEF StepOf
    <2>2. \A u \in Request : RequestInv(u)'
      BY <1>1, OwnKeeps, OtherKeeps
    <2>3. LevelInv' /\ RequiresInv' /\ OnceInv' /\ SeedInv' /\ UpdateReplaces'
      BY <1>1, LevelsKept, RequiresKept, SeedKept, UpdateKept
    <2>4. PersonInv' /\ SignupInv' /\ LoginInv'
      BY <1>1, PersonsKept, SignupKept, LoginKept
    <2> QED
      BY <2>1, <2>2, <2>3, <2>4 DEF RestInv
  <1>2. CASE UNCHANGED vars
    BY <1>2, Unmoved
  <1>3. CASE Next
    BY <1>1, <1>2, <1>3 DEF Next, RequestStep, AllAnswered
  <1> QED
    BY <1>2, <1>3

LEMMA RestInvariant ==
    Spec => []RestInv
  BY RestInit, RestStep, PTL DEF Spec

-----------------------------------------------------------------------------
(* The theorems. *)

\* TypeOK: in particular every level belongs to a domain that exists, every
\* requirement to a level and a component that exist, whatever interleaves.
THEOREM RestTypeCorrect ==
    Spec => []TypeOK
  <1>1. RestInv => TypeOK
    BY DEF RestInv
  <1> QED
    BY <1>1, RestInvariant, PTL

\* RequirementOnItsLevel: process_level_requirements, which addresses the levels
\* by their positions in level_element_ids, puts a requirement on the level of
\* its request that listed it, or on a later one, by as many levels as could
\* not be created before it.
THEOREM RequirementsPlaced ==
    Spec => []RequirementOnItsLevel
  <1>1. RestInv => RequirementOnItsLevel
    <2> SUFFICES ASSUME RestInv, NEW e \in requires
                 PROVE  LET listed == request[e.by].levels[e.idx][e.item]
                            leads == components[e.target]
                        IN  /\ e.level.by = e.by
                            /\ e.idx <= e.level.idx
                            /\ e.level.idx - e.idx <= Cardinality(skipped[e.by] \cap 1..e.level.idx)
                            /\ leads.label = listed.label
                            /\ IF listed.id # None THEN e.target = listed.id ELSE leads.name = listed.new
      BY DEF RequirementOnItsLevel
    <2>1. RequirementInv(e)
      BY DEF RestInv, RequiresInv, RequirementInv
    <2>2. e.by \in Request /\ e.idx \in DOMAIN ids[e.by] /\ e.level = ids[e.by][e.idx]
      BY <2>1 DEF RequirementInv
    <2>3. IdsInv(e.by) /\ TypeOK
      BY <2>2 DEF RestInv, RequestInv
    <2>4. /\ e.level.by = e.by /\ e.idx <= e.level.idx
          /\ e.level.idx - e.idx = Cardinality(skipped[e.by] \cap 1..e.level.idx)
      BY <2>2, <2>3 DEF IdsInv
    <2>5. e.level.idx \in Nat /\ e.idx \in Nat
      BY <2>2, <2>3, TypesOf, PositionTyped
    <2>6. e.level.idx - e.idx <= Cardinality(skipped[e.by] \cap 1..e.level.idx)
      <3> DEFINE d == e.level.idx - e.idx
      <3>1. d \in Int
        BY <2>5
      <3> HIDE DEF d
      <3>2. d <= d
        BY <3>1
      <3> QED
        BY <2>4, <3>2 DEF d
    <2> QED
      BY <2>1, <2>4, <2>6 DEF RequirementInv
  <1> QED
    BY <1>1, RestInvariant, PTL

\* UpdateReplaces: once update_domain has deleted the old levels, the domain has
\* no level of a request that was answered before, however many requests run.
THEOREM UpdatesReplace ==
    Spec => []UpdateReplaces
  <1>1. RestInv => UpdateReplaces
    BY DEF RestInv
  <1> QED
    BY <1>1, RestInvariant, PTL

\* ErrorAddsNothing: create_domain and update_domain return an error only before
\* the first level is created.
THEOREM ErrorsAddNothing ==
    Spec => []ErrorAddsNothing
  <1>1. RestInv => ErrorAddsNothing
    <2> SUFFICES ASSUME RestInv, NEW r \in Request, pc[r] \in {"err", "refused"}
                 PROVE  (\A l \in levels : l.by # r) /\ (\A e \in requires : e.by # r)
      BY DEF ErrorAddsNothing
    <2> QED
      BY DEF RestInv, LevelInv, RequiresInv, Filling
  <1> QED
    BY <1>1, RestInvariant, PTL

\* UndisturbedIsComplete: a create or update that no failed query and no other
\* update disturbed has each of its levels with each requirement that can be
\* met, exactly once.
THEOREM UndisturbedCompletes ==
    Spec => []UndisturbedIsComplete
  <1>1. ASSUME RestInv, NEW r \in Request, pc[r] = "ok", Kind(r) \in Domainlike, Undisturbed(r)
        PROVE  /\ NumLevels(r) \in Nat /\ DOMAIN ids[r] = 1..NumLevels(r)
               /\ \A i \in 1..NumLevels(r) :
                     ids[r][i] = [by |-> r, idx |-> i, domain |-> domain[r]] /\ ids[r][i] \in levels
    <2>1. TypeOK /\ IdsInv(r)
      BY <1>1 DEF RestInv, RequestInv
    <2>2. NumLevels(r) \in Nat /\ ids[r] \in Seq(Level) /\ Len(ids[r]) \in Nat
          /\ DOMAIN ids[r] = 1..Len(ids[r])
      BY <1>1, <2>1, TypesOf, Bodies
    <2>3. skipped[r] = {}
      BY <1>1, <2>1 DEF IdsInv, Undisturbed
    <2>4. Len(ids[r]) = NumLevels(r)
      <3>1. Len(ids[r]) + Cardinality(skipped[r]) = NumLevels(r)
        BY <1>1, <2>1 DEF IdsInv
      <3>2. Cardinality(skipped[r]) = 0
        BY <2>3, FS_EmptySet
      <3> QED
        BY <2>2, <3>1, <3>2
    <2>5. ASSUME NEW i \in DOMAIN ids[r]
          PROVE  ids[r][i] = [by |-> r, idx |-> i, domain |-> domain[r]]
      <3>1. /\ ids[r][i].by = r /\ ids[r][i].domain = domain[r]
            /\ ids[r][i].idx - i = Cardinality(skipped[r] \cap 1..ids[r][i].idx)
        BY <2>1 DEF IdsInv
      <3>2. Cardinality(skipped[r] \cap 1..ids[r][i].idx) = 0
        <4>1. skipped[r] \cap 1..ids[r][i].idx = {}
          BY <2>3
        <4> QED
          BY <4>1, FS_EmptySet
      <3>3. ids[r][i] \in Level /\ ids[r][i].idx \in Nat /\ i \in Nat
        BY <2>2, InSequence, PositionTyped
      <3>4. ids[r][i].idx = i
        BY <3>1, <3>2, <3>3
      <3> QED
        BY <3>1, <3>3, <3>4 DEF Level
    <2> QED
      BY <1>1, <2>2, <2>4, <2>5 DEF Undisturbed
  <1>2. RestInv => UndisturbedIsComplete
    <2> SUFFICES ASSUME RestInv, NEW r \in Request, pc[r] = "ok", Kind(r) \in Domainlike,
                        Undisturbed(r), NEW i \in 1..NumLevels(r)
                 PROVE  /\ [by |-> r, idx |-> i, domain |-> domain[r]] \in levels
                        /\ \A k \in DOMAIN request[r].levels[i] :
                              Satisfiable(request[r].levels[i][k]) =>
                                 Cardinality({e \in requires :
                                    e.by = r /\ e.level.idx = i /\ e.item = k}) = 1
      BY DEF UndisturbedIsComplete, Domainlike
    <2>1. /\ NumLevels(r) \in Nat /\ DOMAIN ids[r] = 1..NumLevels(r)
          /\ \A j \in 1..NumLevels(r) :
                ids[r][j] = [by |-> r, idx |-> j, domain |-> domain[r]] /\ ids[r][j] \in levels
      BY <1>1
    <2>2. TypeOK /\ ItemInv(r) /\ DoneInv(r) /\ RequiresInv /\ OnceInv /\ at[r] \in Nat
      BY TypesOf DEF RestInv, RequestInv
    <2>3. at[r] > NumLevels(r)
      BY <2>2 DEF ItemInv
    <2>4. ASSUME NEW e \in requires, e.by = r PROVE e.level.idx = e.idx
      <3>1. e.idx \in DOMAIN ids[r] /\ e.level = ids[r][e.idx]
        BY <2>2, <2>4 DEF RequiresInv
      <3>2. e.level = [by |-> r, idx |-> e.idx, domain |-> domain[r]]
        BY <2>1, <3>1
      <3> QED
        BY <3>2
    <2>5. ASSUME NEW k \in DOMAIN request[r].levels[i], Satisfiable(request[r].levels[i][k])
          PROVE  Cardinality({e \in requires : e.by = r /\ e.level.idx = i /\ e.item = k}) = 1
      <3>1. Passed(r, i, k)
        BY <2>1, <2>2, <2>3 DEF Passed
      <3>2. PICK f \in requires : f.by = r /\ f.idx = i /\ f.item = k
        BY <2>2, <2>5, <3>1 DEF DoneInv
      <3>3. \A e \in requires : e.by = r /\ e.level.idx = i /\ e.item = k => e = f
        BY <2>2, <2>4, <3>2 DEF OnceInv
      <3>4. f.level.idx = i
        BY <2>4, <3>2
      <3>5. {e \in requires : e.by = r /\ e.level.idx = i /\ e.item = k} = {f}
        BY <3>2, <3>3, <3>4
      <3> QED
        BY <3>5, FS_Singleton
    <2> QED
      BY <2>1, <2>5
  <1> QED
    BY <1>2, RestInvariant, PTL

\* SignedUpCanLogIn: who was given a token by signup is refused by login only
\* if another signup with the name overlapped; signup checks the name and
\* creates the person in two queries.
THEOREM SignupsLogIn ==
    Spec => []SignedUpCanLogIn
  <1>1. RestInv => SignedUpCanLogIn
    <2> SUFFICES ASSUME RestInv, NEW s \in Request, NEW l \in Request,
                        Kind(s) = "signup", Kind(l) = "login",
                        s \in before[l], pc[s] = "ok",
                        request[s].username = request[l].username,
                        request[s].password = request[l].password,
                        pc[l] = "refused"
                 PROVE  \E q \in Request \ {s} :
                           /\ Kind(q) = "signup" /\ request[q].username = request[s].username
                           /\ Overlap(s, q)
      BY DEF SignedUpCanLogIn
    <2>1. PersonInv /\ SignupInv /\ LoginInv
      BY DEF RestInv
    <2>2. PICK q \in Request \ {s} : HasPerson(q) /\ request[q].username = request[s].username
      BY <2>1 DEF LoginInv
    <2>3. HasPerson(s)
      <3>1. PersonOf(s) \in persons /\ PersonOf(s).by = s
        BY <2>1 DEF PersonInv, PersonOf
      <3> QED
        BY <3>1 DEF HasPerson
    <2>4. Kind(q) = "signup" /\ pc[q] # "start"
      BY <2>1, <2>2 DEF PersonInv, HasPerson
    <2>5. s \notin before[q] /\ q \notin before[s]
      BY <2>1, <2>2, <2>3 DEF SignupInv
    <2> QED
      BY <2>2, <2>4, <2>5 DEF Overlap
  <1> QED
    BY <1>1, RestInvariant, PTL
=============================================================================
