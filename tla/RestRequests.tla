---------------------------- MODULE RestRequests ----------------------------
(***************************************************************************)
(* Requests to the REST API that write to the graph in several queries:    *)
(* create_domain and update_domain of the graph service, signup of the     *)
(* authentication handlers, and login, which reads what signup wrote.      *)
(*                                                                         *)
(* No request holds a transaction: each query is a step of its own, it may *)
(* fail before or after it took effect, and the queries of concurrent      *)
(* requests interleave.  No uniqueness constraint is declared.             *)
(***************************************************************************)
EXTENDS Naturals, Sequences, FiniteSets

CONSTANTS
    Scenarios,       \* sets of concurrent requests: functions to request bodies
    SeedDomain,      \* the names of the domains there are beforehand
    SeedComponent,   \* the components there are beforehand
    None             \* a field that is not given

Label == {"Knowledge", "Skill", "Trait", "Milestone"}

VARIABLES
    request,      \* the requests: their bodies, by name
    pc,           \* what each does next, or its answer
    before,       \* the requests that had been answered when it began
    failed,       \* has a query of it failed?
    domain,       \* the element id of the domain it works on
    ids,          \* level_element_ids
    skipped,      \* the levels whose query failed
    at, item,     \* the level and the requirement it is at
    node_id,      \* the component of the requirement at hand
    domains,      \* the names of the Domain nodes; an element id is a position
    levels,       \* the Domain_Level nodes, each linked to its domain
    components,   \* the component nodes; an element id is a position
    requires,     \* the REQUIRES_* relationships
    persons       \* the Person nodes

requestVars == <<request, pc, before, failed>>
domainVars == <<domain, ids, skipped, at, item, node_id>>
graphVars == <<domains, levels, components, requires, persons>>
vars == <<requestVars, domainVars, graphVars>>

Request == DOMAIN request
Kind(r) == request[r].kind

\* A requirement names an existing node, or describes a new one, or neither.
Requirement == [label : Label, id : Nat \cup {None}, new : STRING \cup {None}]
Name == STRING \cup {None}

CreateBody == [kind : {"create"}, name : Name, levels : Seq(Seq(Requirement))]
UpdateBody == [kind : {"update"}, domain : Nat, name : Name, levels : Seq(Seq(Requirement))]

Ended == {"ok", "refused", "err"}
Step == {"start", "create", "rename", "delete", "levels", "requirements", "merge", "relate", "hash"}

ASSUME ScenarioAssumption ==
    /\ SeedDomain \in Seq(STRING)
    /\ SeedComponent \in Seq([label : Label, name : STRING])
    /\ \A s \in Scenarios : \A r \in DOMAIN s :
        s[r] \in CreateBody \cup UpdateBody \/ s[r].kind \in {"signup", "login"}

Level == [by : Request, idx : Nat, domain : Nat]

TypeOK ==
    /\ request \in Scenarios
    /\ pc \in [Request -> Step \cup Ended]
    /\ before \in [Request -> SUBSET Request]
    /\ failed \in [Request -> BOOLEAN]
    /\ domain \in [Request -> Nat]
    /\ ids \in [Request -> Seq(Level)] /\ skipped \in [Request -> SUBSET (Nat \ {0})]
    /\ at \in [Request -> Nat \ {0}] /\ item \in [Request -> Nat \ {0}]
    /\ node_id \in [Request -> Nat]
    /\ domains \in Seq(STRING)
    /\ levels \subseteq Level /\ \A l \in levels : l.domain \in DOMAIN domains
    /\ components \in Seq([label : Label, name : STRING])
    /\ \A e \in requires : e.level \in levels /\ e.target \in DOMAIN components
    /\ \A p \in persons : p.by \in Request

Init ==
    /\ request \in Scenarios
    /\ pc = [r \in Request |-> "start"]
    /\ before = [r \in Request |-> {}]
    /\ failed = [r \in Request |-> FALSE]
    /\ domain = [r \in Request |-> IF Kind(r) = "update" THEN request[r].domain ELSE 0]
    /\ ids = [r \in Request |-> << >>]
    /\ skipped = [r \in Request |-> {}]
    /\ at = [r \in Request |-> 1]
    /\ item = [r \in Request |-> 1]
    /\ node_id = [r \in Request |-> 0]
    /\ domains = SeedDomain
    /\ levels = {}
    /\ components = SeedComponent
    /\ requires = {}
    /\ persons = {}

-----------------------------------------------------------------------------
(* Beginning and failing. *)

Goto(r, step) == pc' = [pc EXCEPT ![r] = step]
Begin(r) == before' = [before EXCEPT ![r] = {q \in Request : pc[q] \in Ended}]
QueryFails(r) == failed' = [failed EXCEPT ![r] = TRUE]

Valid(r) ==
    IF Kind(r) \in {"create", "update"}
    THEN request[r].name # None /\ request[r].levels # << >>
    ELSE request[r].username # None

Invalid(r) ==
    /\ pc[r] = "start" /\ ~Valid(r)
    /\ Goto(r, "err")
    /\ Begin(r)
    /\ UNCHANGED <<request, failed, domainVars, graphVars>>

\* The first query of a request fails.
FirstQueryFails(r) ==
    /\ pc[r] = "start" /\ Valid(r)
    /\ Goto(r, "err")
    /\ Begin(r)
    /\ QueryFails(r)
    /\ UNCHANGED <<request, domainVars, graphVars>>

-----------------------------------------------------------------------------
(* create_domain, up to its levels. *)

NameTaken(name) == \E d \in DOMAIN domains : domains[d] = name

\* A failure to fetch the row counts as no row, and the name as free.
CheckName(r) ==
    /\ pc[r] = "start" /\ Valid(r) /\ Kind(r) = "create"
    /\ \/ NameTaken(request[r].name) /\ Goto(r, "refused") /\ UNCHANGED failed
       \/ ~NameTaken(request[r].name) /\ Goto(r, "create") /\ UNCHANGED failed
       \/ Goto(r, "create") /\ QueryFails(r)
    /\ Begin(r)
    /\ UNCHANGED <<request, domainVars, graphVars>>

CreateDomain(r) ==
    /\ pc[r] = "create"
    /\ domains' = Append(domains, request[r].name)
    /\ domain' = [domain EXCEPT ![r] = Len(domains) + 1]
    /\ Goto(r, "levels")
    /\ UNCHANGED <<request, before, failed, ids, skipped, at, item, node_id,
                   levels, components, requires, persons>>

CreateDomainFails(r) ==
    /\ pc[r] = "create"
    /\ domains' \in {domains, Append(domains, request[r].name)}
    /\ QueryFails(r)
    /\ Goto(r, "err")
    /\ UNCHANGED <<request, before, domainVars, levels, components, requires, persons>>

-----------------------------------------------------------------------------
(* update_domain, up to its levels. *)

\* A failure to fetch the row counts as no such domain.  The deletion of user
\* progress, next in the code, matches nodes labelled User, of which there are
\* none (signup creates Person:L3), and its failure is ignored: no step here.
VerifyDomain(r) ==
    /\ pc[r] = "start" /\ Valid(r) /\ Kind(r) = "update"
    /\ \/ domain[r] \in DOMAIN domains /\ Goto(r, "rename") /\ UNCHANGED failed
       \/ domain[r] \notin DOMAIN domains /\ Goto(r, "refused") /\ UNCHANGED failed
       \/ Goto(r, "refused") /\ QueryFails(r)
    /\ Begin(r)
    /\ UNCHANGED <<request, domainVars, graphVars>>

RenameDomain(r) ==
    /\ pc[r] = "rename"
    /\ domains' = [domains EXCEPT ![domain[r]] = request[r].name]
    /\ Goto(r, "delete")
    /\ UNCHANGED <<request, before, failed, domainVars, levels, components, requires, persons>>

RenameFails(r) ==
    /\ pc[r] = "rename"
    /\ domains' \in {domains, [domains EXCEPT ![domain[r]] = request[r].name]}
    /\ QueryFails(r)
    /\ Goto(r, "err")
    /\ UNCHANGED <<request, before, domainVars, levels, components, requires, persons>>

OldLevels(r) == {l \in levels : l.domain = domain[r]}

\* Mutant of DeleteOldLevels: the relationships of the levels stay.
DeleteOldLevelsOnly(r) == levels' = levels \ OldLevels(r) /\ UNCHANGED requires

\* DETACH DELETE.
DeleteOldLevels(r) ==
    /\ levels' = levels \ OldLevels(r)
    /\ requires' = {e \in requires : e.level \notin OldLevels(r)}

DeleteLevels(r) ==
    /\ pc[r] = "delete"
    /\ DeleteOldLevels(r)
    /\ Goto(r, "levels")
    /\ UNCHANGED <<request, before, failed, domainVars, domains, components, persons>>

\* Mutant of DeleteLevelsFails: the failure is only logged.
DeleteLevelsFailureLogged(r) ==
    /\ pc[r] = "delete"
    /\ QueryFails(r)
    /\ Goto(r, "levels")
    /\ UNCHANGED <<request, before, domainVars, graphVars>>

DeleteLevelsFails(r) ==
    /\ pc[r] = "delete"
    /\ DeleteOldLevels(r) \/ UNCHANGED <<levels, requires>>
    /\ QueryFails(r)
    /\ Goto(r, "err")
    /\ UNCHANGED <<request, before, domainVars, domains, components, persons>>

-----------------------------------------------------------------------------
(* The levels, of both. *)

NumLevels(r) == Len(request[r].levels)
NewLevel(r) == [by |-> r, idx |-> at[r], domain |-> domain[r]]

CreateLevel(r) ==
    /\ pc[r] = "levels" /\ at[r] <= NumLevels(r)
    /\ levels' = levels \cup {NewLevel(r)}
    /\ ids' = [ids EXCEPT ![r] = Append(@, NewLevel(r))]
    /\ at' = [at EXCEPT ![r] = @ + 1]
    /\ UNCHANGED <<requestVars, domain, skipped, item, node_id,
                   domains, components, requires, persons>>

\* Mutant of CreateLevelFails: the request returns the error.
CreateLevelErrReturned(r) ==
    /\ pc[r] = "levels" /\ at[r] <= NumLevels(r)
    /\ QueryFails(r)
    /\ Goto(r, "err")
    /\ UNCHANGED <<request, before, domainVars, graphVars>>

\* The level is left out of level_element_ids, whether it exists or not.
CreateLevelFails(r) ==
    /\ pc[r] = "levels" /\ at[r] <= NumLevels(r)
    /\ levels' \in {levels, levels \cup {NewLevel(r)}}
    /\ skipped' = [skipped EXCEPT ![r] = @ \cup {at[r]}]
    /\ at' = [at EXCEPT ![r] = @ + 1]
    /\ QueryFails(r)
    /\ UNCHANGED <<request, pc, before, domain, ids, item, node_id,
                   domains, components, requires, persons>>

LevelsDone(r) ==
    /\ pc[r] = "levels" /\ at[r] > NumLevels(r)
    /\ at' = [at EXCEPT ![r] = 1]
    /\ Goto(r, "requirements")
    /\ UNCHANGED <<request, before, failed, domain, ids, skipped, item, node_id, graphVars>>

-----------------------------------------------------------------------------
(* process_level_requirements. *)

\* Mutant of HasLevel: an off-by-one in the comparison with the length.
HasLevelBelowLast(r) == at[r] < Len(ids[r])

\* level_idx < level_element_ids.len()
HasLevel(r) == at[r] <= Len(ids[r])

\* Mutant of LevelFor: the level created last.
LevelLast(r) == ids[r][Len(ids[r])]

\* The level is addressed by its position, among those that were created.
LevelFor(r) == ids[r][at[r]]

Requirements(r) == request[r].levels[at[r]]
AtRequirement(r) ==
    pc[r] = "requirements" /\ at[r] <= NumLevels(r) /\ HasLevel(r) /\ item[r] <= Len(Requirements(r))
Current(r) == Requirements(r)[item[r]]

NextItem(r) == item' = [item EXCEPT ![r] = @ + 1]
NextLevel(r) == item' = [item EXCEPT ![r] = 1] /\ at' = [at EXCEPT ![r] = @ + 1]

\* The requirement names a node, or neither a node nor a new one.
UseExisting(r) ==
    /\ AtRequirement(r)
    /\ \/ /\ Current(r).id # None
          /\ node_id' = [node_id EXCEPT ![r] = Current(r).id]
          /\ Goto(r, "relate")
          /\ UNCHANGED item
       \/ /\ Current(r).id = None /\ Current(r).new = None
          /\ NextItem(r)
          /\ UNCHANGED <<pc, node_id>>
    /\ UNCHANGED <<request, before, failed, domain, ids, skipped, at, graphVars>>

Named(r) ==
    {n \in DOMAIN components :
        components[n] = [label |-> Current(r).label, name |-> Current(r).new]}

AtNewNode(r) == AtRequirement(r) /\ Current(r).id = None /\ Current(r).new # None

\* MERGE by label and name.  Without a constraint nothing is locked between
\* looking for the node and creating it.
MergeFinds(r) ==
    /\ AtNewNode(r)
    /\ IF Named(r) # {}
       THEN /\ \E n \in Named(r) : node_id' = [node_id EXCEPT ![r] = n]
            /\ Goto(r, "relate")
       ELSE Goto(r, "merge") /\ UNCHANGED node_id
    /\ UNCHANGED <<request, before, failed, domain, ids, skipped, at, item, graphVars>>

MergeCreates(r) ==
    /\ pc[r] = "merge"
    /\ components' = Append(components, [label |-> Current(r).label, name |-> Current(r).new])
    /\ node_id' = [node_id EXCEPT ![r] = Len(components) + 1]
    /\ Goto(r, "relate")
    /\ UNCHANGED <<request, before, failed, domain, ids, skipped, at, item,
                   domains, levels, requires, persons>>

\* The requirement is skipped, whether the node was created or not.
MergeFails(r) ==
    /\ \/ AtNewNode(r) /\ UNCHANGED components
       \/ /\ pc[r] = "merge"
          /\ components' \in {components,
                Append(components, [label |-> Current(r).label, name |-> Current(r).new])}
    /\ QueryFails(r)
    /\ NextItem(r)
    /\ Goto(r, "requirements")
    /\ UNCHANGED <<request, before, domain, ids, skipped, at, node_id,
                   domains, levels, requires, persons>>

\* Mutant of Matches: the label of the node is not in the pattern.
MatchesAnyLabel(r) == LevelFor(r) \in levels /\ node_id[r] \in DOMAIN components

\* MATCH (l:Domain_Level), (n:<Label>) with the two ids.
Matches(r) ==
    /\ LevelFor(r) \in levels
    /\ node_id[r] \in DOMAIN components
    /\ components[node_id[r]].label = Current(r).label

\* CREATE, for each match; that nothing matches is not an error.
CreateRequirement(r) ==
    requires' = requires \cup
        {[level |-> l, target |-> node_id[r], by |-> r, idx |-> at[r], item |-> item[r]]
            : l \in {k \in {LevelFor(r)} : Matches(r)}}

Relate(r) ==
    /\ pc[r] = "relate"
    /\ \/ CreateRequirement(r) /\ UNCHANGED failed
       \/ QueryFails(r) /\ (CreateRequirement(r) \/ UNCHANGED requires)
    /\ NextItem(r)
    /\ Goto(r, "requirements")
    /\ UNCHANGED <<request, before, domain, ids, skipped, at, node_id,
                   domains, levels, components, persons>>

\* The requirements of the level are done, or there is no level for them.
LevelDone(r) ==
    /\ pc[r] = "requirements" /\ at[r] <= NumLevels(r)
    /\ ~HasLevel(r) \/ item[r] > Len(Requirements(r))
    /\ NextLevel(r)
    /\ UNCHANGED <<requestVars, domain, ids, skipped, node_id, graphVars>>

Reply(r) ==
    /\ pc[r] = "requirements" /\ at[r] > NumLevels(r)
    /\ Goto(r, "ok")
    /\ UNCHANGED <<request, before, failed, domainVars, graphVars>>

-----------------------------------------------------------------------------
(* signup and login. *)

\* Mutant of PersonTaken: both must be the same.
PersonTakenBoth(r) ==
    \E p \in persons : p.username = request[r].username /\ p.phone = request[r].phone

PersonTaken(r) ==
    \E p \in persons : p.username = request[r].username \/ p.phone = request[r].phone

CheckPerson(r) ==
    /\ pc[r] = "start" /\ Valid(r) /\ Kind(r) = "signup"
    /\ Goto(r, IF PersonTaken(r) THEN "refused" ELSE "hash")
    /\ Begin(r)
    /\ UNCHANGED <<request, failed, domainVars, graphVars>>

NewPerson(r) ==
    persons' = persons \cup {[by |-> r, username |-> request[r].username,
                              phone |-> request[r].phone, password |-> request[r].password]}

\* The password is hashed and the person created; then a token is made.
CreatePerson(r) ==
    /\ pc[r] = "hash"
    /\ NewPerson(r)
    /\ Goto(r, "ok")
    /\ UNCHANGED <<request, before, failed, domainVars, domains, levels, components, requires>>

\* Hashing, the query or making the token fails: the person may exist.
CreatePersonFails(r) ==
    /\ pc[r] = "hash"
    /\ NewPerson(r) \/ UNCHANGED persons
    /\ QueryFails(r)
    /\ Goto(r, "err")
    /\ UNCHANGED <<request, before, domainVars, domains, levels, components, requires>>

\* One query, then the password is verified if there was exactly one row.
Login(r) ==
    LET rows == {p \in persons : p.username = request[r].username}
    IN  /\ pc[r] = "start" /\ Valid(r) /\ Kind(r) = "login"
        /\ Goto(r, IF Cardinality(rows) = 1 /\ \A p \in rows : p.password = request[r].password
                   THEN "ok" ELSE "refused")
        /\ Begin(r)
        /\ UNCHANGED <<request, failed, domainVars, graphVars>>

-----------------------------------------------------------------------------

create_domain(r) == CheckName(r) \/ CreateDomain(r) \/ CreateDomainFails(r)

update_domain(r) ==
    \/ VerifyDomain(r) \/ RenameDomain(r) \/ RenameFails(r)
    \/ DeleteLevels(r) \/ DeleteLevelsFails(r)

create_levels(r) == CreateLevel(r) \/ CreateLevelFails(r) \/ LevelsDone(r)

process_level_requirements(r) ==
    \/ UseExisting(r) \/ MergeFinds(r) \/ MergeCreates(r) \/ MergeFails(r)
    \/ Relate(r) \/ LevelDone(r) \/ Reply(r)

signup(r) == CheckPerson(r) \/ CreatePerson(r) \/ CreatePersonFails(r)

AllAnswered == (\A r \in Request : pc[r] \in Ended) /\ UNCHANGED vars

Next ==
    \/ \E r \in Request :
        \/ Invalid(r) \/ FirstQueryFails(r)
        \/ create_domain(r) \/ update_domain(r)
        \/ create_levels(r) \/ process_level_requirements(r)
        \/ signup(r) \/ Login(r)
    \/ AllAnswered

Spec == Init /\ [][Next]_vars

-----------------------------------------------------------------------------
(* Properties. *)

\* A requirement is on the level of its request that listed it; only when the
\* query of an earlier level failed is it on a later one, never on an earlier
\* one or on a level of another request (level_element_ids is indexed by
\* position).  It leads to the node listed there, of the type listed there.
RequirementOnItsLevel ==
    \A e \in requires :
        LET listed == request[e.by].levels[e.idx][e.item]
            leads == components[e.target]
        IN  /\ e.level.by = e.by
            /\ e.idx <= e.level.idx
            /\ e.level.idx - e.idx <= Cardinality(skipped[e.by] \cap 1..e.level.idx)
            /\ leads.label = listed.label
            /\ IF listed.id # None THEN e.target = listed.id ELSE leads.name = listed.new

\* Past the deletion of an update, the domain has no level of a request that
\* was answered before the update began, even when a query of the update failed
\* (update_domain gives up when it cannot delete the old levels).
UpdateReplaces ==
    \A u \in Request :
        Kind(u) = "update" /\ pc[u] \in {"levels", "requirements", "merge", "relate", "ok"} =>
            \A l \in levels : l.domain = domain[u] => l.by \notin before[u]

\* A create or update that is answered with an error has added no level and no
\* requirement: a client that sends it again does not double them (errors are
\* returned before the first level and only logged from then on).
ErrorAddsNothing ==
    \A r \in Request : pc[r] \in {"err", "refused"} =>
        /\ \A l \in levels : l.by # r
        /\ \A e \in requires : e.by # r

Undisturbed(r) == ~failed[r] /\ \A i \in DOMAIN ids[r] : ids[r][i] \in levels

\* The node a requirement asks for can be had: it names none and describes a
\* new one, or it names one of the requirement's type.
Satisfiable(q) ==
    IF q.id = None THEN q.new # None
    ELSE q.id \in DOMAIN SeedComponent /\ SeedComponent[q.id].label = q.label

\* A create or update that no failure and no other update disturbed has, when
\* it is answered, all its levels, each with all requirements that can be met,
\* once each, whatever other requests did meanwhile.
UndisturbedIsComplete ==
    \A r \in Request :
        pc[r] = "ok" /\ Kind(r) \in {"create", "update"} /\ Undisturbed(r) =>
            \A i \in 1..NumLevels(r) :
                /\ [by |-> r, idx |-> i, domain |-> domain[r]] \in levels
                /\ \A k \in DOMAIN request[r].levels[i] :
                    Satisfiable(request[r].levels[i][k]) =>
                        Cardinality({e \in requires :
                            e.by = r /\ e.level.idx = i /\ e.item = k}) = 1

Overlap(r, s) == r \notin before[s] /\ s \notin before[r] /\ pc[s] # "start"

\* Someone whose signup was answered with a token can log in afterwards with
\* the same name and password, unless another signup with that name ran at the
\* same time (signup checks the name and creates the person in two queries, and
\* login refuses a name that two persons have).
SignedUpCanLogIn ==
    \A s, l \in Request :
        /\ Kind(s) = "signup" /\ Kind(l) = "login"
        /\ s \in before[l] /\ pc[s] = "ok"
        /\ request[s].username = request[l].username
        /\ request[s].password = request[l].password
        /\ pc[l] = "refused"
        => \E q \in Request \ {s} :
                /\ Kind(q) = "signup" /\ request[q].username = request[s].username
                /\ Overlap(s, q)
=============================================================================
