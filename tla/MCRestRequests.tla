--------------------------- MODULE MCRestRequests ---------------------------
(***************************************************************************)
(* Pairs of domain requests, and groups of signups with a login.           *)
(***************************************************************************)
EXTENDS RestRequests, TLC

CONSTANTS none

MCSeedDomain == <<"chess">>
MCSeedComponent == <<[label |-> "Skill", name |-> "tactics"]>>

Existing(l, id) == [label |-> l, id |-> id, new |-> none]
New(l, name) == [label |-> l, id |-> none, new |-> name]

Create(name, lvls) == [kind |-> "create", name |-> name, levels |-> lvls]
Update(d, name, lvls) == [kind |-> "update", domain |-> d, name |-> name, levels |-> lvls]
Signup(u, ph, pw) == [kind |-> "signup", username |-> u, phone |-> ph, password |-> pw]
LoginAs(u, pw) == [kind |-> "login", username |-> u, password |-> pw]

\* An existing node with its type and with another, a new node that has the
\* name of one of another type, and an empty requirement.
Two == << <<New("Knowledge", "tactics"), Existing("Skill", 1)>>, <<New("Trait", "calm")>> >>
Three == << <<Existing("Knowledge", 1)>>, <<Existing("Milestone", none)>>, <<New("Trait", "calm")>> >>

MCScenarios ==
    {"a" :> Create("go", Two) @@ "b" :> Create("go", Three),
     "a" :> Create("go", Two) @@ "b" :> Update(2, "chess", Three),
     "a" :> Update(1, "go", Two) @@ "b" :> Update(1, "chess", Three),
     "a" :> Create("chess", << >>) @@ "b" :> Update(1, none, Two),
     "a" :> Signup("ann", 1, "x") @@ "b" :> Signup("ann", 2, "y")
        @@ "c" :> Signup("bob", 2, "z") @@ "d" :> LoginAs("ann", "x")}
=============================================================================
