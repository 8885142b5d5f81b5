--------------------------- MODULE MCConceptAgent ---------------------------
(***************************************************************************)
(* Two agents of concurrent generations over two related concepts.         *)
(***************************************************************************)
EXTENDS ConceptAgent, TLC

CONSTANTS t1, t2

MCName == {"chess tactics", "tactics"}

\* A node is embedded with its description, so that even its own name is not
\* always near enough to reuse it: "tactics" is, "chess tactics" is not.
MCScore ==
    [p \in MCName \X MCName |->
        IF p[1] # p[2] THEN 75 ELSE IF p[1] = "tactics" THEN 96 ELSE 90]

\* The LLM may give either concept the name of the other.
MCGeneratedName == [n \in MCName |-> MCName]

Assign(a, b) == [t \in Task |-> IF t = t1 THEN a ELSE b]

\* Closed under exchanging the tasks, as TaskSymmetry requires.
MCAgents == {Assign("Knowledge", "Knowledge"),
             Assign("Skill", "Trait"), Assign("Trait", "Skill"),
             Assign("Trait", "Milestone"), Assign("Milestone", "Trait")}

TaskSymmetry == Permutations(Task)

MCSeedNode ==
    <<[label |-> "Trait", name |-> "tactics", of |-> "tactics", by |-> NoTask]>>
=============================================================================
