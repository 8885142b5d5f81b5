--------------------------- MODULE MCDomainWorker ---------------------------
(***************************************************************************)
(* Small instances of DomainWorker.  The messages, workers and seeds are   *)
(* model values; what a job asks for follows from its message.             *)
(***************************************************************************)
EXTENDS DomainWorker, TLC

CONSTANTS
    chess1, chess2,  \* two Knowledge jobs for the same concept, "chess tactics"
    grit,            \* a Trait job
    title,           \* a Milestone job
    broken,          \* a body that does not parse
    tactics,         \* seed: Knowledge node "tactics"
    courage,         \* seed: Trait node "courage"
    w1, w2           \* invocations

MCType ==
    [m \in Message |-> CASE m = grit -> "Trait"
                         [] m = title -> "Milestone"
                         [] OTHER -> "Knowledge"]

MCName ==
    [m \in Message |-> CASE m = grit -> "grit"
                         [] m = title -> "title"
                         [] OTHER -> "chess tactics"]

\* None, a value above the range, zero and a value in the range.
MCSuggested ==
    [m \in Message |-> CASE m = chess1 -> 9
                         [] m = grit -> 0
                         [] m = title -> 2
                         [] OTHER -> NoLevel]

MCConcept == {"chess tactics", "tactics", "grit", "courage", "title"}

\* "chess tactics" and "tactics" lie in the moderate band, "grit" and "courage"
\* in that of traits alone; "grit" is also close to "tactics", which has another
\* label.
MCScore ==
    [p \in MCConcept \X MCConcept |->
        IF p[1] = p[2] THEN 100
        ELSE IF {p[1], p[2]} = {"chess tactics", "tactics"} THEN 80
        ELSE IF {p[1], p[2]} = {"grit", "courage"} THEN 68
        ELSE IF {p[1], p[2]} = {"grit", "tactics"} THEN 75
        ELSE 10]

\* The LLM keeps the name it was given.
MCSameName == [c \in MCConcept |-> {c}]

\* The LLM may fold the concept into the general one.
MCOtherName == [c \in MCConcept |-> IF c = "chess tactics" THEN {c, "tactics"} ELSE {c}]

MCSeedNode ==
    [s \in Seed |-> CASE s = tactics -> [label |-> "Knowledge", name |-> "tactics"]
                      [] s = courage -> [label |-> "Trait", name |-> "courage"]]

WorkerSymmetry == Permutations(Worker)
=============================================================================
