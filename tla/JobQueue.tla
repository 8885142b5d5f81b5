------------------------------ MODULE JobQueue ------------------------------
(***************************************************************************)
(* What the worker and its queue promise to whoever queues a job, without  *)
(* batches, visibility timeouts, invocations and the graph: a job is       *)
(* delivered at most MaxReceives times, deliveries may settle it, it is    *)
(* removed only when it is settled and given up only when all deliveries   *)
(* are used up.  Neither can be undone.                                    *)
(***************************************************************************)
EXTENDS Naturals

CONSTANTS JobId, MaxReceives

VARIABLES
    state,    \* [JobId -> {"unsent", "pending", "removed", "dead"}]
    tries,    \* how often each job was delivered
    settled   \* the jobs of which some delivery ran to its end

vars == <<state, tries, settled>>

Init ==
    /\ state = [j \in JobId |-> "unsent"]
    /\ tries = [j \in JobId |-> 0]
    /\ settled = {}

Pending == {j \in JobId : state[j] = "pending"}

Queue(j) ==
    /\ state[j] = "unsent"
    /\ state' = [state EXCEPT ![j] = "pending"]
    /\ UNCHANGED <<tries, settled>>

Deliver(S) ==
    /\ \A j \in S : tries[j] < MaxReceives
    /\ tries' = [j \in JobId |-> IF j \in S THEN tries[j] + 1 ELSE tries[j]]
    /\ UNCHANGED <<state, settled>>

\* A late delivery may settle a job that is removed or dead already.
Settle(j) ==
    /\ tries[j] > 0
    /\ settled' = settled \cup {j}
    /\ UNCHANGED <<state, tries>>

Remove(S) ==
    /\ S \subseteq settled
    /\ state' = [j \in JobId |-> IF j \in S THEN "removed" ELSE state[j]]
    /\ UNCHANGED <<tries, settled>>

GiveUp(j) ==
    /\ state[j] = "pending"
    /\ tries[j] = MaxReceives
    /\ state' = [state EXCEPT ![j] = "dead"]
    /\ UNCHANGED <<tries, settled>>

Next ==
    \/ \E j \in JobId : Queue(j) \/ Settle(j) \/ GiveUp(j)
    \/ \E S \in SUBSET Pending : Deliver(S) \/ Remove(S)

Spec == Init /\ [][Next]_vars
=============================================================================
