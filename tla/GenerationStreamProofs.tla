----------------------- MODULE GenerationStreamProofs -----------------------
(***************************************************************************)
(* Proofs about GenerationStream, for any number of generations, agents,   *)
(* levels and progress events and any size of the channel: the page never  *)
(* follows two streams, what it shows of the one it follows is exact, and  *)
(* its log follows the protocol.                                           *)
(***************************************************************************)
EXTENDS GenerationStream, FiniteSetTheorems, TLAPS

-----------------------------------------------------------------------------
(* The page follows at most one stream. *)

\* OneStream is not inductive by itself: a new generation must find its
\* request unused, and the request it replaces must be one of the page's.
RequestsInOrder ==
    /\ starts \in 0..MaxRuns
    /\ fetch \in [Run -> Fetch]
    /\ \A r \in Run : r > starts => fetch[r] = "none"

StreamInv == RequestsInOrder /\ OneStream

\* The page has followed no stream when it is opened.
LEMMA StreamInvInit == Init => StreamInv
  BY StreamAssumption DEF Init, StreamInv, RequestsInOrder, OneStream, Run, Fetch, Live

\* Steps that touch neither the page nor its requests.
LEMMA StreamInvServer ==
    ASSUME StreamInv, UNCHANGED <<pageState, abortRef, requestVars>>
    PROVE  StreamInv'
  BY DEF StreamInv, RequestsInOrder, OneStream, requestVars

\* Steps of the user and of the search for similar domains.
LEMMA StreamInvUser ==
    ASSUME StreamInv, UserStep \/ fetchSimilarDomains
    PROVE  StreamInv'
  <1> USE StreamAssumption DEF StreamInv, RequestsInOrder, OneStream, Run, Live, NoRun
  <1>1. CASE fetchSimilarDomains \/ handleProceedToForm \/ Retry \/ Mount
    BY <1>1 DEF fetchSimilarDomains, handleProceedToForm, Retry, Mount, requestVars
  <1>2. CASE handleStartGeneration
    <2>1. starts + 1 \in Run /\ fetch[starts + 1] = "none"
      BY <1>2 DEF handleStartGeneration
    <2>2. RequestsInOrder'
      BY <1>2, <2>1 DEF handleStartGeneration, Fetch
    <2>3. OneStream'
      BY <1>2, <2>1 DEF handleStartGeneration, Fetch
    <2>4. QED BY <2>2, <2>3
  <1>3. CASE handleCancelGeneration
    BY <1>3 DEF handleCancelGeneration, Abort, Fetch
  <1>4. CASE Unmount
    BY <1>4 DEF Unmount, Abort, Fetch
  <1>5. QED
    BY <1>1, <1>2, <1>3, <1>4 DEF UserStep

\* Steps that read from a stream, or learn that it is over.
LEMMA StreamInvReader ==
    ASSUME StreamInv, NEW r \in Run,
           ReaderStep(r) \/ onError(r) \/ generate_domain_sse(r)
    PROVE  StreamInv'
  <1> USE StreamAssumption DEF StreamInv, RequestsInOrder, OneStream, Run, Live, NoRun
  <1>1. CASE ReadEvent(r)
    <2> DEFINE e == Head(chan[r])
    <2>1. CASE e.type \in Terminal
      BY <1>1, <2>1 DEF ReadEvent, Fetch
    <2>2. CASE e.type \notin Terminal
      <3>1. NextPageState(e) = pageState
        BY <2>2 DEF NextPageState, Terminal
      <3>2. QED
        BY <1>1, <2>2, <3>1 DEF ReadEvent
    <2>3. QED BY <2>1, <2>2
  <1>2. CASE ReadEnd(r)
    BY <1>2 DEF ReadEnd, Fetch
  <1>3. CASE onError(r)
    BY <1>3 DEF onError, Fetch
  <1>4. CASE generate_domain_sse(r)
    BY <1>4 DEF generate_domain_sse, Fetch, pageVars
  <1>5. QED
    BY <1>1, <1>2, <1>3, <1>4 DEF ReaderStep

\* Steps of the tasks and of the connections.
LEMMA ServerLeavesPage ==
    ASSUME NEW r \in Run, TaskStepOf(r) \/ Disconnect(r) \/ ServerRestarts
    PROVE  UNCHANGED <<pageState, abortRef, requestVars>>
  BY DEF TaskStepOf, send_event, check_domain_exists_fails, check_domain_exists_finds,
         check_domain_exists_passes, ArchitectCreatesDomain, ArchitectCreatesLevel,
         AgentWorks, NextAgent, Complete, AgentFails, Disconnect, ServerRestarts, pageVars

\* The page reads at most one stream, the one it shows and can still abort,
\* whatever is cancelled, retried, aborted or restarted, and whenever.
THEOREM PageFollowsOneStream == Spec => []OneStream
  <1>1. Init => StreamInv
    BY StreamInvInit
  <1>2. StreamInv /\ [Next]_vars => StreamInv'
    <2> SUFFICES ASSUME StreamInv, [Next]_vars PROVE StreamInv'
      OBVIOUS
    <2>1. CASE UserStep \/ fetchSimilarDomains
      BY <2>1, StreamInvUser
    <2>2. ASSUME NEW r \in Run, ReaderStep(r) \/ onError(r) \/ generate_domain_sse(r)
          PROVE  StreamInv'
      BY <2>2, StreamInvReader
    <2>3. ASSUME NEW r \in Run, TaskStepOf(r) \/ Disconnect(r) \/ ServerRestarts
          PROVE  StreamInv'
      BY <2>3, ServerLeavesPage, StreamInvServer
    <2>4. CASE ServerRestarts
      BY <2>4, StreamInvServer DEF ServerRestarts, pageVars
    <2>5. CASE UNCHANGED vars
      BY <2>5, StreamInvServer DEF vars, pageVars
    <2>6. QED
      BY <2>1, <2>2, <2>3, <2>4, <2>5 DEF Next
  <1>3. StreamInv => OneStream
    BY DEF StreamInv
  <1>4. QED
    BY <1>1, <1>2, <1>3, PTL DEF Spec
-----------------------------------------------------------------------------
(* Sequences of events. *)

Chained(s) == \A i \in 1..(Len(s) - 1) : s[i + 1] \in Protocol!After(s[i])

\* The protocol allows s from its first event on.
Ordered(s) == (s # << >> => s[1] \in Protocol!First) /\ Chained(s)

\* What follows an ordered sequence in the way the protocol allows keeps it so.
LEMMA OrderedConcat ==
    ASSUME NEW s \in Seq(SseEvent), NEW ev \in Seq(SseEvent), ev # << >>,
           Ordered(s), Chained(ev), ev[1] \in Protocol!Allowed(s)
    PROVE  Ordered(s \o ev)
  <1> DEFINE c == s \o ev
  <1>1. /\ Len(s) \in Nat /\ Len(ev) \in Nat /\ Len(ev) >= 1 /\ Len(c) = Len(s) + Len(ev)
        /\ \A i \in 1..Len(c) : c[i] = IF i <= Len(s) THEN s[i] ELSE ev[i - Len(s)]
    OBVIOUS
  <1> HIDE DEF c
  <1>2. CASE s = << >>
    <2>1. Len(s) = 0
      BY <1>2
    <2>2. Len(c) = Len(ev) /\ \A i \in 1..Len(ev) : c[i] = ev[i]
      BY <1>1, <2>1
    <2>3. c[1] \in Protocol!First
      BY <1>1, <1>2, <2>2 DEF Protocol!Allowed
    <2>4. Chained(c)
      BY <1>1, <2>2 DEF Chained
    <2> QED
      BY <2>3, <2>4 DEF Ordered, c
  <1>3. CASE s # << >>
    <2>1. Len(s) >= 1
      BY <1>1, <1>3
    <2>2. c[1] \in Protocol!First
      BY <1>1, <1>3, <2>1 DEF Ordered
    <2>3. ASSUME NEW i \in 1..(Len(c) - 1) PROVE c[i + 1] \in Protocol!After(c[i])
      <3>1. CASE i < Len(s)
        <4>1. c[i] = s[i] /\ c[i + 1] = s[i + 1] /\ i \in 1..(Len(s) - 1)
          BY <1>1, <3>1
        <4> QED
          BY <4>1 DEF Ordered, Chained
      <3>2. CASE i = Len(s)
        <4>1. c[i] = s[Len(s)] /\ c[i + 1] = ev[1]
          BY <1>1, <3>2
        <4>2. ev[1] \in Protocol!After(s[Len(s)])
          BY <1>3 DEF Protocol!Allowed
        <4> QED
          BY <4>1, <4>2
      <3>3. CASE i > Len(s)
        <4>1. c[i] = ev[i - Len(s)] /\ c[i + 1] = ev[(i - Len(s)) + 1]
              /\ i - Len(s) \in 1..(Len(ev) - 1)
          BY <1>1, <3>3
        <4> QED
          BY <4>1 DEF Chained
      <3> QED
        BY <1>1, <3>1, <3>2, <3>3
    <2> QED
      BY <2>2, <2>3 DEF Ordered, Chained, c
  <1> QED
    BY <1>2, <1>3

\* The event at a place of an ordered sequence is allowed after those before it.
LEMMA OrderedAllows ==
    ASSUME NEW s \in Seq(SseEvent), NEW t \in Seq(SseEvent), t # << >>, Ordered(s \o t)
    PROVE  t[1] \in Protocol!Allowed(s)
  <1> DEFINE c == s \o t
  <1>1. /\ Len(s) \in Nat /\ Len(t) \in Nat /\ Len(t) >= 1 /\ Len(c) = Len(s) + Len(t)
        /\ \A i \in 1..Len(c) : c[i] = IF i <= Len(s) THEN s[i] ELSE t[i - Len(s)]
        /\ Ordered(c) /\ c # << >>
    OBVIOUS
  <1> HIDE DEF c
  <1>2. CASE s = << >>
    BY <1>1, <1>2 DEF Ordered, Protocol!Allowed
  <1>3. CASE s # << >>
    <2>1. Len(s) \in 1..(Len(c) - 1)
      BY <1>1, <1>3
    <2>2. c[Len(s)] = s[Len(s)] /\ c[Len(s) + 1] = t[1]
      BY <1>1, <2>1
    <2> QED
      BY <1>1, <1>3, <2>1, <2>2 DEF Ordered, Chained, Protocol!Allowed
  <1> QED
    BY <1>2, <1>3

\* Nothing comes after a terminal event.
LEMMA TerminalIsLast ==
    ASSUME NEW t \in Seq(SseEvent), NEW s \in Seq(SseEvent), t # << >>, Ordered(s \o t),
           t[1].type \in Terminal
    PROVE  Len(t) = 1
  <1> DEFINE c == s \o t
  <1>1. /\ Len(s) \in Nat /\ Len(t) \in Nat /\ Len(t) >= 1 /\ Len(c) = Len(s) + Len(t)
        /\ \A i \in 1..Len(c) : c[i] = IF i <= Len(s) THEN s[i] ELSE t[i - Len(s)]
        /\ Ordered(c)
    OBVIOUS
  <1> HIDE DEF c
  <1>2. Protocol!After(t[1]) = {}
    BY DEF Protocol!After, Terminal
  <1>3. ASSUME Len(t) > 1 PROVE FALSE
    <2>1. Len(s) + 1 \in 1..(Len(c) - 1) /\ c[Len(s) + 1] = t[1]
      BY <1>1, <1>3
    <2>2. c[Len(s) + 2] \in Protocol!After(t[1])
      BY <1>1, <2>1 DEF Ordered, Chained
    <2> QED
      BY <1>2, <2>2
  <1>4. Len(t) \in Nat /\ Len(t) >= 1 /\ ~(Len(t) > 1)
    BY <1>1, <1>3
  <1>5. \A n \in Nat : n >= 1 /\ ~(n > 1) => n = 1
    OBVIOUS
  <1> QED
    BY <1>4, <1>5, Zenon

\* Moving the first element of t to the end of s does not change s \o t.
LEMMA MoveHead ==
    ASSUME NEW s \in Seq(SseEvent), NEW t \in Seq(SseEvent), t # << >>
    PROVE  /\ Append(s, Head(t)) \in Seq(SseEvent) /\ Tail(t) \in Seq(SseEvent)
           /\ Append(s, Head(t)) \o Tail(t) = s \o t
  OBVIOUS

LEMMA ConcatAssoc ==
    ASSUME NEW s \in Seq(SseEvent), NEW t \in Seq(SseEvent), NEW u \in Seq(SseEvent)
    PROVE  /\ (s \o t) \o u = s \o (t \o u)
           /\ s \o t \in Seq(SseEvent) /\ t \o u \in Seq(SseEvent)
  OBVIOUS

-----------------------------------------------------------------------------
(* Counting the finished agents. *)

CompletionSet(s) == {i \in 1..Len(s) : s[i].type = "agent_completed"}

LEMMA CompletionsFinite ==
    ASSUME NEW s \in Seq(SseEvent)
    PROVE  /\ IsFiniteSet(CompletionSet(s))
           /\ Completions(s) = Cardinality(CompletionSet(s))
           /\ Completions(s) \in Nat
  <1>1. IsFiniteSet(1..Len(s))
    BY FS_Interval
  <1>2. CompletionSet(s) \in SUBSET (1..Len(s))
    BY DEF CompletionSet
  <1>3. IsFiniteSet(CompletionSet(s))
    BY <1>1, <1>2, FS_Subset
  <1>4. Completions(s) = Cardinality(CompletionSet(s))
    BY DEF Completions, CompletionSet
  <1> QED
    BY <1>3, <1>4, FS_CardinalityType

LEMMA CompletionsNone ==
    ASSUME NEW s \in Seq(SseEvent), \A i \in 1..Len(s) : s[i].type # "agent_completed"
    PROVE  Completions(s) = 0
  <1>1. CompletionSet(s) = {}
    BY DEF CompletionSet
  <1> QED
    BY <1>1, FS_EmptySet, CompletionsFinite

LEMMA CompletionsOne ==
    ASSUME NEW s \in Seq(SseEvent), s # << >>, s[1].type = "agent_completed",
           \A i \in 2..Len(s) : s[i].type # "agent_completed"
    PROVE  Completions(s) = 1
  <1>1. CompletionSet(s) = {1}
    BY DEF CompletionSet
  <1> QED
    BY <1>1, FS_Singleton, CompletionsFinite

LEMMA CompletionsAppend ==
    ASSUME NEW s \in Seq(SseEvent), NEW e \in SseEvent
    PROVE  Completions(Append(s, e)) =
              Completions(s) + (IF e.type = "agent_completed" THEN 1 ELSE 0)
  <1> DEFINE a == Append(s, e)
  <1>1. /\ a \in Seq(SseEvent) /\ Len(a) = Len(s) + 1 /\ Len(s) \in Nat
        /\ \A i \in 1..Len(s) : a[i] = s[i]
        /\ a[Len(s) + 1] = e
    OBVIOUS
  <1> HIDE DEF a
  <1>2. CASE e.type = "agent_completed"
    <2>1. CompletionSet(a) = CompletionSet(s) \cup {Len(s) + 1}
      BY <1>1, <1>2 DEF CompletionSet
    <2>2. Len(s) + 1 \notin CompletionSet(s)
      BY <1>1 DEF CompletionSet
    <2>3. Cardinality(CompletionSet(a)) = Cardinality(CompletionSet(s)) + 1
      BY <2>1, <2>2, CompletionsFinite, FS_AddElement
    <2> QED
      BY <1>1, <1>2, <2>3, CompletionsFinite DEF a
  <1>3. CASE e.type # "agent_completed"
    <2>1. CompletionSet(a) = CompletionSet(s)
      BY <1>1, <1>3 DEF CompletionSet
    <2>2. Completions(a) = Completions(s) /\ Completions(s) \in Nat
      BY <1>1, <2>1, CompletionsFinite
    <2> QED
      BY <1>3, <2>2 DEF a
  <1> QED
    BY <1>2, <1>3

LEMMA CompletionsTail ==
    ASSUME NEW s \in Seq(SseEvent), s # << >>
    PROVE  Completions(s) =
              Completions(Tail(s)) + (IF Head(s).type = "agent_completed" THEN 1 ELSE 0)
  <1> DEFINE u == Tail(s)
             S == CompletionSet(s) \ {1}
             T == CompletionSet(u)
             f == [i \in T |-> i + 1]
  <1>1. /\ u \in Seq(SseEvent) /\ Len(s) = Len(u) + 1 /\ Len(u) \in Nat
        /\ \A i \in 1..Len(u) : u[i] = s[i + 1]
        /\ Head(s) = s[1]
    OBVIOUS
  <1> HIDE DEF u
  <1>2. \A i \in T : i \in 1..Len(u) /\ i + 1 \in S
    BY <1>1 DEF CompletionSet
  <1>3. \A j \in S : j \in Nat /\ j - 1 \in T /\ (j - 1) + 1 = j
    BY <1>1 DEF CompletionSet
  <1> HIDE DEF S, T
  <1>4. f \in [T -> S] /\ (\A a, b \in T : f[a] = f[b] => a = b) /\ \A j \in S : \E i \in T : f[i] = j
    <2>1. f \in [T -> S]
      BY <1>2
    <2>2. \A a, b \in T : f[a] = f[b] => a = b
      BY <1>1, <1>2
    <2>3. \A j \in S : \E i \in T : f[i] = j
      BY <1>3
    <2> QED
      BY <2>1, <2>2, <2>3
  <1>5. ExistsBijection(T, S)
    <2> HIDE DEF f
    <2>1. f \in Bijection(T, S)
      BY <1>4 DEF Bijection, Injection, Surjection, IsInjective
    <2> QED
      BY <2>1 DEF ExistsBijection
  <1>6. Cardinality(S) = Cardinality(T)
    BY <1>1, <1>5, CompletionsFinite, FS_Bijection DEF T
  <1>7. Cardinality(S) = IF 1 \in CompletionSet(s) THEN Cardinality(CompletionSet(s)) - 1
                                                   ELSE Cardinality(CompletionSet(s))
    BY CompletionsFinite, FS_RemoveElement DEF S
  <1>8. 1 \in CompletionSet(s) <=> Head(s).type = "agent_completed"
    BY <1>1 DEF CompletionSet
  <1>9. Completions(s) \in Nat /\ Completions(s) = Cardinality(CompletionSet(s))
        /\ Completions(u) \in Nat /\ Completions(u) = Cardinality(T)
    BY <1>1, CompletionsFinite DEF T
  <1> QED
    BY <1>6, <1>7, <1>8, <1>9 DEF u

-----------------------------------------------------------------------------
(* What a stream that is read looks like, from the log to what the task is   *)
(* about to send.                                                            *)

\* The events after which agent k is at work.
Working(k) == {AgentEvent("agent_started", k), AgentEvent("progress", k)}

\* The events s of a task at step p of agent k, whose outcome is res.
Follow(s, p, k, res) ==
    /\ Ordered(s)
    /\ p = "check" => s = << >>
    /\ p \in {"architect", "levels", "work"} => s # << >> /\ s[Len(s)] \in Working(k)
    /\ \A i \in 1..Len(s) : s[i].type = "completed" => res = "ok"

LEMMA EventsTyped ==
    /\ \A t \in AgentEventType, k \in Agent :
         AgentEvent(t, k) \in SseEvent /\ AgentEvent(t, k).type = t /\ AgentEvent(t, k).agent = k
    /\ \A t \in RunEventType :
         RunEvent(t) \in SseEvent /\ RunEvent(t).type = t /\ RunEvent(t).agent = 0
  BY DEF AgentEvent, RunEvent, SseEvent

\* What agent k may send while it is at work.
LEMMA AllowedAtWork ==
    ASSUME NEW s \in Seq(SseEvent), NEW k \in Agent, s # << >>, s[Len(s)] \in Working(k)
    PROVE  \A t \in {"progress", "agent_completed", "agent_failed"} :
              AgentEvent(t, k) \in Protocol!Allowed(s)
  <1> DEFINE e == s[Len(s)]
  <1>1. Protocol!Allowed(s) = Protocol!After(e)
    BY DEF Protocol!Allowed
  <1>2. e.type \in {"agent_started", "progress"} /\ e.agent = k
    BY DEF Working, AgentEvent
  <1> HIDE DEF e
  <1>3. Protocol!After(e) =
           {Protocol!AgentEvent(t, e.agent) : t \in {"progress", "agent_completed", "agent_failed"}}
    BY <1>2 DEF Protocol!After
  <1>4. \A t \in {"progress", "agent_completed", "agent_failed"} :
           AgentEvent(t, k) = Protocol!AgentEvent(t, e.agent)
    BY <1>2 DEF AgentEvent, Protocol!AgentEvent
  <1> QED
    BY <1>1, <1>3, <1>4

\* Nothing in an empty task's hands: the pipe ends with the channel.
LEMMA EmptyOut ==
    ASSUME NEW l \in Seq(SseEvent), NEW c \in Seq(SseEvent)
    PROVE  (l \o c) \o << >> = l \o c /\ l \o c \in Seq(SseEvent)
  OBVIOUS

\* A task that emits what the protocol allows goes on following it.
LEMMA FollowEmit ==
    ASSUME NEW l \in Seq(SseEvent), NEW c \in Seq(SseEvent), NEW ev \in Seq(SseEvent),
           NEW p, NEW k, NEW res, NEW p2, NEW k2, NEW res2,
           Follow((l \o c) \o << >>, p, k, res), res # "ok",
           ev # << >>, Chained(ev), ev[1] \in Protocol!Allowed((l \o c) \o << >>),
           \A i \in 1..Len(ev) : ev[i].type = "completed" => res2 = "ok",
           p2 # "check",
           p2 \in {"architect", "levels", "work"} => ev[Len(ev)] \in Working(k2)
    PROVE  Follow((l \o c) \o ev, p2, k2, res2)
  <1> DEFINE s == l \o c
             u == s \o ev
  <1>1. s \in Seq(SseEvent) /\ s \o << >> = s
    BY EmptyOut
  <1>2. Follow(s, p, k, res) /\ ev[1] \in Protocol!Allowed(s)
    BY <1>1
  <1> HIDE DEF s
  <1>3. /\ Len(s) \in Nat /\ Len(ev) \in Nat /\ Len(ev) >= 1 /\ Len(u) = Len(s) + Len(ev)
        /\ \A i \in 1..Len(u) : u[i] = IF i <= Len(s) THEN s[i] ELSE ev[i - Len(s)]
        /\ u # << >>
    BY <1>1
  <1>4. Ordered(u)
    BY <1>1, <1>2, OrderedConcat DEF Follow
  <1> HIDE DEF u
  <1>5. u[Len(u)] = ev[Len(ev)]
    BY <1>3
  <1>6. ASSUME NEW i \in 1..Len(u), u[i].type = "completed" PROVE res2 = "ok"
    <2>1. CASE i <= Len(s)
      <3>1. u[i] = s[i] /\ i \in 1..Len(s)
        BY <1>3, <2>1, SMTT(30)
      <3> QED
        BY <1>2, <1>6, <3>1 DEF Follow
    <2>2. CASE i > Len(s)
      <3>1. u[i] = ev[i - Len(s)] /\ i - Len(s) \in 1..Len(ev)
        BY <1>3, <2>2
      <3> QED
        BY <1>6, <3>1
    <2> QED
      BY <1>3, <2>1, <2>2
  <1>7. Follow(u, p2, k2, res2)
    BY <1>3, <1>4, <1>5, <1>6 DEF Follow
  <1> QED
    BY <1>7 DEF u, s

-----------------------------------------------------------------------------
(* The inductive invariant. *)

\* How far a task is, in its own words, in the graph and on the connection.
TaskInv(r) ==
    /\ pc[r] = "none" => chan[r] = << >> /\ out[r] = << >> /\ ~rx[r]
    /\ pc[r] \in {"none", "check", "architect"} =>
          agent[r] = 1 /\ linked[r] = 0 /\ registry[r].levels = 0
    /\ pc[r] = "levels" => agent[r] = 1 /\ domain[r] /\ linked[r] = registry[r].levels
    /\ pc[r] = "work" \/ outcome[r] = "ok" => domain[r] /\ linked[r] = NumLevels
    /\ outcome[r] # "none" => pc[r] = "ended"
    /\ fetch[r] \in {"none", "requested"} => pc[r] = "none"
    /\ fetch[r] = "open" => pc[r] # "none"

\* The agents a task has finished.
Finished(r) == IF outcome[r] = "ok" THEN NumAgents ELSE agent[r] - 1

\* Everything on the way from task r to the page.
Pipe(r) == (log \o chan[r]) \o out[r]

Read(r) == fetch[r] = "open" /\ rx[r]

FollowInv ==
    \A r \in Run : Read(r) => Follow(Pipe(r), pc[r], agent[r], outcome[r])

\* A request that has not reached the server finds a fresh page.
FreshInv ==
    \A r \in Run : fetch[r] = "requested" => log = << >> /\ completedAgents = 0

\* What is shown as completed takes no further step.
CompletedInv == pageState = "completed" => starts \in Run /\ Over(starts)

PageInv ==
    /\ TypeOK
    /\ StreamInv
    /\ \A r \in Run : TaskInv(r)
    /\ FollowInv
    /\ FreshInv
    /\ ProgressIsExact
    /\ CompletedInv
    /\ CompletedIsReal

LEMMA PageInvInit == Init => PageInv
  <1> SUFFICES ASSUME Init PROVE PageInv
    OBVIOUS
  <1> USE StreamAssumption, AgentsAssumption DEF Init, Run
  <1>1. TypeOK
    BY DEF TypeOK, PageState, NoRun, Agent, Fetch, TaskStep, Result
  <1>2. StreamInv
    BY StreamInvInit
  <1>3. \A r \in Run : TaskInv(r)
    BY DEF TaskInv
  <1>4. FollowInv /\ FreshInv /\ ProgressIsExact /\ CompletedInv /\ CompletedIsReal
    BY DEF FollowInv, FreshInv, ProgressIsExact, CompletedInv, CompletedIsReal, Read
  <1> QED
    BY <1>1, <1>2, <1>3, <1>4 DEF PageInv

-----------------------------------------------------------------------------
(* What a step leaves alone. *)

TaskState(r) ==
    <<pc[r], agent[r], out[r], outcome[r], registry[r], chan[r], rx[r], domain[r], linked[r]>>

\* A run keeps its invariant when at most its request ends.
LEMMA SameTask ==
    ASSUME NEW r \in Run, TaskInv(r), UNCHANGED TaskState(r),
           fetch'[r] = fetch[r] \/ fetch'[r] \notin {"none", "requested", "open"}
    PROVE  TaskInv(r)'
  BY DEF TaskInv, TaskState

\* Nor does it matter to the reader's side what other runs do.
LEMMA SameFollow ==
    ASSUME NEW r \in Run, UNCHANGED <<log, completedAgents>>, UNCHANGED TaskState(r),
           Follow(Pipe(r), pc[r], agent[r], outcome[r])
    PROVE  Follow(Pipe(r), pc[r], agent[r], outcome[r])'
  <1>1. Pipe(r)' = Pipe(r) /\ pc'[r] = pc[r] /\ agent'[r] = agent[r] /\ outcome'[r] = outcome[r]
    BY DEF Pipe, TaskState
  <1> QED
    BY <1>1 DEF Follow, Ordered, Chained

\* What is shown as completed stays real as long as its task is left alone.
LEMMA SameCompleted ==
    ASSUME CompletedInv, CompletedIsReal, UNCHANGED <<pageState, starts, completedAgents>>,
           pageState = "completed" => UNCHANGED TaskState(starts)
    PROVE  CompletedInv' /\ CompletedIsReal'
  BY DEF CompletedInv, CompletedIsReal, Over, TaskState

\* The counting part of a run's stream.
Counted(r) == completedAgents + Completions(chan[r]) + Completions(out[r]) = Finished(r)

LEMMA ExactIsCounted == ProgressIsExact <=> \A r \in Run : Read(r) => Counted(r)
  BY DEF ProgressIsExact, Read, Counted, Finished

LEMMA SameCounted ==
    ASSUME NEW r \in Run, UNCHANGED completedAgents, UNCHANGED TaskState(r), Counted(r)
    PROVE  Counted(r)'
  BY DEF Counted, Completions, Finished, TaskState

-----------------------------------------------------------------------------
(* Steps of a task. *)

LEMMA TaskFrame ==
    ASSUME TypeOK, NEW r \in Run, TaskStepOf(r)
    PROVE  /\ UNCHANGED <<pageVars, requestVars, rx>>
           /\ ~Over(r)
           /\ \A q \in Run : q # r => UNCHANGED TaskState(q)
  <1> USE DEF TypeOK, TaskState, At, Over, Return, Emit, pageVars, requestVars, connVars, graphVars
  <1>1. CASE send_event(r)
    BY <1>1 DEF send_event
  <1>2. CASE check_domain_exists_fails(r) \/ check_domain_exists_finds(r) \/ check_domain_exists_passes(r)
    BY <1>2 DEF check_domain_exists_fails, check_domain_exists_finds, check_domain_exists_passes
  <1>3. CASE ArchitectCreatesDomain(r)
    BY <1>3 DEF ArchitectCreatesDomain
  <1>4. CASE ArchitectCreatesLevel(r)
    BY <1>4 DEF ArchitectCreatesLevel
  <1>5. CASE AgentWorks(r)
    BY <1>5 DEF AgentWorks
  <1>6. CASE NextAgent(r)
    BY <1>6 DEF NextAgent, MaySucceed
  <1>7. CASE Complete(r)
    BY <1>7 DEF Complete, MaySucceed
  <1>8. CASE AgentFails(r)
    BY <1>8 DEF AgentFails
  <1> QED
    BY <1>1, <1>2, <1>3, <1>4, <1>5, <1>6, <1>7, <1>8 DEF TaskStepOf

\* What is left to show of a task's step: what it does to its own run.
LEMMA TaskKeeps ==
    ASSUME PageInv, NEW r \in Run, TaskStepOf(r), TypeOK', TaskInv(r)',
           Read(r) => Follow(Pipe(r), pc[r], agent[r], outcome[r])' /\ Counted(r)'
    PROVE  PageInv'
  <1>1. /\ UNCHANGED <<pageState, abortRef, log, completedAgents, starts, fetch, rx>>
        /\ ~Over(r)
        /\ \A q \in Run : q # r => UNCHANGED TaskState(q)
    BY TaskFrame DEF PageInv, pageVars, requestVars
  <1>2. StreamInv'
    BY <1>1, StreamInvServer DEF PageInv, requestVars
  <1>3. \A q \in Run : TaskInv(q)'
    <2> TAKE q \in Run
    <2>1. CASE q = r
      BY <2>1
    <2>2. CASE q # r
      BY <1>1, <2>2, SameTask DEF PageInv
    <2> QED
      BY <2>1, <2>2
  <1>4. \A q \in Run : Read(q)' => Read(q)
    BY <1>1 DEF Read
  <1>5. FollowInv'
    <2> SUFFICES ASSUME NEW q \in Run, Read(q)'
                 PROVE  Follow(Pipe(q), pc[q], agent[q], outcome[q])'
      BY DEF FollowInv
    <2>1. CASE q = r
      BY <1>4, <2>1
    <2>2. CASE q # r
      BY <1>1, <1>4, <2>2, SameFollow DEF PageInv, FollowInv
    <2> QED
      BY <2>1, <2>2
  <1>6. FreshInv'
    BY <1>1 DEF PageInv, FreshInv
  <1>7. ProgressIsExact'
    <2>1. \A q \in Run : Read(q)' => Counted(q)'
      <3> SUFFICES ASSUME NEW q \in Run, Read(q)' PROVE Counted(q)'
        OBVIOUS
      <3>1. CASE q = r
        BY <1>4, <3>1
      <3>2. CASE q # r
        <4>1. Counted(q)
          BY <1>4, ExactIsCounted DEF PageInv
        <4> QED
          BY <1>1, <3>2, <4>1, SameCounted
      <3> QED
        BY <3>1, <3>2
    <2> QED
      BY <2>1 DEF ProgressIsExact, Read, Counted, Finished
  <1>8. CompletedInv' /\ CompletedIsReal'
    <2>1. pageState = "completed" => starts \in Run /\ starts # r
      BY <1>1 DEF PageInv, CompletedInv
    <2> QED
      BY <1>1, <2>1, SameCompleted DEF PageInv
  <1> QED
    BY <1>2, <1>3, <1>5, <1>6, <1>7, <1>8 DEF PageInv

\* The same for a step that hands events to the channel.
LEMMA EmitKeeps ==
    ASSUME PageInv, NEW r \in Run, TaskStepOf(r), TypeOK', TaskInv(r)',
           NEW ev \in Seq(SseEvent), Emit(r, ev), UNCHANGED chan,
           out[r] = << >>, pc[r] # "ended",
           ev # << >>, Chained(ev), Read(r) => ev[1] \in Protocol!Allowed(Pipe(r)),
           \A i \in 1..Len(ev) : ev[i].type = "completed" => outcome'[r] = "ok",
           pc'[r] # "check",
           pc'[r] \in {"architect", "levels", "work"} => ev[Len(ev)] \in Working(agent'[r]),
           Completions(ev) = Finished(r)' - Finished(r)
    PROVE  PageInv'
  <1>1. UNCHANGED <<log, completedAgents, rx>>
    BY TaskFrame DEF PageInv, pageVars
  <1>2. out'[r] = ev /\ chan'[r] = chan[r] /\ log \in Seq(SseEvent) /\ chan[r] \in Seq(SseEvent)
    BY DEF Emit, PageInv, TypeOK
  <1>3. outcome[r] # "ok"
    BY DEF PageInv, TaskInv
  <1> SUFFICES ASSUME Read(r)
               PROVE  Follow(Pipe(r), pc[r], agent[r], outcome[r])' /\ Counted(r)'
    BY TaskKeeps
  <1>4. Follow(Pipe(r), pc[r], agent[r], outcome[r])'
    <2>1. Pipe(r) = (log \o chan[r]) \o << >> /\ Pipe(r)' = (log \o chan[r]) \o ev
      BY <1>1, <1>2 DEF Pipe
    <2>2. Follow((log \o chan[r]) \o << >>, pc[r], agent[r], outcome[r])
      BY <2>1 DEF PageInv, FollowInv
    <2>3. ev[1] \in Protocol!Allowed((log \o chan[r]) \o << >>)
      BY <2>1
    <2>4. Follow((log \o chan[r]) \o ev, pc'[r], agent'[r], outcome'[r])
      BY <1>2, <1>3, <2>2, <2>3, FollowEmit
    <2> QED
      BY <2>1, <2>4 DEF Follow, Ordered, Chained
  <1>5. Counted(r)'
    <2>1. completedAgents + Completions(chan[r]) + Completions(out[r]) = Finished(r)
      BY ExactIsCounted DEF PageInv, Counted
    <2>2. Completions(out[r]) = 0
      <3>1. out[r] \in Seq(SseEvent) /\ \A i \in 1..Len(out[r]) : out[r][i].type # "agent_completed"
        OBVIOUS
      <3> QED
        BY <3>1, CompletionsNone
    <2>3. completedAgents' = completedAgents /\ Completions(chan[r])' = Completions(chan[r])
          /\ Completions(out[r])' = Completions(ev)
      BY <1>1, <1>2 DEF Completions
    <2>4. completedAgents \in Nat /\ Completions(chan[r]) \in Nat /\ Completions(ev) \in Nat
      BY <1>2, CompletionsFinite, AgentsAssumption DEF PageInv, TypeOK
    <2>5. Finished(r) \in Int /\ Finished(r)' \in Int
      <3>1. agent[r] \in Agent /\ agent'[r] \in Agent
        BY DEF PageInv, TypeOK
      <3> QED
        BY <3>1, AgentsAssumption DEF Finished, Agent
    <2> QED
      BY <2>1, <2>2, <2>3, <2>4, <2>5 DEF Counted
  <1> QED
    BY <1>4, <1>5

\* The events of every step are events, and they come in order.
LEMMA EmittedEvents ==
    /\ <<RunEvent("domain_exists")>> \in Seq(SseEvent)
    /\ <<RunEvent("started"), AgentEvent("agent_started", 1), AgentEvent("progress", 1)>>
          \in Seq(SseEvent)
    /\ \A n \in {2, 3} : [i \in 1..n |-> AgentEvent("progress", 1)] \in Seq(SseEvent)
    /\ \A k \in Agent :
         /\ <<AgentEvent("progress", k)>> \in Seq(SseEvent)
         /\ <<AgentEvent("agent_completed", k), RunEvent("completed")>> \in Seq(SseEvent)
         /\ FailureEvents(k) \in Seq(SseEvent)
         /\ k < NumAgents =>
              <<AgentEvent("agent_completed", k), AgentEvent("agent_started", k + 1)>>
                 \in Seq(SseEvent)
  <1>1. 1 \in Agent /\ \A k \in Agent : k < NumAgents => k + 1 \in Agent
    BY AgentsAssumption DEF Agent
  <1>2. ASSUME NEW n \in {2, 3} PROVE [i \in 1..n |-> AgentEvent("progress", 1)] \in Seq(SseEvent)
    <2>1. AgentEvent("progress", 1) \in SseEvent
      BY <1>1, EventsTyped DEF AgentEventType
    <2> QED
      BY <2>1
  <1> HIDE DEF AgentEvent, RunEvent
  <1> QED
    BY <1>1, <1>2, EventsTyped DEF FailureEvents, AgentEventType, RunEventType

LEMMA RegistryDomain ==
    ASSUME NEW g \in [domain : BOOLEAN, levels : 0..NumLevels]
    PROVE  [g EXCEPT !.domain = TRUE] \in [domain : BOOLEAN, levels : 0..NumLevels]
  <1>1. \A v \in BOOLEAN : [g EXCEPT !.domain = v] \in [domain : BOOLEAN, levels : 0..NumLevels]
    BY SMT
  <1>2. TRUE \in BOOLEAN
    OBVIOUS
  <1> QED
    BY <1>1, <1>2, Zenon

LEMMA TaskTypes ==
    ASSUME TypeOK, NEW r \in Run, TaskInv(r), TaskStepOf(r)
    PROVE  TypeOK'
  <1> USE StreamAssumption, AgentsAssumption
      DEF TypeOK, At, Return, Emit, pageVars, requestVars, connVars, graphVars, TaskStep, Result
  <1>1. CASE send_event(r)
    <2>1. Head(out[r]) \in SseEvent /\ Tail(out[r]) \in Seq(SseEvent)
      BY <1>1 DEF send_event
    <2>2. CASE rx[r]
      <3>1. Append(chan[r], Head(out[r])) \in Seq(SseEvent)
            /\ Len(Append(chan[r], Head(out[r]))) = Len(chan[r]) + 1 /\ Len(chan[r]) \in Nat
        BY <2>1
      <3>2. chan' \in [Run -> Seq(SseEvent)] /\ out' \in [Run -> Seq(SseEvent)]
        BY <1>1, <2>1, <2>2, <3>1 DEF send_event
      <3>3. chan'[r] = Append(chan[r], Head(out[r])) /\ \A q \in Run : q # r => chan'[q] = chan[q]
        BY <1>1, <2>2 DEF send_event
      <3>4. Len(chan'[r]) <= Capacity
        <4>1. Len(chan[r]) < Capacity /\ Capacity \in Nat
          BY <1>1, <2>2 DEF send_event
        <4> HIDE DEF TypeOK
        <4> QED
          BY <3>1, <3>3, <4>1
      <3>5. \A q \in Run : Len(chan'[q]) <= Capacity
        BY <3>3, <3>4
      <3> QED
        BY <1>1, <3>2, <3>5 DEF send_event
    <2>3. CASE ~rx[r]
      BY <1>1, <2>1, <2>3 DEF send_event
    <2> QED
      BY <2>2, <2>3
  <1>2. CASE check_domain_exists_fails(r)
    BY <1>2 DEF check_domain_exists_fails
  <1>3. CASE check_domain_exists_finds(r)
    BY <1>3, EmittedEvents DEF check_domain_exists_finds
  <1>4. CASE check_domain_exists_passes(r)
    BY <1>4, EmittedEvents DEF check_domain_exists_passes
  <1>5. CASE ArchitectCreatesDomain(r)
    <2>1. PICK n \in {2, 3} : out' = [out EXCEPT ![r] = [i \in 1..n |-> AgentEvent("progress", 1)]]
      BY <1>5 DEF ArchitectCreatesDomain
    <2> DEFINE ev == [i \in 1..n |-> AgentEvent("progress", 1)]
    <2>2. ev \in Seq(SseEvent)
      BY EmittedEvents
    <2> HIDE DEF ev
    <2>3. out' = [out EXCEPT ![r] = ev]
      BY <2>1 DEF ev
    <2>4. out' \in [Run -> Seq(SseEvent)]
      BY <2>2, <2>3
    <2>5. registry' \in [Run -> [domain : BOOLEAN, levels : 0..NumLevels]]
      <3> DEFINE reg == [registry[r] EXCEPT !.domain = TRUE]
      <3>1. registry' = [registry EXCEPT ![r] = reg]
        BY <1>5 DEF ArchitectCreatesDomain
      <3>2. reg \in [domain : BOOLEAN, levels : 0..NumLevels]
        BY RegistryDomain
      <3> HIDE DEF reg
      <3> QED
        BY <3>1, <3>2
    <2>6. domain' \in [Run -> BOOLEAN] /\ pc' \in [Run -> TaskStep]
      BY <1>5 DEF ArchitectCreatesDomain
    <2>7. UNCHANGED <<pageVars, requestVars, agent, progress, outcome, connVars, linked>>
      BY <1>5 DEF ArchitectCreatesDomain
    <2> QED
      BY <2>4, <2>5, <2>6, <2>7
  <1>6. CASE ArchitectCreatesLevel(r)
    <2>1. linked[r] + 1 \in 0..NumLevels /\ registry[r].levels + 1 \in 0..NumLevels
      BY <1>6, SMTT(30) DEF ArchitectCreatesLevel, TaskInv
    <2>2. <<AgentEvent("progress", 1)>> \in Seq(SseEvent)
      BY EmittedEvents DEF Agent
    <2>3. out' \in [Run -> Seq(SseEvent)]
      BY <1>6, <2>2 DEF ArchitectCreatesLevel
    <2>4. linked' \in [Run -> 0..NumLevels]
      BY <1>6, <2>1 DEF ArchitectCreatesLevel
    <2>5. registry' \in [Run -> [domain : BOOLEAN, levels : 0..NumLevels]]
      <3> DEFINE reg == [registry[r] EXCEPT !.levels = @ + 1]
      <3>1. registry' = [registry EXCEPT ![r] = reg]
        BY <1>6 DEF ArchitectCreatesLevel
      <3>2. reg \in [domain : BOOLEAN, levels : 0..NumLevels]
        BY <2>1, ZenonT(60)
      <3> HIDE DEF reg
      <3> QED
        BY <3>1, <3>2
    <2>6. UNCHANGED <<pageVars, requestVars, pc, agent, progress, outcome, connVars, domain>>
      BY <1>6 DEF ArchitectCreatesLevel
    <2> QED
      BY <2>3, <2>4, <2>5, <2>6
  <1>7. CASE AgentWorks(r)
    <2>1. progress[r] + 1 \in 0..MaxProgress
      BY <1>7, SMTT(30) DEF AgentWorks
    <2> QED
      BY <1>7, <2>1, EmittedEvents DEF AgentWorks
  <1>8. CASE NextAgent(r)
    <2>1. agent[r] \in Agent /\ agent[r] < NumAgents
      BY <1>8 DEF NextAgent
    <2>2. agent[r] + 1 \in Agent
      <3> HIDE DEF TypeOK
      <3> QED
        BY <2>1 DEF Agent
    <2>3. <<AgentEvent("agent_completed", agent[r]), AgentEvent("agent_started", agent[r] + 1)>>
             \in Seq(SseEvent)
      BY <2>1, EmittedEvents
    <2>4. out' \in [Run -> Seq(SseEvent)]
      BY <1>8, <2>3 DEF NextAgent
    <2>5. agent' \in [Run -> Agent]
      BY <1>8, <2>2 DEF NextAgent
    <2>6. pc' \in [Run -> TaskStep] /\ progress' \in [Run -> 0..MaxProgress]
      BY <1>8, SMTT(30) DEF NextAgent
    <2>7. UNCHANGED <<pageVars, requestVars, outcome, registry, connVars, graphVars>>
      BY <1>8 DEF NextAgent
    <2> QED
      BY <2>4, <2>5, <2>6, <2>7
  <1>9. CASE Complete(r)
    BY <1>9, EmittedEvents DEF Complete
  <1>10. CASE AgentFails(r)
    <2>1. linked' \in [Run -> 0..NumLevels]
      <3>1. pc[r] = "levels" => linked[r] + 1 \in 0..NumLevels
        BY <1>10 DEF AgentFails, TaskInv
      <3> QED
        BY <1>10, <3>1 DEF AgentFails
    <2>2. domain' \in [Run -> BOOLEAN]
      BY <1>10 DEF AgentFails
    <2>3. out' \in [Run -> Seq(SseEvent)]
      BY <1>10, EmittedEvents DEF AgentFails
    <2> QED
      BY <1>10, <2>1, <2>2, <2>3 DEF AgentFails
  <1> QED
    BY <1>1, <1>2, <1>3, <1>4, <1>5, <1>6, <1>7, <1>8, <1>9, <1>10 DEF TaskStepOf

LEMMA TaskOwn ==
    ASSUME TypeOK, NEW r \in Run, TaskInv(r), TaskStepOf(r)
    PROVE  TaskInv(r)'
  <1> USE StreamAssumption
      DEF TypeOK, TaskInv, At, Return, pageVars, requestVars, connVars, graphVars, TaskStep
  <1>1. CASE send_event(r)
    BY <1>1 DEF send_event
  <1>2. CASE check_domain_exists_fails(r)
    BY <1>2 DEF check_domain_exists_fails
  <1>3. CASE check_domain_exists_finds(r)
    BY <1>3 DEF check_domain_exists_finds
  <1>4. CASE check_domain_exists_passes(r)
    BY <1>4 DEF check_domain_exists_passes
  <1>5. CASE ArchitectCreatesDomain(r)
    BY <1>5 DEF ArchitectCreatesDomain
  <1>6. CASE ArchitectCreatesLevel(r)
    BY <1>6 DEF ArchitectCreatesLevel
  <1>7. CASE AgentWorks(r)
    BY <1>7 DEF AgentWorks
  <1>8. CASE NextAgent(r)
    BY <1>8 DEF NextAgent, MaySucceed
  <1>9. CASE Complete(r)
    BY <1>9 DEF Complete, MaySucceed
  <1>10. CASE AgentFails(r)
    BY <1>10 DEF AgentFails
  <1> QED
    BY <1>1, <1>2, <1>3, <1>4, <1>5, <1>6, <1>7, <1>8, <1>9, <1>10 DEF TaskStepOf

\* Which event follows which.
LEMMA AfterEvents ==
    /\ RunEvent("started") \in Protocol!First
    /\ RunEvent("domain_exists") \in Protocol!First
    /\ AgentEvent("agent_started", 1) \in Protocol!After(RunEvent("started"))
    /\ \A k \in Agent :
         /\ AgentEvent("progress", k) \in Protocol!After(AgentEvent("agent_started", k))
         /\ AgentEvent("progress", k) \in Protocol!After(AgentEvent("progress", k))
         /\ k < NumAgents =>
              AgentEvent("agent_started", k + 1) \in Protocol!After(AgentEvent("agent_completed", k))
         /\ k = NumAgents =>
              RunEvent("completed") \in Protocol!After(AgentEvent("agent_completed", k))
         /\ RunEvent("failed") \in Protocol!After(AgentEvent("agent_failed", k))
  <1> USE DEF AgentEvent, RunEvent, Protocol!AgentEvent, Protocol!RunEvent, Protocol!After
  <1>1. RunEvent("started") \in Protocol!First /\ RunEvent("domain_exists") \in Protocol!First
    BY DEF Protocol!First
  <1>2. AgentEvent("agent_started", 1) \in Protocol!After(RunEvent("started"))
    OBVIOUS
  <1>3. ASSUME NEW k \in Agent
        PROVE  /\ AgentEvent("progress", k) \in Protocol!After(AgentEvent("agent_started", k))
               /\ AgentEvent("progress", k) \in Protocol!After(AgentEvent("progress", k))
    OBVIOUS
  <1>4. ASSUME NEW k \in Agent, k < NumAgents
        PROVE  AgentEvent("agent_started", k + 1) \in Protocol!After(AgentEvent("agent_completed", k))
    BY <1>4
  <1>5. ASSUME NEW k \in Agent, k = NumAgents
        PROVE  RunEvent("completed") \in Protocol!After(AgentEvent("agent_completed", k))
    BY <1>5, AgentsAssumption
  <1>6. ASSUME NEW k \in Agent
        PROVE  RunEvent("failed") \in Protocol!After(AgentEvent("agent_failed", k))
    OBVIOUS
  <1> QED
    BY <1>1, <1>2, <1>3, <1>4, <1>5, <1>6

LEMMA OneEvent ==
    ASSUME NEW a \in SseEvent, a.type # "agent_completed"
    PROVE  /\ <<a>> \in Seq(SseEvent) /\ <<a>> # << >> /\ Len(<<a>>) = 1 /\ <<a>>[1] = a
           /\ Chained(<<a>>) /\ Completions(<<a>>) = 0
  <1> DEFINE s == <<a>>
  <1>1. s \in Seq(SseEvent) /\ s # << >> /\ Len(s) = 1 /\ s[1] = a
    OBVIOUS
  <1> HIDE DEF s
  <1>2. Chained(s)
    BY <1>1 DEF Chained
  <1>3. Completions(s) = 0
    BY <1>1, CompletionsNone
  <1> QED
    BY <1>1, <1>2, <1>3 DEF s

LEMMA TwoEvents ==
    ASSUME NEW a \in SseEvent, NEW b \in SseEvent, b \in Protocol!After(a),
           b.type # "agent_completed"
    PROVE  /\ <<a, b>> \in Seq(SseEvent) /\ <<a, b>> # << >> /\ Len(<<a, b>>) = 2
           /\ <<a, b>>[1] = a /\ <<a, b>>[2] = b
           /\ Chained(<<a, b>>)
           /\ Completions(<<a, b>>) = IF a.type = "agent_completed" THEN 1 ELSE 0
  <1> DEFINE s == <<a, b>>
  <1>1. s \in Seq(SseEvent) /\ s # << >> /\ Len(s) = 2 /\ s[1] = a /\ s[2] = b
    OBVIOUS
  <1> HIDE DEF s
  <1>2. Chained(s)
    BY <1>1 DEF Chained
  <1>3. CASE a.type = "agent_completed"
    <2>1. s[1].type = "agent_completed" /\ \A i \in 2..Len(s) : s[i].type # "agent_completed"
      BY <1>1, <1>3
    <2>2. Completions(s) = 1
      BY <1>1, <2>1, CompletionsOne
    <2> QED
      BY <1>1, <1>2, <1>3, <2>2 DEF s
  <1>4. CASE a.type # "agent_completed"
    <2>1. \A i \in 1..Len(s) : s[i].type # "agent_completed"
      BY <1>1, <1>4
    <2> QED
      BY <1>1, <1>2, <1>4, <2>1, CompletionsNone DEF s
  <1> QED
    BY <1>3, <1>4

LEMMA StartEvents ==
    ASSUME NEW s, s = <<RunEvent("started"), AgentEvent("agent_started", 1), AgentEvent("progress", 1)>>
    PROVE  /\ s \in Seq(SseEvent) /\ s # << >> /\ Len(s) = 3
           /\ s[1] = RunEvent("started") /\ s[3] = AgentEvent("progress", 1)
           /\ Chained(s) /\ Completions(s) = 0
           /\ \A i \in 1..Len(s) : s[i].type # "completed"
  <1>1. 1 \in Agent
    BY AgentsAssumption DEF Agent
  <1>2. /\ s \in Seq(SseEvent) /\ s # << >> /\ Len(s) = 3 /\ s[1] = RunEvent("started")
        /\ s[2] = AgentEvent("agent_started", 1) /\ s[3] = AgentEvent("progress", 1)
    BY EmittedEvents
  <1>3. Chained(s)
    BY <1>1, <1>2, AfterEvents DEF Chained
  <1>4. \A i \in 1..Len(s) : s[i].type # "agent_completed" /\ s[i].type # "completed"
    BY <1>2 DEF AgentEvent, RunEvent
  <1> QED
    BY <1>2, <1>3, <1>4, CompletionsNone

LEMMA ProgressEvents ==
    ASSUME NEW n \in {2, 3}, NEW s, s = [i \in 1..n |-> AgentEvent("progress", 1)]
    PROVE  /\ s \in Seq(SseEvent) /\ s # << >> /\ Len(s) = n
           /\ \A i \in 1..n : s[i] = AgentEvent("progress", 1)
           /\ Chained(s) /\ Completions(s) = 0
           /\ \A i \in 1..Len(s) : s[i].type # "completed"
  <1>1. 1 \in Agent
    BY AgentsAssumption DEF Agent
  <1>2. s \in Seq(SseEvent)
    BY EmittedEvents
  <1>3. Len(s) = n
    OBVIOUS
  <1>4. s # << >> /\ \A i \in 1..n : s[i] = AgentEvent("progress", 1)
    BY <1>3
  <1>5. Chained(s)
    BY <1>1, <1>3, <1>4, AfterEvents DEF Chained
  <1>6. \A i \in 1..Len(s) : s[i].type # "agent_completed" /\ s[i].type # "completed"
    BY <1>3, <1>4 DEF AgentEvent
  <1> QED
    BY <1>2, <1>3, <1>4, <1>5, <1>6, CompletionsNone

\* A send moves an event along the pipe, or drops it when nobody reads.
LEMMA SendKeeps ==
    ASSUME PageInv, NEW r \in Run, send_event(r) PROVE PageInv'
  <1>1. TaskStepOf(r)
    BY DEF TaskStepOf
  <1>2. TypeOK /\ TypeOK' /\ TaskInv(r)'
    BY <1>1, TaskTypes, TaskOwn DEF PageInv
  <1> SUFFICES ASSUME Read(r)
               PROVE  Follow(Pipe(r), pc[r], agent[r], outcome[r])' /\ Counted(r)'
    BY <1>1, <1>2, TaskKeeps
  <1> DEFINE o == out[r]
             c == chan[r]
  <1>3. /\ rx[r] /\ o # << >> /\ o \in Seq(SseEvent) /\ c \in Seq(SseEvent) /\ log \in Seq(SseEvent)
        /\ chan'[r] = Append(c, Head(o)) /\ out'[r] = Tail(o)
        /\ UNCHANGED <<log, completedAgents, pc, agent, outcome>>
    BY <1>2 DEF Read, send_event, TypeOK, pageVars
  <1>4. Follow(Pipe(r), pc[r], agent[r], outcome[r]) /\ Counted(r)
    BY ExactIsCounted DEF PageInv, FollowInv
  <1>5. Head(o) \in SseEvent /\ Tail(o) \in Seq(SseEvent)
    BY <1>3
  <1>6. Pipe(r)' = Pipe(r)
    <2>1. (log \o Append(c, Head(o))) \o Tail(o) = log \o (Append(c, Head(o)) \o Tail(o))
      <3> DEFINE c2 == Append(c, Head(o))
                 o2 == Tail(o)
      <3>1. c2 \in Seq(SseEvent) /\ o2 \in Seq(SseEvent) /\ log \in Seq(SseEvent)
        BY <1>3, MoveHead
      <3> HIDE DEF c2, o2
      <3>2. (log \o c2) \o o2 = log \o (c2 \o o2)
        BY <3>1, ConcatAssoc
      <3> QED
        BY <3>2 DEF c2, o2
    <2>2. Append(c, Head(o)) \o Tail(o) = c \o o
      BY <1>3, MoveHead
    <2>3. (log \o c) \o o = log \o (c \o o)
      BY <1>3, ConcatAssoc
    <2>4. Pipe(r)' = (log \o Append(c, Head(o))) \o Tail(o)
      BY <1>3 DEF Pipe
    <2> QED
      BY <2>1, <2>2, <2>3, <2>4 DEF Pipe
  <1>7. Follow(Pipe(r), pc[r], agent[r], outcome[r])'
    BY <1>3, <1>4, <1>6 DEF Follow, Ordered, Chained
  <1>8. Counted(r)'
    <2>1. Completions(chan[r])' + Completions(out[r])' = Completions(c) + Completions(o)
      <3>1. Completions(chan[r])' = Completions(Append(c, Head(o)))
            /\ Completions(out[r])' = Completions(Tail(o))
        BY <1>3 DEF Completions
      <3>2. Completions(Append(c, Head(o))) =
               Completions(c) + (IF Head(o).type = "agent_completed" THEN 1 ELSE 0)
        BY <1>3, <1>5, CompletionsAppend
      <3>3. Completions(o) =
               Completions(Tail(o)) + (IF Head(o).type = "agent_completed" THEN 1 ELSE 0)
        BY <1>3, CompletionsTail
      <3>4. Completions(c) \in Nat /\ Completions(Tail(o)) \in Nat
        BY <1>3, <1>5, CompletionsFinite
      <3> QED
        BY <3>1, <3>2, <3>3, <3>4
    <2>2. completedAgents' = completedAgents /\ Finished(r)' = Finished(r)
      BY <1>3 DEF Finished
    <2>3. completedAgents \in Nat /\ Completions(c) \in Nat /\ Completions(o) \in Nat
          /\ Completions(chan[r])' \in Nat /\ Completions(out[r])' \in Nat
      <3>1. completedAgents \in Nat
        BY <1>2, AgentsAssumption DEF TypeOK
      <3>2. Append(c, Head(o)) \in Seq(SseEvent)
        BY <1>3, <1>5
      <3>3. Completions(chan[r])' = Completions(Append(c, Head(o)))
            /\ Completions(out[r])' = Completions(Tail(o))
        BY <1>3 DEF Completions
      <3> QED
        BY <1>3, <1>5, <3>1, <3>2, <3>3, CompletionsFinite
    <2> QED
      BY <1>4, <2>1, <2>2, <2>3 DEF Counted
  <1> QED
    BY <1>7, <1>8

\* The agents' steps, up to the success of the last one.
LEMMA TaskPage ==
    ASSUME PageInv, NEW r \in Run, TaskStepOf(r) PROVE PageInv'
  <1>1. TypeOK /\ TypeOK' /\ TaskInv(r) /\ TaskInv(r)'
    BY TaskTypes, TaskOwn DEF PageInv
  <1>2. agent[r] \in Agent /\ Pipe(r) \in Seq(SseEvent) /\ 1 \in Agent
    <2>1. agent[r] \in Agent /\ log \in Seq(SseEvent) /\ chan[r] \in Seq(SseEvent) /\ out[r] \in Seq(SseEvent)
      BY <1>1 DEF TypeOK
    <2> QED
      BY <2>1, ConcatAssoc, AgentsAssumption DEF Pipe, Agent
  <1>3. Read(r) /\ pc[r] = "check" => Protocol!Allowed(Pipe(r)) = Protocol!First
    BY DEF PageInv, FollowInv, Follow, Protocol!Allowed
  <1>4. Read(r) /\ pc[r] \in {"architect", "levels", "work"} =>
           \A t \in {"progress", "agent_completed", "agent_failed"} :
              AgentEvent(t, agent[r]) \in Protocol!Allowed(Pipe(r))
    BY <1>2, AllowedAtWork DEF PageInv, FollowInv, Follow
  <1>5. agent[r] \in Nat /\ NumAgents \in Nat
    BY <1>2, AgentsAssumption DEF Agent
  <1>6. pc[r] # "ended" => outcome[r] = "none"
    BY <1>1 DEF TaskInv
  <1>11. CASE send_event(r)
    BY <1>11, SendKeeps
  <1>12. CASE check_domain_exists_fails(r)
    <2>1. pc[r] = "check" /\ pc'[r] = "ended" /\ outcome'[r] = "err" /\ outcome[r] = "none"
          /\ UNCHANGED <<log, completedAgents, agent, out, chan>>
      BY <1>1, <1>6, <1>12 DEF check_domain_exists_fails, At, Return, TypeOK, pageVars, connVars
    <2>2. ASSUME Read(r) PROVE Follow(Pipe(r), pc[r], agent[r], outcome[r])' /\ Counted(r)'
      <3>1. Follow(Pipe(r), pc[r], agent[r], outcome[r]) /\ Counted(r)
        BY <2>2, ExactIsCounted DEF PageInv, FollowInv
      <3>2. Pipe(r)' = Pipe(r)
        BY <2>1 DEF Pipe
      <3>3. Follow(Pipe(r), pc[r], agent[r], outcome[r])'
        BY <2>1, <3>1, <3>2 DEF Follow, Ordered, Chained
      <3>4. Counted(r)'
        BY <2>1, <3>1 DEF Counted, Completions, Finished
      <3> QED
        BY <3>3, <3>4
    <2> QED
      BY <1>1, <2>2, TaskKeeps
  <1>13. CASE check_domain_exists_finds(r)
    <2> DEFINE e == RunEvent("domain_exists")
    <2>1. e \in SseEvent /\ e.type = "domain_exists"
      BY EventsTyped DEF RunEventType
    <2>2. e \in Protocol!First
      BY AfterEvents
    <2>3. pc[r] = "check" /\ out[r] = << >> /\ pc'[r] = "ended" /\ outcome'[r] = "err"
          /\ Emit(r, <<e>>) /\ UNCHANGED <<agent, chan>>
      BY <1>1, <1>13 DEF check_domain_exists_finds, At, Return, TypeOK, connVars
    <2>4. Finished(r)' = Finished(r) /\ Finished(r) \in Int
      BY <1>5, <1>6, <2>3 DEF Finished
    <2> HIDE DEF e
    <2>5. Read(r) => e \in Protocol!Allowed(Pipe(r))
      BY <1>3, <2>2, <2>3
    <2> DEFINE s == <<e>>
    <2>6. /\ Emit(r, s) /\ s[1] = e /\ s \in Seq(SseEvent) /\ s # << >> /\ Chained(s)
          /\ Completions(s) = 0 /\ \A i \in 1..Len(s) : s[i].type # "completed"
      BY <2>1, <2>3, OneEvent
    <2> HIDE DEF s
    <2>7. Completions(s) = Finished(r)' - Finished(r)
      BY <2>4, <2>6
    <2>8. pc[r] # "ended" /\ pc'[r] # "check" /\ pc'[r] \notin {"architect", "levels", "work"}
      BY <2>3
    <2> QED
      BY <1>1, <2>3, <2>5, <2>6, <2>7, <2>8, EmitKeeps
  <1>14. CASE check_domain_exists_passes(r)
    <2> DEFINE s == <<RunEvent("started"), AgentEvent("agent_started", 1), AgentEvent("progress", 1)>>
    <2>1. /\ s \in Seq(SseEvent) /\ s # << >> /\ Len(s) = 3
          /\ s[1] = RunEvent("started") /\ s[3] = AgentEvent("progress", 1)
          /\ Chained(s) /\ Completions(s) = 0
          /\ \A i \in 1..Len(s) : s[i].type # "completed"
      BY StartEvents
    <2>2. pc[r] = "check" /\ out[r] = << >> /\ pc'[r] = "architect" /\ Emit(r, s)
          /\ UNCHANGED <<agent, outcome, chan>>
      BY <1>1, <1>14 DEF check_domain_exists_passes, At, TypeOK, connVars
    <2> HIDE DEF s
    <2>3. Finished(r)' = Finished(r) /\ Finished(r) \in Int
      BY <1>5, <2>2 DEF Finished
    <2>4. Read(r) => s[1] \in Protocol!Allowed(Pipe(r))
      BY <1>3, <2>1, <2>2, AfterEvents
    <2>5. s[Len(s)] \in Working(agent'[r])
      BY <1>1, <2>1, <2>2 DEF TaskInv, Working
    <2>6. Completions(s) = Finished(r)' - Finished(r)
      BY <2>1, <2>3
    <2>7. pc[r] # "ended" /\ pc'[r] # "check"
      BY <2>2
    <2> QED
      BY <1>1, <2>1, <2>2, <2>4, <2>5, <2>6, <2>7, EmitKeeps
  <1>15. CASE ArchitectCreatesDomain(r)
    <2>1. PICK n \in {2, 3} : Emit(r, [i \in 1..n |-> AgentEvent("progress", 1)])
      BY <1>15 DEF ArchitectCreatesDomain
    <2> DEFINE s == [i \in 1..n |-> AgentEvent("progress", 1)]
    <2>2. /\ s \in Seq(SseEvent) /\ s # << >> /\ Len(s) = n
          /\ \A i \in 1..n : s[i] = AgentEvent("progress", 1)
          /\ Chained(s) /\ Completions(s) = 0
          /\ \A i \in 1..Len(s) : s[i].type # "completed"
      BY ProgressEvents
    <2>3. Emit(r, s)
      BY <2>1
    <2> HIDE DEF s
    <2>4. pc[r] = "architect" /\ out[r] = << >> /\ pc'[r] = "levels" /\ agent[r] = 1
          /\ UNCHANGED <<agent, outcome, chan>>
      BY <1>1, <1>15 DEF ArchitectCreatesDomain, At, TypeOK, TaskInv, connVars
    <2>5. Finished(r)' = Finished(r) /\ Finished(r) \in Int
      BY <1>5, <2>4 DEF Finished
    <2>6. s[1] = AgentEvent("progress", 1) /\ s[Len(s)] = AgentEvent("progress", 1)
      BY <2>2
    <2>7. Read(r) => s[1] \in Protocol!Allowed(Pipe(r))
      BY <1>4, <2>4, <2>6
    <2>8. s[Len(s)] \in Working(agent'[r])
      BY <2>4, <2>6 DEF Working
    <2> QED
      BY <1>1, <2>2, <2>3, <2>4, <2>5, <2>7, <2>8, EmitKeeps
  <1>16. CASE ArchitectCreatesLevel(r) \/ AgentWorks(r)
    <2> DEFINE e == AgentEvent("progress", agent[r])
    <2>1. e \in SseEvent /\ e.type = "progress"
      BY <1>2, EventsTyped DEF AgentEventType
    <2>2. pc[r] \in {"levels", "work"} /\ out[r] = << >> /\ Emit(r, <<e>>)
          /\ UNCHANGED <<pc, agent, outcome, chan>>
      BY <1>1, <1>16 DEF ArchitectCreatesLevel, AgentWorks, At, TaskInv, connVars
    <2>3. Finished(r)' = Finished(r) /\ Finished(r) \in Int
      BY <1>5, <2>2 DEF Finished
    <2>4. Read(r) => e \in Protocol!Allowed(Pipe(r))
      BY <1>4, <2>2
    <2>5. e \in Working(agent'[r])
      BY <2>2 DEF Working
    <2> HIDE DEF e
    <2> DEFINE s == <<e>>
    <2>6. /\ Emit(r, s) /\ s[1] = e /\ s[Len(s)] = e /\ s \in Seq(SseEvent) /\ s # << >>
          /\ Chained(s) /\ Completions(s) = 0 /\ \A i \in 1..Len(s) : s[i].type # "completed"
      BY <2>1, <2>2, OneEvent
    <2> HIDE DEF s
    <2>7. Completions(s) = Finished(r)' - Finished(r)
      BY <2>3, <2>6
    <2>8. pc[r] # "ended" /\ pc'[r] # "check"
      BY <2>2
    <2> QED
      BY <1>1, <2>2, <2>4, <2>5, <2>6, <2>7, <2>8, EmitKeeps
  <1>17. CASE NextAgent(r)
    <2> DEFINE a == AgentEvent("agent_completed", agent[r])
               b == AgentEvent("agent_started", agent[r] + 1)
    <2>1. agent[r] < NumAgents /\ agent[r] + 1 \in Agent
      BY <1>2, <1>17, AgentsAssumption DEF NextAgent, Agent
    <2>2. a \in SseEvent /\ b \in SseEvent /\ a.type = "agent_completed" /\ b.type = "agent_started"
      BY <1>2, <2>1, EventsTyped DEF AgentEventType
    <2>3. b \in Protocol!After(a)
      BY <1>2, <2>1, AfterEvents
    <2>4. pc[r] \in {"levels", "work"} /\ out[r] = << >> /\ pc'[r] = "work" /\ Emit(r, <<a, b>>)
          /\ agent'[r] = agent[r] + 1 /\ UNCHANGED <<outcome, chan>>
      BY <1>1, <1>17 DEF NextAgent, MaySucceed, At, TypeOK, connVars
    <2>5. Finished(r)' - Finished(r) = 1
      BY <1>5, <1>6, <2>4 DEF Finished
    <2>6. Read(r) => a \in Protocol!Allowed(Pipe(r))
      BY <1>4, <2>4
    <2>7. b \in Working(agent'[r])
      BY <2>4 DEF Working
    <2> HIDE DEF a, b
    <2>8. /\ <<a, b>> \in Seq(SseEvent) /\ <<a, b>> # << >> /\ Len(<<a, b>>) = 2
          /\ <<a, b>>[1] = a /\ <<a, b>>[2] = b
          /\ Chained(<<a, b>>) /\ Completions(<<a, b>>) = 1
      BY <2>2, <2>3, TwoEvents
    <2>9. \A i \in 1..Len(<<a, b>>) : <<a, b>>[i].type # "completed"
      BY <2>2, <2>8
    <2> DEFINE s == <<a, b>>
    <2>10. Emit(r, s) /\ s[1] = a /\ s[Len(s)] = b /\ s \in Seq(SseEvent) /\ s # << >>
           /\ Chained(s) /\ Completions(s) = 1 /\ \A i \in 1..Len(s) : s[i].type # "completed"
      BY <2>4, <2>8, <2>9
    <2> HIDE DEF s
    <2> QED
      BY <1>1, <2>4, <2>5, <2>6, <2>7, <2>10, EmitKeeps
  <1>18. CASE Complete(r)
    <2> DEFINE a == AgentEvent("agent_completed", agent[r])
               b == RunEvent("completed")
    <2>1. agent[r] = NumAgents
      BY <1>18 DEF Complete
    <2>2. a \in SseEvent /\ b \in SseEvent /\ a.type = "agent_completed" /\ b.type = "completed"
      BY <1>2, EventsTyped DEF AgentEventType, RunEventType
    <2>3. b \in Protocol!After(a)
      BY <1>2, <2>1, AfterEvents
    <2>4. pc[r] \in {"levels", "work"} /\ out[r] = << >> /\ pc'[r] = "ended" /\ Emit(r, <<a, b>>)
          /\ outcome'[r] = "ok" /\ UNCHANGED chan
      BY <1>1, <1>18 DEF Complete, MaySucceed, At, Return, TypeOK, connVars
    <2>5. Finished(r)' - Finished(r) = 1
      BY <1>5, <1>6, <2>1, <2>4 DEF Finished
    <2>6. Read(r) => a \in Protocol!Allowed(Pipe(r))
      BY <1>4, <2>4
    <2> HIDE DEF a, b
    <2> DEFINE s == <<a, b>>
    <2>7. Emit(r, s) /\ s[1] = a /\ s \in Seq(SseEvent) /\ s # << >>
           /\ Chained(s) /\ Completions(s) = 1
      BY <2>2, <2>3, <2>4, TwoEvents
    <2> HIDE DEF s
    <2> QED
      BY <1>1, <2>4, <2>5, <2>6, <2>7, EmitKeeps
  <1>19. CASE AgentFails(r)
    <2> DEFINE a == AgentEvent("agent_failed", agent[r])
               b == RunEvent("failed")
    <2>1. a \in SseEvent /\ b \in SseEvent /\ a.type = "agent_failed" /\ b.type = "failed"
      BY <1>2, EventsTyped DEF AgentEventType, RunEventType
    <2>2. b \in Protocol!After(a)
      BY <1>2, AfterEvents
    <2>3. pc[r] \in {"architect", "levels", "work"} /\ out[r] = << >> /\ pc'[r] = "ended"
          /\ Emit(r, <<a, b>>) /\ outcome'[r] = "err" /\ UNCHANGED <<agent, chan>>
      BY <1>1, <1>19 DEF AgentFails, FailureEvents, At, Return, TypeOK, connVars
    <2>4. Finished(r)' = Finished(r) /\ Finished(r) \in Int
      BY <1>5, <1>6, <2>3 DEF Finished
    <2>5. Read(r) => a \in Protocol!Allowed(Pipe(r))
      BY <1>4, <2>3
    <2> HIDE DEF a, b
    <2>6. /\ <<a, b>> \in Seq(SseEvent) /\ <<a, b>> # << >> /\ Len(<<a, b>>) = 2
          /\ <<a, b>>[1] = a /\ <<a, b>>[2] = b
          /\ Chained(<<a, b>>) /\ Completions(<<a, b>>) = 0
      BY <2>1, <2>2, TwoEvents
    <2>7. \A i \in 1..Len(<<a, b>>) : <<a, b>>[i].type # "completed"
      BY <2>1, <2>6
    <2> DEFINE s == <<a, b>>
    <2>8. Emit(r, s) /\ s[1] = a /\ s \in Seq(SseEvent) /\ s # << >>
           /\ Chained(s) /\ Completions(s) = 0 /\ \A i \in 1..Len(s) : s[i].type # "completed"
      BY <2>3, <2>6, <2>7
    <2> HIDE DEF s
    <2> QED
      BY <1>1, <2>3, <2>4, <2>5, <2>8, EmitKeeps
  <1> QED
    BY <1>11, <1>12, <1>13, <1>14, <1>15, <1>16, <1>17, <1>18, <1>19 DEF TaskStepOf

-----------------------------------------------------------------------------
(* Steps of the page. *)

\* A step of the page that reads no event and does not show the end.
LEMMA PageKeeps ==
    ASSUME PageInv, TypeOK', StreamInv', FreshInv', pageState' # "completed",
           UNCHANGED <<taskVars, connVars, graphVars>>,
           \A q \in Run : \/ fetch'[q] = fetch[q]
                          \/ fetch'[q] \notin {"none", "requested", "open"}
                          \/ fetch'[q] = "requested" /\ pc[q] = "none",
           \A q \in Run : fetch'[q] = "open" =>
              fetch[q] = "open" /\ UNCHANGED <<log, completedAgents>>
    PROVE  PageInv'
  <1>1. \A q \in Run : UNCHANGED TaskState(q)
    BY DEF taskVars, connVars, graphVars, TaskState
  <1>2. \A q \in Run : TaskInv(q)'
    <2> TAKE q \in Run
    <2>1. CASE fetch'[q] = "requested" /\ pc[q] = "none"
      BY <1>1, <2>1 DEF TaskState, TaskInv, PageInv
    <2>2. CASE fetch'[q] = fetch[q] \/ fetch'[q] \notin {"none", "requested", "open"}
      BY <1>1, <2>2, SameTask DEF PageInv
    <2> QED
      BY <2>1, <2>2
  <1>3. ASSUME NEW q \in Run, Read(q)' PROVE Read(q) /\ UNCHANGED <<log, completedAgents>>
    BY <1>1, <1>3 DEF Read, TaskState
  <1>4. FollowInv'
    <2> SUFFICES ASSUME NEW q \in Run, Read(q)'
                 PROVE  Follow(Pipe(q), pc[q], agent[q], outcome[q])'
      BY DEF FollowInv
    <2> QED
      BY <1>1, <1>3, SameFollow DEF PageInv, FollowInv
  <1>5. ProgressIsExact'
    <2>1. ASSUME NEW q \in Run, Read(q)' PROVE Counted(q)'
      <3>1. Counted(q)
        BY <1>3, <2>1, ExactIsCounted DEF PageInv
      <3> QED
        BY <1>1, <1>3, <2>1, <3>1, SameCounted
    <2> QED
      BY <2>1 DEF ProgressIsExact, Read, Counted, Finished
  <1>6. CompletedInv' /\ CompletedIsReal'
    BY DEF CompletedInv, CompletedIsReal
  <1> QED
    BY <1>2, <1>4, <1>5, <1>6 DEF PageInv

\* Steps of the user and of the search for similar domains.
LEMMA UserPage ==
    ASSUME PageInv, UserStep \/ fetchSimilarDomains
    PROVE  PageInv'
  <1>1. TypeOK /\ StreamInv /\ StreamInv' /\ FreshInv
    BY StreamInvUser DEF PageInv
  <1>0. << >> \in Seq(SseEvent) /\ 0 \in 0..NumAgents
    BY AgentsAssumption
  <1> USE StreamAssumption, AgentsAssumption
  <1>2. CASE fetchSimilarDomains \/ handleProceedToForm \/ Retry \/ Mount
    <2>1. UNCHANGED <<abortRef, log, completedAgents, requestVars, taskVars, connVars, graphVars>>
          /\ pageState' \in {"similar_domains", "form", "loading"}
      BY <1>2 DEF fetchSimilarDomains, handleProceedToForm, Retry, Mount
    <2>2. TypeOK' /\ FreshInv'
      BY <1>1, <2>1 DEF TypeOK, FreshInv, PageState, requestVars, taskVars, connVars, graphVars
    <2> QED
      BY <1>1, <2>1, <2>2, PageKeeps DEF requestVars
  <1>3. CASE handleStartGeneration
    <2>1. starts + 1 \in Run /\ fetch[starts + 1] = "none" /\ pageState = "form"
      BY <1>1, <1>3 DEF handleStartGeneration, StreamInv, RequestsInOrder, Run
    <2>2. /\ pageState' = "generating" /\ log' = << >> /\ completedAgents' = 0
          /\ starts' = starts + 1 /\ abortRef' = starts + 1
          /\ fetch' = [fetch EXCEPT ![starts + 1] = "requested"]
          /\ UNCHANGED <<taskVars, connVars, graphVars>>
      BY <1>3 DEF handleStartGeneration
    <2>3. pc[starts + 1] = "none"
      BY <2>1 DEF PageInv, TaskInv
    <2>4. \A q \in Run : q # starts + 1 => fetch'[q] = fetch[q] /\ fetch[q] \notin Live
      BY <1>1, <2>1, <2>2 DEF TypeOK, StreamInv, OneStream
    <2>5. fetch'[starts + 1] = "requested"
      BY <1>1, <2>1, <2>2 DEF TypeOK
    <2>6. TypeOK'
      <3>1. fetch' \in [Run -> Fetch] /\ starts' \in 0..MaxRuns
        BY <1>1, <2>1, <2>2 DEF TypeOK, Fetch, Run
      <3> QED
        BY <1>0, <1>1, <2>1, <2>2, <3>1 DEF TypeOK, PageState, taskVars, connVars, graphVars
    <2>7. FreshInv'
      BY <2>2 DEF FreshInv
    <2> QED
      BY <1>1, <2>2, <2>3, <2>4, <2>5, <2>6, <2>7, PageKeeps DEF Live
  <1>4. CASE handleCancelGeneration \/ Unmount
    <2>1. /\ Abort(abortRef) /\ abortRef' = NoRun /\ pageState' \in {"form", "away"}
          /\ UNCHANGED <<starts, taskVars, connVars, graphVars>>
          /\ UNCHANGED <<log, completedAgents>> \/ (log' = << >> /\ completedAgents' = 0)
      BY <1>4 DEF handleCancelGeneration, Unmount
    <2>2. fetch' \in [Run -> Fetch]
      BY <1>1, <2>1 DEF TypeOK, Abort, Fetch
    <2>3. TypeOK'
      <3>1. log' \in Seq(SseEvent) /\ completedAgents' \in 0..NumAgents
        BY <1>0, <1>1, <2>1 DEF TypeOK
      <3> QED
        BY <1>0, <1>1, <2>1, <2>2, <3>1 DEF TypeOK, PageState, taskVars, connVars, graphVars
    <2>4. \A q \in Run : fetch'[q] \notin Live
      BY <1>1, <2>1 DEF TypeOK, StreamInv, OneStream, Abort, Live
    <2>5. \A q \in Run : fetch'[q] = fetch[q] \/ fetch'[q] = "aborted"
      BY <1>1, <2>1 DEF TypeOK, Abort
    <2>6. FreshInv'
      BY <2>4 DEF FreshInv, Live
    <2> QED
      BY <1>1, <2>1, <2>3, <2>4, <2>5, <2>6, PageKeeps DEF Live
  <1> QED
    BY <1>2, <1>3, <1>4 DEF UserStep

\* The stream ends, or breaks.
LEMMA StreamOver ==
    ASSUME PageInv, NEW r \in Run, ReadEnd(r) \/ onError(r)
    PROVE  PageInv'
  <1>1. TypeOK /\ StreamInv /\ StreamInv' /\ FreshInv
    BY StreamInvReader DEF PageInv, ReaderStep
  <1>2. /\ fetch[r] \in Live
        /\ \E f \in {"ended", "broken"} : fetch' = [fetch EXCEPT ![r] = f]
        /\ UNCHANGED <<log, completedAgents, starts, taskVars, connVars, graphVars>>
        /\ pageState' \in {pageState, "error"} /\ abortRef' \in {abortRef, NoRun}
    BY DEF ReadEnd, onError, Live
  <1>3. pageState = "generating"
    BY <1>1, <1>2 DEF StreamInv, OneStream
  <1>4. fetch' \in [Run -> Fetch]
    BY <1>1, <1>2 DEF TypeOK, Fetch
  <1>5. TypeOK'
    BY <1>1, <1>2, <1>4 DEF TypeOK, PageState, taskVars, connVars, graphVars
  <1>6. \A q \in Run : fetch'[q] = fetch[q] \/ fetch'[q] \in {"ended", "broken"}
    BY <1>1, <1>2 DEF TypeOK
  <1>7. FreshInv'
    BY <1>1, <1>2, <1>6 DEF FreshInv
  <1> QED
    BY <1>1, <1>2, <1>3, <1>5, <1>6, <1>7, PageKeeps

\* A terminal event is the last thing a task has to say.
LEMMA TerminalEmpties ==
    ASSUME PageInv, NEW r \in Run, Read(r), chan[r] # << >>, Head(chan[r]).type \in Terminal
    PROVE  chan[r] = <<Head(chan[r])>> /\ out[r] = << >>
  <1> DEFINE c == chan[r]
             o == out[r]
             t == c \o o
  <1>1. c \in Seq(SseEvent) /\ o \in Seq(SseEvent) /\ log \in Seq(SseEvent) /\ c # << >>
    BY DEF PageInv, TypeOK
  <1>2. Ordered((log \o c) \o o)
    BY DEF PageInv, FollowInv, Follow, Pipe
  <1>3. c[1].type \in Terminal
    BY <1>1
  <1> HIDE DEF c, o
  <1>4. Ordered(log \o t)
    BY <1>1, <1>2, ConcatAssoc
  <1>5. t \in Seq(SseEvent) /\ t # << >> /\ t[1] = c[1] /\ Len(t) = Len(c) + Len(o)
        /\ Len(c) \in Nat /\ Len(o) \in Nat /\ Len(c) >= 1
    BY <1>1
  <1> HIDE DEF t
  <1>6. Len(t) = 1
    BY <1>1, <1>3, <1>4, <1>5, TerminalIsLast
  <1>7. Len(c) = 1 /\ Len(o) = 0
    BY <1>5, <1>6
  <1>8. c = <<Head(c)>> /\ o = << >>
    BY <1>1, <1>7
  <1> QED
    BY <1>8 DEF c, o

LEMMA ReadKeeps ==
    ASSUME PageInv, NEW r \in Run, ReadEvent(r) PROVE PageInv'
  <1> DEFINE e == Head(chan[r])
             c == chan[r]
             o == out[r]
             one == IF e.type = "agent_completed" THEN 1 ELSE 0
  <1>1. TypeOK /\ StreamInv /\ StreamInv' /\ TaskInv(r)
    BY StreamInvReader DEF PageInv, ReaderStep
  <1>2. /\ Read(r) /\ c # << >> /\ log' = Append(log, e)
        /\ completedAgents' = IF e.type = "agent_completed" THEN completedAgents + 1 ELSE completedAgents
        /\ pageState' = NextPageState(e)
        /\ abortRef' = IF e.type \in Terminal THEN NoRun ELSE abortRef
        /\ fetch' = IF e.type \in Terminal THEN [fetch EXCEPT ![r] = "closed"] ELSE fetch
        /\ chan' = [chan EXCEPT ![r] = Tail(c)]
        /\ UNCHANGED <<starts, taskVars, rx, graphVars>>
    BY DEF ReadEvent, Read
  <1>3. pageState = "generating" /\ r = starts /\ \A q \in Run : q # r => fetch[q] \notin Live
    BY <1>1, <1>2 DEF StreamInv, OneStream, Read, Live
  <1>4. /\ c \in Seq(SseEvent) /\ o \in Seq(SseEvent) /\ log \in Seq(SseEvent)
        /\ e \in SseEvent /\ Tail(c) \in Seq(SseEvent) /\ Append(log, e) \in Seq(SseEvent)
    <2>1. c \in Seq(SseEvent) /\ o \in Seq(SseEvent) /\ log \in Seq(SseEvent)
      BY <1>1 DEF TypeOK
    <2> QED
      BY <1>2, <2>1
  <1>5. chan'[r] = Tail(c) /\ \A q \in Run : q # r => chan'[q] = chan[q]
    BY <1>1, <1>2 DEF TypeOK
  <1>6. Follow(Pipe(r), pc[r], agent[r], outcome[r]) /\ Counted(r)
    BY <1>2, ExactIsCounted DEF PageInv, FollowInv
  <1>7. /\ completedAgents \in Nat /\ Completions(c) \in Nat /\ Completions(o) \in Nat
        /\ Completions(Tail(c)) \in Nat /\ Finished(r) \in Nat /\ Finished(r) <= NumAgents
        /\ NumAgents \in Nat
    <2>1. completedAgents \in Nat /\ NumAgents \in Nat
      BY <1>1, AgentsAssumption DEF TypeOK
    <2>2. agent[r] \in 1..NumAgents
      BY <1>1 DEF TypeOK, Agent
    <2>3. Finished(r) \in Nat /\ Finished(r) <= NumAgents
      BY <2>1, <2>2 DEF Finished
    <2> QED
      BY <1>4, <2>1, <2>3, CompletionsFinite
  <1>8. Completions(c) = Completions(Tail(c)) + one
    BY <1>2, <1>4, CompletionsTail
  <1>9. completedAgents' = completedAgents + one
    BY <1>2, <1>7
  <1>10. completedAgents' \in 0..NumAgents
    BY <1>6, <1>7, <1>8, <1>9 DEF Counted
  <1>11. TypeOK'
    <2>1. pageState' \in PageState /\ abortRef' \in Run \cup {NoRun}
      BY <1>1, <1>2 DEF TypeOK, NextPageState, PageState
    <2>2. fetch' \in [Run -> Fetch]
      BY <1>1, <1>2 DEF TypeOK, Fetch
    <2>3. chan' \in [Run -> Seq(SseEvent)]
      BY <1>1, <1>2, <1>4 DEF TypeOK
    <2>4. \A q \in Run : Len(chan'[q]) <= Capacity
      <3>1. Len(Tail(c)) <= Capacity
        <4>1. Len(c) <= Capacity
          BY <1>1 DEF TypeOK
        <4>2. Len(Tail(c)) = Len(c) - 1 /\ Len(c) \in Nat
          BY <1>2, <1>4
        <4> QED
          BY <4>1, <4>2, StreamAssumption
      <3> QED
        BY <1>1, <1>5, <3>1 DEF TypeOK
    <2> QED
      BY <1>1, <1>2, <1>4, <1>10, <2>1, <2>2, <2>3, <2>4 DEF TypeOK, taskVars, graphVars
  <1>12. \A q \in Run : TaskInv(q)'
    <2> TAKE q \in Run
    <2>1. CASE q = r
      <3>1. fetch[r] = "open" /\ fetch'[r] \in {"open", "closed"}
        BY <1>1, <1>2 DEF Read, TypeOK
      <3> QED
        BY <1>1, <1>2, <2>1, <3>1 DEF TaskInv, taskVars, graphVars
    <2>2. CASE q # r
      <3>1. UNCHANGED TaskState(q)
        BY <1>2, <1>5, <2>2 DEF TaskState, taskVars, graphVars
      <3>2. fetch'[q] = fetch[q]
        BY <1>1, <1>2, <2>2 DEF TypeOK
      <3> QED
        BY <3>1, <3>2, SameTask DEF PageInv
    <2> QED
      BY <2>1, <2>2
  <1>13. \A q \in Run : fetch'[q] \in Live => q = r /\ fetch'[q] = "open" /\ e.type \notin Terminal
    BY <1>1, <1>2, <1>3 DEF TypeOK, Read, Live
  <1>14. FreshInv'
    BY <1>13 DEF FreshInv, Live
  <1>15. Follow(Pipe(r), pc[r], agent[r], outcome[r])'
    <2> HIDE DEF e, c, o
    <2>1. Pipe(r)' = (Append(log, e) \o Tail(c)) \o o
      BY <1>2, <1>5 DEF Pipe, taskVars, o
    <2>2. Append(log, e) \o Tail(c) = log \o c
      BY <1>2, <1>4, MoveHead DEF e, c
    <2>3. Pipe(r)' = Pipe(r)
      BY <2>1, <2>2 DEF Pipe, c, o
    <2>4. pc' = pc /\ agent' = agent /\ outcome' = outcome
      BY <1>2 DEF taskVars
    <2> QED
      BY <1>6, <2>3, <2>4 DEF Follow, Ordered, Chained
  <1>16. Counted(r)'
    <2>1. Completions(chan[r])' = Completions(Tail(c)) /\ Completions(out[r])' = Completions(o)
          /\ Finished(r)' = Finished(r)
      BY <1>2, <1>5 DEF Completions, Finished, taskVars
    <2> QED
      BY <1>6, <1>7, <1>8, <1>9, <2>1 DEF Counted
  <1>17. FollowInv' /\ ProgressIsExact'
    <2>1. \A q \in Run : Read(q)' => q = r
      BY <1>13 DEF Read, Live
    <2> QED
      BY <1>15, <1>16, <2>1 DEF FollowInv, ProgressIsExact, Read, Counted, Finished
  <1>18. CompletedInv' /\ CompletedIsReal'
    <2>1. CASE e.type = "completed"
      <3>1. c = <<e>> /\ o = << >>
        BY <1>2, <2>1, TerminalEmpties DEF Terminal
      <3>2. outcome[r] = "ok"
        <4> DEFINE s == Pipe(r)
        <4>1. s = log \o <<e>>
          <5>1. s = (log \o <<e>>) \o << >>
            BY <3>1 DEF Pipe
          <5>2. <<e>> \in Seq(SseEvent)
            BY <1>4
          <5> HIDE DEF e
          <5> QED
            BY <1>4, <5>1, <5>2, EmptyOut
        <4>2. Len(s) \in 1..Len(s) /\ s[Len(s)] = e
          BY <1>4, <4>1
        <4> HIDE DEF s
        <4>3. \A i \in 1..Len(s) : s[i].type = "completed" => outcome[r] = "ok"
          BY <1>6 DEF Follow, s
        <4> QED
          BY <2>1, <4>2, <4>3
      <3>3. pc[r] = "ended" /\ domain[r] /\ linked[r] = NumLevels
        BY <1>1, <3>2 DEF TaskInv
      <3>4. completedAgents' = NumAgents
        <4>1. Completions(c) = 0
          <5>1. \A i \in 1..Len(c) : c[i].type # "agent_completed"
            BY <2>1, <3>1
          <5> QED
            BY <1>4, <5>1, CompletionsNone
        <4>2. Completions(o) = 0
          <5>1. \A i \in 1..Len(o) : o[i].type # "agent_completed"
            BY <3>1
          <5> QED
            BY <1>4, <5>1, CompletionsNone
        <4>3. Finished(r) = NumAgents
          BY <3>2 DEF Finished
        <4> QED
          BY <1>6, <1>7, <1>8, <1>9, <4>1, <4>2, <4>3 DEF Counted
      <3> QED
        BY <1>2, <1>3, <3>1, <3>2, <3>3, <3>4
           DEF CompletedInv, CompletedIsReal, Over, taskVars, graphVars
    <2>2. CASE e.type # "completed"
      BY <1>2, <1>3, <2>2 DEF CompletedInv, CompletedIsReal, NextPageState
    <2> QED
      BY <2>1, <2>2
  <1> QED
    BY <1>1, <1>11, <1>12, <1>14, <1>17, <1>18 DEF PageInv

-----------------------------------------------------------------------------
(* Steps of the handler, the connection and the process. *)

LEMMA RequestArrives ==
    ASSUME PageInv, NEW r \in Run, generate_domain_sse(r) PROVE PageInv'
  <1>1. TypeOK /\ StreamInv /\ StreamInv' /\ TaskInv(r) /\ FreshInv
    BY StreamInvReader DEF PageInv
  <1>2. /\ fetch[r] \in {"requested", "aborted", "broken"} /\ pc[r] = "none"
        /\ pc' = [pc EXCEPT ![r] = "check"] /\ rx' = [rx EXCEPT ![r] = TRUE]
        /\ fetch' = IF fetch[r] = "requested" THEN [fetch EXCEPT ![r] = "open"] ELSE fetch
        /\ UNCHANGED <<pageState, abortRef, log, completedAgents, starts, agent, progress, out,
                       outcome, registry, chan, graphVars>>
    BY DEF generate_domain_sse, pageVars
  <1>3. TypeOK'
    <2>1. fetch' \in [Run -> Fetch] /\ pc' \in [Run -> TaskStep] /\ rx' \in [Run -> BOOLEAN]
      BY <1>1, <1>2 DEF TypeOK, Fetch, TaskStep
    <2> QED
      BY <1>1, <1>2, <2>1 DEF TypeOK, graphVars
  <1>4. \A q \in Run : q # r => UNCHANGED TaskState(q) /\ fetch'[q] = fetch[q]
    BY <1>1, <1>2 DEF TypeOK, TaskState, graphVars
  <1>5. /\ pc'[r] = "check" /\ fetch'[r] \in {"open", "aborted", "broken"}
        /\ fetch'[r] = "open" => fetch[r] = "requested"
    BY <1>1, <1>2 DEF TypeOK
  <1>6. \A q \in Run : TaskInv(q)'
    <2> TAKE q \in Run
    <2>1. CASE q = r
      BY <1>1, <1>2, <1>5, <2>1 DEF TaskInv, graphVars
    <2>2. CASE q # r
      BY <1>4, <2>2, SameTask DEF PageInv
    <2> QED
      BY <2>1, <2>2
  <1>7. FreshInv'
    BY <1>1, <1>2, <1>4, <1>5 DEF FreshInv
  <1>8. ASSUME NEW q \in Run, Read(q)'
        PROVE  Follow(Pipe(q), pc[q], agent[q], outcome[q])' /\ Counted(q)'
    <2>1. CASE q = r
      <3>1. fetch[r] = "requested"
        BY <1>5, <1>8, <2>1 DEF Read
      <3>2. log = << >> /\ completedAgents = 0 /\ chan[r] = << >> /\ out[r] = << >>
            /\ outcome[r] = "none" /\ agent[r] = 1
        BY <1>1, <1>2, <3>1 DEF FreshInv, TaskInv
      <3>3. Pipe(r)' = << >>
        BY <1>2, <3>2 DEF Pipe
      <3>4. Follow(Pipe(r), pc[r], agent[r], outcome[r])'
        <4>1. Follow(<< >>, "check", agent[r], outcome[r])
          BY DEF Follow, Ordered, Chained
        <4>2. agent'[r] = agent[r] /\ outcome'[r] = outcome[r]
          BY <1>2
        <4> QED
          BY <1>5, <3>3, <4>1, <4>2 DEF Follow, Ordered, Chained
      <3>5. Completions(<< >>) = 0
        <4> DEFINE s == << >>
        <4>1. s \in Seq(SseEvent) /\ \A i \in 1..Len(s) : s[i].type # "agent_completed"
          OBVIOUS
        <4> HIDE DEF s
        <4>2. Completions(s) = 0
          BY <4>1, CompletionsNone
        <4> QED
          BY <4>2 DEF s
      <3>6. Counted(r)'
        <4>1. Completions(chan[r])' = 0 /\ Completions(out[r])' = 0
          BY <1>2, <3>2, <3>5 DEF Completions
        <4>2. Finished(r)' = 0 /\ completedAgents' = 0
          BY <1>2, <3>2 DEF Finished
        <4> QED
          BY <4>1, <4>2 DEF Counted
      <3> QED
        BY <2>1, <3>4, <3>6
    <2>2. CASE q # r
      <3>1. Read(q) /\ UNCHANGED TaskState(q)
        BY <1>4, <1>8, <2>2 DEF Read, TaskState
      <3>2. Follow(Pipe(q), pc[q], agent[q], outcome[q]) /\ Counted(q)
        BY <3>1, ExactIsCounted DEF PageInv, FollowInv
      <3> QED
        BY <1>2, <3>1, <3>2, SameFollow, SameCounted
    <2> QED
      BY <2>1, <2>2
  <1>9. FollowInv' /\ ProgressIsExact'
    BY <1>8 DEF FollowInv, ProgressIsExact, Read, Counted, Finished
  <1>10. CompletedInv' /\ CompletedIsReal'
    <2>1. pageState = "completed" => starts \in Run /\ starts # r
      BY <1>2 DEF PageInv, CompletedInv, Over
    <2> QED
      BY <1>2, <1>4, <2>1, SameCompleted DEF PageInv
  <1> QED
    BY <1>1, <1>3, <1>6, <1>7, <1>9, <1>10 DEF PageInv

\* A step after which no stream is read that was not read before, and that
\* leaves tasks that are over, and the streams that are read, as they are.
LEMMA ConnectionLost ==
    ASSUME PageInv, TypeOK', UNCHANGED <<pageVars, requestVars, agent, registry, graphVars>>,
           \A q \in Run : TaskInv(q)',
           \A q \in Run : Read(q)' => Read(q) /\ UNCHANGED TaskState(q),
           \A q \in Run : Over(q) => UNCHANGED <<pc[q], out[q], outcome[q]>>
    PROVE  PageInv'
  <1>1. UNCHANGED <<pageState, abortRef, log, completedAgents, starts, fetch, domain, linked>>
    BY DEF pageVars, requestVars, graphVars
  <1>2. StreamInv'
    BY <1>1, StreamInvServer DEF PageInv, requestVars
  <1>3. FreshInv'
    BY <1>1 DEF PageInv, FreshInv
  <1>4. ASSUME NEW q \in Run, Read(q)'
        PROVE  Follow(Pipe(q), pc[q], agent[q], outcome[q])' /\ Counted(q)'
    <2>1. Follow(Pipe(q), pc[q], agent[q], outcome[q]) /\ Counted(q) /\ UNCHANGED TaskState(q)
      BY <1>4, ExactIsCounted DEF PageInv, FollowInv
    <2> QED
      BY <1>1, <2>1, SameFollow, SameCounted
  <1>5. FollowInv' /\ ProgressIsExact'
    BY <1>4 DEF FollowInv, ProgressIsExact, Read, Counted, Finished
  <1>6. CompletedInv' /\ CompletedIsReal'
    BY <1>1 DEF PageInv, CompletedInv, CompletedIsReal, Over
  <1> QED
    BY <1>2, <1>3, <1>5, <1>6 DEF PageInv

LEMMA DisconnectKeeps ==
    ASSUME PageInv, NEW r \in Run, Disconnect(r) PROVE PageInv'
  <1>1. TypeOK
    BY DEF PageInv
  <1>2. /\ rx[r] /\ fetch[r] \notin Live
        /\ rx' = [rx EXCEPT ![r] = FALSE] /\ chan' = [chan EXCEPT ![r] = << >>]
        /\ UNCHANGED <<pageVars, requestVars, pc, agent, progress, out, outcome, registry, graphVars>>
    BY DEF Disconnect, taskVars
  <1>3. rx' \in [Run -> BOOLEAN] /\ chan' \in [Run -> Seq(SseEvent)]
        /\ \A q \in Run : Len(chan'[q]) <= Capacity
    <2>1. << >> \in Seq(SseEvent) /\ Len(<< >>) <= Capacity
      BY StreamAssumption
    <2> QED
      BY <1>1, <1>2, <2>1 DEF TypeOK
  <1>4. TypeOK'
    BY <1>1, <1>2, <1>3 DEF TypeOK, pageVars, requestVars, graphVars
  <1>5. \A q \in Run : q # r => UNCHANGED TaskState(q)
    BY <1>1, <1>2 DEF TypeOK, TaskState, graphVars
  <1>6. ~rx'[r] /\ chan'[r] = << >>
    BY <1>1, <1>2 DEF TypeOK
  <1>7. \A q \in Run : TaskInv(q)'
    <2> TAKE q \in Run
    <2>1. CASE q = r
      <3>1. TaskInv(r)
        BY DEF PageInv
      <3> QED
        BY <1>2, <1>6, <2>1, <3>1 DEF TaskInv, requestVars, graphVars
    <2>2. CASE q # r
      BY <1>2, <1>5, <2>2, SameTask DEF PageInv, requestVars
    <2> QED
      BY <2>1, <2>2
  <1>8. \A q \in Run : Read(q)' => Read(q) /\ UNCHANGED TaskState(q)
    BY <1>2, <1>5, <1>6 DEF Read, TaskState, requestVars
  <1> QED
    BY <1>2, <1>4, <1>7, <1>8, ConnectionLost

LEMMA RestartKeeps ==
    ASSUME PageInv, ServerRestarts PROVE PageInv'
  <1> DEFINE running == {q \in Run : pc[q] # "none" /\ ~Over(q)}
  <1>1. TypeOK
    BY DEF PageInv
  <1>2. /\ pc' = [q \in Run |-> IF q \in running THEN "ended" ELSE pc[q]]
        /\ out' = [q \in Run |-> << >>]
        /\ outcome' = [q \in Run |-> IF q \in running THEN "killed" ELSE outcome[q]]
        /\ rx' = [q \in Run |-> FALSE]
        /\ chan' = [q \in Run |-> << >>]
        /\ UNCHANGED <<pageVars, requestVars, agent, progress, registry, graphVars>>
    BY DEF ServerRestarts
  <1> HIDE DEF running
  <1>3. TypeOK'
    <2>1. << >> \in Seq(SseEvent) /\ Len(<< >>) <= Capacity
      BY StreamAssumption
    <2>2. pc' \in [Run -> TaskStep] /\ outcome' \in [Run -> Result]
      BY <1>1, <1>2 DEF TypeOK, TaskStep, Result
    <2>3. out' \in [Run -> Seq(SseEvent)] /\ chan' \in [Run -> Seq(SseEvent)]
          /\ \A q \in Run : Len(chan'[q]) <= Capacity
      BY <1>2, <2>1
    <2> QED
      BY <1>1, <1>2, <2>2, <2>3 DEF TypeOK, pageVars, requestVars, graphVars
  <1>4. \A q \in Run : TaskInv(q)'
    <2> TAKE q \in Run
    <2>1. TaskInv(q)
      BY DEF PageInv
    <2>2. CASE q \in running
      BY <1>2, <2>1, <2>2 DEF TaskInv, requestVars, graphVars, running
    <2>3. CASE q \notin running
      BY <1>2, <2>1, <2>3 DEF TaskInv, requestVars, graphVars
    <2> QED
      BY <2>2, <2>3
  <1>5. \A q \in Run : ~Read(q)'
    BY <1>2 DEF Read
  <1>6. \A q \in Run : Over(q) => UNCHANGED <<pc[q], out[q], outcome[q]>>
    BY <1>2 DEF running, Over
  <1> QED
    BY <1>2, <1>3, <1>4, <1>5, <1>6, ConnectionLost

-----------------------------------------------------------------------------

LEMMA PageStep ==
    ASSUME PageInv, [Next]_vars PROVE PageInv'
  <1>1. CASE UserStep \/ fetchSimilarDomains
    BY <1>1, UserPage
  <1>2. ASSUME NEW r \in Run, TaskStepOf(r) PROVE PageInv'
    BY <1>2, TaskPage
  <1>3. ASSUME NEW r \in Run, ReaderStep(r) \/ onError(r) PROVE PageInv'
    BY <1>3, ReadKeeps, StreamOver DEF ReaderStep
  <1>4. ASSUME NEW r \in Run, generate_domain_sse(r) PROVE PageInv'
    BY <1>4, RequestArrives
  <1>5. ASSUME NEW r \in Run, Disconnect(r) PROVE PageInv'
    BY <1>5, DisconnectKeeps
  <1>6. CASE ServerRestarts
    BY <1>6, RestartKeeps
  <1>7. CASE UNCHANGED vars
    <2>1. TypeOK /\ StreamInv /\ FreshInv /\ CompletedInv /\ CompletedIsReal /\ FollowInv
          /\ ProgressIsExact /\ \A q \in Run : TaskInv(q)
      BY DEF PageInv
    <2>2. UNCHANGED <<pageVars, requestVars, agent, registry, graphVars>>
          /\ \A q \in Run : UNCHANGED TaskState(q) /\ UNCHANGED fetch[q]
      BY <1>7 DEF vars, taskVars, connVars, requestVars, graphVars, TaskState
    <2>3. TypeOK'
      BY <1>7, <2>1 DEF TypeOK, vars, pageVars, taskVars, connVars, requestVars, graphVars
    <2>4. \A q \in Run : TaskInv(q)'
      BY <2>1, <2>2, SameTask
    <2>5. \A q \in Run : Read(q)' => Read(q) /\ UNCHANGED TaskState(q)
      BY <2>2 DEF Read, TaskState
    <2>6. \A q \in Run : UNCHANGED <<pc[q], out[q], outcome[q]>>
      BY <2>2 DEF TaskState
    <2> QED
      BY <2>2, <2>3, <2>4, <2>5, <2>6, ConnectionLost
  <1> QED
    BY <1>1, <1>2, <1>3, <1>4, <1>5, <1>6, <1>7 DEF Next

LEMMA PageAlways == Spec => []PageInv
  BY PageInvInit, PageStep, PTL DEF Spec

\* Every variable of the page, the tasks and the connections keeps its type;
\* in particular no channel holds more than its capacity, the page counts no
\* more agents than there are and no more levels are linked than were made.
THEOREM StreamTypeCorrect == Spec => []TypeOK
  <1>1. PageInv => TypeOK
    BY DEF PageInv
  <1> QED
    BY <1>1, PageAlways, PTL

\* While a stream is read, the page's counter (completedAgents) plus the
\* completions on their way to it is the number of agents that have finished:
\* none is lost or counted twice, however often the user cancels and restarts.
THEOREM ProgressCounted == Spec => []ProgressIsExact
  <1>1. PageInv => ProgressIsExact
    BY DEF PageInv
  <1> QED
    BY <1>1, PageAlways, PTL

\* "Domain Generated!" is shown only for the generation on display, when all
\* of its agents succeeded and its domain has all of its levels.
THEOREM CompletionIsEarned == Spec => []CompletedIsReal
  <1>1. PageInv => CompletedIsReal
    BY DEF PageInv
  <1> QED
    BY <1>1, PageAlways, PTL

-----------------------------------------------------------------------------
(* The refinement of SseProtocol. *)

\* What the page reads is what the protocol allows after what it has read.
LEMMA ReadIsAllowed ==
    ASSUME PageInv, NEW r \in Run, ReadEvent(r)
    PROVE  Protocol!Read
  <1> DEFINE c == chan[r]
             o == out[r]
             t == c \o o
  <1>1. /\ c \in Seq(SseEvent) /\ o \in Seq(SseEvent) /\ log \in Seq(SseEvent) /\ c # << >>
        /\ Read(r) /\ log' = Append(log, Head(c))
    BY DEF PageInv, TypeOK, ReadEvent, Read
  <1>2. Ordered((log \o c) \o o)
    BY <1>1 DEF PageInv, FollowInv, Follow, Pipe
  <1> HIDE DEF c, o
  <1>3. Ordered(log \o t)
    BY <1>1, <1>2, ConcatAssoc
  <1>4. t \in Seq(SseEvent) /\ t # << >> /\ t[1] = Head(c)
    BY <1>1
  <1> HIDE DEF t
  <1>5. Head(c) \in Protocol!Allowed(log)
    BY <1>1, <1>3, <1>4, OrderedAllows
  <1> QED
    BY <1>1, <1>5 DEF Protocol!Read

LEMMA StepFollowsProtocol ==
    ASSUME PageInv, [Next]_vars PROVE [Protocol!Next]_log
  <1> USE DEF Protocol!Next, Protocol!Reset
  <1>1. CASE UserStep \/ fetchSimilarDomains
    BY <1>1 DEF UserStep, fetchSimilarDomains, handleProceedToForm, Retry, handleStartGeneration,
                handleCancelGeneration, Unmount, Mount
  <1>2. ASSUME NEW r \in Run, TaskStepOf(r) PROVE [Protocol!Next]_log
    BY <1>2, TaskFrame DEF PageInv, pageVars
  <1>3. ASSUME NEW r \in Run, ReadEvent(r) PROVE [Protocol!Next]_log
    BY <1>3, ReadIsAllowed
  <1>4. ASSUME NEW r \in Run, ReadEnd(r) \/ onError(r) \/ generate_domain_sse(r) \/ Disconnect(r)
        PROVE  [Protocol!Next]_log
    BY <1>4 DEF ReadEnd, onError, generate_domain_sse, Disconnect, pageVars
  <1>5. CASE ServerRestarts
    BY <1>5 DEF ServerRestarts, pageVars
  <1>6. CASE UNCHANGED vars
    BY <1>6 DEF vars, pageVars
  <1> QED
    BY <1>1, <1>2, <1>3, <1>4, <1>5, <1>6 DEF Next, ReaderStep

\* The page's log is at any time a prefix of what one generation may send, in
\* the order in which it sends it: cancelled, failed and killed generations
\* leave nothing in it that does not belong there.
THEOREM PageFollowsProtocol == Spec => FollowsProtocol
  <1>1. Init => Protocol!Init
    BY DEF Init, Protocol!Init
  <1>2. PageInv /\ [Next]_vars => [Protocol!Next]_log
    BY StepFollowsProtocol
  <1> QED
    BY <1>1, <1>2, PageAlways, PTL DEF Spec, FollowsProtocol, Protocol!Spec
=============================================================================
