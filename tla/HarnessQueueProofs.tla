------------------------- MODULE HarnessQueueProofs -------------------------
(***************************************************************************)
(* What holds of the queue for any number of calls, agents and candidates, *)
(* any windows, any number of commands and crashes.                        *)
(***************************************************************************)
EXTENDS HarnessQueue, TLAPS

(***************************************************************************)
(* Types.                                                                  *)
(***************************************************************************)
LEMMA InitTypes == Init => TypeOK
BY QueueAssumption DEF Init, TypeOK, CallSteps, Ended, Doings, Idle

LEMMA TickTypes == TypeOK /\ Tick => TypeOK'
<1> SUFFICES ASSUME TypeOK, Tick PROVE TypeOK'  OBVIOUS
<1> USE QueueAssumption
<1>1. left' \in [Calls -> Nat] /\ stamp' \in [Calls -> Nat]
  <2>1. \A n \in Nat : Less(n) \in Nat  BY DEF Less
  <2> QED  BY <2>1 DEF TypeOK, Tick
<1>2. age' \in [Calls -> 0..StaleAge]
  BY DEF TypeOK, Tick
<1>3. call' \in [Calls -> CallSteps]
  BY DEF TypeOK, Tick, CallSteps
<1> QED  BY <1>1, <1>2, <1>3 DEF TypeOK, Tick, answers

LEMMA CallTypes ==
    ASSUME TypeOK, NEW c \in Calls, Ask(c) \/ CallStep(c) \/ CallDies(c)
    PROVE  TypeOK'
<1> USE QueueAssumption
<1>1. ASSUME Ask(c) PROVE TypeOK'
  BY <1>1 DEF TypeOK, Ask, answers, CallSteps
<1>2. ASSUME Look(c) PROVE TypeOK'
  BY <1>2 DEF TypeOK, Look, request, answers, CallSteps
<1>3. ASSUME Miss(c) PROVE TypeOK'
  BY <1>3 DEF TypeOK, Miss, Loop, request, answers, CallSteps, Ended
<1>4. ASSUME Read(c) PROVE TypeOK'
  BY <1>4 DEF TypeOK, Read, request, answers, CallSteps, Ended
<1>5. ASSUME Accept(c) PROVE TypeOK'
  BY <1>5 DEF TypeOK, Accept, answers, CallSteps, Ended
<1>6. ASSUME Reject(c) PROVE TypeOK'
  BY <1>6 DEF TypeOK, Reject, request, answers, CallSteps
<1>10. ASSUME Requeue(c) PROVE TypeOK'
  BY <1>10 DEF TypeOK, Requeue, answers, CallSteps
<1>7. ASSUME Refresh(c) PROVE TypeOK'
  BY <1>7 DEF TypeOK, Refresh, Refreshes, Loop, request, answers, CallSteps
<1>8. ASSUME Expire(c) PROVE TypeOK'
  <2>1. PICK end \in {"timed out", "broken"} : call' = [call EXCEPT ![c] = end]
    BY <1>8 DEF Expire
  <2>2. call' \in [Calls -> CallSteps]
    BY <2>1 DEF TypeOK, CallSteps, Ended
  <2>3. place' \in [Calls -> {"none", "pending", "stale", "cleared"}]
    BY <1>8 DEF TypeOK, Expire
  <2> QED  BY <1>8, <2>2, <2>3 DEF TypeOK, Expire, answers
<1>9. ASSUME CallDies(c) PROVE TypeOK'
  BY <1>9 DEF TypeOK, CallDies, Die, Unlocked, request, answers, CallSteps
<1> QED  BY <1>1, <1>2, <1>3, <1>4, <1>5, <1>6, <1>7, <1>8, <1>9, <1>10 DEF CallStep

LEMMA AgentTypes ==
    ASSUME TypeOK, NEW a \in Agents, AgentStep(a) \/ AgentDies(a)
    PROVE  TypeOK'
<1> USE QueueAssumption
<1>0. Idle \in Doings  BY DEF Doings
<1>1. ASSUME FinishResponse(a) PROVE TypeOK'
  <2>1. agent[a].to \in Calls /\ agent[a].with \in {"valid", "invalid"}
    BY <1>1 DEF TypeOK, FinishResponse, Doings, Idle
  <2>2. answer' \in [Calls -> {"none", "partial", "valid", "invalid"}]
    BY <1>1, <2>1 DEF TypeOK, FinishResponse
  <2>3. agent' \in [Agents -> Doings] /\ lock' \in Agents \cup Calls \cup {None, "dead"}
    BY <1>0, <1>1 DEF TypeOK, FinishResponse, Stop
  <2> QED  BY <1>1, <2>2, <2>3 DEF TypeOK, FinishResponse, mine, request
<1>2. ASSUME RecordFeedback(a) PROVE TypeOK'
  <2>1. agent[a].to \in Calls
        /\ [agent[a] EXCEPT !.does = "record"] \in Doings
    BY <1>2 DEF TypeOK, RecordFeedback, Doings, Idle
  <2>2. agent' \in [Agents -> Doings]
    BY <1>0, <1>2, <2>1 DEF TypeOK, RecordFeedback, Stop
  <2> QED  BY <1>2, <2>2 DEF TypeOK, RecordFeedback, mine, request, answers
<1>5. ASSUME WriteFeedback(a) PROVE TypeOK'
  <2>1. agent' \in [Agents -> Doings]
    BY <1>0, <1>5 DEF TypeOK, WriteFeedback, Stop
  <2>2. feedback' \in [Calls -> BOOLEAN]
        /\ place' \in [Calls -> {"none", "pending", "stale", "cleared"}]
    BY <1>5 DEF TypeOK, WriteFeedback
  <2> QED  BY <1>5, <2>1, <2>2 DEF TypeOK, WriteFeedback, mine, answers
<1>3. ASSUME Admit(a) PROVE TypeOK'
  <2>1. agent[a].to \in Calls /\ agent[a].with \in Candidates
    BY <1>3 DEF TypeOK, Admit, Doings, Idle
  <2>2. Worth[agent[a].with] \in {"valid", "invalid"}
    BY <2>1
  <2>3. answer' \in [Calls -> {"none", "partial", "valid", "invalid"}]
    BY <1>3, <2>2 DEF TypeOK, Admit
  <2>4. admitted' \in [Calls -> Candidates \cup {None}]
    BY <1>3, <2>1 DEF TypeOK, Admit
  <2>5. agent' \in [Agents -> Doings]
    BY <1>0, <1>3 DEF TypeOK, Admit, Stop
  <2> QED  BY <1>3, <2>3, <2>4, <2>5 DEF TypeOK, Admit, mine, request
<1>4. ASSUME AgentDies(a) PROVE TypeOK'
  BY <1>0, <1>4 DEF TypeOK, AgentDies, Die, Stop, mine, request, answers
<1> QED  BY <1>1, <1>2, <1>3, <1>4, <1>5 DEF AgentStep

LEMMA CommandTypes ==
    ASSUME TypeOK, NEW a \in Agents, NEW c \in Calls,
           \/ \E v \in {"valid", "invalid"} : Respond(a, c, v)
           \/ Refuse(a, c)
           \/ \E k \in Candidates : Claim(a, k, c)
    PROVE  TypeOK'
<1> USE QueueAssumption
<1>1. ASSUME NEW v \in {"valid", "invalid"}, Respond(a, c, v) PROVE TypeOK'
  <2>1. [does |-> "respond", to |-> c, with |-> v] \in Doings  BY DEF Doings
  <2>2. agent' \in [Agents -> Doings] /\ commands' \in 0..MaxCommands
    BY <1>1, <2>1 DEF TypeOK, Respond, Start
  <2> QED  BY <1>1, <2>2 DEF TypeOK, Respond, mine, request
<1>2. ASSUME Refuse(a, c) PROVE TypeOK'
  <2>1. [does |-> "refuse", to |-> c, with |-> None] \in Doings  BY DEF Doings
  <2>2. agent' \in [Agents -> Doings] /\ commands' \in 0..MaxCommands
    BY <1>2, <2>1 DEF TypeOK, Refuse, Start
  <2> QED  BY <1>2, <2>2 DEF TypeOK, Refuse, mine, request, answers
<1>3. ASSUME NEW k \in Candidates, Claim(a, k, c) PROVE TypeOK'
  <2>1. [does |-> "claim", to |-> c, with |-> k] \in Doings  BY DEF Doings
  <2>2. agent' \in [Agents -> Doings] /\ commands' \in 0..MaxCommands
    BY <1>3, <2>1 DEF TypeOK, Claim, Start
  <2> QED  BY <1>3, <2>2 DEF TypeOK, Claim, mine, request, answers
<1> QED  BY <1>1, <1>2, <1>3

LEMMA OtherTypes ==
    ASSUME TypeOK,
           \/ BreakLock \/ SweepStale
           \/ \E c \in Calls : Retire(Run[c]) \/ Snatch(c)
           \/ \E k \in Candidates, c \in Calls : SaveCandidate(k, c)
    PROVE  TypeOK'
<1> USE QueueAssumption
<1>1. ASSUME BreakLock PROVE TypeOK'
  BY <1>1 DEF TypeOK, BreakLock, mine, request, answers
<1>2. ASSUME SweepStale PROVE TypeOK'
  BY <1>2 DEF TypeOK, SweepStale, mine, answers
<1>3. ASSUME NEW r, Retire(r) PROVE TypeOK'
  BY <1>3 DEF TypeOK, Retire, mine, answers
<1>4. ASSUME NEW k \in Candidates, NEW c \in Calls, SaveCandidate(k, c) PROVE TypeOK'
  BY <1>4 DEF TypeOK, SaveCandidate, mine, request, answers
<1>5. ASSUME NEW c \in Calls, Snatch(c) PROVE TypeOK'
  BY <1>5 DEF TypeOK, Snatch, mine, answers
<1> QED  BY <1>1, <1>2, <1>3, <1>4, <1>5

LEMMA NextTypes == TypeOK /\ [Next]_vars => TypeOK'
<1> SUFFICES ASSUME TypeOK, [Next]_vars PROVE TypeOK'  OBVIOUS
<1>1. CASE UNCHANGED vars
  BY <1>1 DEF TypeOK, vars, mine, request, answers
<1>2. CASE Next
  BY <1>2, TickTypes, CallTypes, AgentTypes, CommandTypes, OtherTypes DEF Next
<1> QED  BY <1>1, <1>2

\* Every variable of the queue keeps its type.
THEOREM TypeCorrect == Spec => []TypeOK
BY InitTypes, NextTypes, PTL DEF Spec

(***************************************************************************)
(* The lock.  A process in the middle of a mutation holds it, and the      *)
(* request it works on is in the queue, or was taken without the lock.     *)
(***************************************************************************)
Writing(a) == agent[a].does \in {"respond", "record"}
Safe(c) == place[c] = "pending" \/ c \in snatched
Holds(a) == Writing(a) => lock = a /\ Safe(agent[a].to)
Keeps(c) == call[c] = "requeueing" => lock = c /\ Safe(c)
HoldsAll == (\A a \in Agents : Holds(a)) /\ (\A c \in Calls : Keeps(c))

\* While the lock is free nobody is in the middle of a mutation.
LEMMA FreeMeansQuiet ==
    ASSUME HoldsAll, Unlocked \/ lock = "dead"
    PROVE  /\ \A a \in Agents : ~Writing(a)
           /\ \A c \in Calls : call[c] # "requeueing"
BY QueueAssumption DEF HoldsAll, Holds, Keeps, Unlocked

\* While one process holds it nobody else is.
LEMMA OneHolder ==
    ASSUME HoldsAll, NEW h, lock = h
    PROVE  /\ \A a \in Agents : a # h => ~Writing(a)
           /\ \A c \in Calls : c # h => call[c] # "requeueing"
BY DEF HoldsAll, Holds, Keeps

\* Steps that leave the lock, the agents and the queue alone, and in which no call
\* begins to requeue.
LEMMA HoldsStill ==
    ASSUME HoldsAll, UNCHANGED <<place, lock, agent, snatched>>,
           \A c \in Calls : call'[c] = call[c] \/ call'[c] # "requeueing"
    PROVE  HoldsAll'
BY DEF HoldsAll, Holds, Keeps, Safe, Writing

\* Steps after which nobody is in the middle of a mutation.
LEMMA HoldsQuiet ==
    ASSUME \A a \in Agents : ~Writing(a)', \A c \in Calls : call'[c] # "requeueing"
    PROVE  HoldsAll'
BY DEF HoldsAll, Holds, Keeps

LEMMA CallHolds ==
    ASSUME TypeOK, HoldsAll, NEW c \in Calls, Ask(c) \/ CallStep(c) \/ CallDies(c)
    PROVE  HoldsAll'
<1>1. \A d \in Calls \ {c} : call'[d] = call[d]
  BY DEF TypeOK, CallStep, Ask, Look, Miss, Read, Accept, Reject, Requeue, Refresh, Expire,
         CallDies
<1>2. agent' = agent /\ snatched' = snatched
  BY DEF CallStep, Ask, Look, Miss, Read, Accept, Reject, Requeue, Refresh, Expire, CallDies
<1>3. ASSUME call'[c] # "requeueing", UNCHANGED <<place, lock>> PROVE HoldsAll'
  BY <1>1, <1>2, <1>3, HoldsStill
<1>4. ASSUME call'[c] # "requeueing", Unlocked PROVE HoldsAll'
  BY <1>1, <1>2, <1>4, FreeMeansQuiet, HoldsQuiet DEF Writing
<1>5. ASSUME call'[c] # "requeueing", lock = c PROVE HoldsAll'
  <2>1. c \notin Agents  BY QueueAssumption
  <2> QED  BY <1>1, <1>2, <1>5, <2>1, OneHolder, HoldsQuiet DEF Writing
<1>6. CASE Look(c) \/ Miss(c) \/ Read(c) \/ Refresh(c)
  BY <1>3, <1>6 DEF TypeOK, Look, Miss, Read, Refresh, Loop, request
<1>7. CASE Ask(c) \/ Accept(c) \/ Expire(c)
  BY <1>4, <1>7 DEF TypeOK, Ask, Accept, Expire
<1>8. CASE Reject(c)
  <2>1. CASE place[c] # "pending"
    BY <1>4, <1>8, <2>1 DEF TypeOK, Reject
  <2>2. CASE place[c] = "pending"
    <3>1. lock' = c /\ Unlocked /\ place' = place
      BY <1>8, <2>2 DEF Reject, request
    <3>2. (\A a \in Agents : ~Writing(a)') /\ (\A d \in Calls \ {c} : call'[d] # "requeueing")
      BY <1>1, <1>2, <3>1, FreeMeansQuiet DEF Writing
    <3> QED  BY <2>2, <3>1, <3>2 DEF HoldsAll, Holds, Keeps, Safe
  <2> QED  BY <2>1, <2>2
<1>9. CASE Requeue(c)
  <2>1. lock = c  BY <1>9 DEF Requeue, HoldsAll, Keeps
  <2> QED  BY <1>5, <1>9, <2>1 DEF TypeOK, Requeue
<1>10. CASE CallDies(c)
  <2>1. call'[c] = "dead"  BY <1>10 DEF TypeOK, CallDies
  <2>2. CASE ~Unlocked /\ lock # c
    BY <1>3, <1>10, <2>1, <2>2 DEF CallDies, request
  <2> QED  BY <1>4, <1>5, <2>1, <2>2
<1> QED  BY <1>6, <1>7, <1>8, <1>9, <1>10 DEF CallStep

LEMMA AgentHolds ==
    ASSUME TypeOK, HoldsAll, NEW a \in Agents, AgentStep(a) \/ AgentDies(a)
    PROVE  HoldsAll'
<1>1. /\ call' = call /\ snatched' = snatched
      /\ \A b \in Agents \ {a} : agent'[b] = agent[b]
  BY DEF TypeOK, AgentStep, AgentDies, FinishResponse, RecordFeedback, WriteFeedback, Admit, Stop,
         mine
<1>2. Idle.does \notin {"respond", "record"}
  BY DEF Idle
<1>3. CASE RecordFeedback(a) /\ place[agent[a].to] = "pending"
  <2>1. Unlocked /\ lock' = a /\ place' = place
        /\ agent' = [agent EXCEPT ![a].does = "record"]
    BY <1>3 DEF RecordFeedback, request
  <2>2. agent[a] \in Doings /\ agent'[a] = [agent[a] EXCEPT !.does = "record"]
    BY <2>1 DEF TypeOK
  <2>3. agent'[a].to = agent[a].to
    BY <2>2 DEF Doings, Idle
  <2>4. Holds(a)'
    BY <1>3, <2>1, <2>3 DEF Holds, Safe
  <2>5. (\A b \in Agents \ {a} : ~Writing(b)') /\ (\A c \in Calls : call'[c] # "requeueing")
    BY <1>1, <2>1, FreeMeansQuiet DEF Writing
  <2> QED  BY <2>4, <2>5 DEF HoldsAll, Holds, Keeps
<1>4. CASE ~(RecordFeedback(a) /\ place[agent[a].to] = "pending")
  <2>1. agent' = [agent EXCEPT ![a] = Idle]
    BY <1>4 DEF AgentStep, AgentDies, FinishResponse, RecordFeedback, WriteFeedback, Admit, Stop
  <2>2. ~Writing(a)'
    BY <1>2, <2>1 DEF TypeOK, Writing
  <2>3. CASE lock = a
    <3>1. (\A b \in Agents \ {a} : ~Writing(b)') /\ (\A c \in Calls : call'[c] # "requeueing")
      <4>1. a \notin Calls  BY QueueAssumption
      <4> QED  BY <1>1, <2>3, <4>1, OneHolder DEF Writing
    <3> QED  BY <2>2, <3>1, HoldsQuiet
  <2>4. CASE lock # a
    <3>1. ~WriteFeedback(a)
      BY <2>4 DEF HoldsAll, Holds, Writing, WriteFeedback
    <3>2. UNCHANGED <<place, lock>>
      BY <1>4, <2>4, <3>1 DEF AgentStep, AgentDies, FinishResponse, RecordFeedback, Admit, request
    <3>3. ASSUME NEW b \in Agents, b # a PROVE Holds(b)'
      BY <1>1, <3>2, <3>3 DEF HoldsAll, Holds, Writing, Safe
    <3>4. ASSUME NEW c \in Calls PROVE Keeps(c)'
      BY <1>1, <3>2 DEF HoldsAll, Keeps, Safe
    <3> QED  BY <2>2, <3>3, <3>4 DEF HoldsAll, Holds
  <2> QED  BY <2>3, <2>4
<1> QED  BY <1>3, <1>4

LEMMA CommandHolds ==
    ASSUME TypeOK, HoldsAll, NEW a \in Agents, NEW c \in Calls,
           \/ \E v \in {"valid", "invalid"} : Respond(a, c, v)
           \/ Refuse(a, c)
           \/ \E k \in Candidates : Claim(a, k, c)
    PROVE  HoldsAll'
<1>0. place' = place /\ call' = call /\ snatched' = snatched
  BY DEF Respond, Refuse, Claim, request, mine
<1>1. ASSUME NEW v \in {"valid", "invalid"}, Respond(a, c, v) PROVE HoldsAll'
  <2>1. Unlocked /\ place[c] = "pending" /\ lock' = a
    BY <1>1 DEF Respond, Answerable
  <2>2. agent' = [agent EXCEPT ![a] = [does |-> "respond", to |-> c, with |-> v]]
    BY <1>1 DEF Respond, Start
  <2>3. Holds(a)'
    BY <1>0, <2>1, <2>2 DEF TypeOK, Holds, Writing, Safe
  <2>4. \A b \in Agents \ {a} : ~Writing(b)'
    BY <2>1, <2>2, FreeMeansQuiet DEF TypeOK, Writing
  <2>5. \A d \in Calls : call'[d] # "requeueing"
    BY <1>0, <2>1, FreeMeansQuiet
  <2> QED  BY <2>3, <2>4, <2>5 DEF HoldsAll, Holds, Keeps
<1>2. ASSUME NEW d \in Doings, Start(a, d), d.does \notin {"respond", "record"},
             UNCHANGED lock
      PROVE  HoldsAll'
  BY <1>0, <1>2 DEF TypeOK, Start, HoldsAll, Holds, Keeps, Writing, Safe
<1>3. ASSUME Refuse(a, c) PROVE HoldsAll'
  <2>1. [does |-> "refuse", to |-> c, with |-> None] \in Doings  BY DEF Doings
  <2> QED  BY <1>2, <1>3, <2>1 DEF Refuse
<1>4. ASSUME NEW k \in Candidates, Claim(a, k, c) PROVE HoldsAll'
  <2>1. [does |-> "claim", to |-> c, with |-> k] \in Doings  BY DEF Doings
  <2> QED  BY <1>2, <1>4, <2>1 DEF Claim
<1> QED  BY <1>1, <1>3, <1>4

LEMMA NextHolds == TypeOK /\ HoldsAll /\ [Next]_vars => HoldsAll'
<1> SUFFICES ASSUME TypeOK, HoldsAll, [Next]_vars PROVE HoldsAll'  OBVIOUS
<1>1. CASE UNCHANGED vars
  BY <1>1, HoldsStill DEF vars, request, mine
<1>2. CASE Tick
  BY <1>2, HoldsStill DEF Tick
<1>3. ASSUME Unlocked \/ lock = "dead", UNCHANGED <<call, agent>> PROVE HoldsAll'
  BY <1>3, FreeMeansQuiet, HoldsQuiet DEF Writing
<1>4. CASE BreakLock \/ SweepStale \/ \E r \in {Run[d] : d \in Calls} : Retire(r)
  BY <1>3, <1>4 DEF BreakLock, SweepStale, Retire, mine
<1>5. ASSUME NEW k \in Candidates, NEW c \in Calls, SaveCandidate(k, c) PROVE HoldsAll'
  BY <1>5, HoldsStill DEF SaveCandidate, request, mine
<1>6. ASSUME NEW c \in Calls, Snatch(c) PROVE HoldsAll'
  <2>1. UNCHANGED <<call, lock, agent>> /\ \A d \in Calls : Safe(d) => Safe(d)'
    BY <1>6 DEF TypeOK, Snatch, mine, Safe
  <2>2. \A b \in Agents : Writing(b) => agent[b].to \in Calls
    BY DEF TypeOK, Writing, Doings, Idle
  <2> QED  BY <2>1, <2>2 DEF HoldsAll, Holds, Keeps, Writing
<1> QED  BY <1>1, <1>2, <1>4, <1>5, <1>6, CallHolds, AgentHolds, CommandHolds DEF Next

LEMMA InitHolds == Init => HoldsAll
BY DEF Init, HoldsAll, Holds, Keeps, Writing, Idle

\* No request leaves the queue while a response to it is being written, unless a
\* canceller takes it.
THEOREM LiveResponses == Spec => []RespondsToLive
<1>1. HoldsAll => RespondsToLive
  BY DEF HoldsAll, Holds, Writing, Safe, RespondsToLive
<1> QED  BY <1>1, InitTypes, NextTypes, InitHolds, NextHolds, PTL DEF Spec

(***************************************************************************)
(* The queue.  A request is written once, when its call starts; every      *)
(* other step leaves it where it is or takes it out.                       *)
(***************************************************************************)
QueueInv ==
    /\ TypeOK /\ HoldsAll
    /\ EndedLeavesQueue
    /\ \A c \in Calls : call[c] = "idle" => place[c] = "none" /\ c \notin snatched

\* A step that no call takes changes no call, but that Tick wakes sleepers.
Onlookers ==
    \A c \in Calls :
        /\ call'[c] = call[c] \/ (call[c] = "asleep" /\ call'[c] = "awake")
        /\ place'[c] = place[c] \/ (place[c] = "pending" /\ place'[c] = "stale") \/ c \in snatched
        /\ c \in snatched => c \in snatched'
        /\ c \in snatched' => Safe(c)

Others ==
    \/ BreakLock \/ Tick \/ SweepStale
    \/ \E r \in {Run[d] : d \in Calls} : Retire(r)
    \/ \E c \in Calls : Snatch(c)
    \/ \E a \in Agents :
          \/ AgentStep(a) \/ AgentDies(a)
          \/ \E c \in Calls :
                \/ \E v \in {"valid", "invalid"} : Respond(a, c, v)
                \/ Refuse(a, c)
                \/ \E k \in Candidates : Claim(a, k, c)
    \/ \E k \in Candidates, c \in Calls : SaveCandidate(k, c)

LEMMA Split == Next => Others \/ \E c \in Calls : Ask(c) \/ CallStep(c) \/ CallDies(c)
BY DEF Next, Others

LEMMA OthersLookOn == TypeOK /\ HoldsAll /\ (Others \/ UNCHANGED vars) => Onlookers
<1> SUFFICES ASSUME TypeOK, HoldsAll, Others \/ UNCHANGED vars PROVE Onlookers  OBVIOUS
<1> USE DEF Safe
<1>1. ASSUME UNCHANGED <<call, place, snatched>> PROVE Onlookers
  BY <1>1 DEF Onlookers
<1>2. CASE UNCHANGED vars \/ BreakLock
  BY <1>1, <1>2 DEF vars, BreakLock, mine, request
<1>3. CASE Tick
  BY <1>3 DEF TypeOK, Tick, Onlookers
<1>4. CASE SweepStale
  BY <1>4 DEF TypeOK, SweepStale, mine, Onlookers
<1>5. ASSUME NEW r, Retire(r) PROVE Onlookers
  BY <1>5 DEF TypeOK, Retire, mine, Onlookers
<1>6. ASSUME NEW a \in Agents, AgentStep(a) \/ AgentDies(a), ~WriteFeedback(a) PROVE Onlookers
  BY <1>1, <1>6 DEF AgentStep, AgentDies, FinishResponse, RecordFeedback, Admit, mine, request
<1>7. ASSUME NEW a \in Agents, NEW c \in Calls, NEW v, Respond(a, c, v) PROVE Onlookers
  BY <1>1, <1>7 DEF Respond, mine, request
<1>8. ASSUME NEW a \in Agents, NEW c \in Calls, Refuse(a, c) PROVE Onlookers
  BY <1>1, <1>8 DEF Refuse, mine, request
<1>9. ASSUME NEW a \in Agents, NEW c \in Calls, NEW k, Claim(a, k, c) PROVE Onlookers
  BY <1>1, <1>9 DEF Claim, mine, request
<1>10. ASSUME NEW k, NEW c \in Calls, SaveCandidate(k, c) PROVE Onlookers
  BY <1>1, <1>10 DEF SaveCandidate, mine, request
<1>11. ASSUME NEW a \in Agents, WriteFeedback(a) PROVE Onlookers
  <2>1. Safe(agent[a].to)
    BY <1>11 DEF HoldsAll, Holds, Writing, WriteFeedback
  <2>2. call' = call /\ snatched' = snatched
        /\ place' = [place EXCEPT ![agent[a].to] = "pending"]
    BY <1>11 DEF WriteFeedback, mine
  <2> QED  BY <2>1, <2>2 DEF TypeOK, Onlookers
<1>12. ASSUME NEW c \in Calls, Snatch(c) PROVE Onlookers
  BY <1>12 DEF TypeOK, Snatch, mine, Onlookers
<1> QED
  BY <1>2, <1>3, <1>4, <1>5, <1>6, <1>7, <1>8, <1>9, <1>10, <1>11, <1>12 DEF Others

\* What one step of call c does to it and to its request.
CallMoves(c) ==
    /\ \A d \in Calls \ {c} : call'[d] = call[d] /\ place'[d] = place[d]
    /\ snatched' = snatched
    /\ \/ call[c] = "idle" /\ call'[c] = "asleep"
       \/ /\ \/ place'[c] = place[c]
             \/ place[c] = "pending" /\ place'[c] \in {"stale", "cleared"}
             \/ c \in snatched
          /\ call'[c] # "idle"
          /\ call'[c] \in {"done", "timed out", "retired"} => place'[c] # "pending"

LEMMA CallMovesOnly ==
    ASSUME TypeOK, HoldsAll, NEW c \in Calls, Ask(c) \/ CallStep(c) \/ CallDies(c)
    PROVE  CallMoves(c)
<1>1. ASSUME Ask(c) PROVE CallMoves(c)
  BY <1>1 DEF TypeOK, Ask, CallMoves
<1>2. ASSUME Look(c) PROVE CallMoves(c)
  BY <1>2 DEF TypeOK, Look, request, CallMoves
<1>3. ASSUME Miss(c) PROVE CallMoves(c)
  BY <1>3 DEF TypeOK, Miss, Loop, request, CallMoves
<1>4. ASSUME Read(c) PROVE CallMoves(c)
  BY <1>4 DEF TypeOK, Read, request, CallMoves
<1>5. ASSUME Accept(c) PROVE CallMoves(c)
  BY <1>5 DEF TypeOK, Accept, CallMoves
<1>6. ASSUME Reject(c) PROVE CallMoves(c)
  BY <1>6 DEF TypeOK, Reject, request, CallMoves
<1>10. ASSUME Requeue(c) PROVE CallMoves(c)
  <2>1. Safe(c)  BY <1>10 DEF HoldsAll, Keeps, Requeue
  <2> QED  BY <1>10, <2>1 DEF TypeOK, Requeue, Safe, CallMoves
<1>7. ASSUME Refresh(c) PROVE CallMoves(c)
  BY <1>7 DEF TypeOK, Refresh, Loop, request, CallMoves
<1>8. ASSUME Expire(c) PROVE CallMoves(c)
  BY <1>8 DEF TypeOK, Expire, CallMoves
<1>9. ASSUME CallDies(c) PROVE CallMoves(c)
  BY <1>9 DEF TypeOK, CallDies, request, CallMoves
<1> QED  BY <1>1, <1>2, <1>3, <1>4, <1>5, <1>6, <1>7, <1>8, <1>9, <1>10 DEF CallStep

LEMMA QueueStep == QueueInv /\ [Next]_vars => QueueInv'
<1> SUFFICES ASSUME QueueInv, [Next]_vars PROVE QueueInv'  OBVIOUS
<1>1. TypeOK /\ TypeOK' /\ HoldsAll /\ HoldsAll'
  BY NextTypes, NextHolds DEF QueueInv
<1>2. CASE Onlookers
  BY <1>1, <1>2 DEF QueueInv, Onlookers, EndedLeavesQueue, Safe
<1>3. ASSUME NEW c \in Calls, CallMoves(c) PROVE QueueInv'
  BY <1>1, <1>3 DEF QueueInv, CallMoves, EndedLeavesQueue
<1> QED  BY <1>1, <1>2, <1>3, Split, OthersLookOn, CallMovesOnly

LEMMA QueueStart == Init => QueueInv
BY InitTypes, InitHolds DEF Init, QueueInv, EndedLeavesQueue

\* A call that returned, timed out or was retired left the queue, unless a canceller
\* took its request.
THEOREM EndedCallsLeave == Spec => []EndedLeavesQueue
<1>1. QueueInv => EndedLeavesQueue
  BY DEF QueueInv
<1> QED  BY <1>1, QueueStart, QueueStep, PTL DEF Spec

\* What left the queue under the lock never comes back.
THEOREM DeadStaysDead == Spec => StaysDead
<1>1. QueueInv /\ [Next]_vars => 
          [\A c \in Calls \ snatched : place[c] \in {"stale", "cleared"} => place'[c] = place[c]]_vars
  <2> SUFFICES ASSUME QueueInv, [Next]_vars, NEW c \in Calls \ snatched, place[c] \in {"stale", "cleared"}
               PROVE  place'[c] = place[c]
    OBVIOUS
  <2>1. TypeOK /\ HoldsAll /\ call[c] # "idle"
    BY DEF QueueInv
  <2>2. CASE Onlookers
    BY <2>2 DEF Onlookers
  <2>3. ASSUME NEW d \in Calls, CallMoves(d) PROVE place'[c] = place[c]
    BY <2>1, <2>3 DEF CallMoves
  <2> QED  BY <2>1, <2>2, <2>3, Split, OthersLookOn, CallMovesOnly
<1> QED  BY <1>1, QueueStart, QueueStep, PTL DEF Spec, StaysDead

(***************************************************************************)
(* Stamps.  The stamp of a queued request and the window of its call run   *)
(* down together; a rejection moves the stamp first and the window next,   *)
(* and between the two the window that will be set is the bound.           *)
(***************************************************************************)
Bound(c) == IF call[c] = "refreshing" /\ Refreshes(c) THEN Window[c] ELSE left[c]
Polling == Waiting \cup {"rejecting", "requeueing", "refreshing"}
Stamped(c) == /\ left[c] <= Window[c]
              /\ call[c] \in Polling /\ Safe(c) => stamp[c] <= Bound(c)
StampInv == \A c \in Calls : Stamped(c)

LEMMA StampUntouched ==
    ASSUME StampInv, UNCHANGED <<call, left, invalid, stamp>>,
           \A c \in Calls : Safe(c)' => Safe(c)
    PROVE  StampInv'
BY DEF StampInv, Stamped, Bound, Refreshes

LEMMA TickStamps == TypeOK /\ StampInv /\ Tick => StampInv'
<1> SUFFICES ASSUME TypeOK, StampInv, Tick, NEW c \in Calls PROVE Stamped(c)'
  BY DEF StampInv
<1>1. /\ stamp'[c] = Less(stamp[c]) /\ left'[c] = Less(left[c])
      /\ place' = place /\ invalid' = invalid /\ snatched' = snatched
      /\ call'[c] = IF call[c] = "asleep" THEN "awake" ELSE call[c]
  BY DEF Tick
<1>2. stamp[c] \in Nat /\ left[c] \in Nat /\ Window[c] \in Nat
  BY QueueAssumption DEF TypeOK
<1>3. \A m, n \in Nat : m <= n => Less(m) <= Less(n) /\ Less(m) <= n /\ Less(n) <= n
  BY DEF Less
<1>4. call'[c] \in Polling => call[c] \in Polling
  BY <1>1 DEF Polling, Waiting
<1>5. call'[c] = "refreshing" <=> call[c] = "refreshing"
  BY <1>1
<1>6. CASE call[c] = "refreshing" /\ Refreshes(c)
  BY <1>1, <1>2, <1>3, <1>4, <1>5, <1>6 DEF StampInv, Stamped, Safe, Bound, Refreshes
<1>7. CASE ~(call[c] = "refreshing" /\ Refreshes(c))
  BY <1>1, <1>2, <1>3, <1>4, <1>5, <1>7 DEF StampInv, Stamped, Safe, Bound, Refreshes
<1> QED  BY <1>6, <1>7

LEMMA CallStamps ==
    ASSUME TypeOK, HoldsAll, StampInv, NEW c \in Calls, Ask(c) \/ CallStep(c) \/ CallDies(c)
    PROVE  StampInv'
<1> USE DEF Stamped, Safe, Bound, Refreshes, Polling, Waiting
<1>1. ASSUME NEW d \in Calls, d # c PROVE Stamped(d)'
  <2>1. /\ call'[d] = call[d] /\ left'[d] = left[d] /\ invalid'[d] = invalid[d]
        /\ place'[d] = place[d] /\ stamp'[d] = stamp[d]
    <3>1. CASE Ask(c) \/ Look(c) \/ Miss(c) \/ Read(c)
      BY <1>1, <3>1 DEF TypeOK, Ask, Look, Miss, Read, request
    <3>2. CASE Accept(c) \/ Reject(c) \/ Requeue(c) \/ Expire(c)
      BY <1>1, <3>2 DEF TypeOK, Accept, Reject, Requeue, Expire, request
    <3>3. CASE Refresh(c) \/ CallDies(c)
      BY <1>1, <3>3 DEF TypeOK, Refresh, CallDies, request
    <3> QED  BY <3>1, <3>2, <3>3 DEF CallStep
  <2>2. snatched' = snatched
    BY DEF CallStep, Ask, Look, Miss, Read, Accept, Reject, Requeue, Refresh, Expire, CallDies
  <2> QED  BY <2>1, <2>2 DEF StampInv
<1>2. Window[c] \in Nat /\ left[c] \in Nat /\ stamp[c] \in Nat /\ Stamped(c)
  BY QueueAssumption DEF TypeOK, StampInv
<1>3. ASSUME Ask(c) PROVE Stamped(c)'
  BY <1>2, <1>3 DEF TypeOK, Ask
<1>4. ASSUME Look(c) PROVE Stamped(c)'
  BY <1>2, <1>4 DEF TypeOK, Look, request
<1>5. ASSUME Miss(c) PROVE Stamped(c)'
  BY <1>2, <1>5 DEF TypeOK, Miss, Loop, request
<1>6. ASSUME Read(c) PROVE Stamped(c)'
  BY <1>2, <1>6 DEF TypeOK, Read, request
<1>7. ASSUME Accept(c) \/ Expire(c) PROVE Stamped(c)'
  BY <1>2, <1>7 DEF TypeOK, Accept, Expire
<1>8. ASSUME Reject(c) PROVE Stamped(c)'
  BY <1>2, <1>8 DEF TypeOK, Reject, request
<1>12. ASSUME Requeue(c) PROVE Stamped(c)'
  <2>1. Safe(c)  BY <1>12 DEF HoldsAll, Keeps, Requeue
  <2> QED  BY <1>2, <1>12, <2>1 DEF TypeOK, Requeue
<1>9. ASSUME Refresh(c) PROVE Stamped(c)'
  BY <1>2, <1>9 DEF TypeOK, Refresh, Loop, request
<1>10. ASSUME CallDies(c) PROVE Stamped(c)'
  BY <1>2, <1>10 DEF TypeOK, CallDies
<1>11. Stamped(c)'
  BY <1>3, <1>4, <1>5, <1>6, <1>7, <1>8, <1>9, <1>10, <1>12 DEF CallStep
<1> QED  BY <1>1, <1>11 DEF StampInv

LEMMA OtherStamps == TypeOK /\ HoldsAll /\ StampInv /\ (Others \/ UNCHANGED vars) => StampInv'
<1> SUFFICES ASSUME TypeOK, HoldsAll, StampInv, Others \/ UNCHANGED vars PROVE StampInv'  OBVIOUS
<1>1. CASE Tick
  BY <1>1, TickStamps
<1>2. CASE ~Tick
  <2>1. UNCHANGED <<call, left, invalid, stamp>>
    BY <1>2 DEF Others, vars, BreakLock, SweepStale, Retire, Snatch, AgentStep, AgentDies,
                FinishResponse, RecordFeedback, WriteFeedback, Admit, Respond, Refuse, Claim, SaveCandidate, mine, request
  <2>2. \A c \in Calls : Safe(c)' => Safe(c)
    BY OthersLookOn DEF Onlookers, Safe
  <2> QED  BY <2>1, <2>2, StampUntouched
<1> QED  BY <1>1, <1>2

LEMMA NextStamps == TypeOK /\ HoldsAll /\ StampInv /\ [Next]_vars => StampInv'
BY Split, OtherStamps, CallStamps

LEMMA InitStamps == Init => StampInv
BY QueueAssumption DEF Init, StampInv, Stamped, Polling, Waiting

\* A queued request promises agents no more time than its call will wait.
THEOREM StampsHonest == Spec => []StampHonest
<1>1. StampInv => StampHonest
  BY DEF StampInv, Stamped, Safe, Bound, Polling, Waiting, StampHonest
<1> QED  BY <1>1, InitTypes, NextTypes, InitHolds, NextHolds, InitStamps, NextStamps, PTL DEF Spec
=============================================================================
