---------------------------- MODULE HarnessQueue ----------------------------
(***************************************************************************)
(* The file queue between runs and the agents that answer for a model.     *)
(* A call of generateStructured writes a request, polls for its answer,    *)
(* returns a value that validates, hands an invalid one back with          *)
(* feedback, and gives up when its window has elapsed.  Agents respond,    *)
(* record refusals and claim saved candidates; a canceller retires the     *)
(* requests of a run and any process that opens the store sweeps old ones. *)
(*                                                                         *)
(* The mutations of the store exclude each other through a lock directory, *)
(* but a canceller of a live run renames its requests without it.  A       *)
(* mutation is one action unless it takes two steps that others can see.   *)
(* Time passes in polls: left, stamp and age count what remains of a       *)
(* window, of a request's stamped deadline, and how old a request is.      *)
(***************************************************************************)
EXTENDS Naturals, FiniteSets

CONSTANTS
    Calls,           \* calls of generateStructured, one request each
    Run,             \* the run of each call
    Payload,         \* the premises of each call: what a fingerprint tells apart
    Seeded,          \* calls that carry previousRejection
    Agents,          \* spc agent processes
    Candidates,      \* ids of saved candidates
    Worth,           \* what validation says of each candidate's value
    None,
    Window,          \* resolveWindowMs of each call, in polls
    StaleAge,        \* STALE_MS, in polls
    MAX_REQUEUE_REFRESHES,
    MaxCommands,     \* bound: commands of agents and cancellers
    MaxCrashes       \* bound: processes that die

ASSUME QueueAssumption ==
    /\ DOMAIN Run = Calls /\ DOMAIN Payload = Calls
    /\ Seeded \subseteq Calls
    /\ Worth \in [Candidates -> {"valid", "invalid"}]
    /\ Window \in [Calls -> Nat \ {0}]
    /\ StaleAge \in Nat /\ MAX_REQUEUE_REFRESHES \in Nat
    /\ MaxCommands \in Nat /\ MaxCrashes \in Nat
    /\ None \notin Calls \cup Candidates \cup Agents \cup {"dead"}
    /\ "dead" \notin Agents \cup Calls /\ Agents \cap Calls = {}

VARIABLES
    call, left, invalid,     \* of each call: its step, what remains of its
                             \* window, and invalidAnswers
    place,                   \* the directory a request is in
    feedback, stamp, age,    \* lastError present, expiresAt, createdAt
    answer, admitted,        \* the answer file, and the candidate it names
    candidate,               \* the request each candidate was composed from
    lock,                    \* the owner of the lock directory
    agent,                   \* what each agent command is in the middle of
    commands, crashes,       \* bounds
    snatched                 \* history: the requests taken without the lock

mine == <<call, left, invalid>>
request == <<place, feedback, stamp, age>>
answers == <<answer, admitted>>
vars == <<mine, request, answers, candidate, lock, agent, commands, crashes, snatched>>

Ended == {"done", "retired", "timed out", "broken"}
CallSteps == {"idle", "asleep", "awake", "missing", "reading", "accepting", "rejecting",
              "requeueing", "refreshing", "expiring", "dead"} \cup Ended
Waiting == {"asleep", "awake", "missing", "reading", "accepting"}

Idle == [does |-> "nothing", to |-> None, with |-> None]
Doings == {Idle}
    \cup [does : {"respond"}, to : Calls, with : {"valid", "invalid"}]
    \cup [does : {"refuse", "record"}, to : Calls, with : {None}]
    \cup [does : {"claim"}, to : Calls, with : Candidates]

TypeOK ==
    /\ call \in [Calls -> CallSteps]
    /\ left \in [Calls -> Nat] /\ invalid \in [Calls -> 0..(MAX_REQUEUE_REFRESHES + 1)]
    /\ place \in [Calls -> {"none", "pending", "stale", "cleared"}]
    /\ feedback \in [Calls -> BOOLEAN] /\ stamp \in [Calls -> Nat] /\ age \in [Calls -> 0..StaleAge]
    /\ answer \in [Calls -> {"none", "partial", "valid", "invalid"}]
    /\ admitted \in [Calls -> Candidates \cup {None}]
    /\ candidate \in [Candidates -> Calls \cup {None}]
    /\ lock \in Agents \cup Calls \cup {None, "dead"}
    /\ agent \in [Agents -> Doings]
    /\ commands \in 0..MaxCommands /\ crashes \in 0..MaxCrashes
    /\ snatched \subseteq Calls

Init ==
    /\ call = [c \in Calls |-> "idle"]
    /\ left = [c \in Calls |-> 0] /\ invalid = [c \in Calls |-> 0]
    /\ place = [c \in Calls |-> "none"] /\ feedback = [c \in Calls |-> FALSE]
    /\ stamp = [c \in Calls |-> 0] /\ age = [c \in Calls |-> 0]
    /\ answer = [c \in Calls |-> "none"] /\ admitted = [c \in Calls |-> None]
    /\ candidate = [k \in Candidates |-> None]
    /\ lock = None /\ agent = [a \in Agents |-> Idle]
    /\ commands = 0 /\ crashes = 0 /\ snatched = {}

(***************************************************************************)
(* The lock.  A live holder is waited out: its section is two file writes, *)
(* far below the five seconds a waiter grants it.  A dead one is broken.   *)
(***************************************************************************)
Unlocked == lock = None

BreakLock ==
    /\ lock = "dead"
    /\ lock' = None
    /\ UNCHANGED <<mine, request, answers, candidate, agent, commands, crashes, snatched>>

(***************************************************************************)
(* generateStructured.                                                     *)
(***************************************************************************)
Ask(c) ==
    /\ call[c] = "idle" /\ Unlocked
    /\ call' = [call EXCEPT ![c] = "asleep"]
    /\ left' = [left EXCEPT ![c] = Window[c]]
    /\ place' = [place EXCEPT ![c] = "pending"]
    /\ stamp' = [stamp EXCEPT ![c] = Window[c]]
    /\ feedback' = [feedback EXCEPT ![c] = c \in Seeded]
    /\ UNCHANGED <<invalid, age, answers, candidate, lock, agent, commands, crashes, snatched>>

\* The loop's condition, once the time that remains is known.
Loop(remaining) == IF remaining > 0 THEN "asleep" ELSE "expiring"

\* hasAnswer comes first; only without one does the call look for its request.
Look(c) ==
    /\ call[c] = "awake"
    /\ call' = [call EXCEPT ![c] = IF answer[c] = "none" THEN "missing" ELSE "reading"]
    /\ UNCHANGED <<left, invalid, request, answers, candidate, lock, agent, commands, crashes, snatched>>

Miss(c) ==
    /\ call[c] = "missing"
    /\ call' = [call EXCEPT ![c] = IF place[c] = "pending" THEN Loop(left[c]) ELSE "retired"]
    /\ UNCHANGED <<left, invalid, request, answers, candidate, lock, agent, commands, crashes, snatched>>

\* A file that is still being written does not parse, and the call throws.
Read(c) ==
    /\ call[c] = "reading"
    /\ call' = [call EXCEPT ![c] = CASE answer[c] = "valid" -> "accepting"
                                     [] answer[c] = "invalid" -> "rejecting"
                                     [] OTHER -> "broken"]
    /\ UNCHANGED <<left, invalid, request, answers, candidate, lock, agent, commands, crashes, snatched>>

Accept(c) ==
    /\ call[c] = "accepting" /\ Unlocked
    /\ call' = [call EXCEPT ![c] = "done"]
    /\ place' = [place EXCEPT ![c] = IF @ = "pending" THEN "cleared" ELSE @]
    /\ UNCHANGED <<left, invalid, feedback, stamp, age, answers, candidate, lock, agent,
                   commands, crashes, snatched>>

\* Broken: every invalid answer refreshes the window.
RefreshesAlways(c) == invalid[c] \in Nat

Refreshes(c) == invalid[c] + 1 <= MAX_REQUEUE_REFRESHES

\* requeueWithFeedback reads the request under the lock...
Reject(c) ==
    /\ call[c] = "rejecting" /\ Unlocked
    /\ IF place[c] = "pending"
       THEN call' = [call EXCEPT ![c] = "requeueing"] /\ lock' = c
       ELSE call' = [call EXCEPT ![c] = "refreshing"] /\ lock' = lock
    /\ UNCHANGED <<left, invalid, request, answers, candidate, agent, commands, crashes,
                   snatched>>

\* Broken: the stamp is refreshed once more than the poll anchor.
RequeueOnceMore(c) ==
    /\ call[c] = "requeueing"
    /\ call' = [call EXCEPT ![c] = "refreshing"]
    /\ place' = [place EXCEPT ![c] = "pending"]
    /\ feedback' = [feedback EXCEPT ![c] = TRUE]
    /\ stamp' = [stamp EXCEPT ![c] = IF invalid[c] <= MAX_REQUEUE_REFRESHES THEN Window[c] ELSE @]
    /\ lock' = IF lock = c THEN None ELSE lock
    /\ UNCHANGED <<left, invalid, age, answers, candidate, agent, commands, crashes,
                   snatched>>

\* ...and writes it back with the reason: into pending/, wherever it is by now.
\* The answer file stays.
Requeue(c) ==
    /\ call[c] = "requeueing"
    /\ call' = [call EXCEPT ![c] = "refreshing"]
    /\ place' = [place EXCEPT ![c] = "pending"]
    /\ feedback' = [feedback EXCEPT ![c] = TRUE]
    /\ stamp' = [stamp EXCEPT ![c] = IF Refreshes(c) THEN Window[c] ELSE @]
    /\ lock' = IF lock = c THEN None ELSE lock
    /\ UNCHANGED <<left, invalid, age, answers, candidate, agent, commands, crashes,
                   snatched>>

\* invalidAnswers is not counted further once it has passed its limit.
Refresh(c) ==
    LET remaining == IF Refreshes(c) THEN Window[c] ELSE left[c] IN
    /\ call[c] = "refreshing"
    /\ call' = [call EXCEPT ![c] = Loop(remaining)]
    /\ left' = [left EXCEPT ![c] = remaining]
    /\ invalid' = [invalid EXCEPT ![c] = IF @ <= MAX_REQUEUE_REFRESHES THEN @ + 1 ELSE @]
    /\ UNCHANGED <<request, answers, candidate, lock, agent, commands, crashes, snatched>>

\* Broken: a timed-out call leaves its request in the queue.
ExpireForgotten(c) ==
    /\ call[c] = "expiring" /\ Unlocked
    /\ call' = [call EXCEPT ![c] = "timed out"]
    /\ UNCHANGED <<left, invalid, request, answers, candidate, lock, agent, commands, crashes, snatched>>

\* A request that is snatched after existsSync has seen it makes the rename throw.
Expire(c) ==
    /\ call[c] = "expiring" /\ Unlocked
    /\ \E end \in {"timed out"} \cup (IF c \in snatched THEN {"broken"} ELSE {}) :
          call' = [call EXCEPT ![c] = end]
    /\ place' = [place EXCEPT ![c] = IF @ = "pending" THEN "stale" ELSE @]
    /\ UNCHANGED <<left, invalid, feedback, stamp, age, answers, candidate, lock, agent,
                   commands, crashes, snatched>>

CallStep(c) ==
    \/ Look(c) \/ Miss(c) \/ Read(c) \/ Accept(c)
    \/ Reject(c) \/ Requeue(c) \/ Refresh(c) \/ Expire(c)

(***************************************************************************)
(* Agents.                                                                 *)
(***************************************************************************)
Start(a, doing) ==
    /\ agent[a] = Idle /\ commands < MaxCommands
    /\ agent' = [agent EXCEPT ![a] = doing]
    /\ commands' = commands + 1

Stop(a) == agent' = [agent EXCEPT ![a] = Idle]

\* store.answer may write into a live window when there is no answer yet, or
\* when the one there is known to be rejected.
Answerable(c) ==
    /\ place[c] = "pending"
    /\ stamp[c] > 0
    /\ answer[c] = "none" \/ feedback[c]

\* The write truncates the file before it fills it.
Respond(a, c, value) ==
    /\ Unlocked /\ Answerable(c)
    /\ Start(a, [does |-> "respond", to |-> c, with |-> value])
    /\ lock' = a
    /\ answer' = [answer EXCEPT ![c] = "partial"]
    /\ admitted' = [admitted EXCEPT ![c] = None]
    /\ UNCHANGED <<mine, request, candidate, crashes, snatched>>

\* A claim may have renamed its own file over the one being filled.
FinishResponse(a) ==
    LET c == agent[a].to IN
    /\ agent[a].does = "respond"
    /\ answer' = [answer EXCEPT ![c] = IF @ = "partial" THEN agent[a].with ELSE @]
    /\ lock' = IF lock = a THEN None ELSE lock
    /\ Stop(a)
    /\ UNCHANGED <<mine, request, admitted, candidate, commands, crashes, snatched>>

\* recordRefusalFeedback looks for an answer before it takes the lock.
Refuse(a, c) ==
    /\ place[c] = "pending" /\ answer[c] = "none"
    /\ Start(a, [does |-> "refuse", to |-> c, with |-> None])
    /\ UNCHANGED <<mine, request, answers, candidate, lock, crashes, snatched>>

\* Broken: feedback is written without looking whether the request is pending.
RecordFeedbackBlind(a) ==
    /\ agent[a].does = "refuse" /\ Unlocked
    /\ lock' = a
    /\ agent' = [agent EXCEPT ![a].does = "record"]
    /\ UNCHANGED <<mine, request, answers, candidate, commands, crashes, snatched>>

\* requeueWithFeedback again, without a refresh: the request is read...
RecordFeedback(a) ==
    /\ agent[a].does = "refuse" /\ Unlocked
    /\ IF place[agent[a].to] = "pending"
       THEN lock' = a /\ agent' = [agent EXCEPT ![a].does = "record"]
       ELSE lock' = lock /\ Stop(a)
    /\ UNCHANGED <<mine, request, answers, candidate, commands, crashes, snatched>>

\* ...and written back.
WriteFeedback(a) ==
    LET c == agent[a].to IN
    /\ agent[a].does = "record"
    /\ place' = [place EXCEPT ![c] = "pending"]
    /\ feedback' = [feedback EXCEPT ![c] = TRUE]
    /\ lock' = IF lock = a THEN None ELSE lock
    /\ Stop(a)
    /\ UNCHANGED <<mine, stamp, age, answers, candidate, commands, crashes, snatched>>

\* A candidate is composed against the record of a request, live or stale.
SaveCandidate(k, c) ==
    /\ candidate[k] = None /\ place[c] \in {"pending", "stale"}
    /\ candidate' = [candidate EXCEPT ![k] = c]
    /\ commands < MaxCommands /\ commands' = commands + 1
    /\ UNCHANGED <<mine, request, answers, lock, agent, crashes, snatched>>

Consumed(k) == \E c \in Calls : admitted[c] = k

\* The fingerprints of the two requests agree.
Fits(k, c) == Payload[candidate[k]] = Payload[c]

Claim(a, k, c) ==
    /\ candidate[k] # None /\ place[c] = "pending" /\ ~Consumed(k) /\ Fits(k, c)
    /\ Start(a, [does |-> "claim", to |-> c, with |-> k])
    /\ UNCHANGED <<mine, request, answers, candidate, lock, crashes, snatched>>

\* One rename, without the lock.  The schema check of a claim is weaker than
\* the validation of the waiting call.
Admit(a) ==
    LET c == agent[a].to IN
    /\ agent[a].does = "claim"
    /\ answer' = [answer EXCEPT ![c] = Worth[agent[a].with]]
    /\ admitted' = [admitted EXCEPT ![c] = agent[a].with]
    /\ Stop(a)
    /\ UNCHANGED <<mine, request, candidate, lock, commands, crashes, snatched>>

AgentStep(a) == FinishResponse(a) \/ RecordFeedback(a) \/ WriteFeedback(a) \/ Admit(a)

(***************************************************************************)
(* Cancellers, the sweep, time and crashes.                                *)
(***************************************************************************)
\* Broken: expireForRun does not take the lock.
RetireUnlocked(r) ==
    LET theirs == {c \in Calls : Run[c] = r /\ place[c] = "pending"} IN
    /\ theirs # {}
    /\ place' = [c \in Calls |-> IF c \in theirs THEN "stale" ELSE place[c]]
    /\ UNCHANGED <<mine, feedback, stamp, age, answers, candidate, lock, agent, commands,
                   crashes, snatched>>

Retire(r) ==
    LET theirs == {c \in Calls : Run[c] = r /\ place[c] = "pending"} IN
    /\ Unlocked /\ theirs # {}
    /\ place' = [c \in Calls |-> IF c \in theirs THEN "stale" ELSE place[c]]
    /\ UNCHANGED <<mine, feedback, stamp, age, answers, candidate, lock, agent, commands,
                   crashes, snatched>>

\* A canceller of a live run takes its requests one by one, and without the lock;
\* the locked Retire of the command follows.
Snatch(c) ==
    /\ place[c] = "pending"
    /\ place' = [place EXCEPT ![c] = "stale"]
    /\ snatched' = snatched \cup {c}
    /\ commands < MaxCommands /\ commands' = commands + 1
    /\ UNCHANGED <<mine, feedback, stamp, age, answers, candidate, lock, agent, crashes>>

\* Every process sweeps when it opens the store, under the lock and before
\* its own mutation.  An open window protects a request however old it is.
SweepStale ==
    LET old == {c \in Calls : place[c] = "pending" /\ age[c] = StaleAge /\ stamp[c] = 0} IN
    /\ Unlocked /\ old # {}
    /\ place' = [c \in Calls |-> IF c \in old THEN "stale" ELSE place[c]]
    /\ UNCHANGED <<mine, feedback, stamp, age, answers, candidate, lock, agent, commands,
                   crashes, snatched>>

Less(n) == IF n = 0 THEN 0 ELSE n - 1

\* One poll interval: whoever slept through it wakes.
Tick ==
    /\ left' = [c \in Calls |-> Less(left[c])]
    /\ stamp' = [c \in Calls |-> Less(stamp[c])]
    /\ age' = [c \in Calls |-> IF place[c] = "pending" /\ age[c] < StaleAge THEN age[c] + 1 ELSE age[c]]
    /\ call' = [c \in Calls |-> IF call[c] = "asleep" THEN "awake" ELSE call[c]]
    /\ UNCHANGED <<invalid, place, feedback, answers, candidate, lock, agent, commands,
                   crashes, snatched>>

Die == crashes < MaxCrashes /\ crashes' = crashes + 1

\* A process that dies inside a mutation leaves the lock directory behind.
CallDies(c) ==
    /\ call[c] \notin {"idle", "dead"} /\ Die
    /\ call' = [call EXCEPT ![c] = "dead"]
    /\ lock' \in IF Unlocked THEN {lock, "dead"} ELSE {IF lock = c THEN "dead" ELSE lock}
    /\ UNCHANGED <<left, invalid, request, answers, candidate, agent, commands, snatched>>

AgentDies(a) ==
    /\ agent[a] # Idle /\ Die /\ Stop(a)
    /\ lock' = IF lock = a THEN "dead" ELSE lock
    /\ UNCHANGED <<mine, request, answers, candidate, commands, snatched>>

Next ==
    \/ BreakLock \/ Tick \/ SweepStale
    \/ \E c \in Calls : Ask(c) \/ CallStep(c) \/ CallDies(c) \/ Retire(Run[c]) \/ Snatch(c)
    \/ \E a \in Agents :
          \/ AgentStep(a) \/ AgentDies(a)
          \/ \E c \in Calls :
                \/ \E v \in {"valid", "invalid"} : Respond(a, c, v)
                \/ Refuse(a, c)
                \/ \E k \in Candidates : Claim(a, k, c)
    \/ \E k \in Candidates, c \in Calls : SaveCandidate(k, c)

(***************************************************************************)
(* Processes that live keep running, clocks advance, and the lock of a     *)
(* dead process is broken by the next one to want it.                      *)
(***************************************************************************)
Fairness ==
    /\ WF_vars(Tick) /\ WF_vars(BreakLock)
    /\ \A c \in Calls : WF_vars(CallStep(c))
    /\ \A a \in Agents : WF_vars(AgentStep(a))

Spec == Init /\ [][Next]_vars /\ Fairness

(***************************************************************************)
(* Safety.                                                                 *)
(***************************************************************************)
\* An answer is only ever being written to a request that is still in the
\* queue, so that "nothing written now will be read" is said before the write
\* (answer): nobody retires, expires or consumes it under a response, except a
\* canceller of the live run.
RespondsToLive ==
    \A a \in Agents : agent[a].does = "respond" =>
        place[agent[a].to] = "pending" \/ agent[a].to \in snatched

\* A call that returned, timed out or was retired has left the live queue, so
\* that no later session answers a dead request (generateStructured), unless
\* a canceller took the request while someone was writing feedback into it.
EndedLeavesQueue ==
    \A c \in Calls : call[c] \in {"done", "timed out", "retired"} =>
        place[c] # "pending" \/ c \in snatched

\* A request a waiting call still has in the queue promises agents no more
\* time than the call will wait (generateStructured).
StampHonest ==
    \A c \in Calls :
        call[c] \in Waiting /\ place[c] = "pending" => stamp[c] <= left[c]

\* What was retired, expired or consumed stays dead: no late rejection or
\* refusal writes it back into the queue (requeueWithFeedback), unless it was
\* read there before a canceller took it.
StaysDead ==
    [][\A c \in Calls \ snatched :
          place[c] \in {"stale", "cleared"} => place'[c] = place[c]]_vars

(***************************************************************************)
(* Liveness.                                                               *)
(***************************************************************************)
\* A call whose process lives ends: with a value, retired, broken by an
\* unreadable answer, or timed out, whatever agents keep submitting
\* (MAX_REQUEUE_REFRESHES).
CallEnds ==
    \A c \in Calls : call[c] = "asleep" ~> call[c] \in Ended \cup {"dead"}
=============================================================================
