-------------------------- MODULE VerifyCacheProofs --------------------------
(***************************************************************************)
(* What the reuse of verification promises, for any number of concurrent   *)
(* invocations, packages, specs, commands and commits.                     *)
(*                                                                         *)
(* Every property here ends in "would hold now": of a cache entry, of a    *)
(* spec that is fresh or standing, of a criterion skipped against a diff.  *)
(* Inv says why, one link at a time.  An entry of the cache, in the file   *)
(* or in the copy of any invocation, keeps what its command read           *)
(* (CacheSound); an invocation that nothing disturbed has seen what is     *)
(* still in the tree (Witnessed, Remembered, Found); the run it records    *)
(* was begun at the commit whose content the tree still is (Based), or its *)
(* sweep against a diff looks at a clean tree (Compared); so a concluded   *)
(* run tells the truth of the commit that it names (RunsTell), and commits *)
(* never change.                                                           *)
(***************************************************************************)
EXTENDS VerifyCache, FiniteSetTheorems, WellFoundedInduction, TLAPS

-----------------------------------------------------------------------------
(* What an invocation relies on. *)

\* The shape of the state, as far as the steps depend on it.
Fields == {"kind", "spec", "base", "result", "dirty", "config", "loads", "sound",
           "supported", "asked", "answered", "waived", "closed", "green"}
Places == {"out", "loaded", "next", "narrow", "sweep", "executing", "reported"}
Modes == {"normal", "run", "unprepared", "scoped"}
Answers == {"none", "supports", "contradicts", "asks", "inconclusive", "timeout"}

\* A property is green by a waiver, or as evidence or somebody's answer supports each of
\* its criteria.
GreenTells(x) ==
    \A p \in x.green : p \in x.waived \/ CriteriaOf(x.spec, p) \subseteq x.supported \cup x.answered
IsRun(x) == x = [f \in Fields |-> x[f]] /\ GreenTells(x)
Commit == [parent: Nat, content: [Pkgs -> Versions]]
RepoShape ==
    /\ src \in [Pkgs -> Versions] /\ dist \in [Pkgs -> Versions \cup {"absent"}]
    /\ commits \in Seq(Commit) /\ head \in DOMAIN commits
RunsShape ==
    /\ runs \in Seq(Range(runs))
    /\ \A r \in DOMAIN runs : IsRun(runs[r]) /\ Anchor(r) \in DOMAIN commits
StepsShape ==
    /\ pc \in [Invokers -> Places] /\ mode \in [Invokers -> Modes]
    /\ run \in [Invokers -> Nat]
    /\ saw \in [Invokers -> [is: Answers, torn: BOOLEAN]]
    /\ touched \in [Invokers -> [all: BOOLEAN, now: BOOLEAN]]
    /\ DOMAIN good = Invokers /\ DOMAIN memo = Invokers /\ DOMAIN cache = Invokers
    /\ DOMAIN todo = Invokers /\ DOMAIN about = Invokers
Shapes == RepoShape /\ RunsShape /\ StepsShape

\* A cache entry whose command ran undisturbed is of packages it passes on.
EntrySound(c, e) ==
    ~e.torn /\ Scoped(c) /\ Covered(c) =>
        \A p \in Reads[c] : e.src[p] \in Good /\ (c \notin Builds => e.dist[p] \in Good)
CacheSound(f) == \A c \in DOMAIN f : EntrySound(c, f[c])

\* Nothing changed in the repository since the invocation started; the run it records,
\* if any, describes the repository that it names.
Calm(i) == pc[i] # "out" /\ ~touched[i].all
Sound(i) == run[i] # 0 /\ runs[run[i]].sound

\* The run of an invocation is one it has begun and not concluded.
Blank(x) == ~x.closed /\ x.supported = {}
OwnRun(i) ==
    run[i] # 0 => /\ pc[i] # "out" /\ run[i] \in DOMAIN runs
                  /\ runs[run[i]].kind = "verify" /\ Blank(runs[run[i]])
                  /\ runs[run[i]].sound => Here(i)
Placed(i) ==
    /\ pc[i] = "loaded" => mode[i] \in {"normal", "scoped"}
    /\ pc[i] = "next" => mode[i] = "normal"
    /\ pc[i] = "narrow" => mode[i] = "scoped"
    /\ pc[i] \in {"out", "loaded", "next", "narrow"} => good[i] = {}
    /\ pc[i] = "out" => memo[i] = Nothing
    /\ pc[i] = "reported" \/ (pc[i] \in {"sweep", "executing"} /\ run[i] = 0) => mode[i] = "scoped"
    /\ pc[i] = "executing" => Kind[Head(todo[i])] = "command"

\* What it has seen, remembers and found holds in the tree while that stays as it is.
Witnessed(i) ==
    pc[i] = "executing" /\ ~touched[i].now /\ Here(i) /\ saw[i].is = "supports" =>
        Passes(Now(i), src, dist)
Remembered(i) ==
    Calm(i) /\ Here(i) => \A c \in DOMAIN memo[i] :
        memo[i][c].is = "supports" => \A p \in Reads[c] : src[p] \in Good
Found(i) ==
    Calm(i) /\ (mode[i] = "scoped" \/ Sound(i)) => \A c \in good[i] : Holds(c, src)

\* A run of a clean tree names the commit that is checked out; so does a sweep
\* against a diff see one.
Based(i) ==
    Calm(i) /\ Sound(i) /\ ~runs[run[i]].dirty => src = ContentOf(runs[run[i]].base)
Compared(i) ==
    mode[i] = "scoped" /\ pc[i] # "out" =>
        about[i] \in DOMAIN commits /\ (~touched[i].all => ~Dirty)

Own(i) ==
    /\ OwnRun(i) /\ Placed(i) /\ CacheSound(cache[i])
    /\ touched[i].now => touched[i].all
    /\ Witnessed(i) /\ Remembered(i) /\ Found(i) /\ Based(i) /\ Compared(i)

\* No two invocations record the same run.
Apart == \A i, j \in Invokers : i # j /\ run[i] # 0 => run[i] # run[j]

\* What the evidence of a run supports, holds in the commit that it describes.
Tells(r) ==
    runs[r].sound /\ (runs[r].kind = "verify" => ~runs[r].dirty) =>
        \A c \in runs[r].supported : Holds(c, ContentOf(Anchor(r)))
RunsTell == \A r \in DOMAIN runs : Tells(r)

Inv == Shapes /\ (\A i \in Invokers : Own(i)) /\ Apart /\ RunsTell /\ CacheSound(file)

-----------------------------------------------------------------------------
(* Sequences, and the latest of some runs. *)

LEMMA SeqExtended ==
    ASSUME NEW S, NEW q \in Seq(S), NEW x
    PROVE  /\ Append(q, x) \in Seq(S \cup {x}) /\ Len(q) + 1 \notin DOMAIN q
           /\ DOMAIN Append(q, x) = DOMAIN q \cup {Len(q) + 1} /\ Len(q) + 1 \in Nat \ {0}
           /\ Append(q, x)[Len(q) + 1] = x /\ \A k \in DOMAIN q : Append(q, x)[k] = q[k]
OBVIOUS

LEMMA SeqOwn ==
    ASSUME NEW S, NEW q \in Seq(S)
    PROVE  q \in Seq(Range(q))
BY DEF Range

LEMMA SeqUpdated ==
    ASSUME NEW S, NEW q \in Seq(S), NEW k \in DOMAIN q, NEW x, NEW p, p = [q EXCEPT ![k] = x]
    PROVE  p \in Seq(Range(p)) /\ DOMAIN p = DOMAIN q
<1>1. p \in Seq(S \cup {x}) /\ DOMAIN p = DOMAIN q  OBVIOUS
<1> QED  BY <1>1, SeqOwn

\* Of runs that there are, one is the latest.
LEMMA LatestIn ==
    ASSUME NEW n \in Nat, NEW T \in SUBSET (1..n), T # {}
    PROVE  Latest(T) \in T
<1> DEFINE R == StrictSubsetOrdering(1..n)
           F == {m..n : m \in T}
<1>1. IsWellFoundedOn(R, FiniteSubsetsOf(1..n))  BY FS_StrictSubsetOrderingWellFounded
<1>2. F \subseteq FiniteSubsetsOf(1..n) /\ F # {}
  <2>1. ASSUME NEW m \in T PROVE m..n \in FiniteSubsetsOf(1..n)
    <3>1. n \in Int /\ m \in Int  OBVIOUS
    <3>2. IsFiniteSet(m..n)  BY <3>1, FS_Interval
    <3>3. m..n \in SUBSET (1..n)  OBVIOUS
    <3> QED  BY <3>2, <3>3 DEF FiniteSubsetsOf
  <2> QED  BY <2>1
<1>3. PICK x \in F : \A y \in F : <<y, x>> \notin R
  <2> HIDE DEF R, F
  <2> QED  BY <1>1, <1>2, WFMin
<1>4. PICK m \in T : x = m..n  BY <1>3
<1>5. ASSUME NEW k \in T, m < k PROVE FALSE
  <2>1. k..n \subseteq m..n /\ m \in m..n /\ m \notin k..n  BY <1>5
  <2>2. <<k..n, m..n>> \in R  BY <2>1 DEF StrictSubsetOrdering
  <2> QED  BY <1>3, <1>4, <2>2
<1>6. \A q \in T : q <= m  BY <1>5
<1> QED  BY <1>6 DEF Latest

-----------------------------------------------------------------------------
(* What the steps do to the records of runs. *)

\* A run keeps what it names and can only lose its soundness; none goes away.
SameRun(r) ==
    /\ runs'[r].kind = runs[r].kind /\ runs'[r].base = runs[r].base
    /\ runs'[r].result = runs[r].result /\ runs'[r].dirty = runs[r].dirty
    /\ runs'[r].sound => runs[r].sound
RunsGo ==
    /\ runs' \in Seq(Range(runs'))
    /\ \A r \in DOMAIN runs' : IsRun(runs'[r])
    /\ \A r \in DOMAIN runs : r \in DOMAIN runs' /\ SameRun(r)

LEMMA RunsStay == Shapes /\ UNCHANGED runs => RunsGo
BY DEF Shapes, RepoShape, RunsShape, StepsShape, RunsGo, SameRun

LEMMA RunBegun ==
    ASSUME Shapes, NEW x, IsRun(x), runs' = Append(runs, x)
    PROVE  /\ RunsGo /\ DOMAIN runs' = DOMAIN runs \cup {Len(runs) + 1}
           /\ Len(runs) + 1 \in Nat \ {0} /\ Len(runs) + 1 \notin DOMAIN runs
           /\ runs'[Len(runs) + 1] = x
           /\ \A r \in DOMAIN runs : runs'[r] = runs[r]
<1> DEFINE S == Range(runs)
<1>1. runs \in Seq(S)  BY DEF Shapes, RunsShape
<1> HIDE DEF S
<1>2. /\ runs' \in Seq(S \cup {x}) /\ Len(runs) + 1 \notin DOMAIN runs
      /\ DOMAIN runs' = DOMAIN runs \cup {Len(runs) + 1} /\ Len(runs) + 1 \in Nat \ {0}
      /\ runs'[Len(runs) + 1] = x /\ \A k \in DOMAIN runs : runs'[k] = runs[k]
  BY <1>1, SeqExtended
<1>3. runs' \in Seq(Range(runs'))  BY <1>2, SeqOwn
<1>4. \A r \in DOMAIN runs' : IsRun(runs'[r])  BY <1>2 DEF Shapes, RunsShape
<1> QED  BY <1>2, <1>3, <1>4 DEF RunsGo, SameRun

LEMMA RunUpdated ==
    ASSUME Shapes, NEW k \in DOMAIN runs, NEW x, IsRun(x), runs' = [runs EXCEPT ![k] = x],
           SameRun(k)
    PROVE  RunsGo /\ DOMAIN runs' = DOMAIN runs
<1> DEFINE S == Range(runs)
<1>1. runs \in Seq(S)  BY DEF Shapes, RunsShape
<1> HIDE DEF S
<1>2. \A p : p = [runs EXCEPT ![k] = x] =>
              p \in Seq(Range(p)) /\ DOMAIN p = DOMAIN runs
  BY <1>1, SeqUpdated
<1>3. runs' \in Seq(Range(runs')) /\ DOMAIN runs' = DOMAIN runs  BY <1>2, Zenon
<1>4. \A r \in DOMAIN runs : runs'[r] = runs[r] \/ (r = k /\ runs'[r] = x)  BY <1>1
<1>5. \A r \in DOMAIN runs' : IsRun(runs'[r])  BY <1>3, <1>4 DEF Shapes, RunsShape
<1>6. \A r \in DOMAIN runs : SameRun(r)  BY <1>4 DEF SameRun
<1> QED  BY <1>3, <1>5, <1>6 DEF RunsGo

\* Evidence leaves the run as it was but for its soundness.
LEMMA RunRecorded ==
    ASSUME Shapes, NEW k \in DOMAIN runs, NEW b \in BOOLEAN,
           runs' = [runs EXCEPT ![k].sound = @ /\ b]
    PROVE  /\ RunsGo /\ DOMAIN runs' = DOMAIN runs
           /\ runs'[k].supported = runs[k].supported /\ runs'[k].closed = runs[k].closed
           /\ runs'[k].sound => runs[k].sound /\ b
           /\ \A r \in DOMAIN runs \ {k} : runs'[r] = runs[r]
<1> DEFINE x == [runs[k] EXCEPT !.sound = @ /\ b]
<1>1. IsRun(runs[k])  BY DEF Shapes, RunsShape
<1>2. /\ IsRun(x) /\ x.kind = runs[k].kind /\ x.base = runs[k].base /\ x.result = runs[k].result
      /\ x.dirty = runs[k].dirty /\ x.supported = runs[k].supported /\ x.closed = runs[k].closed
      /\ x.sound => runs[k].sound /\ b
  BY <1>1 DEF IsRun, GreenTells, Fields
<1>3. runs' = [runs EXCEPT ![k] = x]  OBVIOUS
<1> HIDE DEF x
<1>4. runs'[k] = x /\ \A r \in DOMAIN runs \ {k} : runs'[r] = runs[r]  BY <1>3
<1> QED  BY <1>2, <1>3, <1>4, RunUpdated DEF SameRun

\* A run is closed with what its sweep supports.
LEMMA RunClosed ==
    ASSUME Shapes, NEW i \in Invokers, NEW g, Closed(i, g), run[i] \in DOMAIN runs,
           \A p \in g : CriteriaOf(runs[run[i]].spec, p) \subseteq good[i]
    PROVE  /\ RunsGo /\ DOMAIN runs' = DOMAIN runs
           /\ runs'[run[i]].supported = good[i]
           /\ runs'[run[i]].sound => runs[run[i]].sound /\ ~touched[i].all
           /\ \A r \in DOMAIN runs \ {run[i]} : runs'[r] = runs[r]
<1> DEFINE k == run[i]
           x == [runs[k] EXCEPT !.sound = @ /\ ~touched[i].all, !.closed = TRUE,
                                !.supported = good[i], !.asked = asked[i], !.green = g]
<1>1. IsRun(runs[k])  BY DEF Shapes, RunsShape
<1>2. /\ x = [f \in Fields |-> x[f]]
      /\ x.kind = runs[k].kind /\ x.base = runs[k].base /\ x.result = runs[k].result
      /\ x.dirty = runs[k].dirty /\ x.spec = runs[k].spec
      /\ x.supported = good[i] /\ x.green = g
      /\ x.sound => runs[k].sound /\ ~touched[i].all
  BY <1>1 DEF IsRun, Fields
<1>3. runs' = [runs EXCEPT ![k] = x]  BY DEF Closed, Shapes, RunsShape
<1> HIDE DEF x
<1>4. IsRun(x)  BY <1>2 DEF IsRun, GreenTells
<1>5. runs'[k] = x /\ \A r \in DOMAIN runs \ {k} : runs'[r] = runs[r]  BY <1>3
<1>6. SameRun(k)  BY <1>2, <1>5 DEF SameRun
<1>7. RunsGo /\ DOMAIN runs' = DOMAIN runs
  <2> HIDE DEF k
  <2>1. k \in DOMAIN runs  BY DEF k
  <2> QED  BY <1>3, <1>4, <1>6, <2>1, RunUpdated
<1> QED  BY <1>2, <1>5, <1>7

\* A torn or stale state.json, and what somebody decides, leave the evidence of the sweep.
LEMMA RunRevised ==
    ASSUME Shapes, NEW k \in DOMAIN runs, NEW x, IsRun(x), runs' = [runs EXCEPT ![k] = x],
           x.kind = runs[k].kind, x.base = runs[k].base, x.result = runs[k].result,
           x.dirty = runs[k].dirty, x.sound = runs[k].sound, x.supported = runs[k].supported
    PROVE  /\ RunsGo /\ DOMAIN runs' = DOMAIN runs
           /\ \A r \in DOMAIN runs : runs'[r].supported = runs[r].supported
           /\ \A r \in DOMAIN runs \ {k} : runs'[r] = runs[r]
<1>1. runs'[k] = x /\ \A r \in DOMAIN runs \ {k} : runs'[r] = runs[r]  OBVIOUS
<1>2. SameRun(k)  BY <1>1 DEF SameRun
<1>3. RunsGo /\ DOMAIN runs' = DOMAIN runs  BY <1>2, RunUpdated
<1> QED  BY <1>1, <1>3

LEMMA RunTorn ==
    ASSUME Shapes, NEW k \in DOMAIN runs, runs' = [runs EXCEPT ![k].loads = FALSE]
    PROVE  /\ RunsGo /\ DOMAIN runs' = DOMAIN runs
           /\ \A r \in DOMAIN runs : runs'[r].supported = runs[r].supported
           /\ \A r \in DOMAIN runs \ {k} : runs'[r] = runs[r]
<1> DEFINE x == [runs[k] EXCEPT !.loads = FALSE]
<1>1. IsRun(runs[k])  BY DEF Shapes, RunsShape
<1>2. /\ IsRun(x) /\ x.kind = runs[k].kind /\ x.base = runs[k].base /\ x.result = runs[k].result
      /\ x.dirty = runs[k].dirty /\ x.supported = runs[k].supported /\ x.sound = runs[k].sound
  BY <1>1 DEF IsRun, GreenTells, Fields
<1>3. runs' = [runs EXCEPT ![k] = x]  OBVIOUS
<1> HIDE DEF x
<1> QED  BY <1>2, <1>3, RunRevised

\* What stands in state.json stands by the evidence and the decisions that there are.
LEMMA RunResolved ==
    ASSUME Shapes, Resolve
    PROVE  /\ RunsGo /\ DOMAIN runs' = DOMAIN runs
           /\ \A r \in DOMAIN runs : runs'[r].supported = runs[r].supported
           /\ \A r \in DOMAIN runs : ~runs[r].closed => runs'[r] = runs[r]
<1>1. PICK r, c, d :
        /\ r \in DOMAIN runs /\ runs[r].closed
        /\ \/ runs' = [runs EXCEPT ![r] = Reevaluated(Decided(r, c, d), Prop[c])]
           \/ \E l \in BOOLEAN : runs' = [runs EXCEPT ![r] = [Decided(r, c, d) EXCEPT !.loads = l]]
  BY DEF Resolve
<1> DEFINE y == Decided(r, c, d)
<1>2. IsRun(runs[r])  BY <1>1 DEF Shapes, RunsShape
<1>3. /\ y = [f \in Fields |-> y[f]]
      /\ y.kind = runs[r].kind /\ y.base = runs[r].base /\ y.result = runs[r].result
      /\ y.dirty = runs[r].dirty /\ y.supported = runs[r].supported /\ y.sound = runs[r].sound
      /\ y.spec = runs[r].spec /\ y.green = runs[r].green
  BY <1>2 DEF IsRun, Fields, Decided
<1>4. runs[r].waived \subseteq y.waived /\ runs[r].answered \subseteq y.answered
  BY <1>2 DEF IsRun, Fields, Decided
<1> HIDE DEF y
<1>5. IsRun(y)  BY <1>2, <1>3, <1>4 DEF IsRun, GreenTells
<1>6. PICK x : /\ runs' = [runs EXCEPT ![r] = x]
               /\ x = Reevaluated(y, Prop[c]) \/ \E l \in BOOLEAN : x = [y EXCEPT !.loads = l]
  BY <1>1 DEF y
<1>7. /\ x.kind = y.kind /\ x.base = y.base /\ x.result = y.result
      /\ x.dirty = y.dirty /\ x.supported = y.supported /\ x.sound = y.sound
      /\ IsRun(x)
  <2>1. CASE x = Reevaluated(y, Prop[c])
    <3> DEFINE g == (y.green \ {Prop[c]})
                      \cup ({Prop[c]} \cap Satisfied(y.spec, y.supported \cup y.answered, y.waived))
    <3>1. x = [y EXCEPT !.green = g]  BY <2>1 DEF Reevaluated
    <3>2. \A p \in g : p \in y.waived \/ CriteriaOf(y.spec, p) \subseteq y.supported \cup y.answered
      BY <1>5 DEF Satisfied, IsRun, GreenTells
    <3> HIDE DEF g
    <3>3. /\ x.kind = y.kind /\ x.base = y.base /\ x.result = y.result
          /\ x.dirty = y.dirty /\ x.supported = y.supported /\ x.sound = y.sound
          /\ x = [f \in Fields |-> x[f]] /\ x.green = g /\ x.waived = y.waived
          /\ x.spec = y.spec /\ x.answered = y.answered
      BY <1>5, <3>1 DEF IsRun, Fields
    <3> QED  BY <3>2, <3>3 DEF IsRun, GreenTells
  <2>2. CASE \E l \in BOOLEAN : x = [y EXCEPT !.loads = l]
    BY <1>5, <2>2 DEF IsRun, GreenTells, Fields
  <2> QED  BY <1>6, <2>1, <2>2
<1>8. /\ RunsGo /\ DOMAIN runs' = DOMAIN runs
      /\ \A q \in DOMAIN runs : runs'[q].supported = runs[q].supported
      /\ \A q \in DOMAIN runs \ {r} : runs'[q] = runs[q]
  BY <1>1, <1>3, <1>6, <1>7, RunRevised
<1> QED  BY <1>1, <1>8

-----------------------------------------------------------------------------
(* The start. *)

LEMMA InitShapes == Init => Shapes
<1> SUFFICES ASSUME Init PROVE Shapes
  OBVIOUS
<1>1. src \in [Pkgs -> Versions] /\ dist \in [Pkgs -> Versions \cup {"absent"}]
  BY VerifyCacheAssumption DEF Init
<1>2. commits \in Seq(Commit) /\ head \in DOMAIN commits
  <2>1. [parent |-> 0, content |-> src] \in Commit  BY <1>1 DEF Commit
  <2>2. \A x : \A S : x \in S => <<x>> \in Seq(S) /\ 1 \in DOMAIN <<x>>  OBVIOUS
  <2>3. commits = <<[parent |-> 0, content |-> src]>> /\ head = 1  BY DEF Init
  <2> QED  BY <2>1, <2>2, <2>3, Zenon
<1>3. runs \in Seq(Range(runs)) /\ DOMAIN runs = {}  BY SeqOwn DEF Init
<1>4. pc \in [Invokers -> Places] /\ mode \in [Invokers -> Modes]  BY DEF Init, Places, Modes
<1>5. run \in [Invokers -> Nat]  BY DEF Init
<1>6. saw \in [Invokers -> [is: Answers, torn: BOOLEAN]]  BY DEF Init, None, Answers
<1>7. touched \in [Invokers -> [all: BOOLEAN, now: BOOLEAN]]  BY DEF Init, Quiet
<1>8. /\ DOMAIN good = Invokers /\ DOMAIN memo = Invokers /\ DOMAIN cache = Invokers
      /\ DOMAIN todo = Invokers /\ DOMAIN about = Invokers
  BY DEF Init
<1> QED
  BY <1>1, <1>2, <1>3, <1>4, <1>5, <1>6, <1>7, <1>8 DEF Shapes, RepoShape, RunsShape, StepsShape

LEMMA InitInv == Init => Inv
<1> SUFFICES ASSUME Init PROVE Inv
  OBVIOUS
<1>1. CacheSound(file) /\ \A i \in Invokers : cache[i] = file  BY DEF Init, CacheSound, Nothing
<1>2. \A i \in Invokers : Own(i)
  BY <1>1 DEF Init, Own, OwnRun, Placed, Quiet, Witnessed, Remembered, Found, Based, Compared, Calm
<1>3. Apart /\ RunsTell  BY DEF Init, Apart, RunsTell
<1> QED  BY <1>1, <1>2, <1>3, InitShapes DEF Inv

-----------------------------------------------------------------------------
(* Shapes. *)

Same(j) ==
    UNCHANGED <<pc[j], mode[j], run[j], about[j], cache[j], memo[j], saw[j], good[j], todo[j]>>
CommitsGo == \A r \in DOMAIN commits : r \in DOMAIN commits' /\ commits'[r] = commits[r]

LEMMA CommitsGrow ==
    ASSUME RepoShape, NEW x \in Commit, commits' = Append(commits, x)
    PROVE  /\ commits' \in Seq(Commit) /\ CommitsGo
           /\ Len(commits) + 1 \in DOMAIN commits' /\ commits'[Len(commits) + 1] = x
BY DEF RepoShape, CommitsGo

LEMMA DistBuilt ==
    ASSUME RepoShape, NEW i \in Invokers, Execute(i)
    PROVE  dist' \in [Pkgs -> Versions \cup {"absent"}]
BY DEF RepoShape, Execute

LEMMA LeaveSteps ==
    ASSUME StepsShape, NEW i \in Invokers, Leave(i)
    PROVE  /\ StepsShape' /\ pc'[i] = "out" /\ run'[i] = 0 /\ cache'[i] = Nothing
           /\ touched'[i] = Quiet /\ mode'[i] = "normal" /\ good'[i] = {} /\ memo'[i] = Nothing
           /\ \A j \in Invokers \ {i} : Same(j) /\ touched'[j] = touched[j]
           /\ UNCHANGED <<tree, repo>>
<1>1. /\ pc' \in [Invokers -> Places] /\ mode' \in [Invokers -> Modes]
      /\ run' \in [Invokers -> Nat]
      /\ saw' \in [Invokers -> [is: Answers, torn: BOOLEAN]]
      /\ touched' \in [Invokers -> [all: BOOLEAN, now: BOOLEAN]]
  BY DEF StepsShape, Leave, Places, Modes, Answers, None, Quiet
<1>2. /\ DOMAIN good' = Invokers /\ DOMAIN memo' = Invokers /\ DOMAIN cache' = Invokers
      /\ DOMAIN todo' = Invokers /\ DOMAIN about' = Invokers
  BY DEF StepsShape, Leave, Clear
<1>3. /\ pc'[i] = "out" /\ run'[i] = 0 /\ cache'[i] = Nothing
      /\ touched'[i] = Quiet /\ mode'[i] = "normal" /\ good'[i] = {} /\ memo'[i] = Nothing
      /\ \A j \in Invokers \ {i} : Same(j) /\ touched'[j] = touched[j]
  BY DEF StepsShape, Leave, Clear, Same
<1> QED  BY <1>1, <1>2, <1>3 DEF StepsShape, Leave

LEMMA EnterSteps ==
    ASSUME StepsShape, NEW i \in Invokers, NEW m \in Modes, NEW at \in Places, NEW work, NEW rev,
           Enter(i, m, at, work, rev), run' \in [Invokers -> Nat], DOMAIN todo' = Invokers
    PROVE  /\ StepsShape' /\ pc'[i] = at /\ mode'[i] = m /\ about'[i] = rev
           /\ cache'[i] = file
           /\ UNCHANGED <<tree, repo, file, good, memo>>
           /\ touched'[i] = [all |-> m = "scoped" /\ Dirty, now |-> FALSE]
           /\ \A j \in Invokers \ {i} : /\ UNCHANGED <<pc[j], mode[j], about[j], cache[j], memo[j]>>
                                        /\ UNCHANGED <<saw[j], good[j], touched[j]>>
BY DEF StepsShape, Enter, Loaded

\* A step of an invocation leaves the commits and the sources alone.
LEMMA StepRepo ==
    ASSUME Shapes, NEW i \in Invokers, Step(i)
    PROVE  /\ UNCHANGED <<src, config, repo>> /\ dist' \in [Pkgs -> Versions \cup {"absent"}]
           /\ ~Execute(i) => UNCHANGED dist
<1>1. CASE Execute(i)
  BY <1>1, DistBuilt DEF Execute, Shapes
<1>2. CASE ~Execute(i)
  <2>1. UNCHANGED <<tree, repo>>
    BY <1>2 DEF Step, Start, PersistFirst, StartOfRun, StartScoped, Narrow, NextSpec, Recall, Reuse,
       Unprepared, Finish, ReadFile, Judge, Conclude, Report, Exit, Persist, Expire,
       Die, Enter, Leave, kept
  <2> QED  BY <1>2, <2>1 DEF tree, Shapes, RepoShape
<1> QED  BY <1>1, <1>2

\* An apply run has found to hold what holds in the commit it makes.
LEMMA Applied ==
    ASSUME Shapes, ApplyRun, NEW k, k = Len(runs) + 1
    PROVE  /\ commits' \in Seq(Commit) /\ CommitsGo
           /\ src' \in [Pkgs -> Versions] /\ dist' = dist /\ head' \in DOMAIN commits'
           /\ RunsGo /\ DOMAIN runs' = DOMAIN runs \cup {k}
           /\ \A r \in DOMAIN runs : runs'[r] = runs[r]
           /\ Anchor(k)' \in DOMAIN commits'
           /\ \A c \in runs'[k].supported : Holds(c, ContentOf(Anchor(k))')
<1>0. PICK s \in Specs, v \in Results :
        LET denied == {c \in Range(Acceptance[s]) : Kind[c] = "command" /\ Command[c] \in Denied[config]}
            ok == {c \in Range(Acceptance[s]) \ denied : Holds(c, v)} IN
        /\ commits' = Append(commits, [parent |-> head, content |-> v])
        /\ \/ UNCHANGED <<src, head, touched>>
           \/ ~Dirty /\ src' = v /\ head' = Len(commits) + 1 /\ Touch
        /\ runs' = Append(runs, [kind |-> "apply", spec |-> s, base |-> head, result |-> Len(commits) + 1,
                                 dirty |-> FALSE, config |-> config, loads |-> TRUE, sound |-> TRUE,
                                 supported |-> ok, asked |-> denied, answered |-> {}, waived |-> {},
                                 closed |-> TRUE, green |-> Satisfied(s, ok, {})])
  BY Zenon DEF ApplyRun
<1> DEFINE q == {c \in Range(Acceptance[s]) : Kind[c] = "command" /\ Command[c] \in Denied[config]}
           ok == {c \in Range(Acceptance[s]) \ q : Holds(c, v)}
           a == Satisfied(s, ok, {})
<1>1. /\ commits' = Append(commits, [parent |-> head, content |-> v])
      /\ \/ UNCHANGED <<src, head, touched>>
         \/ src' = v /\ head' = Len(commits) + 1 /\ Touch
      /\ runs' = Append(runs, [kind |-> "apply", spec |-> s, base |-> head, result |-> Len(commits) + 1,
                               dirty |-> FALSE, config |-> config, loads |-> TRUE, sound |-> TRUE,
                               supported |-> ok, asked |-> q, answered |-> {}, waived |-> {},
                               closed |-> TRUE, green |-> a])
      /\ a = Satisfied(s, ok, {}) /\ \A c \in ok : Holds(c, v)
  BY <1>0, Zenon
<1> HIDE DEF ok, q, a
<1> DEFINE x == [kind |-> "apply", spec |-> s, base |-> head, result |-> Len(commits) + 1,
                 dirty |-> FALSE, config |-> config, loads |-> TRUE, sound |-> TRUE,
                 supported |-> ok, asked |-> q, answered |-> {}, waived |-> {},
                 closed |-> TRUE, green |-> a]
           y == [parent |-> head, content |-> v]
<1>2. runs' = Append(runs, x) /\ commits' = Append(commits, y)  BY <1>1
<1>3. /\ x = [f \in Fields |-> x[f]] /\ x.kind = "apply" /\ x.result = Len(commits) + 1
      /\ x.supported = ok /\ x.green = a /\ x.spec = s /\ y.content = v
  BY DEF Fields
<1>4. v \in [Pkgs -> Versions]  BY <1>1, VerifyCacheAssumption
<1>5. y \in Commit  BY <1>4 DEF Shapes, RepoShape, Commit
<1> HIDE DEF x, y
<1>6. IsRun(x)  BY <1>1, <1>3 DEF IsRun, GreenTells, Satisfied
<1>7. /\ RunsGo /\ DOMAIN runs' = DOMAIN runs \cup {k} /\ runs'[k] = x
      /\ \A r \in DOMAIN runs : runs'[r] = runs[r]
  BY <1>2, <1>6, RunBegun
<1>8. /\ commits' \in Seq(Commit) /\ CommitsGo
      /\ Len(commits) + 1 \in DOMAIN commits' /\ commits'[Len(commits) + 1] = y
  BY <1>2, <1>5, CommitsGrow DEF Shapes
<1>9. src' \in [Pkgs -> Versions] /\ head' \in DOMAIN commits'
  BY <1>1, <1>4, <1>8 DEF Shapes, RepoShape, CommitsGo
<1>10. Anchor(k)' = Len(commits) + 1  BY <1>3, <1>7 DEF Anchor
<1>11. ContentOf(Anchor(k))' = v  BY <1>3, <1>8, <1>10 DEF ContentOf
<1>12. \A c \in runs'[k].supported : Holds(c, ContentOf(Anchor(k))')
  BY <1>1, <1>3, <1>7, <1>11
<1>13. dist' = dist  BY DEF ApplyRun
<1> QED  BY <1>7, <1>8, <1>9, <1>10, <1>12, <1>13

LEMMA RepoStep == Shapes /\ [Next]_vars => RepoShape' /\ CommitsGo
<1> SUFFICES ASSUME Shapes, [Next]_vars PROVE RepoShape' /\ CommitsGo
  OBVIOUS
<1> USE DEF Shapes
<1>1. CASE Edit
  <2>1. UNCHANGED repo  BY <1>1 DEF Edit
  <2>2. src' \in [Pkgs -> Versions]  BY <1>1 DEF Edit, RepoShape
  <2>3. dist' \in [Pkgs -> Versions \cup {"absent"}]  BY <1>1 DEF Edit, RepoShape
  <2> QED  BY <2>1, <2>2, <2>3 DEF RepoShape, repo, CommitsGo
<1>2. CASE CommitAll
  <2>1. [parent |-> head, content |-> src] \in Commit  BY DEF RepoShape, Commit
  <2>2. /\ commits' = Append(commits, [parent |-> head, content |-> src])
        /\ head' = Len(commits) + 1 /\ UNCHANGED tree
    BY <1>2 DEF CommitAll
  <2> QED  BY <2>1, <2>2, CommitsGrow DEF RepoShape, tree
<1>3. CASE Checkout
  <2>1. PICK r \in DOMAIN commits : head' = r /\ src' = ContentOf(r)  BY <1>3 DEF Checkout
  <2>2. src' \in [Pkgs -> Versions]
    <3>1. \A k \in DOMAIN commits : commits[k] \in Commit  BY DEF RepoShape
    <3> QED  BY <2>1, <3>1 DEF ContentOf, Commit
  <2>3. UNCHANGED <<dist, commits>>  BY <1>3 DEF Checkout
  <2> QED  BY <2>1, <2>2, <2>3 DEF RepoShape, CommitsGo
<1>4. CASE ApplyRun
  <2>1. PICK k : k = Len(runs) + 1  OBVIOUS
  <2> QED  BY <1>4, <2>1, Applied DEF RepoShape
<1>5. ASSUME NEW i \in Invokers, Step(i) PROVE RepoShape' /\ CommitsGo
  <2>1. UNCHANGED <<src, config, repo>> /\ dist' \in [Pkgs -> Versions \cup {"absent"}]
    BY <1>5, StepRepo
  <2> QED  BY <2>1 DEF RepoShape, repo, CommitsGo
<1>6. CASE Resolve \/ UNCHANGED vars
  BY <1>6 DEF Resolve, vars, tree, repo, RepoShape, CommitsGo
<1> QED  BY <1>1, <1>2, <1>3, <1>4, <1>5, <1>6 DEF Next

\* What the steps of an invocation make of the records of runs.
StartsRun(i) == StartOfRun(i) \/ NextSpec(i)
Records(i) ==
    Recall(i) \/ Reuse(i) \/ Unprepared(i) \/ Finish(i) \/ ReadFile(i) \/ Judge(i)
Keeps(i) ==
    \/ Start(i) \/ PersistFirst(i) \/ StartScoped(i) \/ Narrow(i) \/ Execute(i)
    \/ Report(i) \/ Exit(i) \/ Persist(i)
Closes(i) == Conclude(i) \/ Expire(i)

LEMMA KeepsRuns == ASSUME NEW i \in Invokers, Keeps(i) PROVE UNCHANGED runs
BY DEF Keeps, Start, PersistFirst, StartScoped, Narrow, Execute, Report, Exit, Persist

LEMMA BeginsRun ==
    ASSUME Shapes, NEW i \in Invokers, NEW s, NEW b, Begin(i, s, b), UNCHANGED <<tree, repo>>,
           NEW k, k = Len(runs) + 1
    PROVE  /\ RunsGo /\ RunsShape' /\ run' \in [Invokers -> Nat] /\ DOMAIN todo' = Invokers
           /\ \A r \in DOMAIN runs : runs'[r] = runs[r]
           /\ DOMAIN runs' = DOMAIN runs \cup {k} /\ k # 0 /\ k \notin DOMAIN runs
           /\ run' = [run EXCEPT ![i] = k]
           /\ runs'[k].kind = "verify" /\ runs'[k].base = head /\ (~runs'[k].dirty => ~Dirty)
           /\ Blank(runs'[k]) /\ runs'[k].sound = b
<1> DEFINE x == [kind |-> "verify", spec |-> s, base |-> head, result |-> 0,
                 dirty |-> Dirty, config |-> config, loads |-> TRUE, sound |-> b,
                 supported |-> {}, asked |-> {}, answered |-> {}, waived |-> {},
                 closed |-> FALSE, green |-> {}]
<1>1. /\ runs' = Append(runs, x) /\ run' = [run EXCEPT ![i] = k]
      /\ todo' = [todo EXCEPT ![i] = Acceptance[s]]
  BY DEF Begin
<1>2. /\ IsRun(x) /\ x.kind = "verify" /\ x.base = head /\ x.dirty = Dirty
      /\ Blank(x) /\ x.sound = b
  BY DEF IsRun, GreenTells, Fields, Blank
<1> HIDE DEF x
<1>3. /\ RunsGo /\ DOMAIN runs' = DOMAIN runs \cup {k} /\ k \in Nat \ {0} /\ k \notin DOMAIN runs
      /\ runs'[k] = x /\ \A r \in DOMAIN runs : runs'[r] = runs[r]
  BY <1>1, <1>2, RunBegun
<1>4. run' \in [Invokers -> Nat] /\ DOMAIN todo' = Invokers
  BY <1>1, <1>3 DEF Shapes, StepsShape
<1>5. RunsShape'
  <2>1. \A r \in DOMAIN runs : Anchor(r)' = Anchor(r) /\ Anchor(r) \in DOMAIN commits
    BY <1>3 DEF Anchor, Shapes, RunsShape
  <2>2. Anchor(k)' \in DOMAIN commits  BY <1>2, <1>3 DEF Anchor, Shapes, RepoShape, repo
  <2> QED  BY <1>3, <2>1, <2>2 DEF RunsShape, RunsGo, repo
<1> QED  BY <1>1, <1>2, <1>3, <1>4, <1>5

LEMMA RecordsRuns ==
    ASSUME Shapes, NEW i \in Invokers, Records(i), OwnRun(i)
    PROVE  /\ RunsGo /\ DOMAIN runs' = DOMAIN runs
           /\ \A r \in DOMAIN runs : runs'[r].supported = runs[r].supported
           /\ \A r \in DOMAIN runs : runs'[r].closed = runs[r].closed
           /\ \A r \in DOMAIN runs : r # run[i] => runs'[r] = runs[r]
           /\ \A is, torn : Record(i, is, torn) /\ run[i] # 0 /\ runs'[run[i]].sound =>
                 runs[run[i]].sound /\ ~torn /\ ~touched[i].all
<1>1. PICK is, torn : Record(i, is, torn)
  BY DEF Records, Recall, Reuse, Unprepared, Finish, ReadFile, Judge
<1>2. CASE run[i] = 0
  <2>1. runs' = runs  BY <1>1, <1>2 DEF Record
  <2> QED  BY <1>2, <2>1, RunsStay
<1>3. CASE run[i] # 0
  <2>1. run[i] \in DOMAIN runs  BY <1>3 DEF OwnRun
  <2>2. ASSUME NEW is1, NEW torn1, Record(i, is1, torn1)
        PROVE  /\ RunsGo /\ DOMAIN runs' = DOMAIN runs
               /\ \A r \in DOMAIN runs : runs'[r].supported = runs[r].supported
               /\ \A r \in DOMAIN runs : runs'[r].closed = runs[r].closed
               /\ \A r \in DOMAIN runs : r # run[i] => runs'[r] = runs[r]
               /\ runs'[run[i]].sound => runs[run[i]].sound /\ ~torn1 /\ ~touched[i].all
    <3> DEFINE b == ~torn1 /\ ~touched[i].all
    <3>1. runs' = [runs EXCEPT ![run[i]].sound = @ /\ b]  BY <1>3, <2>2 DEF Record
    <3>2. b \in BOOLEAN  OBVIOUS
    <3> HIDE DEF b
    <3>3. /\ RunsGo /\ DOMAIN runs' = DOMAIN runs
          /\ runs'[run[i]].supported = runs[run[i]].supported
          /\ runs'[run[i]].closed = runs[run[i]].closed
          /\ runs'[run[i]].sound => runs[run[i]].sound /\ b
          /\ \A r \in DOMAIN runs \ {run[i]} : runs'[r] = runs[r]
      BY <2>1, <3>1, <3>2, RunRecorded
    <3> QED  BY <3>3 DEF b
  <2> QED  BY <1>1, <2>2
<1> QED  BY <1>2, <1>3

\* What is closed tells what the sweep found; or there was no run.
LEMMA ClosesRun ==
    ASSUME Shapes, NEW i \in Invokers, Closes(i), OwnRun(i)
    PROVE  \/ UNCHANGED runs
           \/ /\ run[i] # 0 /\ run[i] \in DOMAIN runs /\ RunsGo /\ DOMAIN runs' = DOMAIN runs
              /\ runs'[run[i]].supported = good[i]
              /\ runs'[run[i]].sound => runs[run[i]].sound /\ ~touched[i].all
              /\ \A r \in DOMAIN runs \ {run[i]} : runs'[r] = runs[r]
<1> SUFFICES ASSUME ~UNCHANGED runs PROVE
       /\ run[i] # 0 /\ run[i] \in DOMAIN runs /\ RunsGo /\ DOMAIN runs' = DOMAIN runs
       /\ runs'[run[i]].supported = good[i]
       /\ runs'[run[i]].sound => runs[run[i]].sound /\ ~touched[i].all
       /\ \A r \in DOMAIN runs \ {run[i]} : runs'[r] = runs[r]
  OBVIOUS
<1>1. PICK g : /\ Closed(i, g) /\ run[i] # 0
               /\ \A p \in g : CriteriaOf(runs[run[i]].spec, p) \subseteq good[i]
  <2>1. CASE Conclude(i)
    <3>1. Closed(i, Satisfied(runs[run[i]].spec, good[i], {})) /\ run[i] # 0  BY <2>1 DEF Conclude
    <3> QED  BY <3>1 DEF Satisfied
  <2>2. CASE Expire(i)
    <3>1. Closed(i, {}) /\ run[i] # 0  BY <2>2 DEF Expire
    <3> QED  BY <3>1
  <2> QED  BY <2>1, <2>2 DEF Closes
<1>2. run[i] \in DOMAIN runs  BY <1>1 DEF OwnRun
<1> QED  BY <1>1, <1>2, RunClosed

\* All that a step of an invocation makes of the records of runs, and of those that
\* are not its own.
LEMMA StepRuns ==
    ASSUME Shapes, NEW i \in Invokers, Step(i), OwnRun(i)
    PROVE  /\ RunsGo /\ RunsShape'
           /\ \A r \in DOMAIN runs : r # run[i] => runs'[r] = runs[r]
           /\ ~Closes(i) => \A r \in DOMAIN runs : runs'[r].supported = runs[r].supported
           /\ \A r \in DOMAIN runs' : r \in DOMAIN runs \/ Blank(runs'[r])
<1> SUFFICES
       /\ RunsGo /\ \A r \in DOMAIN runs' \ DOMAIN runs : Anchor(r)' \in DOMAIN commits'
       /\ \A r \in DOMAIN runs : r # run[i] => runs'[r] = runs[r]
       /\ ~Closes(i) => \A r \in DOMAIN runs : runs'[r].supported = runs[r].supported
       /\ \A r \in DOMAIN runs' : r \in DOMAIN runs \/ Blank(runs'[r])
  <2>1. commits' = commits  BY StepRepo DEF repo
  <2>2. RunsGo => \A r \in DOMAIN runs : Anchor(r)' = Anchor(r)  BY DEF RunsGo, SameRun, Anchor
  <2> QED  BY <2>1, <2>2 DEF RunsGo, RunsShape, Shapes
<1>1. CASE Keeps(i)
  BY <1>1, KeepsRuns, RunsStay
<1>2. CASE Records(i)
  BY <1>2, RecordsRuns
<1>3. CASE StartsRun(i) /\ ~UNCHANGED runs
  <2>1. PICK s, b : Begin(i, s, b)  BY <1>3 DEF StartsRun, StartOfRun, NextSpec
  <2>2. UNCHANGED <<tree, repo>>  BY <1>3 DEF StartsRun, StartOfRun, NextSpec, Enter
  <2>3. PICK k : k = Len(runs) + 1  OBVIOUS
  <2>4. /\ RunsGo /\ RunsShape' /\ (\A r \in DOMAIN runs : runs'[r] = runs[r])
        /\ DOMAIN runs' = DOMAIN runs \cup {k} /\ Blank(runs'[k])
    BY <2>1, <2>2, <2>3, BeginsRun
  <2> QED  BY <2>4 DEF RunsShape
<1>4. CASE UNCHANGED runs
  BY <1>4, RunsStay
<1>5. CASE Closes(i) /\ ~UNCHANGED runs
  BY <1>5, ClosesRun
<1>6. CASE Die(i) /\ ~UNCHANGED runs
  <2>1. run[i] \in DOMAIN runs /\ runs' = [runs EXCEPT ![run[i]].loads = FALSE]
    BY <1>6 DEF Die, OwnRun
  <2> QED  BY <2>1, RunTorn
<1> QED  BY <1>1, <1>2, <1>3, <1>4, <1>5, <1>6 DEF Step, Keeps, Records, StartsRun, Closes

LEMMA RunsStep == Shapes /\ (\A i \in Invokers : OwnRun(i)) /\ [Next]_vars => RunsGo /\ RunsShape'
<1> SUFFICES ASSUME Shapes, \A i \in Invokers : OwnRun(i), [Next]_vars PROVE RunsGo /\ RunsShape'
  OBVIOUS
<1>1. CASE ApplyRun
  <2>1. PICK k : k = Len(runs) + 1  OBVIOUS
  <2>2. /\ RunsGo /\ DOMAIN runs' = DOMAIN runs \cup {k} /\ CommitsGo
        /\ \A r \in DOMAIN runs : runs'[r] = runs[r]
        /\ Anchor(k)' \in DOMAIN commits'
    BY <1>1, <2>1, Applied
  <2>3. \A r \in DOMAIN runs : Anchor(r)' = Anchor(r) /\ Anchor(r) \in DOMAIN commits'
    BY <2>2 DEF Anchor, Shapes, RunsShape, CommitsGo
  <2> QED  BY <2>2, <2>3 DEF RunsShape, RunsGo
<1>2. CASE Edit \/ CommitAll \/ Checkout \/ UNCHANGED vars
  <2>1. UNCHANGED runs  BY <1>2 DEF Edit, CommitAll, Checkout, vars
  <2>2. CommitsGo  BY RepoStep
  <2> QED  BY <2>1, <2>2, RunsStay DEF Shapes, RunsShape, Anchor, CommitsGo
<1>3. ASSUME NEW i \in Invokers, Step(i) PROVE RunsGo /\ RunsShape'
  BY <1>3, StepRuns
<1>4. CASE Resolve
  <2>1. RunsGo /\ DOMAIN runs' = DOMAIN runs  BY <1>4, RunResolved
  <2>2. commits' = commits  BY <1>4 DEF Resolve, repo
  <2> QED  BY <2>1, <2>2 DEF RunsShape, RunsGo, SameRun, Anchor, Shapes
<1> QED  BY <1>1, <1>2, <1>3, <1>4 DEF Next

\* What a step of an invocation makes of the variables of all of them.
OthersSame(i) ==
    \A j \in Invokers \ {i} :
        /\ Same(j)
        /\ touched'[j] = touched[j] \/ touched'[j] = Shaken(j)
        /\ dist' # dist => touched'[j] = Shaken(j)

LEMMA ShakenSeen ==
    ASSUME NEW j \in Invokers
    PROVE  /\ Shaken(j).now => Shaken(j).all
           /\ pc[j] # "out" => Shaken(j).all
           /\ pc[j] = "executing" => Shaken(j).now
<1>1. CASE pc[j] = "out"
  BY <1>1 DEF Shaken, Quiet
<1>2. CASE pc[j] = "executing"
  <2>1. \A e : e = TRUE => [all |-> TRUE, now |-> e].now /\ [all |-> TRUE, now |-> e].all
    OBVIOUS
  <2>2. Shaken(j) = [all |-> TRUE, now |-> pc[j] = "executing"]  BY <1>2 DEF Shaken
  <2> QED  BY <1>2, <2>1, <2>2
<1>3. CASE pc[j] # "out"
  <2>1. Shaken(j) = [all |-> TRUE, now |-> pc[j] = "executing"]  BY <1>3 DEF Shaken
  <2> QED  BY <1>2, <1>3, <2>1
<1> QED  BY <1>1, <1>2, <1>3

LEMMA ShakenShape == StepsShape => \A j \in Invokers : Shaken(j) \in [all: BOOLEAN, now: BOOLEAN]
BY DEF StepsShape, Shaken, Quiet

LEMMA EnterShape ==
    ASSUME Shapes, NEW i \in Invokers, Start(i) \/ StartOfRun(i) \/ StartScoped(i)
    PROVE  /\ StepsShape' /\ OthersSame(i)
           /\ cache'[i] = file /\ pc[i] = "out"
           /\ touched'[i] = [all |-> mode'[i] = "scoped" /\ Dirty, now |-> FALSE]
           /\ UNCHANGED <<src, dist, repo, file, good, memo>>
           /\ \/ pc'[i] = "loaded" /\ mode'[i] = "normal" /\ run'[i] = run[i]
              \/ /\ pc'[i] = "sweep" /\ mode'[i] \in {"run", "unprepared"}
                 /\ run'[i] \in DOMAIN runs' /\ run'[i] \notin DOMAIN runs /\ run'[i] # 0
                 /\ runs'[run'[i]].kind = "verify" /\ Blank(runs'[run'[i]])
                 /\ ~runs'[run'[i]].sound
              \/ /\ pc'[i] = "loaded" /\ mode'[i] = "scoped" /\ run'[i] = run[i]
                 /\ about'[i] \in DOMAIN commits
<1>1. CASE Start(i) \/ StartScoped(i)
  <2>1. PICK m, work, rev :
            /\ Enter(i, m, "loaded", work, rev)
            /\ m = "normal" \/ (m = "scoped" /\ rev \in DOMAIN commits)
    BY <1>1 DEF Start, StartScoped
  <2>2. UNCHANGED <<run, todo>> /\ pc[i] = "out"  BY <1>1 DEF Start, StartScoped, Enter
  <2>3. m \in Modes /\ "loaded" \in Places  BY <2>1 DEF Modes, Places
  <2>4. run' \in [Invokers -> Nat] /\ DOMAIN todo' = Invokers  BY <2>2 DEF Shapes, StepsShape
  <2>5. /\ StepsShape' /\ pc'[i] = "loaded" /\ mode'[i] = m /\ about'[i] = rev
        /\ cache'[i] = file /\ UNCHANGED <<tree, repo, file, good, memo>>
        /\ touched'[i] = [all |-> m = "scoped" /\ Dirty, now |-> FALSE]
        /\ \A j \in Invokers \ {i} : /\ UNCHANGED <<pc[j], mode[j], about[j], cache[j], memo[j]>>
                                     /\ UNCHANGED <<saw[j], good[j], touched[j]>>
    BY <2>1, <2>3, <2>4, EnterSteps DEF Shapes
  <2> QED  BY <2>1, <2>2, <2>5 DEF OthersSame, Same, tree
<1>2. CASE StartOfRun(i)
  <2>1. PICK r \in DOMAIN runs, m \in {"run", "unprepared"} :
            /\ Enter(i, m, "sweep", <<>>, runs[r].result)
            /\ Begin(i, runs[r].spec, FALSE)
    BY <1>2 DEF StartOfRun
  <2>2. m \in Modes /\ "sweep" \in Places /\ pc[i] = "out" /\ UNCHANGED <<tree, repo>>
    BY <2>1 DEF Modes, Places, Enter
  <2>3. PICK k : k = Len(runs) + 1  OBVIOUS
  <2>4. /\ run' \in [Invokers -> Nat] /\ DOMAIN todo' = Invokers /\ run' = [run EXCEPT ![i] = k]
        /\ k \in DOMAIN runs' /\ k \notin DOMAIN runs /\ k # 0
        /\ runs'[k].kind = "verify" /\ Blank(runs'[k]) /\ ~runs'[k].sound
    <3>1. PICK s, b : Begin(i, s, b) /\ b = FALSE  BY <2>1
    <3>2. UNCHANGED <<tree, repo>>  BY <2>2
    <3>3. /\ run' \in [Invokers -> Nat] /\ DOMAIN todo' = Invokers
          /\ run' = [run EXCEPT ![i] = k]
      BY <2>3, <3>1, <3>2, BeginsRun
    <3>4. DOMAIN runs' = DOMAIN runs \cup {k} /\ k # 0 /\ k \notin DOMAIN runs
      BY <2>3, <3>1, <3>2, BeginsRun
    <3>5. runs'[k].kind = "verify" /\ Blank(runs'[k]) /\ runs'[k].sound = b
      BY <2>3, <3>1, <3>2, BeginsRun
    <3> QED  BY <3>1, <3>3, <3>4, <3>5
  <2>5. run'[i] = k  BY <2>4 DEF Shapes, StepsShape
  <2>6. \A j \in Invokers \ {i} : UNCHANGED <<run[j], todo[j]>>
    BY <2>1, <2>4 DEF Shapes, StepsShape, Begin
  <2>7. /\ StepsShape' /\ pc'[i] = "sweep" /\ mode'[i] = m
        /\ cache'[i] = file /\ UNCHANGED <<tree, repo, file, good, memo>>
        /\ touched'[i] = [all |-> m = "scoped" /\ Dirty, now |-> FALSE]
        /\ \A j \in Invokers \ {i} : /\ UNCHANGED <<pc[j], mode[j], about[j], cache[j], memo[j]>>
                                     /\ UNCHANGED <<saw[j], good[j], touched[j]>>
    <3>1. PICK rev : Enter(i, m, "sweep", <<>>, rev)  BY <2>1
    <3> QED  BY <2>2, <2>4, <3>1, EnterSteps DEF Shapes
  <2> QED  BY <2>2, <2>4, <2>5, <2>6, <2>7 DEF OthersSame, Same, tree
<1> QED  BY <1>1, <1>2

LEMMA RecordShape ==
    ASSUME StepsShape, NEW i \in Invokers, NEW is, NEW torn, Record(i, is, torn)
    PROVE  /\ DOMAIN good' = Invokers /\ DOMAIN todo' = Invokers
           /\ \A j \in Invokers \ {i} : UNCHANGED <<good[j], todo[j]>>
           /\ good'[i] = IF is = "supports" THEN good[i] \cup {Head(todo[i])} ELSE good[i]
BY DEF StepsShape, Record

LEMMA StepShape ==
    ASSUME Shapes, NEW i \in Invokers, Step(i)
    PROVE  StepsShape' /\ OthersSame(i)
<1> USE DEF Shapes
<1>1. CASE Start(i) \/ StartOfRun(i) \/ StartScoped(i)
  BY <1>1, EnterShape
<1>2. CASE PersistFirst(i) \/ Narrow(i) \/ Report(i)
  <2>1. pc' \in [Invokers -> Places] /\ DOMAIN todo' = Invokers
    BY <1>2 DEF PersistFirst, Narrow, Report, StepsShape, Places
  <2>2. \A j \in Invokers \ {i} : UNCHANGED <<pc[j], todo[j]>>
    BY <1>2 DEF PersistFirst, Narrow, Report, StepsShape
  <2>3. UNCHANGED <<dist, mode, run, about, cache, memo, saw, good, touched>>
    BY <1>2 DEF PersistFirst, Narrow, Report, kept, tree
  <2> QED  BY <2>1, <2>2, <2>3 DEF StepsShape, OthersSame, Same
<1>3. CASE NextSpec(i)
  <2>1. UNCHANGED <<dist, mode, about, cache, memo, saw, good, touched>> /\ UNCHANGED <<tree, repo>>
    BY <1>3 DEF NextSpec, tree
  <2>2. CASE UNCHANGED <<pc, runs, run, todo>>
    BY <2>1, <2>2 DEF StepsShape, OthersSame, Same
  <2>3. CASE pc' = [pc EXCEPT ![i] = "sweep"] /\ \E s, b : Begin(i, s, b)
    <3>1. PICK k : k = Len(runs) + 1  OBVIOUS
    <3>2. run' \in [Invokers -> Nat] /\ DOMAIN todo' = Invokers /\ run' = [run EXCEPT ![i] = k]
      BY <2>1, <2>3, <3>1, BeginsRun
    <3>3. pc' \in [Invokers -> Places]
      BY <2>3 DEF StepsShape, Places
    <3>4. \A j \in Invokers \ {i} : UNCHANGED <<pc[j], run[j], todo[j]>>
      BY <2>3, <3>2 DEF StepsShape, Begin
    <3> QED  BY <2>1, <3>2, <3>3, <3>4 DEF StepsShape, OthersSame, Same
  <2> QED  BY <1>3, <2>2, <2>3 DEF NextSpec
<1>4. CASE Records(i) /\ ~Finish(i)
  <2>1. PICK is, torn : Record(i, is, torn)
    BY <1>4 DEF Records, Recall, Reuse, Unprepared, ReadFile, Judge
  <2>2. UNCHANGED <<dist, mode, run, about, pc, cache, memo, saw, touched>>
    BY <1>4 DEF Records, Recall, Reuse, Unprepared, ReadFile, Judge, kept, tree
  <2> QED  BY <2>1, <2>2, RecordShape DEF StepsShape, OthersSame, Same
<1>5. CASE Finish(i)
  <2>1. PICK is, torn : Record(i, is, torn)  BY <1>5 DEF Finish
  <2>2. UNCHANGED <<dist, mode, run, about>>  BY <1>5 DEF Finish, kept, tree
  <2>3. /\ pc' \in [Invokers -> Places] /\ DOMAIN memo' = Invokers /\ DOMAIN cache' = Invokers
        /\ saw' \in [Invokers -> [is: Answers, torn: BOOLEAN]]
        /\ touched' \in [Invokers -> [all: BOOLEAN, now: BOOLEAN]]
    BY <1>5 DEF Finish, StepsShape, Places, None, Answers
  <2>4. \A j \in Invokers \ {i} : UNCHANGED <<pc[j], memo[j], cache[j], saw[j], touched[j]>>
    BY <1>5 DEF Finish, StepsShape
  <2> QED  BY <2>1, <2>2, <2>3, <2>4, RecordShape DEF StepsShape, OthersSame, Same
<1>6. CASE Execute(i)
  <2>1. UNCHANGED <<mode, run, todo, about, cache, memo, good>>  BY <1>6 DEF Execute
  <2>2. pc' \in [Invokers -> Places] /\ saw' \in [Invokers -> [is: Answers, torn: BOOLEAN]]
    <3>1. PICK x \in Answers : saw' = [saw EXCEPT ![i].is = x]
      <4>1. CASE Now(i) \in Denied[rules[i]] /\ saw' = [saw EXCEPT ![i].is = "asks"]
        BY <4>1 DEF Answers
      <4>2. CASE \E x \in {"supports", "contradicts", "timeout"} : saw' = [saw EXCEPT ![i].is = x]
        BY <4>2 DEF Answers
      <4> QED  BY <1>6, <4>1, <4>2 DEF Execute
    <3> QED  BY <1>6, <3>1 DEF Execute, StepsShape, Places
  <2>3. \A j \in Invokers \ {i} : UNCHANGED <<pc[j], saw[j]>>
    BY <1>6 DEF Execute, StepsShape
  <2>4. touched' = [j \in Invokers |-> IF j # i /\ dist' # dist THEN Shaken(j) ELSE touched[j]]
    BY <1>6 DEF Execute
  <2>5. touched' \in [Invokers -> [all: BOOLEAN, now: BOOLEAN]]
    BY <2>4, ShakenShape DEF StepsShape
  <2> QED  BY <2>1, <2>2, <2>3, <2>4, <2>5 DEF StepsShape, OthersSame, Same
<1>7. CASE Conclude(i) /\ ~Leave(i)
  <2>1. UNCHANGED <<dist, mode, todo, about, cache, memo, saw, touched>>
    BY <1>7 DEF Conclude, tree
  <2>2. pc' = [pc EXCEPT ![i] = "next"] /\ run' = [run EXCEPT ![i] = 0] /\ good' = [good EXCEPT ![i] = {}]
    BY <1>7 DEF Conclude, Clear
  <2>3. pc' \in [Invokers -> Places] /\ run' \in [Invokers -> Nat] /\ DOMAIN good' = Invokers
    BY <2>2 DEF StepsShape, Places
  <2>4. \A j \in Invokers \ {i} : UNCHANGED <<pc[j], run[j], good[j]>>
    BY <2>2 DEF StepsShape
  <2> QED  BY <2>1, <2>3, <2>4 DEF StepsShape, OthersSame, Same
<1>8. CASE Leave(i)
  BY <1>8, LeaveSteps DEF OthersSame, tree
<1> QED
  BY <1>1, <1>2, <1>3, <1>4, <1>5, <1>6, <1>7, <1>8
  DEF Step, Records, Exit, Persist, Expire, Die

-----------------------------------------------------------------------------
(* What the others keep. *)

\* What an invocation relies on stands while its own variables, and what it saw of
\* the repository, stay.
LEMMA OwnStays ==
    ASSUME Shapes, NEW j \in Invokers, Own(j), Same(j), RunsGo, CommitsGo,
           run[j] # 0 => Blank(runs'[run[j]]),
           touched'[j].now => touched'[j].all,
           Calm(j)' => /\ ~touched[j].all /\ UNCHANGED src
                       /\ mode[j] = "scoped" /\ ~Dirty => ~Dirty',
           pc[j] = "executing" /\ ~touched'[j].now => ~touched[j].now /\ UNCHANGED <<src, dist>>
    PROVE  Own(j)'
<1>1. UNCHANGED <<pc[j], mode[j], run[j], about[j], cache[j], memo[j], saw[j], good[j], todo[j]>>
  BY DEF Same
<1>2. OwnRun(j)'
  BY <1>1 DEF Own, OwnRun, RunsGo, SameRun, Here
<1>3. Placed(j)' /\ CacheSound(cache[j])'
  BY <1>1 DEF Own, Placed, CacheSound, EntrySound, Scoped, Covered, ScopeDirs
<1>4. Witnessed(j)'
  BY <1>1 DEF Own, Witnessed, Here, Passes, Now
<1>5. Remembered(j)'
  BY <1>1 DEF Own, Remembered, Calm, Here
<1>6. Sound(j)' => Sound(j)
  BY <1>1 DEF Own, OwnRun, Sound, RunsGo, SameRun
<1>7. Found(j)'
  BY <1>1, <1>6 DEF Own, Found, Calm, Holds
<1>8. Based(j)'
  <2>1. SUFFICES ASSUME Calm(j)', Sound(j)', ~runs'[run'[j]].dirty
                 PROVE  src' = commits'[runs'[run'[j]].base].content
    BY DEF Based, ContentOf
  <2>2. Calm(j) /\ Sound(j) /\ run[j] \in DOMAIN runs
    BY <1>1, <1>6, <2>1 DEF Calm, Own, OwnRun, Sound
  <2>3. /\ runs'[run[j]].base = runs[run[j]].base /\ runs'[run[j]].dirty = runs[run[j]].dirty
    BY <2>2 DEF RunsGo, SameRun
  <2>4. runs[run[j]].kind = "verify" /\ Anchor(run[j]) \in DOMAIN commits
    BY <2>2 DEF Own, OwnRun, Sound, Shapes, RunsShape
  <2>5. runs[run[j]].base \in DOMAIN commits  BY <2>4 DEF Anchor
  <2>6. src = commits[runs[run[j]].base].content
    BY <1>1, <2>1, <2>2, <2>3 DEF Own, Based, ContentOf
  <2> QED  BY <1>1, <2>1, <2>3, <2>5, <2>6 DEF CommitsGo
<1>9. Compared(j)'
  BY <1>1 DEF Own, Compared, Calm, CommitsGo
<1> QED  BY <1>2, <1>3, <1>4, <1>5, <1>7, <1>8, <1>9 DEF Own

\* What a run tells of a commit stands, as neither changes.
LEMMA TellsStays ==
    ASSUME Shapes, RunsGo, CommitsGo, NEW r \in DOMAIN runs, Tells(r),
           runs'[r].supported = runs[r].supported
    PROVE  Tells(r)'
<1>1. Anchor(r)' = Anchor(r) /\ Anchor(r) \in DOMAIN commits
  BY DEF RunsGo, SameRun, Anchor, Shapes, RunsShape
<1>2. ContentOf(Anchor(r))' = ContentOf(Anchor(r))
  BY <1>1 DEF CommitsGo, ContentOf
<1> QED  BY <1>2 DEF Tells, Holds, RunsGo, SameRun

-----------------------------------------------------------------------------
(* The steps of the world. *)

World == Edit \/ CommitAll \/ Checkout \/ ApplyRun \/ Resolve \/ UNCHANGED vars

LEMMA WorldSees ==
    ASSUME Shapes, World
    PROVE  /\ UNCHANGED <<file, invocation>>
           /\ \/ touched' = [j \in Invokers |-> Shaken(j)]
              \/ touched' = touched /\ UNCHANGED <<src, dist>> /\ (~Dirty => ~Dirty')
<1>1. CASE Edit \/ Checkout
  BY <1>1 DEF Edit, Checkout, Touch
<1>2. CASE CommitAll
  BY <1>2 DEF CommitAll, tree
<1>3. CASE ApplyRun
  <2>1. PICK k : k = Len(runs) + 1  OBVIOUS
  <2>2. CommitsGo /\ dist' = dist  BY <1>3, <2>1, Applied
  <2>3. UNCHANGED <<src, head, touched>> \/ Touch  BY <1>3 DEF ApplyRun
  <2>4. UNCHANGED <<file, invocation>>  BY <1>3 DEF ApplyRun
  <2> QED  BY <2>2, <2>3, <2>4 DEF Touch, CommitsGo, Dirty, Shapes, RepoShape
<1>4. CASE Resolve \/ UNCHANGED vars
  BY <1>4 DEF Resolve, vars, tree, repo, Dirty
<1> QED  BY <1>1, <1>2, <1>3, <1>4 DEF World

LEMMA WorldOwn ==
    ASSUME Inv, World, RunsGo, CommitsGo, NEW j \in Invokers,
           \A r \in DOMAIN runs : ~runs[r].closed => runs'[r] = runs[r]
    PROVE  Own(j)'
<1>1. Own(j) /\ Shapes  BY DEF Inv
<1>2. Same(j)  BY <1>1, WorldSees DEF invocation, Same
<1>3. run[j] # 0 => Blank(runs'[run[j]])  BY <1>1 DEF Own, OwnRun, Blank
<1>4. CASE touched' = [k \in Invokers |-> Shaken(k)]
  <2>1. touched'[j] = Shaken(j)  BY <1>4
  <2>2. /\ touched'[j].now => touched'[j].all
        /\ pc[j] # "out" => touched'[j].all
        /\ pc[j] = "executing" => touched'[j].now
    BY <2>1, ShakenSeen
  <2> QED  BY <1>1, <1>2, <1>3, <2>2, OwnStays DEF Calm, Same
<1>5. CASE touched' = touched /\ UNCHANGED <<src, dist>> /\ (~Dirty => ~Dirty')
  BY <1>1, <1>2, <1>3, <1>5, OwnStays DEF Own, Calm, Same
<1> QED  BY <1>1, <1>4, <1>5, WorldSees

LEMMA WorldRuns ==
    ASSUME Inv, World
    PROVE  /\ RunsGo /\ RunsShape' /\ RepoShape' /\ CommitsGo /\ RunsTell'
           /\ \A r \in DOMAIN runs : ~runs[r].closed => runs'[r] = runs[r]
<1>0. [Next]_vars  BY DEF World, Next
<1>1. RunsGo /\ RunsShape' /\ RepoShape' /\ CommitsGo
  BY <1>0, RunsStep, RepoStep DEF Inv, Own
<1>2. CASE Edit \/ CommitAll \/ Checkout \/ UNCHANGED vars
  <2>1. runs' = runs  BY <1>2 DEF Edit, CommitAll, Checkout, vars
  <2> QED  BY <1>1, <2>1, TellsStays DEF Inv, RunsTell
<1>3. CASE ApplyRun
  <2>1. PICK k : k = Len(runs) + 1  OBVIOUS
  <2>2. /\ DOMAIN runs' = DOMAIN runs \cup {k} /\ \A r \in DOMAIN runs : runs'[r] = runs[r]
        /\ \A c \in runs'[k].supported : Holds(c, ContentOf(Anchor(k))')
    BY <1>3, <2>1, Applied DEF Inv
  <2>3. Tells(k)'  BY <2>2 DEF Tells, Holds
  <2>4. \A r \in DOMAIN runs : Tells(r)'
    BY <1>1, <2>2, TellsStays DEF Inv, RunsTell
  <2> QED  BY <1>1, <2>2, <2>3, <2>4 DEF RunsTell
<1>4. CASE Resolve
  <2>1. /\ DOMAIN runs' = DOMAIN runs
        /\ \A r \in DOMAIN runs : runs'[r].supported = runs[r].supported
        /\ \A r \in DOMAIN runs : ~runs[r].closed => runs'[r] = runs[r]
    BY <1>4, RunResolved DEF Inv
  <2>2. \A r \in DOMAIN runs : Tells(r)'
    BY <1>1, <2>1, TellsStays DEF Inv, RunsTell
  <2> QED  BY <1>1, <2>1, <2>2 DEF RunsTell
<1> QED  BY <1>2, <1>3, <1>4 DEF World

LEMMA WorldStep == Inv /\ World => Inv'
<1> SUFFICES ASSUME Inv, World PROVE Inv'
  OBVIOUS
<1>1. Shapes  BY DEF Inv
<1>2. /\ RunsGo /\ RunsShape' /\ RepoShape' /\ CommitsGo /\ RunsTell'
      /\ \A r \in DOMAIN runs : ~runs[r].closed => runs'[r] = runs[r]
  BY WorldRuns
<1>3. \A j \in Invokers : Own(j)'  BY <1>2, WorldOwn
<1>4. StepsShape'
  <2>1. touched' \in [Invokers -> [all: BOOLEAN, now: BOOLEAN]]
    BY <1>1, WorldSees, ShakenShape DEF Shapes, StepsShape
  <2> QED  BY <1>1, <2>1, WorldSees DEF invocation, Shapes, StepsShape
<1>5. Apart' /\ CacheSound(file)'
  BY <1>1, WorldSees DEF Inv, invocation, Apart, CacheSound, EntrySound, Scoped, Covered, ScopeDirs
<1> QED  BY <1>2, <1>3, <1>4, <1>5 DEF Inv, Shapes

-----------------------------------------------------------------------------
(* The steps of an invocation. *)

LEMMA OthersOwn ==
    ASSUME Inv, NEW i \in Invokers, Step(i), NEW j \in Invokers \ {i}
    PROVE  Own(j)'
<1>1. Own(j) /\ Own(i) /\ Shapes /\ j \in Invokers  BY DEF Inv
<1>2. /\ Same(j) /\ (touched'[j] = touched[j] \/ touched'[j] = Shaken(j))
      /\ dist' # dist => touched'[j] = Shaken(j)
  BY <1>1, StepShape DEF OthersSame
<1>3. UNCHANGED <<src, repo>> /\ CommitsGo  BY <1>1, StepRepo DEF repo, CommitsGo
<1>4. RunsGo /\ \A r \in DOMAIN runs : r # run[i] => runs'[r] = runs[r]
  BY <1>1, StepRuns DEF Own
<1>5. run[j] # 0 => Blank(runs'[run[j]])
  BY <1>1, <1>4 DEF Inv, Apart, Own, OwnRun
<1>6. Dirty' = Dirty  BY <1>3 DEF Dirty, repo
<1>7. CASE touched'[j] = Shaken(j)
  <2>1. /\ touched'[j].now => touched'[j].all
        /\ pc[j] # "out" => touched'[j].all
        /\ pc[j] = "executing" => touched'[j].now
    BY <1>1, <1>7, ShakenSeen
  <2> QED  BY <1>1, <1>2, <1>3, <1>4, <1>5, <2>1, OwnStays DEF Calm, Same
<1>8. CASE touched'[j] = touched[j] /\ dist' = dist
  BY <1>1, <1>2, <1>3, <1>4, <1>5, <1>6, <1>8, OwnStays DEF Own, Calm, Same
<1> QED  BY <1>2, <1>7, <1>8

LEMMA EnterOwn ==
    ASSUME Inv, NEW i \in Invokers, Start(i) \/ StartOfRun(i) \/ StartScoped(i)
    PROVE  Own(i)'
<1>1. Own(i) /\ Shapes /\ CacheSound(file)  BY DEF Inv
<1>2. /\ cache'[i] = file /\ pc[i] = "out"
      /\ touched'[i] = [all |-> mode'[i] = "scoped" /\ Dirty, now |-> FALSE]
      /\ UNCHANGED <<src, dist, repo, file, good, memo>>
      /\ \/ pc'[i] = "loaded" /\ mode'[i] = "normal" /\ run'[i] = run[i]
         \/ /\ pc'[i] = "sweep" /\ mode'[i] \in {"run", "unprepared"}
            /\ run'[i] \in DOMAIN runs' /\ run'[i] \notin DOMAIN runs /\ run'[i] # 0
            /\ runs'[run'[i]].kind = "verify" /\ Blank(runs'[run'[i]])
            /\ ~runs'[run'[i]].sound
         \/ /\ pc'[i] = "loaded" /\ mode'[i] = "scoped" /\ run'[i] = run[i]
            /\ about'[i] \in DOMAIN commits
  BY <1>1, EnterShape
<1>3. run[i] = 0 /\ good'[i] = {} /\ memo'[i] = Nothing
  BY <1>1, <1>2 DEF Own, OwnRun, Placed
<1>4. OwnRun(i)' /\ Placed(i)' /\ ~Sound(i)'
  BY <1>2, <1>3 DEF OwnRun, Placed, Sound
<1>5. CacheSound(cache[i])'
  BY <1>1, <1>2 DEF CacheSound, EntrySound, Scoped, Covered, ScopeDirs
<1>6. Witnessed(i)' /\ Remembered(i)' /\ Found(i)' /\ Based(i)' /\ ~touched'[i].now
  BY <1>2, <1>3, <1>4 DEF Witnessed, Remembered, Found, Based, Nothing
<1>7. Compared(i)'
  <2>1. Dirty' = Dirty /\ commits' = commits  BY <1>2 DEF Dirty, repo
  <2>2. \A b : ~[all |-> mode'[i] = "scoped" /\ b, now |-> FALSE].all /\ mode'[i] = "scoped" => ~b
    OBVIOUS
  <2> QED  BY <1>2, <2>1, <2>2 DEF Compared
<1> QED  BY <1>4, <1>5, <1>6, <1>7 DEF Own

\* With its evidence recorded, an invocation relies on as much as before, if it relies
\* on evidence that describes the tree.
LEMMA RecordOwn ==
    ASSUME Inv, NEW i \in Invokers, Records(i), NEW is, NEW torn, Record(i, is, torn),
           UNCHANGED <<src, repo, run, mode, about>>, pc[i] \in {"sweep", "executing"},
           pc'[i] = "sweep", touched'[i].all = touched[i].all,
           is = "supports" /\ Calm(i) /\ (mode[i] = "scoped" \/ (Sound(i) /\ ~torn)) =>
               Holds(Head(todo[i]), src)
    PROVE  OwnRun(i)' /\ Placed(i)' /\ Found(i)' /\ Based(i)' /\ Compared(i)' /\ Witnessed(i)'
<1>1. Own(i) /\ Shapes  BY DEF Inv
<1>2. /\ RunsGo /\ DOMAIN runs' = DOMAIN runs
      /\ \A r \in DOMAIN runs : runs'[r].supported = runs[r].supported
      /\ \A r \in DOMAIN runs : runs'[r].closed = runs[r].closed
      /\ run[i] # 0 /\ runs'[run[i]].sound => runs[run[i]].sound /\ ~torn
  BY <1>1, RecordsRuns DEF Own
<1>3. good'[i] = IF is = "supports" THEN good[i] \cup {Head(todo[i])} ELSE good[i]
  BY <1>1, RecordShape DEF Shapes
<1>4. OwnRun(i)'  BY <1>1, <1>2 DEF Own, OwnRun, RunsGo, SameRun, Here, Blank
<1>5. Placed(i)' /\ Witnessed(i)'  BY <1>1 DEF Own, Placed, Witnessed
<1>6. Calm(i)' => Calm(i)  BY DEF Calm
<1>7. Sound(i)' => Sound(i) /\ ~torn  BY <1>2 DEF Sound
<1>8. Found(i)'
  <2> SUFFICES ASSUME Calm(i)', mode'[i] = "scoped" \/ Sound(i)', NEW c \in good'[i]
               PROVE  Holds(c, src)
    BY DEF Found, Holds
  <2>1. c \in good[i] => Holds(c, src)  BY <1>1, <1>6, <1>7 DEF Own, Found
  <2> QED  BY <1>3, <1>6, <1>7, <2>1
<1>9. Based(i)'
  <2>1. run[i] # 0 => /\ runs'[run[i]].base = runs[run[i]].base
                      /\ runs'[run[i]].dirty = runs[run[i]].dirty
    BY <1>1, <1>2 DEF Own, OwnRun, RunsGo, SameRun
  <2> QED  BY <1>1, <1>6, <1>7, <2>1 DEF Own, Based, Sound, ContentOf, repo
<1>10. Compared(i)'
  BY <1>1 DEF Own, Compared, repo, Dirty
<1> QED  BY <1>4, <1>5, <1>8, <1>9, <1>10

\* An invocation that records what describes the repository is in the repository.
LEMMA CountedHere ==
    ASSUME NEW i \in Invokers, Own(i), mode[i] = "scoped" \/ Sound(i)
    PROVE  Here(i)
BY DEF Own, OwnRun, Sound, Here

LEMMA RecallOwn ==
    ASSUME Inv, NEW i \in Invokers,
           Recall(i) \/ Reuse(i) \/ Unprepared(i) \/ ReadFile(i) \/ Judge(i)
    PROVE  Own(i)'
<1>1. Own(i) /\ Shapes  BY DEF Inv
<1>2. /\ UNCHANGED <<src, repo, run, mode, about, pc, cache, memo, touched>>
      /\ pc[i] = "sweep" /\ Records(i)
  BY DEF Records, Recall, Reuse, Unprepared, ReadFile, Judge, kept, tree, At
<1>3. PICK is, torn :
        /\ Record(i, is, torn)
        /\ is = "supports" /\ Calm(i) /\ (mode[i] = "scoped" \/ (Sound(i) /\ ~torn)) =>
               Holds(Head(todo[i]), src)
  <2>1. CASE Recall(i)
    <3>1. /\ Record(i, memo[i][Now(i)].is, memo[i][Now(i)].torn) /\ Now(i) \in DOMAIN memo[i]
          /\ Kind[Head(todo[i])] = "command"
      BY <2>1 DEF Recall, Known, At
    <3>2. ASSUME memo[i][Now(i)].is = "supports", Calm(i), mode[i] = "scoped" \/ Sound(i)
          PROVE  Holds(Head(todo[i]), src)
      BY <1>1, <3>1, <3>2, CountedHere DEF Own, Remembered, Holds, Now
    <3> QED  BY <3>1, <3>2
  <2>2. CASE Reuse(i)
    <3> DEFINE e == cache[i][Now(i)]
    <3>1. /\ Record(i, "supports", e.torn \/ ~Covered(Now(i))) /\ mode[i] # "scoped"
          /\ Reusable(Now(i), cache[i]) /\ Kind[Head(todo[i])] = "command"
      BY <2>2 DEF Reuse, Looks, At
    <3>2. ASSUME ~(e.torn \/ ~Covered(Now(i)))
          PROVE  \A p \in Reads[Now(i)] : src[p] \in Good
      <4>1. Now(i) \in DOMAIN cache[i] /\ Scoped(Now(i)) /\ e.src = Digest(src, Now(i))
        BY <3>1 DEF Reusable
      <4>2. \A p \in Reads[Now(i)] : e.src[p] \in Good
        BY <1>1, <3>2, <4>1 DEF Own, CacheSound, EntrySound
      <4>3. Reads[Now(i)] \subseteq ScopeDirs[Now(i)]  BY <3>2, <4>1 DEF Covered
      <4> QED  BY <4>1, <4>2, <4>3 DEF Digest
    <3> QED  BY <3>1, <3>2 DEF Holds, Now
  <2>3. CASE Unprepared(i)
    <3>1. Record(i, "inconclusive", FALSE) /\ "inconclusive" # "supports"  BY <2>3 DEF Unprepared
    <3> QED  BY <3>1
  <2>4. CASE ReadFile(i)
    <3>1. /\ Record(i, IF Content(i)[Now(i)] \in Good THEN "supports" ELSE "contradicts", FALSE)
          /\ Kind[Head(todo[i])] = "file"
      BY <2>4 DEF ReadFile, At
    <3>2. ASSUME Content(i)[Now(i)] \in Good, mode[i] = "scoped" \/ Sound(i)
          PROVE  Holds(Head(todo[i]), src)
      BY <1>1, <3>1, <3>2, CountedHere DEF Content, Holds, Now
    <3> QED  BY <3>1, <3>2
  <2>5. CASE Judge(i)
    BY <2>5 DEF Judge, At, Holds
  <2> QED  BY <2>1, <2>2, <2>3, <2>4, <2>5
<1>4. OwnRun(i)' /\ Placed(i)' /\ Found(i)' /\ Based(i)' /\ Compared(i)' /\ Witnessed(i)'
  BY <1>2, <1>3, RecordOwn
<1>5. CacheSound(cache[i])' /\ (touched'[i].now => touched'[i].all)
  BY <1>1, <1>2 DEF Own, CacheSound, EntrySound, Scoped, Covered, ScopeDirs
<1>6. Remembered(i)'  BY <1>1, <1>2 DEF Own, Remembered, Calm, Here
<1> QED  BY <1>4, <1>5, <1>6 DEF Own

LEMMA FinishOwn == ASSUME Inv, NEW i \in Invokers, Finish(i) PROVE Own(i)'
<1> DEFINE c == Now(i)
           torn == touched[i].now \/ ~Here(i)
           is == saw[i].is
<1>1. Own(i) /\ Shapes  BY DEF Inv
<1>2. /\ UNCHANGED <<src, dist, repo, run, mode, about>> /\ Records(i)
      /\ pc[i] = "executing" /\ pc'[i] = "sweep" /\ touched'[i].all = touched[i].all
      /\ touched'[i].now = FALSE /\ Record(i, is, torn)
  BY <1>1 DEF Finish, Records, kept, tree, Shapes, StepsShape
<1>3. is = "supports" /\ ~torn => Passes(c, src, dist) /\ \A p \in Reads[c] : src[p] \in Good
  BY <1>1, <1>2 DEF Own, Witnessed, Passes
<1>4. is = "supports" /\ Calm(i) /\ (mode[i] = "scoped" \/ (Sound(i) /\ ~torn)) =>
          Holds(Head(todo[i]), src)
  BY <1>1, <1>2, <1>3, CountedHere DEF Own, Placed, Calm, Holds, Now
<1>5. OwnRun(i)' /\ Placed(i)' /\ Found(i)' /\ Based(i)' /\ Compared(i)' /\ Witnessed(i)'
  <2>1. PICK a, t : a = is /\ t = torn  OBVIOUS
  <2> HIDE DEF is, torn
  <2> QED  BY <1>2, <1>4, <2>1, RecordOwn
<1>6. CacheSound(cache[i])'
  <2>1. cache'[i] = cache[i] \/ (is = "supports" /\ cache'[i] = Put(cache[i], c, Entry(c, torn)))
    BY <1>1 DEF Finish, Shapes, StepsShape
  <2>2. is = "supports" => EntrySound(c, Entry(c, torn))
    <3>1. Entry(c, torn).torn = torn /\ Entry(c, torn).src = Digest(src, c)
          /\ Entry(c, torn).dist = Digest(dist, c)
      BY DEF Entry
    <3> QED  BY <1>3, <3>1 DEF EntrySound, Covered, Passes, Digest
  <2>3. ASSUME is = "supports", cache'[i] = Put(cache[i], c, Entry(c, torn)),
               NEW x \in DOMAIN cache'[i]
        PROVE  EntrySound(x, cache'[i][x])
    <3>1. x \in DOMAIN cache[i] \cup {c}
          /\ cache'[i][x] = IF x = c THEN Entry(c, torn) ELSE cache[i][x]
      BY <2>3 DEF Put
    <3> HIDE DEF c
    <3>2. CASE x = c  BY <2>2, <2>3, <3>1, <3>2
    <3>3. CASE x # c  BY <1>1, <3>1, <3>3 DEF Own, CacheSound
    <3> QED  BY <3>2, <3>3
  <2>4. \A x \in DOMAIN cache'[i] : EntrySound(x, cache'[i][x])
    BY <1>1, <2>1, <2>3 DEF Own, CacheSound
  <2> QED  BY <2>4 DEF CacheSound, EntrySound, Scoped, Covered, ScopeDirs
<1>7. Remembered(i)'
  <2>1. memo'[i] = Put(memo[i], c, [saw[i] EXCEPT !.torn = torn])
    BY <1>1 DEF Finish, Shapes, StepsShape
  <2>2. [saw[i] EXCEPT !.torn = torn].is = is  BY <1>1 DEF Shapes, StepsShape
  <2> SUFFICES ASSUME Calm(i)', Here(i)', NEW x \in DOMAIN memo'[i], memo'[i][x].is = "supports"
               PROVE  \A p \in Reads[x] : src[p] \in Good
    BY <1>2 DEF Remembered
  <2>3. Calm(i) /\ Here(i)  BY <1>2 DEF Calm, Here
  <2>4. CASE x = c
    <3>1. is = "supports"  BY <2>1, <2>2, <2>4 DEF Put
    <3>2. ~torn  BY <1>1, <2>3 DEF Own, Calm
    <3> QED  BY <1>3, <2>4, <3>1, <3>2
  <2>5. CASE x # c
    <3>1. x \in DOMAIN memo[i] /\ memo[i][x].is = "supports"  BY <2>1, <2>5 DEF Put
    <3> QED  BY <1>1, <2>3, <3>1 DEF Own, Remembered
  <2> QED  BY <2>4, <2>5
<1> QED  BY <1>2, <1>5, <1>6, <1>7 DEF Own

LEMMA ExecuteOwn == ASSUME Inv, NEW i \in Invokers, Execute(i) PROVE Own(i)'
<1> DEFINE c == Now(i)
<1>1. Own(i) /\ Shapes  BY DEF Inv
<1>2. /\ UNCHANGED <<src, commits, head, runs, mode, run, todo, about, cache, memo, good>>
      /\ pc[i] = "sweep" /\ pc'[i] = "executing" /\ touched'[i] = touched[i]
      /\ Kind[Head(todo[i])] = "command"
  BY <1>1 DEF Execute, At, repo, Shapes, StepsShape
<1>3. saw'[i].is = "supports" => Passes(c, Content(i), Built(i))
  BY <1>1 DEF Execute, Shapes, StepsShape
<1>4. c \notin Builds => dist' = dist
  BY DEF Execute
<1>5. Witnessed(i)'
  <2> SUFFICES ASSUME Here(i), saw'[i].is = "supports" PROVE Passes(c, src, dist')
    BY <1>2 DEF Witnessed, Here, Now, Passes
  <2> QED  BY <1>3, <1>4 DEF Passes, Content, Built
<1>6. OwnRun(i)' /\ Placed(i)'  BY <1>1, <1>2 DEF Own, OwnRun, Placed, Here
<1>7. CacheSound(cache[i])' /\ (touched'[i].now => touched'[i].all)
  BY <1>1, <1>2 DEF Own, CacheSound, EntrySound, Scoped, Covered, ScopeDirs
<1>8. Remembered(i)' /\ Found(i)'
  BY <1>1, <1>2 DEF Own, Remembered, Found, Calm, Here, Sound, Holds
<1>9. Based(i)' /\ Compared(i)'
  BY <1>1, <1>2 DEF Own, Based, Compared, Calm, Sound, ContentOf, Dirty
<1> QED  BY <1>5, <1>6, <1>7, <1>8, <1>9 DEF Own

LEMMA NextSpecOwn == ASSUME Inv, NEW i \in Invokers, NextSpec(i) PROVE Own(i)'
<1>1. Own(i) /\ Shapes  BY DEF Inv
<1>2. /\ UNCHANGED <<src, dist, commits, head, mode, about, cache, memo, saw, good, touched>>
      /\ pc[i] = "next"
      /\ UNCHANGED <<tree, repo>>
  BY DEF NextSpec, tree, repo
<1>3. mode[i] = "normal" /\ good[i] = {}  BY <1>1, <1>2 DEF Own, Placed
<1>4. CASE UNCHANGED <<pc, runs, run, todo>>
  <2>1. RunsGo /\ CommitsGo /\ Dirty' = Dirty  BY <1>1, <1>2, <1>4, RunsStay DEF CommitsGo, Dirty
  <2> QED  BY <1>1, <1>2, <1>4, <2>1, OwnStays DEF Own, OwnRun, Calm, Same
<1>5. CASE pc' = [pc EXCEPT ![i] = "sweep"] /\ Begin(i, Head(specs[i]), ~touched[i].all)
  <2>1. PICK s, b : Begin(i, s, b)  BY <1>5
  <2>2. PICK k : k = Len(runs) + 1  OBVIOUS
  <2>3. /\ RunsGo /\ RunsShape' /\ run' \in [Invokers -> Nat] /\ DOMAIN todo' = Invokers
        /\ \A r \in DOMAIN runs : runs'[r] = runs[r]
        /\ DOMAIN runs' = DOMAIN runs \cup {k} /\ k # 0 /\ k \notin DOMAIN runs
        /\ run' = [run EXCEPT ![i] = k]
        /\ runs'[k].kind = "verify" /\ runs'[k].base = head /\ (~runs'[k].dirty => ~Dirty)
        /\ Blank(runs'[k])
    BY <1>1, <1>2, <2>1, <2>2, BeginsRun
  <2>4. k \in DOMAIN runs' /\ run'[i] = k /\ pc'[i] = "sweep" /\ good'[i] = {}
    BY <1>1, <1>2, <1>3, <1>5, <2>3 DEF Shapes, StepsShape
  <2>5. OwnRun(i)' /\ Placed(i)'
    BY <1>2, <1>3, <2>3, <2>4 DEF OwnRun, Placed, Here
  <2>6. CacheSound(cache[i])' /\ (touched'[i].now => touched'[i].all)
    BY <1>1, <1>2 DEF Own, CacheSound, EntrySound, Scoped, Covered, ScopeDirs
  <2>7. Witnessed(i)' /\ Found(i)'  BY <2>4 DEF Witnessed, Found
  <2>8. Remembered(i)'  BY <1>1, <1>2, <2>4 DEF Own, Remembered, Calm, Here
  <2>9. Based(i)'  BY <1>2, <2>3, <2>4 DEF Based, ContentOf, Dirty
  <2>10. Compared(i)'  BY <1>2, <1>3 DEF Compared
  <2> QED  BY <2>5, <2>6, <2>7, <2>8, <2>9, <2>10 DEF Own
<1> QED  BY <1>4, <1>5 DEF NextSpec

LEMMA PassOwn ==
    ASSUME Inv, NEW i \in Invokers,
           PersistFirst(i) \/ Narrow(i) \/ Report(i) \/ (Conclude(i) /\ ~Leave(i))
    PROVE  Own(i)'
<1>1. Own(i) /\ Shapes  BY DEF Inv
<1>2. UNCHANGED <<src, dist, repo, mode, about, cache, memo, saw, touched>>
  BY DEF PersistFirst, Narrow, Report, Conclude, kept, tree
<1>3. \/ /\ pc[i] = "loaded" /\ UNCHANGED <<run, runs, good>>
         /\ pc'[i] = IF mode[i] = "scoped" THEN "narrow" ELSE "next"
      \/ pc[i] = "narrow" /\ pc'[i] = "sweep" /\ UNCHANGED <<run, runs, good>>
      \/ pc[i] = "sweep" /\ pc'[i] = "reported" /\ run[i] = 0 /\ UNCHANGED <<run, runs, good>>
      \/ pc[i] = "sweep" /\ pc'[i] = "next" /\ run'[i] = 0 /\ mode[i] = "normal" /\ good'[i] = {}
  <2>1. CASE PersistFirst(i)  BY <1>1, <2>1 DEF PersistFirst, Shapes, StepsShape
  <2>2. CASE Narrow(i)  BY <1>1, <2>2 DEF Narrow, Shapes, StepsShape, kept
  <2>3. CASE Report(i)  BY <1>1, <2>3 DEF Report, Shapes, StepsShape, kept
  <2>4. CASE Conclude(i) /\ ~Leave(i)
    <3>1. /\ pc' = [pc EXCEPT ![i] = "next"] /\ run' = [run EXCEPT ![i] = 0]
          /\ good' = [good EXCEPT ![i] = {}] /\ mode[i] = "normal" /\ pc[i] = "sweep"
      BY <2>4 DEF Conclude, Clear
    <3> QED  BY <1>1, <3>1 DEF Shapes, StepsShape
  <2> QED  BY <2>1, <2>2, <2>3, <2>4
<1>4. OwnRun(i)' /\ Placed(i)' /\ Witnessed(i)'
  BY <1>1, <1>2, <1>3 DEF Own, OwnRun, Placed, Witnessed, Here
<1>5. CacheSound(cache[i])' /\ (touched'[i].now => touched'[i].all)
  BY <1>1, <1>2 DEF Own, CacheSound, EntrySound, Scoped, Covered, ScopeDirs
<1>6. Remembered(i)' /\ Found(i)'
  BY <1>1, <1>2, <1>3 DEF Own, Remembered, Found, Calm, Here, Sound, Holds
<1>7. Based(i)' /\ Compared(i)'
  BY <1>1, <1>2, <1>3 DEF Own, Based, Compared, Calm, Sound, ContentOf, Dirty, repo
<1> QED  BY <1>4, <1>5, <1>6, <1>7 DEF Own

LEMMA LeaveOwn == ASSUME Inv, NEW i \in Invokers, Leave(i) PROVE Own(i)'
<1>1. /\ pc'[i] = "out" /\ run'[i] = 0 /\ cache'[i] = Nothing
      /\ touched'[i] = Quiet /\ mode'[i] = "normal" /\ good'[i] = {} /\ memo'[i] = Nothing
  BY LeaveSteps DEF Inv, Shapes
<1> QED
  BY <1>1 DEF Own, OwnRun, Placed, Witnessed, Remembered, Found, Based, Compared, Calm,
              CacheSound, Nothing, Quiet

LEMMA StepOwn == ASSUME Inv, NEW i \in Invokers, Step(i) PROVE Own(i)'
BY EnterOwn, RecallOwn, FinishOwn, ExecuteOwn, NextSpecOwn, PassOwn, LeaveOwn
DEF Step, Exit, Persist, Expire, Die

-----------------------------------------------------------------------------
(* All of it, step by step. *)

LEMMA StepApart == ASSUME Inv, NEW i \in Invokers, Step(i) PROVE Apart'
<1>1. Own(i) /\ Shapes  BY DEF Inv
<1>2. \A j \in Invokers \ {i} : run'[j] = run[j]  BY <1>1, StepShape DEF OthersSame, Same
<1>3. \A j \in Invokers : run[j] # 0 => run[j] \in DOMAIN runs  BY DEF Inv, Own, OwnRun
<1>4. run'[i] = run[i] \/ run'[i] = 0 \/ run'[i] \notin DOMAIN runs
  <2>1. CASE Start(i) \/ StartOfRun(i) \/ StartScoped(i)  BY <1>1, <2>1, EnterShape
  <2>2. CASE NextSpec(i)
    <3>1. CASE UNCHANGED run  BY <3>1
    <3>2. CASE Begin(i, Head(specs[i]), ~touched[i].all)
      <4>1. PICK s, b : Begin(i, s, b)  BY <3>2
      <4>2. PICK k : k = Len(runs) + 1  OBVIOUS
      <4>3. UNCHANGED <<tree, repo>>  BY <2>2 DEF NextSpec
      <4>4. run' = [run EXCEPT ![i] = k] /\ k \notin DOMAIN runs
        BY <1>1, <4>1, <4>2, <4>3, BeginsRun
      <4> QED  BY <1>1, <4>4 DEF Shapes, StepsShape
    <3> QED  BY <2>2, <3>1, <3>2 DEF NextSpec
  <2>3. CASE Leave(i)  BY <1>1, <2>3, LeaveSteps DEF Shapes
  <2>4. CASE Conclude(i) /\ ~Leave(i)
    <3>1. run' = [run EXCEPT ![i] = 0]  BY <2>4 DEF Conclude
    <3> QED  BY <1>1, <3>1 DEF Shapes, StepsShape
  <2>5. CASE Records(i) \/ PersistFirst(i) \/ Narrow(i) \/ Execute(i) \/ Report(i)
    BY <2>5 DEF Records, Recall, Reuse, Unprepared, Finish, ReadFile, Judge, PersistFirst, Narrow,
                Execute, Report, kept
  <2> QED
    BY <2>1, <2>2, <2>3, <2>4, <2>5 DEF Step, Records, Exit, Persist, Expire, Die
<1> QED
  <2> SUFFICES ASSUME NEW j \in Invokers, NEW l \in Invokers, j # l, run'[j] # 0
               PROVE  run'[j] # run'[l]
    BY DEF Apart
  <2>1. CASE j # i /\ l # i  BY <1>2, <2>1 DEF Inv, Apart
  <2>2. CASE j = i  BY <1>2, <1>3, <1>4, <2>2 DEF Inv, Apart
  <2>3. CASE l = i  BY <1>2, <1>3, <1>4, <2>3 DEF Inv, Apart
  <2> QED  BY <2>1, <2>2, <2>3

\* A run is concluded with what was found in the commit it names, if it was begun in a
\* clean tree and nothing has changed since.
LEMMA StepTells == ASSUME Inv, NEW i \in Invokers, Step(i) PROVE RunsTell'
<1>1. Own(i) /\ Shapes  BY DEF Inv
<1>2. UNCHANGED <<src, repo>> /\ CommitsGo  BY <1>1, StepRepo DEF repo, CommitsGo
<1>3. /\ RunsGo
      /\ \A r \in DOMAIN runs : r # run[i] => runs'[r] = runs[r]
      /\ ~Closes(i) => \A r \in DOMAIN runs : runs'[r].supported = runs[r].supported
      /\ \A r \in DOMAIN runs' : r \in DOMAIN runs \/ Blank(runs'[r])
  BY <1>1, StepRuns DEF Own
<1>4. \A r \in DOMAIN runs : runs'[r].supported = runs[r].supported => Tells(r)'
  BY <1>1, <1>2, <1>3, TellsStays DEF Inv, RunsTell
<1>5. CASE Closes(i) /\ ~UNCHANGED runs
  <2>0. PICK k : k = run[i]  OBVIOUS
  <2>1. /\ k # 0 /\ k \in DOMAIN runs /\ runs'[k].supported = good[i]
        /\ runs'[k].sound => runs[k].sound /\ ~touched[i].all
    BY <1>1, <1>5, <2>0, ClosesRun DEF Own
  <2>2. pc[i] = "sweep"  BY <1>5 DEF Closes, Conclude, Expire, At
  <2>3. runs[k].kind = "verify"  BY <1>1, <2>0, <2>1 DEF Own, OwnRun
  <2>4. /\ runs'[k].kind = "verify" /\ runs'[k].base = runs[k].base
        /\ runs'[k].dirty = runs[k].dirty
    BY <1>3, <2>1, <2>3 DEF RunsGo, SameRun
  <2>5. Tells(k)'
    <3> SUFFICES ASSUME runs'[k].sound, ~runs'[k].dirty, NEW c \in good[i]
                 PROVE  Holds(c, ContentOf(Anchor(k))')
      BY <2>1, <2>4 DEF Tells, Holds
    <3>1. Calm(i) /\ Sound(i) /\ ~runs[k].dirty
      BY <2>0, <2>1, <2>2, <2>4 DEF Calm, Sound
    <3>2. Holds(c, src) /\ src = ContentOf(runs[k].base)
      BY <1>1, <2>0, <3>1 DEF Own, Found, Based
    <3>3. Anchor(k)' = runs[k].base  BY <2>4 DEF Anchor
    <3>4. ContentOf(Anchor(k))' = src  BY <1>2, <3>2, <3>3 DEF ContentOf, repo
    <3> QED  BY <3>2, <3>4
  <2>6. \A r \in DOMAIN runs' : Tells(r)'
    <3> SUFFICES ASSUME NEW r \in DOMAIN runs' PROVE Tells(r)'
      OBVIOUS
    <3>1. CASE r \in DOMAIN runs  BY <1>3, <1>4, <2>0, <2>5, <3>1
    <3>2. CASE Blank(runs'[r])  BY <3>2 DEF Tells, Blank
    <3> QED  BY <1>3, <3>1, <3>2
  <2> QED  BY <2>6 DEF RunsTell
<1>6. CASE ~Closes(i) \/ UNCHANGED runs
  BY <1>3, <1>4, <1>6 DEF RunsTell, Tells, Blank
<1> QED  BY <1>5, <1>6

LEMMA StepFile == ASSUME Inv, NEW i \in Invokers, Step(i) PROVE CacheSound(file)'
<1>1. file' = file \/ file' = cache[i]
  BY DEF Step, Start, PersistFirst, StartOfRun, StartScoped, Narrow, NextSpec, Recall, Reuse,
         Unprepared, Execute, Finish, ReadFile, Judge, Conclude, Report, Exit, Persist, Expire, Die, Enter,
         Persisted, kept
<1> QED  BY <1>1 DEF Inv, Own, CacheSound, EntrySound, Scoped, Covered, ScopeDirs

LEMMA StepInv == ASSUME Inv, NEW i \in Invokers, Step(i) PROVE Inv'
<1>1. Own(i) /\ Shapes /\ [Next]_vars  BY DEF Inv, Next
<1>2. RepoShape' /\ RunsShape' /\ StepsShape'  BY <1>1, RepoStep, StepRuns, StepShape DEF Own
<1>3. \A j \in Invokers : Own(j)'
  <2>1. Own(i)'  BY StepOwn
  <2>2. \A j \in Invokers \ {i} : Own(j)'  BY OthersOwn
  <2> QED  BY <2>1, <2>2
<1> QED  BY <1>2, <1>3, StepApart, StepTells, StepFile DEF Inv, Shapes

\* Whatever `spc verify' invocations, a developer and `spc apply' do to the repository,
\* the cache file and .spc/runs, in any order, Inv holds (verify.ts, command-cache.ts).
THEOREM Invariance == Spec => []Inv
<1>1. Inv /\ [Next]_vars => Inv'  BY WorldStep, StepInv DEF World, Next
<1> QED  BY InitInv, <1>1, PTL DEF Spec

-----------------------------------------------------------------------------
(* What follows. *)

LEMMA ReuseFollows == Inv => ReuseIsSound
<1> SUFFICES ASSUME Inv, NEW f \in {file} \cup {cache[i] : i \in Invokers}, NEW c \in DOMAIN f,
                    Reusable(c, f), ~f[c].torn, Covered(c)
             PROVE  Passes(c, src, dist)
  BY DEF ReuseIsSound
<1>1. CacheSound(f)  BY DEF Inv, Own
<1>2. /\ Scoped(c) /\ Reads[c] \subseteq ScopeDirs[c]
      /\ f[c].src = Digest(src, c) /\ f[c].dist = Digest(dist, c)
  BY DEF Reusable, Covered
<1>3. \A p \in Reads[c] : f[c].src[p] \in Good /\ (c \notin Builds => f[c].dist[p] \in Good)
  BY <1>1, <1>2 DEF CacheSound, EntrySound
<1> QED  BY <1>2, <1>3 DEF Passes, Digest

LEMMA RunsLatest ==
    ASSUME Shapes, NEW T \in SUBSET (DOMAIN runs), T # {}
    PROVE  Latest(T) \in T
<1>1. Len(runs) \in Nat /\ DOMAIN runs = 1..Len(runs)  BY DEF Shapes, RunsShape
<1> QED  BY <1>1, LatestIn

\* A property that is green in a run whose commit has not changed since holds on the
\* files as they are, but for what somebody has vouched for.
LEMMA UndriftedTells ==
    ASSUME Inv, NEW r \in DOMAIN runs, NEW cfg, ~Drifted(Anchor(r), cfg), runs[r].sound,
           runs[r].kind = "verify" => ~runs[r].dirty,
           NEW c \in Range(Acceptance[runs[r].spec]), Prop[c] \in runs[r].green
    PROVE  Vouched(r, c) \/ Holds(c, src)
<1>1. \A d \in runs[r].supported : Holds(d, ContentOf(Anchor(r)))  BY DEF Inv, RunsTell, Tells
<1>2. /\ src = ContentOf(head) /\ Anchor(r) \in DOMAIN commits /\ head \in DOMAIN commits
      /\ \A p \in Pkgs : ContentOf(Anchor(r))[p] = ContentOf(head)[p]
  BY DEF Drifted, Changed, Dirty, ContentOf, Inv, Shapes, RunsShape, RepoShape
<1>3. \A k \in DOMAIN commits : ContentOf(k) \in [Pkgs -> Versions]
  <2>1. \A k \in DOMAIN commits : commits[k] \in Commit  BY DEF Inv, Shapes, RepoShape
  <2> QED  BY <2>1 DEF ContentOf, Commit
<1>4. \A f, g : f \in [Pkgs -> Versions] /\ g \in [Pkgs -> Versions] =>
                    ((\A p \in Pkgs : f[p] = g[p]) => f = g)
  OBVIOUS
<1>5. src = ContentOf(Anchor(r))  BY <1>2, <1>3, <1>4
<1>6. Prop[c] \in runs[r].waived \/ c \in runs[r].supported \cup runs[r].answered
  BY DEF Inv, Shapes, RunsShape, IsRun, GreenTells, CriteriaOf
<1> QED  BY <1>1, <1>5, <1>6 DEF Vouched

LEMMA FreshFollows == Inv => CachedHolds
<1> SUFFICES ASSUME Inv, NEW s \in Specs, Fresh(s), runs[Latest(VerifyRunsOf(s))].sound,
                    NEW c \in Range(Acceptance[s])
             PROVE  Vouched(Latest(VerifyRunsOf(s)), c) \/ Holds(c, src)
  BY DEF CachedHolds
<1> DEFINE r == Latest(VerifyRunsOf(s))
<1>1. r \in VerifyRunsOf(s)
  BY RunsLatest DEF Inv, Fresh, VerifyRunsOf, RunsOf
<1>2. r \in DOMAIN runs /\ runs[r].kind = "verify" /\ runs[r].spec = s
  BY <1>1 DEF VerifyRunsOf, RunsOf
<1>3. ~runs[r].dirty /\ ~Drifted(runs[r].base, runs[r].config) /\ Prop[c] \in runs[r].green
  BY DEF Fresh, HeldAll, PropsOf
<1>4. Anchor(r) = runs[r].base  BY <1>2 DEF Anchor
<1> HIDE DEF r
<1> QED  BY <1>2, <1>3, <1>4, UndriftedTells DEF r

LEMMA StandingFollows == Inv => StandingHolds
<1> SUFFICES ASSUME Inv, NEW s \in Specs, Posture(s) = "standing", runs[Latest(Valid(s))].sound,
                    NEW c \in Range(Acceptance[s]), Prop[c] \in Must
             PROVE  Vouched(Latest(Valid(s)), c) \/ Holds(c, src)
  BY DEF StandingHolds
<1> DEFINE r == Latest(Valid(s))
<1>1. /\ Valid(s) # {} /\ HeldAll(r, Must \cap PropsOf(s))
      /\ ~(runs[r].kind = "verify" /\ runs[r].dirty)
      /\ ~Drifted(Anchor(r), runs[r].config)
  BY DEF Posture
<1>2. r \in Valid(s)  BY <1>1, RunsLatest DEF Inv, Valid, RunsOf
<1>3. r \in DOMAIN runs /\ runs[r].spec = s /\ Prop[c] \in runs[r].green
  BY <1>1, <1>2 DEF Valid, RunsOf, HeldAll, PropsOf
<1> HIDE DEF r
<1> QED  BY <1>1, <1>3, UndriftedTells DEF r

LEMMA PartialFollows == Inv => PartialIsHonest
<1> SUFFICES ASSUME Inv, NEW i \in Invokers, pc[i] = "reported", ~touched[i].all,
                    NEW c \in Criteria, \A d \in Criteria \ {c} : Id[d] # Id[c],
                    c \in Skipped(about[i]) \cup good[i],
                    Kind[c] = "command" => Covered(Command[c]), Holds(c, ContentOf(about[i]))
             PROVE  Holds(c, src)
  BY DEF PartialIsHonest
<1>1. Own(i) /\ mode[i] = "scoped" /\ Calm(i)  BY DEF Inv, Own, Placed, Calm
<1>2. ~Dirty  BY <1>1 DEF Own, Compared, Calm
<1>3. CASE c \in good[i]  BY <1>1, <1>3 DEF Own, Found
<1>4. CASE c \in Skipped(about[i])
  <2>1. Disjoint(c, about[i])  BY <1>4 DEF Skipped
  <2>2. src = ContentOf(head)  BY <1>2 DEF Dirty, ContentOf
  <2>3. \A p \in Pkgs \ Changed(about[i], head) : ContentOf(about[i])[p] = src[p]
    BY <2>2 DEF Changed
  <2>4. CASE Kind[c] = "file"
    <3>1. Command[c] \in Pkgs \ Changed(about[i], head)
      BY <2>1, <2>4, VerifyCacheAssumption DEF Disjoint
    <3> QED  BY <2>3, <2>4, <3>1 DEF Holds
  <2>5. CASE Kind[c] = "command"
    <3>1. /\ Scoped(Command[c]) /\ ScopeDirs[Command[c]] \cap Changed(about[i], head) = {}
          /\ Reads[Command[c]] \subseteq ScopeDirs[Command[c]]
      BY <2>1, <2>5 DEF Disjoint, Covered
    <3>2. Reads[Command[c]] \subseteq Pkgs  BY <2>5, VerifyCacheAssumption
    <3> QED  BY <2>3, <2>5, <3>1, <3>2 DEF Holds
  <2> QED  BY <2>1, <2>4, <2>5 DEF Disjoint
<1> QED  BY <1>3, <1>4

\* An entry of .spc/cache/verify-commands.json, or of any invocation's copy of it, whose
\* digests match the tree (CommandCache.reusable) is of a command that would pass if it
\* were executed, unless it was torn or its scope leaves out what it reads.
THEOREM ReusesSoundly == Spec => []ReuseIsSound
BY Invariance, ReuseFollows, PTL

\* Every criterion of a spec that freshnessCheck passes over holds on the tracked files as
\* they are, unless somebody has waived its property or answered for it, even when the run
\* was over (resolveFollowup); if that run was collected undisturbed.
THEOREM FreshHolds == Spec => []CachedHolds
BY Invariance, FreshFollows, PTL

\* So do the criteria of the musts of a spec whose posture (postureFor) is standing, with
\* the same exception and condition, whether the latest run verified the spec or applied it,
\* in place or on a branch.
THEOREM StandsFirm == Spec => []StandingHolds
BY Invariance, StandingFollows, PTL

\* What `spc verify --scoped-to-diff' skipped as disjoint from the diff, or found to
\* hold, holds when it reports, if it held at the base.
THEOREM ReportsHonestly == Spec => []PartialIsHonest
BY Invariance, PartialFollows, PTL
=============================================================================
