--------------------------- MODULE FiguresProofs ---------------------------
(***************************************************************************)
(* For any sources, requests, interfaces, counters and times: one loader   *)
(* per source, no login within the waiting time after a refused one, no    *)
(* rate, total or percentage that is none, no lost refresh of the sizes.   *)
(***************************************************************************)
EXTENDS Figures, FiniteSetTheorems, WellFoundedInduction, TLAPS

USE SourceAssumption, TimeAssumption

\* A task is one thread, and the thread in the client is the one of its source.
LoadInv ==
    /\ task \in [Sources -> BOOLEAN] /\ loaders \in [Sources -> 0..1]
    /\ \A s \in Sources : task[s] <=> loaders[s] = 1
    /\ pc # "idle" <=> loaders["kernels"] = 1
    /\ pc \in Steps

\* While a refused login is recent the retry time has not come; past the check it is
\* not recent, and it cannot become so before the thread has returned.
SpacedInv ==
    /\ since \in 0..LoginRetry /\ retry \in 0..LoginRetry
    /\ since + retry >= LoginRetry
    /\ pc \in {"page", "post", "again"} => since = LoginRetry

\* Every step keeps tasks and threads one to one.
LEMMA LoadStep ==
  ASSUME LoadInv, [Next]_vars
  PROVE  LoadInv'
<1> USE DEF LoadInv, Steps, cache, callers, session
<1>1. ASSUME NEW r \in Requests, NEW S \in Endpoints, Request(r, S)
      PROVE  LoadInv'
  <2>1. Stale(S) \subseteq Sources /\ \A s \in Stale(S) : loaders[s] = 0
    BY DEF Stale
  <2>2. \A s \in Sources : task'[s] <=> (task[s] \/ s \in Stale(S))
    BY <1>1 DEF Request
  <2>3. \A s \in Sources : loaders'[s] = IF s \in Stale(S) THEN 1 ELSE loaders[s]
    BY <1>1, <2>1 DEF Request
  <2>4. task' \in [Sources -> BOOLEAN] /\ loaders' \in [Sources -> 0..1]
    <3>1. task' \in [Sources -> BOOLEAN]
      BY <1>1, Zenon DEF Request
    <3>2. loaders' = [s \in Sources |-> loaders'[s]]
      BY <1>1 DEF Request
    <3>3. QED
      BY <3>1, <3>2, <2>3
  <2>5. pc' \in Steps /\ (pc' # "idle" <=> (pc # "idle" \/ "kernels" \in Stale(S)))
    BY <1>1 DEF Request
  <2>6. QED
    BY <2>2, <2>3, <2>4, <2>5
<1>2. ASSUME NEW r \in Requests, Answer(r) \/ LocalRead(r)
      PROVE  LoadInv'
  BY <1>2 DEF Answer, LocalRead
<1>3. ASSUME NEW s \in Sources, NEW v \in {"ok", "error"}, OtherLoads(s, v)
      PROVE  LoadInv'
  BY <1>3 DEF OtherLoads, Refreshed
<1>4. CASE Client
  <2>1. ASSUME NEW v \in {"ok", "error"}, Ends(v), pc # "idle"
        PROVE  LoadInv'
    BY <2>1 DEF Ends, Refreshed
  <2>2. ASSUME NEW step \in Steps \ {"idle"}, GoesTo(step), pc # "idle"
        PROVE  LoadInv'
    BY <2>2 DEF GoesTo
  <2>3. QED
    BY <1>4, <2>1, <2>2 DEF Client, List, Login, LoginPage, LoginPost, ListAgain
<1>5. CASE Tick \/ (\E new \in Labs : LabTurns(new)) \/ UNCHANGED vars
  BY <1>5 DEF Tick, LabTurns, vars
<1>6. QED
  BY <1>1, <1>2, <1>3, <1>4, <1>5 DEF Next

\* Every step keeps the waiting time behind the refusal.
LEMMA SpacedStep ==
  ASSUME LoadInv, SpacedInv, [Next]_vars
  PROVE  SpacedInv'
<1> USE DEF SpacedInv, session
<1>1. ASSUME NEW r \in Requests, NEW S \in Endpoints, Request(r, S)
      PROVE  SpacedInv'
  BY <1>1 DEF Request
<1>2. ASSUME NEW r \in Requests, Answer(r) \/ LocalRead(r)
      PROVE  SpacedInv'
  BY <1>2 DEF Answer, LocalRead
<1>3. ASSUME NEW s \in Sources, NEW v \in {"ok", "error"}, OtherLoads(s, v)
      PROVE  SpacedInv'
  BY <1>3 DEF OtherLoads
<1>4. CASE Client
  BY <1>4 DEF Client, List, Login, LoginPage, LoginPost, ListAgain, Ends, GoesTo, Block
<1>5. CASE Tick \/ (\E new \in Labs : LabTurns(new)) \/ UNCHANGED vars
  BY <1>5 DEF Tick, Less, LabTurns, vars
<1>6. QED
  BY <1>1, <1>2, <1>3, <1>4, <1>5 DEF Next

\* Both invariants, from the start on.
LEMMA Inductive == Spec => [](LoadInv /\ SpacedInv)
<1>1. Init => LoadInv /\ SpacedInv
  BY DEF Init, LoadInv, SpacedInv, Steps
<1>2. LoadInv /\ SpacedInv /\ [Next]_vars => (LoadInv /\ SpacedInv)'
  BY LoadStep, SpacedStep
<1>3. QED
  BY <1>1, <1>2, PTL DEF Spec

\* RefreshingValue.get: however many requests come, give up and come again, one thread
\* at most is inside a loader, so the JupyterClient has one user.
THEOREM SingleFlight == Spec => []OneLoader
<1>1. LoadInv => OneLoader
  <2>1. ASSUME LoadInv, NEW s \in Sources
        PROVE  loaders[s] <= 1
    BY <2>1 DEF LoadInv
  <2>2. QED
    BY <2>1 DEF OneLoader
<1>2. QED
  BY Inductive, <1>1, PTL

\* JupyterClient._login: the password is not sent again before LOGIN_RETRY_SECONDS
\* have passed since JupyterLab refused it.
THEOREM RefusedLoginsSpaced == Spec => LoginsSpaced
<1>1. LoadInv /\ SpacedInv /\ [Next]_vars => [LoginPost => since = LoginRetry]_vars
  BY DEF SpacedInv, LoginPost
<1>2. QED
  BY Inductive, <1>1, PTL DEF Spec, LoginsSpaced

----------------------------------------------------------------------------
(* The directory sizes                                                     *)

\* A walk that nobody has told to repeat measures each directory after the change
\* refresh() was last called for; once it has, its numbers are at least as new.
SizesInv ==
    /\ disk \in Nat /\ owed \in 0..disk /\ found \in Nat \X Nat /\ values \in Nat \X Nat
    /\ running \in BOOLEAN /\ again \in BOOLEAN
    /\ walk \in {"none", "venv", "cache", "done"}
    /\ running <=> walk # "none"
    /\ running /\ ~again /\ walk \in {"cache", "done"} => found[1] >= owed
    /\ running /\ ~again /\ walk = "done" => found[2] >= owed
    /\ again => running
    /\ ShownSizesCurrent

\* Every step of Sizes keeps it.
LEMMA SizesStepKeeps ==
  ASSUME SizesInv, [SizesNext]_sizesVars
  PROVE  SizesInv'
<1> USE DEF SizesInv, ShownSizesCurrent
<1>1. CASE DiskChanges
  BY <1>1 DEF DiskChanges
<1>2. CASE Refresh
  <2>1. CASE running
    <3>1. again' = TRUE /\ UNCHANGED <<disk, found, values, running, walk>> /\ owed' = disk
      BY <1>2, <2>1 DEF Refresh
    <3>2. QED
      BY <3>1, <2>1
  <2>2. CASE ~running
    <3>1. running' = TRUE /\ walk' = "venv" /\ UNCHANGED <<disk, found, values, again>> /\ owed' = disk
      BY <1>2, <2>2 DEF Refresh
    <3>2. QED
      BY <3>1, <2>2
  <2>3. QED
    BY <2>1, <2>2
<1>3. CASE WalkVenv
  BY <1>3 DEF WalkVenv
<1>4. CASE WalkCache
  BY <1>4 DEF WalkCache
<1>5. CASE WalkEnds
  BY <1>5 DEF WalkEnds
<1>6. CASE UNCHANGED sizesVars
  BY <1>6 DEF sizesVars
<1>7. QED
  BY <1>1, <1>2, <1>3, <1>4, <1>5, <1>6 DEF SizesNext

\* Sizes.refresh: no refresh is lost, whatever a walk in progress had passed already.
THEOREM SizesShownCurrent == FiguresSpec => []ShownSizesCurrent
<1>1. FiguresInit => SizesInv
  <2>1. SizesInit => ~running /\ ~again /\ running \in BOOLEAN /\ again \in BOOLEAN
    BY Zenon DEF SizesInit
  <2>2. SizesInit => walk = "none" /\ disk = 0 /\ owed = 0 /\ found = <<0, 0>> /\ values = <<0, 0>>
    BY DEF SizesInit
  <2>3. QED
    BY <2>1, <2>2 DEF FiguresInit, SizesInv, ShownSizesCurrent
<1>2. SizesInv /\ [FiguresNext]_figVars => SizesInv'
  <2>1. [FiguresNext]_figVars => [SizesNext]_sizesVars
    BY DEF FiguresNext, PollsStep, HostStep, GpuStep, SizesStep, figVars
  <2>2. QED
    BY <2>1, SizesStepKeeps
<1>3. SizesInv => ShownSizesCurrent
  BY DEF SizesInv
<1>4. QED
  BY <1>1, <1>2, <1>3, PTL DEF FiguresSpec

----------------------------------------------------------------------------
(* Sums                                                                    *)

\* Numbers: a set of them has a least one, and is all of them by induction.
LEMMA Least ==
  ASSUME NEW S \in SUBSET Nat, S # {}
  PROVE  \E n \in S : \A m \in S : n <= m
<1> DEFINE R == OpToRel(<, Nat)
<1>1. IsWellFoundedOn(R, Nat)
  BY NatLessThanWellFounded, Zenon
<1>2. R = {ss \in Nat \X Nat : ss[1] < ss[2]}
  BY Zenon DEF OpToRel
<1> HIDE DEF R
<1>3. PICK n \in S : \A m \in S : ~(<<m, n>> \in R)
  BY <1>1, WFMin
<1>4. \A m \in S : ~(m < n)
  BY <1>2, <1>3
<1>5. n \in Nat /\ \A m \in S : m \in Nat
  BY <1>3
<1>6. QED
  BY <1>4, <1>5


LEMMA Induct ==
  ASSUME NEW P \in SUBSET Nat, 0 \in P, \A n \in P : n + 1 \in P
  PROVE  P = Nat
<1> SUFFICES ASSUME Nat \ P # {} PROVE FALSE
  OBVIOUS
<1>1. PICK n \in Nat \ P : \A m \in Nat \ P : n <= m
  BY Least
<1>2. n # 0 /\ n - 1 \in Nat
  OBVIOUS
<1>3. n - 1 \in P
  BY <1>1, <1>2
<1>4. QED
  BY <1>2, <1>3

\* The sum over a set as the fold of the community modules computes it, taking elements
\* in the order of CHOOSE: what it has for each subset, `g', exists and is added up.
Sum(f, S) == MapThenSumSet(LAMBDA i : f[i], S)
Pick(s)   == CHOOSE x \in s : TRUE
Adds(g, f, S) ==
    \A s \in SUBSET S : g[s] = IF s = {} THEN 0 ELSE f[Pick(s)] + g[s \ {Pick(s)}]

LEMMA SumIs ==
  ASSUME NEW S, NEW f, NEW h, h \in [SUBSET S -> Nat], Adds(h, f, S)
  PROVE  \E g : g = [s \in SUBSET S |-> g[s]] /\ Adds(g, f, S) /\ Sum(f, S) = g[S]
<1> DEFINE iter == CHOOSE g : g = [s \in SUBSET S |-> IF s = {} THEN 0 ELSE f[Pick(s)] + g[s \ {Pick(s)}]]
<1>1. h = [s \in SUBSET S |-> IF s = {} THEN 0 ELSE f[Pick(s)] + h[s \ {Pick(s)}]]
  BY DEF Adds
<1>2. iter = [s \in SUBSET S |-> IF s = {} THEN 0 ELSE f[Pick(s)] + iter[s \ {Pick(s)}]]
  BY <1>1
<1>3. Sum(f, S) = iter[S]
  BY DEF Sum, MapThenSumSet, MapThenFoldSet, Pick
<1> HIDE DEF iter
<1>4. Adds(iter, f, S) /\ iter = [s \in SUBSET S |-> iter[s]]
  BY <1>2 DEF Adds
<1>5. QED
  BY <1>3, <1>4

\* A subset that is not empty without the element chosen from it.
LEMMA Picked ==
  ASSUME NEW S, IsFiniteSet(S), NEW s \in SUBSET S, NEW x \in s
  PROVE  /\ Pick(s) \in s
         /\ Cardinality(s) \in Nat /\ Cardinality(s \ {x}) = Cardinality(s) - 1 /\ Cardinality(s) # 0
         /\ IsFiniteSet(s)
<1>1. IsFiniteSet(s)
  BY FS_Subset
<1>2. Pick(s) \in s
  BY DEF Pick
<1>3. QED
  BY <1>1, <1>2, FS_CardinalityType, FS_RemoveElement, FS_EmptySet

LEMMA SumExists ==
  ASSUME NEW S, IsFiniteSet(S), NEW f, \A x \in S : f[x] \in Nat
  PROVE  \E h \in [SUBSET S -> Nat] : Adds(h, f, S)
<1> DEFINE Small(n) == {s \in SUBSET S : Cardinality(s) <= n}
           Good(n)  == \E h \in [Small(n) -> Nat] :
                          \A s \in Small(n) : h[s] = IF s = {} THEN 0 ELSE f[Pick(s)] + h[s \ {Pick(s)}]
<1>1. \A s \in SUBSET S : Cardinality(s) \in Nat /\ (Cardinality(s) = 0 <=> s = {})
  BY FS_Subset, FS_CardinalityType, FS_EmptySet
<1>2. Good(0)
  <2>1. Small(0) = {{}}
    BY <1>1
  <2> DEFINE h == [s \in Small(0) |-> 0]
  <2>2. h \in [Small(0) -> Nat] /\ \A s \in Small(0) : s = {} /\ h[s] = 0
    BY <2>1
  <2> HIDE DEF h
  <2>3. QED
    BY <2>2
<1>3. ASSUME NEW n \in Nat, Good(n)
      PROVE  Good(n + 1)
  <2>1. PICK h \in [Small(n) -> Nat] :
           \A s \in Small(n) : h[s] = IF s = {} THEN 0 ELSE f[Pick(s)] + h[s \ {Pick(s)}]
    BY <1>3
  <2> DEFINE g == [s \in Small(n + 1) |-> IF s = {} THEN 0 ELSE f[Pick(s)] + h[s \ {Pick(s)}]]
  <2>2. ASSUME NEW s \in Small(n + 1), s # {}
        PROVE  s \ {Pick(s)} \in Small(n) /\ s \ {Pick(s)} \in Small(n + 1) /\ Pick(s) \in S
    <3>1. Pick(s) \in s
      BY <2>2 DEF Pick
    <3>2. Cardinality(s \ {Pick(s)}) = Cardinality(s) - 1 /\ Cardinality(s) \in Nat
      BY <3>1, Picked
    <3>3. s \in SUBSET S /\ Cardinality(s) <= n + 1
      OBVIOUS
    <3>4. QED
      BY <3>1, <3>2, <3>3
  <2>3. g \in [Small(n + 1) -> Nat]
    BY <2>2
  <2>4. \A s \in Small(n) : s \in Small(n + 1) /\ g[s] = h[s]
    BY <1>1, <2>1
  <2>5. \A s \in Small(n + 1) : g[s] = IF s = {} THEN 0 ELSE f[Pick(s)] + g[s \ {Pick(s)}]
    BY <2>2, <2>4
  <2> HIDE DEF g, Small
  <2>6. QED
    BY <2>3, <2>5
<1> HIDE DEF Good
<1>4. \A n \in Nat : Good(n)
  <2> DEFINE P == {n \in Nat : Good(n)}
  <2>1. P \in SUBSET Nat /\ 0 \in P /\ \A n \in P : n + 1 \in P
    BY <1>2, <1>3
  <2> HIDE DEF P
  <2>2. P = Nat
    BY <2>1, Induct
  <2>3. QED
    BY <2>2 DEF P
<1>5. Good(Cardinality(S))
  BY <1>1, <1>4
<1>6. Small(Cardinality(S)) = SUBSET S
  BY FS_Subset
<1> HIDE DEF Small
<1>7. QED
  BY <1>5, <1>6 DEF Good, Adds

\* In whatever order: each element of a sum may be the first.
LEMMA SumSplits ==
  ASSUME NEW S, IsFiniteSet(S), NEW f, \A x \in S : f[x] \in Nat, NEW g, Adds(g, f, S)
  PROVE  \A s \in SUBSET S : g[s] \in Nat /\ \A x \in s : g[s] = f[x] + g[s \ {x}]
<1> DEFINE P == {n \in Nat : \A s \in SUBSET S : Cardinality(s) <= n =>
                                g[s] \in Nat /\ \A x \in s : g[s] = f[x] + g[s \ {x}]}
<1>1. \A s \in SUBSET S : Cardinality(s) \in Nat /\ (Cardinality(s) = 0 <=> s = {})
  BY FS_Subset, FS_CardinalityType, FS_EmptySet
<1>2. 0 \in P
  BY <1>1 DEF Adds
<1>3. ASSUME NEW n \in P
      PROVE  n + 1 \in P
  <2>0. ASSUME NEW t \in SUBSET S, Cardinality(t) <= n
        PROVE  g[t] \in Nat /\ \A x \in t : g[t] = f[x] + g[t \ {x}]
    BY <1>3, <2>0
  <2> SUFFICES ASSUME NEW s \in SUBSET S, Cardinality(s) <= n + 1, s # {}
               PROVE  g[s] \in Nat /\ \A x \in s : g[s] = f[x] + g[s \ {x}]
    BY <1>1 DEF Adds
  <2> n \in Nat /\ Cardinality(s) \in Nat
    BY <1>1
  <2> DEFINE y == Pick(s)
  <2>1. y \in s
    BY DEF Pick
  <2>2. g[s] = f[y] + g[s \ {y}]
    BY DEF Adds
  <2> HIDE DEF y
  <2>3. ASSUME NEW x \in s
        PROVE  f[x] \in Nat /\ g[s \ {x}] \in Nat /\ \A z \in s \ {x} : g[s \ {x}] = f[z] + g[(s \ {x}) \ {z}]
    <3>1. s \ {x} \in SUBSET S /\ Cardinality(s \ {x}) = Cardinality(s) - 1
      BY Picked
    <3>2. f[x] \in Nat
      OBVIOUS
    <3>3. Cardinality(s \ {x}) <= n
      BY <3>1
    <3>4. g[s \ {x}] \in Nat /\ \A z \in s \ {x} : g[s \ {x}] = f[z] + g[(s \ {x}) \ {z}]
      BY <2>0, <3>1, <3>3
    <3>5. QED
      BY <3>2, <3>4
  <2>4. ASSUME NEW x \in s, x # y
        PROVE  g[s] = f[x] + g[s \ {x}]
    <3>1. x \in s \ {y} /\ y \in s \ {x} /\ (s \ {y}) \ {x} = (s \ {x}) \ {y}
      BY <2>1, <2>4
    <3>2. g[s \ {y}] = f[x] + g[(s \ {y}) \ {x}] /\ g[s \ {x}] = f[y] + g[(s \ {x}) \ {y}]
      BY <2>1, <2>3, <3>1
    <3>3. g[(s \ {y}) \ {x}] \in Nat
      <4>1. s \ {y} \in SUBSET S /\ Cardinality(s \ {y}) = Cardinality(s) - 1
        BY <2>1, Picked
      <4>2. /\ (s \ {y}) \ {x} \in SUBSET S
            /\ Cardinality((s \ {y}) \ {x}) = Cardinality(s \ {y}) - 1
        BY <3>1, <4>1, Picked
      <4>3. Cardinality((s \ {y}) \ {x}) <= n
        BY <4>1, <4>2
      <4>4. QED
        BY <2>0, <4>2, <4>3
    <3>4. f[x] \in Nat /\ f[y] \in Nat
      BY <2>1, <2>3
    <3> DEFINE rest == g[(s \ {y}) \ {x}]
    <3>5. g[s] = f[y] + (f[x] + rest) /\ g[s \ {x}] = f[y] + rest /\ rest \in Nat
      BY <2>2, <3>1, <3>2, <3>3
    <3> HIDE DEF rest
    <3>6. QED
      BY <3>4, <3>5
  <2>5. g[s] \in Nat
    <3>1. f[y] \in Nat /\ g[s \ {y}] \in Nat
      BY <2>1, <2>3
    <3>2. QED
      BY <2>2, <3>1
  <2>6. QED
    BY <2>2, <2>4, <2>5
<1>4. P = Nat
  <2> HIDE DEF P
  <2>1. P \in SUBSET Nat
    BY DEF P
  <2>2. QED
    BY <1>2, <1>3, <2>1, Induct
<1>5. ASSUME NEW s \in SUBSET S
      PROVE  g[s] \in Nat /\ \A x \in s : g[s] = f[x] + g[s \ {x}]
  <2>1. Cardinality(s) \in P /\ Cardinality(s) <= Cardinality(s)
    BY <1>1, <1>4
  <2>2. QED
    BY <2>1
<1>6. QED
  BY <1>5

\* A sum of parts of what another adds up is no more than that.
LEMMA SumBound ==
  ASSUME NEW S, IsFiniteSet(S), NEW f, \A x \in S : f[x] \in Nat, NEW T \in SUBSET S, NEW r,
         \A x \in T : r[x] \in Nat /\ r[x] <= f[x]
  PROVE  Sum(r, T) \in 0..Sum(f, S)
<1>1. IsFiniteSet(T)
  BY FS_Subset
<1>2. PICK g : Adds(g, f, S) /\ Sum(f, S) = g[S]
  BY SumExists, SumIs
<1>3. PICK h : Adds(h, r, T) /\ Sum(r, T) = h[T]
  BY <1>1, SumExists, SumIs
<1>4. \A s \in SUBSET S : g[s] \in Nat /\ \A x \in s : g[s] = f[x] + g[s \ {x}]
  BY <1>2, SumSplits
<1>5. \A s \in SUBSET T : h[s] \in Nat /\ \A x \in s : h[s] = r[x] + h[s \ {x}]
  BY <1>1, <1>3, SumSplits
<1> DEFINE P == {n \in Nat : \A t \in SUBSET T, s \in SUBSET S :
                                Cardinality(t) = n /\ t \subseteq s => h[t] <= g[s]}
<1>6. \A t \in SUBSET T : Cardinality(t) \in Nat /\ (Cardinality(t) = 0 <=> t = {})
  BY <1>1, FS_Subset, FS_CardinalityType, FS_EmptySet
<1>7. 0 \in P
  <2>1. h[{}] = 0
    BY <1>3 DEF Adds
  <2>2. ASSUME NEW t \in SUBSET T, NEW s \in SUBSET S, Cardinality(t) = 0
        PROVE  h[t] <= g[s]
    <3>1. t = {} /\ g[s] \in Nat
      BY <1>4, <1>6, <2>2
    <3>2. QED
      BY <2>1, <3>1
  <2>3. QED
    BY <2>2
<1>8. ASSUME NEW n \in P
      PROVE  n + 1 \in P
  <2> SUFFICES ASSUME NEW t \in SUBSET T, NEW s \in SUBSET S, Cardinality(t) = n + 1, t \subseteq s
               PROVE  h[t] <= g[s]
    OBVIOUS
  <2>1. PICK x \in t : TRUE
    BY <1>6
  <2>2. t \ {x} \in SUBSET T /\ s \ {x} \in SUBSET S /\ t \ {x} \subseteq s \ {x} /\ Cardinality(t \ {x}) = n
    BY <1>1, <1>6, Picked
  <2>3. h[t \ {x}] <= g[s \ {x}]
    BY <2>2
  <2>4. h[t] = r[x] + h[t \ {x}] /\ g[s] = f[x] + g[s \ {x}] /\ r[x] <= f[x]
    BY <1>4, <1>5
  <2>5. h[t \ {x}] \in Nat /\ g[s \ {x}] \in Nat /\ r[x] \in Nat /\ f[x] \in Nat
    BY <1>4, <1>5, <2>2
  <2>6. QED
    BY <2>3, <2>4, <2>5
<1>9. P = Nat
  <2> HIDE DEF P
  <2>1. P \in SUBSET Nat
    BY DEF P
  <2>2. QED
    BY <1>7, <1>8, <2>1, Induct
<1>10. Cardinality(T) \in P
  BY <1>6, <1>9
<1>11. h[T] <= g[S] /\ h[T] \in Nat /\ g[S] \in Nat
  BY <1>4, <1>5, <1>10
<1>12. QED
  BY <1>2, <1>3, <1>11

----------------------------------------------------------------------------
(* The host's figures                                                      *)

\* A part in percent of the whole, rounded down.
LEMMA PercentOf ==
  ASSUME NEW w \in Nat \ {0}, NEW p \in 0..w
  PROVE  (100 * p) \div w \in 0..100
<1> DEFINE q == (100 * p) \div w
<1>1. q \in Int /\ w * q <= 100 * p /\ 100 * p < w * q + w
  OBVIOUS
<1>2. q >= 0
  <2>1. ~(w * (q + 1) <= 0)
    BY <1>1
  <2>2. QED
    BY <1>1, <2>1
<1>3. q <= 100
  BY <1>1
<1>4. QED
  BY <1>1, <1>2, <1>3

\* memory_info and disk_info: whatever meminfo and statvfs say.
LEMMA Readings ==
         /\ \A m \in Meminfos : MemoryPercent(m) \in 0..100 /\ SwapPercent(m) \in 0..100
         /\ \A d \in Disks : DiskPercent(d) # None => DiskPercent(d) \in 0..100
<1> USE FigureAssumption
<1>1. ASSUME NEW w \in 0..MaxCount, NEW a \in Nat
      PROVE  Used(w, a) \in 0..w
  BY <1>1 DEF Used
<1>2. ASSUME NEW w \in Nat, NEW p \in 0..w
      PROVE  Percent(p, w) = None \/ Percent(p, w) \in 0..100
  BY PercentOf DEF Percent
<1>3. ASSUME NEW w \in Nat \ {0}, NEW p \in 0..w
      PROVE  Percent(p, w) \in 0..100
  BY PercentOf DEF Percent
<1>4. ASSUME NEW m \in Meminfos
      PROVE  MemoryPercent(m) \in 0..100 /\ SwapPercent(m) \in 0..100
  <2>1. /\ m.total \in Nat \ {0} /\ m.total \in 0..MaxCount
        /\ m.swap \in 0..MaxCount /\ m.swapFree \in Nat
        /\ (IF m.available = None THEN m.free + m.cached ELSE m.available) \in Nat
    BY DEF Meminfos
  <2>2. MemoryPercent(m) \in 0..100
    <3>1. Used(m.total, IF m.available = None THEN m.free + m.cached ELSE m.available) \in 0..m.total
      BY <2>1, <1>1
    <3>2. QED
      BY <2>1, <3>1, <1>3 DEF MemoryPercent
  <2>3. SwapPercent(m) \in 0..100
    <3>1. Used(m.swap, m.swapFree) \in 0..m.swap
      BY <2>1, <1>1
    <3>2. m.swap # 0 => Percent(Used(m.swap, m.swapFree), m.swap) \in 0..100
      BY <2>1, <3>1, <1>3
    <3>3. QED
      BY <3>2 DEF SwapPercent
  <2>4. QED
    BY <2>2, <2>3
<1>5. ASSUME NEW d \in Disks
      PROVE  DiskPercent(d) # None => DiskPercent(d) \in 0..100
  <2>1. d.blocks - d.bfree \in 0..((d.blocks - d.bfree) + d.bavail) /\ (d.blocks - d.bfree) + d.bavail \in Nat
    BY DEF Disks
  <2>2. QED
    BY <2>1, <1>2 DEF DiskPercent
<1>6. QED
  BY <1>4, <1>5

\* A rate that is shown is what the interface has received: the counters of the last
\* reading are what they are now without what has come since, unless they started anew.
HostInv ==
    /\ counters \in [Ifaces -> {None} \cup 0..MaxCount] /\ moved \in [Ifaces -> 0..MaxCount]
    /\ previous = None \/ previous \in [Ifaces -> {None} \cup 0..MaxCount]
    /\ \A i \in Ifaces : previous # None /\ previous[i] # None /\ counters[i] # None =>
           counters[i] <= previous[i] + moved[i]
    /\ was \in [Ifaces -> 0..MaxCount]
    /\ \A i \in Ifaces : rates[i] # None => rates[i] \in 0..was[i]
    /\ total # None => total \in 0..Sum(was, Physical)
    /\ ticks = None \/ ticks \in [Lines -> Ticks \cup {None}]
    /\ \A l \in Lines : percents[l] # None => percents[l] \in 0..100

\* Every step of the host and its sampler keeps it.
LEMMA HostStepKeeps ==
  ASSUME HostInv, NetworkNext \/ CpuNext \/ UNCHANGED hostVars
  PROVE  HostInv'
<1> USE FigureAssumption DEF HostInv, network, cpu
<1>1. ASSUME NEW S \in SUBSET Ifaces, Receives(S)
      PROVE  HostInv'
  BY <1>1 DEF Receives
<1>2. ASSUME NEW i \in Ifaces, Replugged(i)
      PROVE  HostInv'
  BY <1>2 DEF Replugged
<1>3. ASSUME SampleNetwork, moved' = [i \in Ifaces |-> 0], was' = moved, UNCHANGED <<counters, cpu>>
      PROVE  HostInv'
  <2>0. /\ UNCHANGED <<counters, ticks, percents>> /\ moved' \in [Ifaces -> 0..MaxCount]
        /\ was' \in [Ifaces -> 0..MaxCount]
        /\ \A i \in Ifaces : moved'[i] = 0
    BY <1>3
  <2>1. CASE previous' = None /\ rates' = Nobody /\ total' = None
    BY <2>0, <2>1 DEF Nobody
  <2>2. CASE /\ previous' = counters
             /\ rates' = [i \in Ifaces |->
                   IF previous # None /\ counters[i] # None /\ previous[i] # None
                   THEN Rate(previous[i], counters[i]) ELSE None]
             /\ total' = SumRates(rates')
    <3>1. ASSUME NEW i \in Ifaces, rates'[i] # None
          PROVE  rates'[i] \in 0..was'[i]
      <4>1. previous # None /\ counters[i] # None /\ previous[i] # None /\ rates'[i] = Rate(previous[i], counters[i])
        BY <2>2, <3>1
      <4>2. counters[i] \in 0..MaxCount /\ previous[i] \in 0..MaxCount /\ moved[i] \in 0..MaxCount
        BY <4>1
      <4>3. counters[i] <= previous[i] + moved[i]
        BY <4>1
      <4>4. QED
        BY <1>3, <3>1, <4>1, <4>2, <4>3 DEF Rate
    <3>2. ASSUME total' # None
          PROVE  total' \in 0..Sum(was', Physical)
      <4> DEFINE there == {i \in Physical : counters[i] # None}
                 r == rates'
                 w == was'
      <4>1. /\ \A i \in there : r[i] # None
            /\ total' = Sum(r, there)
        BY <2>2, <3>2 DEF SumRates, Counted, Sum
      <4>2. \A i \in there : r[i] \in 0..w[i]
        BY <3>1, <4>1 DEF Ifaces
      <4>3. \A i \in Physical : w[i] \in Nat
        BY <1>3 DEF Ifaces
      <4>4. IsFiniteSet(Physical) /\ there \in SUBSET Physical
        BY FS_Subset DEF Ifaces
      <4> HIDE DEF there, r, w
      <4>5. Sum(r, there) \in 0..Sum(w, Physical)
        <5>1. \A i \in there : i \in Physical
          BY <4>4
        <5>2. \A i \in there : r[i] \in Nat /\ r[i] <= w[i]
          BY <4>2, <4>3, <5>1
        <5>3. QED
          BY <4>3, <4>4, <5>2, SumBound
      <4>6. QED
        BY <4>1, <4>5 DEF w
    <3>3. QED
      BY <2>0, <2>2, <3>1, <3>2
  <2>3. QED
    BY <1>3, <2>1, <2>2 DEF SampleNetwork
<1>4. CASE CpuNext
  <2>1. UNCHANGED <<counters, previous, rates, total, moved, was>> /\ (ticks' = None \/ ticks' \in [Lines -> Ticks \cup {None}])
    BY <1>4 DEF CpuNext, SampleCpu
  <2>2. ASSUME NEW l \in Lines
        PROVE  percents'[l] # None => percents'[l] \in 0..100
    <3>1. CASE percents' = [k \in Lines |-> None]
      BY <3>1
    <3>2. ASSUME NEW now \in [Lines -> Ticks \cup {None}],
                 percents' = [k \in Lines |-> IF ticks = None THEN None ELSE BusyPercent(ticks[k], now[k])]
          PROVE  percents'[l] # None => percents'[l] \in 0..100
      <4>1. ASSUME NEW b \in Ticks \cup {None}, NEW n \in Ticks \cup {None}, BusyPercent(b, n) # None
            PROVE  BusyPercent(b, n) \in 0..100
        <5>1. b \in Ticks /\ n \in Ticks /\ n[2] - b[2] > 0
          BY <4>1 DEF BusyPercent, Ticks
        <5>2. (100 * (n[1] - b[1])) \div (n[2] - b[2]) \in Int
          BY <5>1 DEF Ticks
        <5>3. \A k \in Int : Clamp(k) \in 0..100
          BY DEF Clamp
        <5>4. QED
          BY <4>1, <5>2, <5>3 DEF BusyPercent
      <4>2. CASE ticks = None
        BY <3>2, <4>2
      <4>3. CASE ticks # None
        BY <3>2, <4>1, <4>3
      <4>4. QED
        BY <4>2, <4>3
    <3>3. QED
      BY <1>4, <3>1, <3>2 DEF CpuNext, SampleCpu
  <2>3. QED
    BY <2>1, <2>2
<1>5. CASE UNCHANGED hostVars
  BY <1>5 DEF hostVars
<1>6. CASE NetworkNext
  BY <1>1, <1>2, <1>3, <1>6 DEF NetworkNext, Ifaces
<1>7. QED
  BY <1>4, <1>5, <1>6

\* Sampler: no rate says more than was received, no percentage is none, whatever
\* counters are reset, taken away or run backwards, and whatever file is unreadable.
THEOREM HostFiguresReal == FiguresSpec => []FiguresMakeSense
<1>1. FiguresInit => HostInv
  BY FigureAssumption DEF FiguresInit, HostInit, HostInv, Nobody
<1>2. HostInv /\ [FiguresNext]_figVars => HostInv'
  <2>1. [FiguresNext]_figVars => NetworkNext \/ CpuNext \/ UNCHANGED hostVars
    BY DEF FiguresNext, PollsStep, HostStep, GpuStep, SizesStep, figVars
  <2>2. QED
    BY <2>1, HostStepKeeps
<1>3. HostInv => FiguresMakeSense
  BY Readings DEF HostInv, FiguresMakeSense, NeverOverstates, PercentsMakeSense, Sum
<1>4. QED
  BY <1>1, <1>2, <1>3, PTL DEF FiguresSpec

\* Each source of the dashboard's figures runs beside the others undisturbed: what is
\* proved of the cache and the JupyterClient holds in the composition.
THEOREM FiguresRefinesDashboard == FiguresSpec => Spec
<1>1. FiguresInit => Init
  BY DEF FiguresInit
<1>2. [FiguresNext]_figVars => [Next]_vars
  BY DEF FiguresNext, PollsStep, HostStep, GpuStep, SizesStep, figVars
<1>3. QED
  BY <1>1, <1>2, PTL DEF FiguresSpec, Spec
=============================================================================
