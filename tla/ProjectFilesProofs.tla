------------------------- MODULE ProjectFilesProofs -------------------------
(***************************************************************************)
(* run.sh and the builder on the files of a checkout, for any files users  *)
(* write, edits, commands, failing writes and interruptions: a command has *)
(* checked all it uses before it changes anything, and what was saved is   *)
(* what the installer and the next command read.                           *)
(***************************************************************************)
EXTENDS ProjectFiles, SequenceTheorems, FiniteSetTheorems, FunctionTheorems, WellFoundedInduction, TLAPS

\* A text typed beside idle programs is a stutter of theirs.
THEOREM FilesRefineCommandLine == FilesSpec => Spec
<1>1. FilesInit => Init
  BY DEF FilesInit
<1>2. [FilesNext]_fileVars => [Next]_vars
  BY DEF FilesNext, fileVars
<1>3. QED
  BY <1>1, <1>2, PTL DEF FilesSpec, Spec

----------------------------------------------------------------------------
(* Checked first, written then                                             *)

\* What a program's move means for both.
LEMMA Moved ==
  ASSUME at = [run |-> at.run, builder |-> at.builder], NEW p \in Programs, NEW step, GoTo(p, step)
  PROVE  /\ at' = [run |-> at'.run, builder |-> at'.builder]
         /\ p = "run" => at'.run = step /\ at'.builder = at.builder
         /\ p = "builder" => at'.builder = step /\ at'.run = at.run
         /\ at'[p] = step /\ \A q \in Programs : q # p => at'[q] = at[q]
  BY DEF GoTo, Programs

\* Where main() has not yet written the .env or begun to copy, and what it has passed at
\* each place since.
Before == {"ensure", "read", "plan", "packages", "save", "replace"}

FirstInv ==
    /\ at = [run |-> at.run, builder |-> at.builder] /\ DOMAIN using = Programs
    /\ at.run \in Before => did = {}
    /\ at.run \in {"plan", "packages", "save", "replace", "copy"} =>
          Valid(using.run.settings) /\ using.run.imports # "unparsable"
    /\ at.run \in {"packages", "save", "replace", "copy"} =>
          cmd \in {"start", "check"} \/ using.run.imports # "unplannable"
    /\ at.run \in {"save", "replace", "copy"} => cmd # "check" /\ (cmd = "install" => listOk)
    /\ at.run = "copy" => cmd # "start"
    /\ at.run # "idle" /\ did # {} => InOrder

EndsRefused == at.run \notin {"idle", "installer"} /\ at'.run = "idle" /\ code' = 2

\* Every step keeps it, and refuses only where nothing is done.
LEMMA FirstStep ==
  ASSUME FirstInv, [Next]_vars
  PROVE  FirstInv' /\ (EndsRefused => did = {})
<1> DEFINE Goal == FirstInv' /\ (EndsRefused => did = {})
<1>1. CASE UNCHANGED vars
  BY <1>1 DEF vars, files, history, FirstInv, InOrder, EndsRefused
<1>2. ASSUME Observe
      PROVE  (at.run # "idle" /\ listOk => listOk') /\ (at.run # "idle" /\ reqs' # "bad" => listOk')
  BY <1>2 DEF Observe
<1> USE DEF FirstInv, InOrder, EndsRefused, Before, Programs, Keep, Exit, ExitOnly, files, history
<1>3. ASSUME NEW c \in Commands, Run(c), Observe
      PROVE  Goal
  BY <1>3, Moved DEF Run
<1>4. CASE EnsureConfig /\ Observe
  BY <1>2, <1>4, Moved DEF EnsureConfig
<1>5. CASE ReadConfig /\ Observe
  <2> DEFINE lenient == cmd \in Passing
             u == [settings |-> ConfigSettings(config), imports |-> config.imports, usable |-> TRUE]
             step == CASE lenient -> "installer" [] cmd = "start" -> "save"
                       [] cmd = "check" -> "packages" [] OTHER -> "plan"
  <2>1. at.run = "read" /\ did = {} /\ did' = did /\ cmd' = cmd
    BY <1>5 DEF ReadConfig
  <2>2. CASE /\ lenient \/ (Valid(u.settings) /\ u.imports # "unparsable")
             /\ using' = [using EXCEPT !["run"] = u] /\ GoTo("run", step)
    <3>1. using'["run"] = u /\ DOMAIN using' = Programs
      BY <2>2
    <3>2. at' = [run |-> at'.run, builder |-> at'.builder] /\ at'.run = step
      BY <2>2, Moved
    <3>3. \/ step = "installer"
          \/ /\ ~lenient
             /\ (step = "save" /\ cmd = "start") \/ (step = "packages" /\ cmd = "check") \/ step = "plan"
      <4>1. cmd = "stop" => step = "installer"
        BY DEF Passing
      <4>2. cmd = "start" => step = "save" /\ ~lenient
        BY DEF Passing
      <4>3. cmd = "check" => step = "packages" /\ ~lenient
        BY DEF Passing
      <4>4. cmd \notin {"stop", "start", "check"} => step = "plan" /\ ~lenient
        BY DEF Passing
      <4>5. QED
        BY <4>1, <4>2, <4>3, <4>4
    <3> HIDE DEF u, lenient, step
    <3>4. QED
      BY <2>1, <2>2, <3>1, <3>2, <3>3
  <2>3. CASE Keep("installer") \/ ExitOnly(2)
    <3>1. PICK next \in {"idle", "installer"} : GoTo("run", next)
      BY <2>3
    <3>2. at' = [run |-> at'.run, builder |-> at'.builder] /\ at'.run = next
      BY <3>1, Moved
    <3>3. UNCHANGED <<using, did>>
      BY <2>3
    <3>4. QED
      BY <2>1, <3>1, <3>2, <3>3
  <2>4. QED
    BY <1>5, <2>2, <2>3 DEF ReadConfig, ConfigProblems
<1>6. CASE (PlanImports \/ PackagesOk \/ RunInstaller) /\ Observe
  <2>1. UNCHANGED <<reqs, cmd, using, did>>
    BY <1>6 DEF PlanImports, PackagesOk, RunInstaller
  <2>2. CASE PlanImports
    <3>1. PICK step \in {"idle", "packages", "copy"} :
             /\ GoTo("run", step)
             /\ step # "idle" => using.run.imports # "unplannable"
             /\ step = "copy" => cmd = "import"
      BY <2>2 DEF PlanImports
    <3>2. at' = [run |-> at'.run, builder |-> at'.builder] /\ at'.run = step
      BY <3>1, Moved
    <3>3. QED
      BY <1>2, <1>6, <2>1, <2>2, <3>1, <3>2 DEF PlanImports
  <2>3. CASE PackagesOk
    <3>1. PICK step \in {"idle", "save"} :
             GoTo("run", step) /\ (step = "save" => reqs # "bad" /\ cmd # "check")
      BY <2>3 DEF PackagesOk
    <3>2. at' = [run |-> at'.run, builder |-> at'.builder] /\ at'.run = step
      BY <3>1, Moved
    <3>3. QED
      BY <1>2, <1>6, <2>1, <2>3, <3>1, <3>2 DEF PackagesOk
  <2>4. CASE RunInstaller
    <3>1. at' = [run |-> at'.run, builder |-> at'.builder] /\ at'.run = "idle"
      BY <2>4, Moved DEF RunInstaller
    <3>2. QED
      BY <2>1, <2>4, <3>1 DEF RunInstaller
  <2>5. QED
    BY <1>6, <2>2, <2>3, <2>4
<1>7. CASE (Open \/ Deploy \/ SaveConfig \/ InstallerEnds) /\ Observe
  BY <1>2, <1>7, Moved DEF Open, Deploy, SaveConfig, InstallerEnds, Refused, Use
<1>8. ASSUME NEW p \in Programs, SaveChecked(p), Observe
      PROVE  Goal
  BY <1>2, <1>8, Moved DEF SaveChecked, Refused
<1>9. ASSUME NEW p \in Programs, Replace(p), Observe
      PROVE  Goal
  BY <1>2, <1>9, Moved DEF Replace, Renamed, Refused
<1>10. ASSUME NEW p \in Programs, CopyImports(p), Observe
       PROVE  Goal
  BY <1>2, <1>10, Moved DEF CopyImports
<1>11. ASSUME NEW p \in Programs, Stops(p), Observe
       PROVE  Goal
  <2>1. p = "run" => at' = [run |-> "idle", builder |-> at.builder] /\ code' = 130
    BY <1>11 DEF Stops, GoTo
  <2>2. p = "builder" => at' = [run |-> at.run, builder |-> "closed"]
    BY <1>11 DEF Stops, GoTo
  <2>3. UNCHANGED <<cmd, using, did>>
    BY <1>11 DEF Stops
  <2>4. QED
    BY <1>2, <1>11, <2>1, <2>2, <2>3
<1>12. CASE /\ \/ \E c \in UserConfigs : EditConfig(c)
               \/ \E e \in UserEnvs : EditEnv(e)
               \/ \E r \in {"none", "good", "bad"} : EditRequirements(r)
               \/ \E f \in FormEdits : EditForm(f[1], f[2])
            /\ Observe
  BY <1>2, <1>12 DEF EditConfig, EditEnv, EditRequirements, EditForm, Use
<1>13. QED
  BY <1>1, <1>3, <1>4, <1>5, <1>6, <1>7, <1>8, <1>9, <1>10, <1>11, <1>12 DEF Next, User, Program

\* cli.py main: what it has written or copied it had checked, by all the checks of its
\* command; and it refuses nothing that it has begun.
THEOREM CheckedFirstHolds == Spec => CheckedFirst
<1>1. Init => FirstInv
  BY DEF Init, FirstInv, InOrder, Before
<1>2. FirstInv /\ [Next]_vars => FirstInv'
  BY FirstStep
<1>3. FirstInv => (at.run # "idle" /\ did # {} => InOrder)
  BY DEF FirstInv
<1>4. FirstInv /\ [Next]_vars =>
        [at.run \notin {"idle", "installer"} /\ at'.run = "idle" /\ code' = 2 => did = {}]_vars
  BY FirstStep DEF EndsRefused
<1>5. QED
  BY <1>1, <1>2, <1>3, <1>4, PTL DEF Spec, CheckedFirst

----------------------------------------------------------------------------
(* Settings in a file                                                      *)

\* A non-empty set of numbers has a least one, and one with a bound a greatest.
LEMMA Least ==
  ASSUME NEW S \in SUBSET Nat, S # {}
  PROVE  \E n \in S : \A m \in S : n <= m
<1> DEFINE R == OpToRel(<, Nat)
<1>1. IsWellFoundedOn(R, Nat)
  BY NatLessThanWellFounded, Zenon
<1>2. R = {ss \in Nat \X Nat : ss[1] < ss[2]}
  BY Zenon DEF OpToRel
<1> HIDE DEF R
<1>3. PICK n \in S : \A m \in S : ~(<<m, n>> \in R)
  BY <1>1, WFMin
<1>4. \A m \in S : ~(m < n)
  BY <1>2, <1>3
<1>5. n \in Nat /\ \A m \in S : m \in Nat
  BY <1>3
<1>6. QED
  BY <1>4, <1>5

LEMMA Greatest ==
  ASSUME NEW b \in Nat, NEW S \in SUBSET (0..b), S # {}
  PROVE  Max(S) \in S /\ \A m \in S : m <= Max(S)
<1> DEFINE T == {b - n : n \in S}
<1>1. T \in SUBSET Nat /\ T # {}
  <2>1. PICK m \in S : TRUE
    OBVIOUS
  <2>2. b - m \in T
    BY <2>1
  <2>3. \A k \in S : b - k \in Nat
    OBVIOUS
  <2>4. QED
    BY <2>2, <2>3
<1>2. PICK t \in T : \A u \in T : t <= u
  <2> HIDE DEF T
  <2> QED
    BY <1>1, Least
<1>3. PICK n \in S : t = b - n
  BY <1>2
<1>4. \A m \in S : n >= m
  <2> SUFFICES ASSUME NEW m \in S PROVE n >= m
    OBVIOUS
  <2>1. b - m \in T
    OBVIOUS
  <2>2. QED
    BY <2>1, <1>2, <1>3
<1>5. QED
  BY <1>4 DEF Max

\* The five settings there are.
LEMMA KnownKeys ==
  Known = {"JUPYTER_PASSWORD", "JUPYTER_PORT", "STATS_ENABLED", "STATS_PORT", "HTTPS"}
  BY DEF Known, DEFAULTS

Elems(lines) == {lines[i] : i \in DOMAIN lines}

LEMMA Concats ==
  ASSUME NEW a \in Seq(Line), NEW b \in Seq(Line)
  PROVE  a \o b \in Seq(Line) /\ Elems(a \o b) = Elems(a) \cup Elems(b)
<1>1. /\ a \o b \in Seq(Line) /\ Len(a \o b) = Len(a) + Len(b) /\ Len(a) \in Nat /\ Len(b) \in Nat
      /\ DOMAIN (a \o b) = 1..(Len(a) + Len(b)) /\ DOMAIN a = 1..Len(a) /\ DOMAIN b = 1..Len(b)
  OBVIOUS
<1>2. \A i \in 1..Len(a) : (a \o b)[i] = a[i]
  OBVIOUS
<1>3. \A i \in 1..Len(b) : (a \o b)[Len(a) + i] = b[i]
  OBVIOUS
<1>4. ASSUME NEW i \in 1..(Len(a) + Len(b))
      PROVE  (a \o b)[i] \in Elems(a) \cup Elems(b)
  <2>1. CASE i <= Len(a)
    <3>1. i \in 1..Len(a)
      BY <1>1, <2>1
    <3>2. QED
      BY <1>1, <1>2, <3>1 DEF Elems
  <2>2. CASE i > Len(a)
    <3>1. i - Len(a) \in 1..Len(b) /\ Len(a) + (i - Len(a)) = i
      BY <1>1, <2>2
    <3>2. (a \o b)[i] = b[i - Len(a)]
      BY <1>3, <3>1
    <3>3. QED
      BY <1>1, <3>1, <3>2 DEF Elems
  <2>3. QED
    BY <1>1, <2>1, <2>2
<1>5. \A i \in 1..Len(a) : a[i] \in Elems(a \o b)
  BY <1>1, <1>2 DEF Elems
<1>6. \A i \in 1..Len(b) : b[i] \in Elems(a \o b)
  <2>1. \A i \in 1..Len(b) : Len(a) + i \in 1..(Len(a) + Len(b))
    BY <1>1
  <2>2. QED
    BY <1>1, <1>3, <2>1 DEF Elems
<1>7. QED
  <2>1. Elems(a \o b) \subseteq Elems(a) \cup Elems(b)
    BY <1>1, <1>4 DEF Elems
  <2>2. Elems(a) \cup Elems(b) \subseteq Elems(a \o b)
    BY <1>1, <1>5, <1>6 DEF Elems
  <2>3. QED
    BY <1>1, <2>1, <2>2

\* A file that assigns each setting its value, wherever it mentions it.
Says(lines, s) ==
    /\ lines \in Seq(Line)
    /\ \A l \in Elems(lines) : l.key \in Known => l = Assign(l.key, s[l.key])
    /\ \A k \in Known : \E l \in Elems(lines) : l.key = k

LEMMA SaysReads ==
  ASSUME NEW lines, NEW s \in Settings, Says(lines, s)
  PROVE  ParseSettings(lines, DEFAULTS) = s
<1> DEFINE says(k) == {i \in DOMAIN lines : ParseLine(lines[i]).key = k /\ ~ParseLine(lines[i]).problem}
<1>1. DOMAIN lines = 1..Len(lines) /\ Len(lines) \in Nat
  BY DEF Says
<1>2. \A i \in DOMAIN lines : lines[i] \in Elems(lines) /\ lines[i] \in Line
  BY DEF Says, Elems
<1>3. ASSUME NEW k \in Known
      PROVE  says(k) # {} /\ lines[Max(says(k))].value = s[k]
  <2>1. \A i \in DOMAIN lines : lines[i].key = k => lines[i] = Assign(k, s[k])
    BY <1>2 DEF Says
  <2>2. Assign(k, s[k]).key = k /\ Assign(k, s[k]).value = s[k] /\ Assign(k, s[k]).shape = "assign"
    BY DEF Assign
  <2>3. \A i \in DOMAIN lines : lines[i].key = k => i \in says(k)
    BY <2>1, <2>2 DEF ParseLine
  <2>4. \A i \in says(k) : i \in DOMAIN lines /\ lines[i].key = k
    BY DEF ParseLine
  <2>5. \E i \in DOMAIN lines : lines[i].key = k
    BY DEF Says, Elems
  <2>6. says(k) # {} /\ says(k) \in SUBSET (0..Len(lines))
    BY <1>1, <2>3, <2>5
  <2>7. Max(says(k)) \in says(k)
    <3> HIDE DEF says
    <3> QED
      BY <1>1, <2>6, Greatest
  <2>8. QED
    BY <2>1, <2>2, <2>4, <2>6, <2>7
<1>4. ParseSettings(lines, DEFAULTS) = [k \in Known |-> s[k]]
  <2>1. ParseSettings(lines, DEFAULTS) = [k \in Known |-> IF says(k) = {} THEN DEFAULTS[k] ELSE lines[Max(says(k))].value]
    BY DEF ParseSettings
  <2> HIDE DEF says
  <2>2. QED
    BY <2>1, <1>3
<1>5. QED
  BY <1>4 DEF Settings

LEMMA Assigned ==
  ASSUME NEW s \in Settings, NEW k \in Known
  PROVE  Assign(k, s[k]) \in Line
  BY DEF Settings, Assign, Line, AnyText

\* What the render adds at the end: an assignment of each setting no line mentions.
LEMMA AppendedSays ==
  ASSUME NEW lines \in Seq(Line), NEW s \in Settings
  PROVE  /\ Appended(lines, s) \in Seq(Line)
         /\ Elems(Appended(lines, s)) =
              {Assign(k, s[k]) : k \in {j \in Known : \A i \in DOMAIN lines : lines[i].key # j}}
<1> DEFINE One(k) == IF \A i \in DOMAIN lines : lines[i].key # k THEN <<Assign(k, s[k])>> ELSE <<>>
           New(k) == IF \A i \in DOMAIN lines : lines[i].key # k THEN {Assign(k, s[k])} ELSE {}
<1>1. ASSUME NEW k \in Known
      PROVE  One(k) \in Seq(Line) /\ Elems(One(k)) = New(k)
  <2>1. Assign(k, s[k]) \in Line
    BY Assigned
  <2>2. <<Assign(k, s[k])>> \in Seq(Line) /\ Elems(<<Assign(k, s[k])>>) = {Assign(k, s[k])}
    <3> DEFINE a == Assign(k, s[k])
    <3>1. a \in Line
      BY <2>1
    <3> HIDE DEF a
    <3>2. <<a>> \in Seq(Line) /\ DOMAIN <<a>> = {1} /\ <<a>>[1] = a
      BY <3>1
    <3>3. Elems(<<a>>) = {a}
      BY <3>2 DEF Elems
    <3>4. QED
      BY <3>2, <3>3 DEF a
  <2>3. <<>> \in Seq(Line) /\ Elems(<<>>) = {}
    BY DEF Elems
  <2>4. QED
    BY <2>2, <2>3
<1>2. Appended(lines, s) = One("JUPYTER_PASSWORD") \o One("JUPYTER_PORT") \o One("STATS_ENABLED")
                              \o One("STATS_PORT") \o One("HTTPS")
  BY DEF Appended
<1> HIDE DEF One
<1>3. /\ Appended(lines, s) \in Seq(Line)
      /\ Elems(Appended(lines, s)) = New("JUPYTER_PASSWORD") \cup New("JUPYTER_PORT") \cup New("STATS_ENABLED")
                                        \cup New("STATS_PORT") \cup New("HTTPS")
  <2> HIDE DEF New
  <2>1. \A k \in Known : One(k) \in Seq(Line) /\ Elems(One(k)) = New(k)
    BY <1>1
  <2>2. LET a == One("JUPYTER_PASSWORD") \o One("JUPYTER_PORT")
        IN  a \in Seq(Line) /\ Elems(a) = New("JUPYTER_PASSWORD") \cup New("JUPYTER_PORT")
    BY <2>1, Concats, KnownKeys
  <2>3. LET a == One("JUPYTER_PASSWORD") \o One("JUPYTER_PORT") \o One("STATS_ENABLED")
        IN  a \in Seq(Line)
            /\ Elems(a) = New("JUPYTER_PASSWORD") \cup New("JUPYTER_PORT") \cup New("STATS_ENABLED")
    BY <2>1, <2>2, Concats, KnownKeys
  <2>4. LET a == One("JUPYTER_PASSWORD") \o One("JUPYTER_PORT") \o One("STATS_ENABLED") \o One("STATS_PORT")
        IN  a \in Seq(Line)
            /\ Elems(a) = New("JUPYTER_PASSWORD") \cup New("JUPYTER_PORT") \cup New("STATS_ENABLED")
                              \cup New("STATS_PORT")
    BY <2>1, <2>3, Concats, KnownKeys
  <2> DEFINE front == One("JUPYTER_PASSWORD") \o One("JUPYTER_PORT") \o One("STATS_ENABLED") \o One("STATS_PORT")
             last  == One("HTTPS")
  <2>5. front \in Seq(Line) /\ Elems(front) = New("JUPYTER_PASSWORD") \cup New("JUPYTER_PORT")
                                                 \cup New("STATS_ENABLED") \cup New("STATS_PORT")
    BY <2>4
  <2>6. last \in Seq(Line) /\ Elems(last) = New("HTTPS")
    BY <2>1, KnownKeys
  <2>7. Appended(lines, s) = front \o last
    BY <1>2
  <2> HIDE DEF front, last
  <2>8. Appended(lines, s) \in Seq(Line) /\ Elems(Appended(lines, s)) = Elems(front) \cup Elems(last)
    BY <2>5, <2>6, <2>7, Concats
  <2>9. QED
    BY <2>5, <2>6, <2>8
<1>4. QED
  BY <1>3, KnownKeys

\* What render_settings returns assigns every setting its value and adds no line that
\* cannot be read.
LEMMA Rendered ==
  ASSUME NEW lines \in Seq(Line), NEW s \in Settings
  PROVE  Says(RenderSettings(lines, s), s)
<1> DEFINE body == [i \in DOMAIN lines |->
                      IF lines[i].key \in Known THEN Assign(lines[i].key, s[lines[i].key]) ELSE lines[i]]
           tail == Appended(lines, s)
<1>1. DOMAIN lines = 1..Len(lines) /\ Len(lines) \in Nat /\ \A i \in DOMAIN lines : lines[i] \in Line
  OBVIOUS
<1>2. \A i \in DOMAIN lines : body[i] \in Line
  BY <1>1, Assigned
<1>3. body \in Seq(Line) /\ DOMAIN body = DOMAIN lines
  <2>1. DOMAIN body = 1..Len(lines)
    BY <1>1
  <2> HIDE DEF body
  <2>2. body \in [1..Len(lines) -> Line]
    <3>1. body = [i \in 1..Len(lines) |-> body[i]]
      BY <2>1 DEF body
    <3>2. QED
      BY <1>1, <1>2, <2>1, <3>1
  <2>3. QED
    BY <1>1, <2>1, <2>2, SeqDef
<1>4. RenderSettings(lines, s) = body \o tail
  BY DEF RenderSettings
<1>5. /\ RenderSettings(lines, s) \in Seq(Line)
      /\ Elems(RenderSettings(lines, s)) = Elems(body) \cup Elems(tail)
  <2> HIDE DEF body, tail
  <2>1. tail \in Seq(Line)
    BY AppendedSays DEF tail
  <2>2. QED
    BY <1>3, <1>4, <2>1, Concats
<1>6. ASSUME NEW l \in Elems(RenderSettings(lines, s)), l.key \in Known
      PROVE  l = Assign(l.key, s[l.key])
  <2>1. CASE l \in Elems(body)
    <3>1. PICK i \in DOMAIN lines : l = body[i]
      BY <2>1, <1>3 DEF Elems
    <3>2. lines[i].key \in Known => l = Assign(lines[i].key, s[lines[i].key]) /\ l.key = lines[i].key
      BY <3>1 DEF Assign
    <3>3. lines[i].key \notin Known => l = lines[i]
      BY <3>1
    <3>4. QED
      BY <1>6, <3>2, <3>3
  <2>2. CASE l \in Elems(tail)
    <3>1. PICK k \in Known : l = Assign(k, s[k])
      BY <2>2, AppendedSays
    <3>2. l.key = k
      BY <3>1 DEF Assign
    <3>3. QED
      BY <3>1, <3>2
  <2>3. QED
    BY <1>5, <2>1, <2>2
<1>7. ASSUME NEW k \in Known
      PROVE  \E l \in Elems(RenderSettings(lines, s)) : l.key = k
  <2>1. Assign(k, s[k]).key = k
    BY DEF Assign
  <2>2. CASE \E i \in DOMAIN lines : lines[i].key = k
    <3>1. PICK i \in DOMAIN lines : lines[i].key = k
      BY <2>2
    <3>2. body[i] = Assign(k, s[k]) /\ body[i] \in Elems(body)
      BY <3>1, <1>3 DEF Elems
    <3>3. QED
      BY <1>5, <2>1, <3>2
  <2>3. CASE \A i \in DOMAIN lines : lines[i].key # k
    <3>1. Assign(k, s[k]) \in Elems(tail)
      BY <2>3, AppendedSays
    <3>2. QED
      BY <1>5, <2>1, <3>1
  <2>4. QED
    BY <2>2, <2>3
<1>8. QED
  BY <1>5, <1>6, <1>7 DEF Says

\* What is read from a file is a setting's text, whatever its lines are.
LEMMA ParseTyped ==
  ASSUME NEW lines \in Seq(Line)
  PROVE  ParseSettings(lines, DEFAULTS) \in Settings
<1> DEFINE says(k) == {i \in DOMAIN lines : ParseLine(lines[i]).key = k /\ ~ParseLine(lines[i]).problem}
<1>1. DOMAIN lines = 1..Len(lines) /\ Len(lines) \in Nat /\ \A i \in DOMAIN lines : lines[i].value \in AnyText
  <2>1. DOMAIN lines = 1..Len(lines) /\ Len(lines) \in Nat /\ \A i \in DOMAIN lines : lines[i] \in Line
    OBVIOUS
  <2>2. \A l \in Line : l.value \in AnyText
    BY DEF Line
  <2>3. QED
    BY <2>1, <2>2
<1>2. ASSUME NEW k \in Known
      PROVE  (IF says(k) = {} THEN DEFAULTS[k] ELSE lines[Max(says(k))].value) \in AnyText
  <2>1. CASE says(k) = {}
    BY <2>1 DEF AnyText
  <2>2. CASE says(k) # {}
    <3>1. says(k) \in SUBSET (0..Len(lines)) /\ says(k) \subseteq DOMAIN lines
      BY <1>1
    <3>2. Max(says(k)) \in says(k)
      <4> HIDE DEF says
      <4> QED
        BY <1>1, <2>2, <3>1, Greatest
    <3>3. QED
      BY <1>1, <2>2, <3>1, <3>2
  <2>3. QED
    BY <2>1, <2>2
<1>3. ParseSettings(lines, DEFAULTS) = [k \in Known |-> IF says(k) = {} THEN DEFAULTS[k] ELSE lines[Max(says(k))].value]
  BY DEF ParseSettings
<1> HIDE DEF says
<1>4. QED
  BY <1>2, <1>3 DEF Settings

LEMMA DefaultsTyped == DEFAULTS \in Settings
<1>1. DEFAULTS = [k \in Known |-> DEFAULTS[k]]
  BY DEF DEFAULTS, Known
<1>2. QED
  BY <1>1 DEF Settings, AnyText

\* What the form starts from when there is no config.yaml.
LEMMA LoadTyped ==
  ASSUME NEW e \in Envs
  PROVE  /\ LoadSettingsFile(e) \in Settings
         /\ \A k \in Ports : CheckPort(LoadSettingsFile(e)[k])
         /\ LoadSettingsFile(e).STATS_ENABLED \in {"0", "1"}
<1>1. \A k \in Ports : CheckPort(DEFAULTS[k])
  <2>1. DEFAULTS["JUPYTER_PORT"] = "8888" /\ DEFAULTS["STATS_PORT"] = "8889"
    BY DEF DEFAULTS
  <2>2. QED
    BY <2>1 DEF Ports, CheckPort, IsPort, Strip
<1>2. CASE e.state \in {"unreadable", "latin1"}
  BY <1>1, <1>2, DefaultsTyped DEF LoadSettingsFile, DEFAULTS
<1>3. CASE e.state \notin {"unreadable", "latin1"}
  <2> DEFINE s == ParseSettings(e.lines, DEFAULTS)
             Of(k) == CASE k \in Ports         -> IF CheckPort(s[k]) THEN s[k] ELSE DEFAULTS[k]
                        [] k = "STATS_ENABLED" -> IF NormalizeBool(s[k]) # "" THEN NormalizeBool(s[k]) ELSE "0"
                        [] OTHER               -> s[k]
  <2>1. s \in Settings
    BY ParseTyped DEF Envs
  <2>2. LoadSettingsFile(e) = [k \in Known |-> Of(k)]
    BY <1>3 DEF LoadSettingsFile
  <2> HIDE DEF s
  <2>3. ASSUME NEW k \in Known
        PROVE  Of(k) \in AnyText /\ (k \in Ports => CheckPort(Of(k))) /\ (k = "STATS_ENABLED" => Of(k) \in {"0", "1"})
    <3>1. CASE k \in Ports
      BY <1>1, <2>1, <3>1, DefaultsTyped DEF Settings, Ports
    <3>2. CASE k = "STATS_ENABLED"
      BY <2>1, <3>2 DEF NormalizeBool, AnyText, Ports
    <3>3. CASE k \notin Ports /\ k # "STATS_ENABLED"
      BY <2>1, <3>3 DEF Settings
    <3>4. QED
      BY <3>1, <3>2, <3>3
  <2> HIDE DEF Of
  <2>4. Ports \subseteq Known /\ "STATS_ENABLED" \in Known
    BY KnownKeys DEF Ports
  <2>5. QED
    BY <2>2, <2>3, <2>4 DEF Settings
<1>4. QED
  BY <1>2, <1>3

\* The settings of any config.yaml are settings, its switch is 0 or 1.
LEMMA ConfigTyped ==
  ASSUME NEW c \in Configs
  PROVE  /\ ConfigSettings(c) \in Settings
         /\ ConfigSettings(c).STATS_ENABLED \in {"0", "1"}
<1> DEFINE Of(k) == IF c.nodes[k] = Null \/ k \in ConfigProblems(c) THEN DEFAULTS[k] ELSE Convert(k, c.nodes[k])
<1>1. ASSUME NEW k \in Known
      PROVE  Of(k) \in AnyText
  <2>1. DEFAULTS[k] \in AnyText
    BY DEF AnyText
  <2>2. c.nodes[k].v \in AnyText
    BY DEF Configs, Nodes
  <2>3. Convert(k, c.nodes[k]) \in AnyText
    BY <2>2 DEF Convert, NormalizeBool, AnyText
  <2>4. QED
    BY <2>1, <2>3
<1>2. Of("STATS_ENABLED") \in {"0", "1"}
  <2>1. DEFAULTS["STATS_ENABLED"] = "1" /\ "STATS_ENABLED" \in Known
    BY KnownKeys DEF DEFAULTS
  <2>2. CASE c.nodes["STATS_ENABLED"] = Null \/ "STATS_ENABLED" \in ConfigProblems(c)
    BY <2>1, <2>2
  <2>3. CASE ~(c.nodes["STATS_ENABLED"] = Null \/ "STATS_ENABLED" \in ConfigProblems(c))
    <3>1. Converts("STATS_ENABLED", c.nodes["STATS_ENABLED"])
      BY <2>1, <2>3 DEF ConfigProblems
    <3>2. NormalizeBool(c.nodes["STATS_ENABLED"].v) # ""
      BY <3>1 DEF Converts, Ports
    <3>3. QED
      BY <2>3, <3>2 DEF Convert, NormalizeBool
  <2>4. QED
    BY <2>2, <2>3
<1>3. ConfigSettings(c) = [k \in Known |-> Of(k)]
  BY DEF ConfigSettings
<1> HIDE DEF Of
<1>4. QED
  BY <1>1, <1>2, <1>3, KnownKeys DEF Settings

\* render_config against parse_config: what is written is read back as it was, without a
\* problem, whether YAML took it for a number, a switch or a text.
LEMMA ReadsBack ==
  ASSUME NEW s \in Settings, NEW imports,
         s.HTTPS \in HttpsModes, \A k \in Ports : CheckPort(s[k]), s.STATS_ENABLED \in {"0", "1"},
         imports # "unparsable"
  PROVE  /\ RenderConfig(s, imports).state = "yaml"
         /\ ConfigProblems(RenderConfig(s, imports)) = {}
         /\ ConfigSettings(RenderConfig(s, imports)) = s
<1> DEFINE c == RenderConfig(s, imports)
           n(k) == CASE k = "STATS_ENABLED" -> Node("bool", IF s[k] = "1" THEN "1" ELSE "0")
                     [] k \in Ports -> Node(IF IsDigits(s[k]) THEN "int" ELSE "str", s[k])
                     [] OTHER -> Node("str", s[k])
<1>1. c.state = "yaml" /\ c.imports = imports /\ \A k \in Known : c.nodes[k] = n(k)
  BY DEF RenderConfig
<1>2. ASSUME NEW k \in Known
      PROVE  n(k) # Null /\ Converts(k, n(k)) /\ Convert(k, n(k)) = s[k]
  <2>1. CASE k = "STATS_ENABLED"
    BY <2>1 DEF Node, Null, Converts, Convert, NormalizeBool, Ports
  <2>2. CASE k \in Ports
    BY <2>2 DEF Node, Null, Converts, Convert, Ports
  <2>3. CASE k = "JUPYTER_PASSWORD"
    BY <2>3 DEF Node, Null, Converts, Convert, Ports
  <2>4. CASE k = "HTTPS"
    BY <2>4 DEF Node, Null, Converts, Convert, Ports
  <2>5. QED
    BY <2>1, <2>2, <2>3, <2>4, KnownKeys DEF Ports
<1> HIDE DEF c, n
<1>3. ConfigProblems(c) = {}
  BY <1>1, <1>2 DEF ConfigProblems
<1>4. ConfigSettings(c) = [k \in Known |-> s[k]]
  BY <1>1, <1>2, <1>3 DEF ConfigSettings
<1>5. QED
  BY <1>1, <1>3, <1>4 DEF Settings, c

----------------------------------------------------------------------------
(* Saved, then read                                                        *)

Using == [settings : Settings, imports : {"none", "ok", "unplannable", "unparsable"}, usable : BOOLEAN]

CommandTypes ==
    /\ env \in Envs /\ config \in Configs /\ saved \in Settings
    /\ at = [run |-> at.run, builder |-> at.builder]
    /\ using \in [Programs -> Using] /\ text \in [Programs -> Seq(Line)]

\* What a program works with has passed the checks by the time it saves; what it is about
\* to write says just that.
Checked ==
    /\ using["builder"].settings.STATS_ENABLED \in {"0", "1"} /\ using["builder"].imports # "unparsable"
    /\ at.run \in {"plan", "packages", "save", "replace"} => Valid(using["run"].settings)
    /\ at.builder \in {"save", "replace", "config"} => Valid(using["builder"].settings)
    /\ \A p \in Programs :
          at[p] = "replace" => Says(text[p], using[p].settings) /\ LineProblems(text[p]) = {}

\* From then on, as long as a program is on its way to the installer, the .env says what
\* was last saved: only another checked save may replace it.
Past == \/ at.builder \in {"config", "copy", "installer"}
        \/ at.run = "copy" /\ cmd = "install"
        \/ at.run = "installer" /\ cmd \in Applying

EnvSays == env.state = "utf8" /\ Says(env.lines, saved) /\ LineProblems(env.lines) = {} /\ Valid(saved)

SavedInv ==
    /\ CommandTypes /\ Checked
    /\ at.run = "copy" => cmd \in {"install", "import"}
    /\ Past => EnvSays
    /\ ConfigReadsBack

LEMMA SavedImplies == SavedInv => SavedIsRead
<1> SUFFICES ASSUME SavedInv PROVE SavedIsRead
  OBVIOUS
<1>1. ASSUME NEW p \in Programs, Deploying(p), \A k \in Ports : saved[k] = Strip(saved[k])
      PROVE  /\ env.state = "utf8" /\ InstallerAccepts(env.lines)
             /\ InstallerValues(env.lines) = [saved EXCEPT !.STATS_ENABLED = NormalizeBool(@)]
  <2>1. EnvSays
    BY <1>1 DEF SavedInv, Past, Deploying, Programs
  <2>2. ParseSettings(env.lines, DEFAULTS) = saved
    BY <2>1, SaysReads DEF EnvSays, SavedInv, CommandTypes
  <2>3. \A k \in Ports : IsPort(saved[k])
    BY <1>1, <2>1 DEF EnvSays, Valid, CheckPort
  <2>4. QED
    BY <2>1, <2>2, <2>3 DEF EnvSays, InstallerAccepts, InstallerValues
<1>2. QED
  BY <1>1 DEF SavedInv, SavedIsRead, InstallerReadsSaved

LEMMA SavedInit == Init => SavedInv
<1> SUFFICES ASSUME Init PROVE SavedInv
  OBVIOUS
<1>1. CommandTypes
  <2>1. Nothing \in Using
    BY DefaultsTyped DEF Nothing, Using
  <2>2. <<>> \in Seq(Line)
    OBVIOUS
  <2>3. QED
    BY <2>1, <2>2, DefaultsTyped, FilesAssumption DEF Init, CommandTypes
<1>2. Checked
  BY DEF Init, Checked, Nothing, DEFAULTS, Programs
<1>3. QED
  BY <1>1, <1>2 DEF Init, SavedInv, Past, ConfigReadsBack

\* What a program may do that moves and changes nothing these invariants speak of.
Allowed(p, step) ==
    /\ step # "replace"
    /\ p = "run" =>
          /\ step \in {"plan", "packages", "save"} => Valid(using["run"].settings)
          /\ step = "copy" => cmd = "import" \/ (cmd = "install" /\ Past)
          /\ step = "installer" /\ cmd \in Applying => Past
    /\ p = "builder" =>
          /\ step \in {"save", "config"} => Valid(using["builder"].settings)
          /\ step \in {"config", "copy", "installer"} => Past

LEMMA MovesOnly ==
  ASSUME SavedInv, NEW p \in Programs, NEW step, GoTo(p, step), Allowed(p, step),
         UNCHANGED <<env, config, cmd, using, text, saved, wrote>>
  PROVE  SavedInv'
<1>1. /\ at' = [run |-> at'.run, builder |-> at'.builder]
      /\ p = "run" => at'.run = step /\ at'.builder = at.builder
      /\ p = "builder" => at'.builder = step /\ at'.run = at.run
      /\ at'[p] = step /\ \A q \in Programs : q # p => at'[q] = at[q]
  BY Moved DEF SavedInv, CommandTypes
<1>2. CommandTypes'
  BY <1>1 DEF SavedInv, CommandTypes
<1>3. Checked'
  BY <1>1 DEF SavedInv, Checked, Allowed, Programs, LineProblems
<1>4. ConfigReadsBack'
  BY DEF SavedInv, ConfigReadsBack, ConfigProblems, ConfigSettings
<1>5. Past' => Past
  BY <1>1 DEF Allowed, Past, Programs
<1>6. EnvSays => EnvSays'
  BY DEF EnvSays, LineProblems
<1>7. (at.run = "copy" => cmd \in {"install", "import"})'
  BY <1>1 DEF SavedInv, Allowed, Programs
<1>8. QED
  BY <1>2, <1>3, <1>4, <1>5, <1>6, <1>7 DEF SavedInv

\* Every step of run.sh, of the builder and of a user keeps it.
LEMMA RunSaved ==
  ASSUME SavedInv, NEW c \in Commands, Run(c)
  PROVE  SavedInv'
<1>1. PICK step : GoTo("run", step) /\ step \in {"idle", "ensure", "installer", "read"}
                  /\ (step = "installer" => c \in Passing)
  BY DEF Run, Exit
<1>2. UNCHANGED <<env, config, using, text, saved, wrote>> /\ at.run = "idle" /\ cmd' = c
  BY DEF Run, files
<1>3. /\ at' = [run |-> at'.run, builder |-> at'.builder]
      /\ at'.run = step /\ at'.builder = at.builder
      /\ at'["run"] = step /\ at'["builder"] = at["builder"]
  BY <1>1, Moved DEF SavedInv, CommandTypes, Programs
<1>4. CommandTypes'
  BY <1>2, <1>3 DEF SavedInv, CommandTypes
<1>5. Checked'
  BY <1>1, <1>2, <1>3 DEF SavedInv, Checked, Programs, LineProblems
<1>6. ConfigReadsBack'
  BY <1>2 DEF SavedInv, ConfigReadsBack, ConfigProblems, ConfigSettings
<1>7. Past' => Past
  BY <1>1, <1>2, <1>3 DEF Past, Passing, Applying
<1>8. EnvSays => EnvSays'
  BY <1>2 DEF EnvSays, LineProblems
<1>9. QED
  BY <1>1, <1>3, <1>4, <1>5, <1>6, <1>7, <1>8 DEF SavedInv

LEMMA ConfigSaved ==
  ASSUME SavedInv, NEW p \in Programs, NEW step, GoTo(p, step), Allowed(p, step),
         NEW s \in Settings, NEW imports \in {"none", "ok", "unplannable"},
         s.STATS_ENABLED \in {"0", "1"}, \A k \in Ports : CheckPort(s[k]),
         config' = RenderConfig(s, imports), wrote' = {s},
         UNCHANGED <<env, cmd, using, text, saved>>
  PROVE  SavedInv'
<1>1. /\ at' = [run |-> at'.run, builder |-> at'.builder]
      /\ p = "run" => at'.run = step /\ at'.builder = at.builder
      /\ p = "builder" => at'.builder = step /\ at'.run = at.run
      /\ at'[p] = step /\ \A q \in Programs : q # p => at'[q] = at[q]
  BY Moved DEF SavedInv, CommandTypes
<1>2. CommandTypes'
  <2>1. RenderConfig(s, imports) \in Configs
    <3>1. \A k \in Known : s[k] \in AnyText
      BY DEF Settings
    <3>2. \A k \in Known :
            (CASE k = "STATS_ENABLED" -> Node("bool", IF s[k] = "1" THEN "1" ELSE "0")
               [] k \in Ports -> Node(IF IsDigits(s[k]) THEN "int" ELSE "str", s[k])
               [] OTHER -> Node("str", s[k])) \in Nodes
      BY <3>1 DEF Node, Nodes, AnyText
    <3>3. QED
      BY <3>2 DEF RenderConfig, Configs
  <2>2. QED
    BY <1>1, <2>1 DEF SavedInv, CommandTypes
<1>3. Checked'
  BY <1>1 DEF SavedInv, Checked, Allowed, Programs, LineProblems
<1>4. ConfigReadsBack'
  BY ReadsBack DEF ConfigReadsBack
<1>5. Past' => Past
  BY <1>1 DEF Allowed, Past, Programs
<1>6. EnvSays => EnvSays'
  BY DEF EnvSays, LineProblems
<1>7. (at.run = "copy" => cmd \in {"install", "import"})'
  BY <1>1 DEF SavedInv, Allowed, Programs
<1>8. QED
  BY <1>2, <1>3, <1>4, <1>5, <1>6, <1>7 DEF SavedInv

\* Another program works with other settings: nothing else may have begun with them.
LEMMA UsesOther ==
  ASSUME SavedInv, NEW p \in Programs, NEW u \in Using, using' = [using EXCEPT ![p] = u],
         at' = [run |-> at'.run, builder |-> at'.builder],
         \A q \in Programs : q # p => at'[q] = at[q],
         at'[p] # "replace",
         p = "builder" => /\ u.settings.STATS_ENABLED \in {"0", "1"} /\ u.imports # "unparsable"
                          /\ at'.builder = "open",
         p = "run" => /\ at'.run \in {"save", "packages", "plan", "installer"}
                      /\ at'.run # "installer" => Valid(u.settings)
                      /\ at'.run = "installer" => cmd \notin Applying,
         UNCHANGED <<env, config, cmd, text, saved, wrote>>
  PROVE  SavedInv'
<1>1. /\ using' \in [Programs -> Using] /\ using'[p] = u
      /\ \A q \in Programs : q # p => using'[q] = using[q]
  BY DEF SavedInv, CommandTypes
<1>2. CommandTypes'
  BY <1>1 DEF SavedInv, CommandTypes
<1>3. Checked'
  BY <1>1 DEF SavedInv, Checked, Programs, LineProblems
<1>4. ConfigReadsBack'
  BY DEF SavedInv, ConfigReadsBack, ConfigProblems, ConfigSettings
<1>5. Past' => Past
  BY <1>1 DEF Past, Programs
<1>6. EnvSays => EnvSays'
  BY DEF EnvSays, LineProblems
<1>7. (at.run = "copy" => cmd \in {"install", "import"})'
  BY <1>1 DEF SavedInv, Programs
<1>8. QED
  BY <1>2, <1>3, <1>4, <1>5, <1>6, <1>7 DEF SavedInv

LEMMA EnsureSaved ==
  ASSUME SavedInv, EnsureConfig
  PROVE  SavedInv'
<1>1. PICK step \in {"idle", "read"} : GoTo("run", step)
  BY DEF EnsureConfig, Exit
<1>2. Allowed("run", step)
  BY <1>1 DEF Allowed
<1>3. UNCHANGED <<env, cmd, using, text, saved>>
  BY DEF EnsureConfig
<1>4. CASE UNCHANGED <<config, wrote>>
  BY <1>1, <1>2, <1>3, <1>4, MovesOnly DEF Programs
<1>5. CASE Created
  <2>1. env \in Envs
    BY DEF SavedInv, CommandTypes
  <2>2. QED
    BY <1>1, <1>2, <1>3, <1>5, <2>1, LoadTyped, ConfigSaved DEF Programs, Created
<1>6. QED
  BY <1>4, <1>5 DEF EnsureConfig

LEMMA ReadSaved ==
  ASSUME SavedInv, ReadConfig
  PROVE  SavedInv'
<1> DEFINE lenient == cmd \in Passing
           usable  == config.state = "yaml"
           clean   == usable /\ ConfigProblems(config) = {} /\ Valid(ConfigSettings(config))
           u       == [settings |-> ConfigSettings(config), imports |-> config.imports, usable |-> TRUE]
           next    == CASE lenient -> "installer" [] cmd = "start" -> "save"
                        [] cmd = "check" -> "packages" [] OTHER -> "plan"
<1>1. CASE clean \/ (lenient /\ usable)
  <2>1. /\ using' = [using EXCEPT ![ "run"] = u] /\ GoTo("run", next)
        /\ UNCHANGED <<env, config, cmd, text, saved, wrote>>
    BY <1>1 DEF ReadConfig, files, history
  <2>2. u \in Using
    <3>1. config \in Configs /\ config.imports # "none" => config.imports \in {"ok", "unplannable", "unparsable"}
      BY DEF SavedInv, CommandTypes, Configs
    <3>2. QED
      BY <3>1, ConfigTyped DEF SavedInv, CommandTypes, Using, Configs
  <2>3. lenient => cmd \notin Applying
    BY DEF Passing, Applying
  <2>4. next \in {"save", "packages", "plan", "installer"} /\ (next = "installer" <=> lenient)
    BY DEF Passing
  <2>5. ~lenient => Valid(u.settings)
    BY <1>1
  <2>6. /\ at' = [run |-> at'.run, builder |-> at'.builder] /\ at'.run = next /\ at'["run"] = next
        /\ \A q \in Programs : q # "run" => at'[q] = at[q]
    BY <2>1, Moved DEF SavedInv, CommandTypes, Programs
  <2> HIDE DEF u, next, lenient, clean, usable
  <2>7. "run" \in Programs /\ at'["run"] # "replace"
    BY <2>4, <2>6 DEF Programs
  <2>8. at'.run \in {"save", "packages", "plan", "installer"}
    BY <2>4, <2>6
  <2>9. (at'.run # "installer" => Valid(u.settings)) /\ (at'.run = "installer" => cmd \notin Applying)
    BY <2>3, <2>4, <2>5, <2>6
  <2>10. QED
    BY <2>1, <2>2, <2>6, <2>7, <2>8, <2>9, UsesOther
<1>2. CASE ~(clean \/ (lenient /\ usable)) /\ lenient
  <2>1. GoTo("run", "installer") /\ UNCHANGED <<env, config, cmd, using, text, saved, wrote>>
    BY <1>2 DEF ReadConfig, Keep, files, history
  <2>2. Allowed("run", "installer")
    BY <1>2 DEF Allowed, Passing, Applying
  <2>3. QED
    BY <2>1, <2>2, MovesOnly DEF Programs
<1>3. CASE ~(clean \/ (lenient /\ usable)) /\ ~lenient
  <2>1. GoTo("run", "idle") /\ UNCHANGED <<env, config, cmd, using, text, saved, wrote>>
    BY <1>3 DEF ReadConfig, ExitOnly, Exit, files, history
  <2>2. QED
    BY <2>1, MovesOnly DEF Programs, Allowed
<1>4. QED
  BY <1>1, <1>2, <1>3

\* save_settings: what is checked here is what the rename brings.
LEMMA CheckedSaved ==
  ASSUME SavedInv, NEW p \in Programs, SaveChecked(p)
  PROVE  SavedInv'
<1> DEFINE lines == RenderSettings(env.lines, using[p].settings)
<1>1. CASE Refused(p)
  BY <1>1, MovesOnly DEF Refused, ExitOnly, Exit, Programs, Allowed, files, history
<1>2. CASE /\ LineProblems(lines) = {} /\ text' = [text EXCEPT ![p] = lines] /\ GoTo(p, "replace")
           /\ UNCHANGED <<files, cmd, using, code, edits, commands, history>>
  <2>1. env.lines \in Seq(Line) /\ using[p].settings \in Settings
    BY DEF SavedInv, CommandTypes, Envs, Using
  <2>2. Says(lines, using[p].settings) /\ lines \in Seq(Line)
    BY <2>1, Rendered DEF Says
  <2>3. UNCHANGED <<env, config, cmd, using, saved, wrote>> /\ at[p] = "save"
    BY <1>2 DEF files, history, SaveChecked
  <2>4. text' \in [Programs -> Seq(Line)] /\ text'[p] = lines /\ \A q \in Programs : q # p => text'[q] = text[q]
    BY <1>2, <2>2 DEF SavedInv, CommandTypes
  <2> HIDE DEF lines
  <2>5. /\ at' = [run |-> at'.run, builder |-> at'.builder]
        /\ p = "run" => at'.run = "replace" /\ at'.builder = at.builder
        /\ p = "builder" => at'.builder = "replace" /\ at'.run = at.run
        /\ at'[p] = "replace" /\ \A q \in Programs : q # p => at'[q] = at[q]
    BY <1>2, Moved DEF SavedInv, CommandTypes
  <2>6. CommandTypes'
    BY <2>3, <2>4, <2>5 DEF SavedInv, CommandTypes
  <2>7. Checked'
    <3>1. at.run = "save" \/ at.builder = "save"
      BY <2>3 DEF Programs
    <3>2. \A q \in Programs :
            at'[q] = "replace" => Says(text'[q], using'[q].settings) /\ LineProblems(text'[q]) = {}
      BY <1>2, <2>2, <2>3, <2>4, <2>5 DEF SavedInv, Checked
    <3>3. QED
      BY <2>3, <2>5, <3>2 DEF SavedInv, Checked, Programs
  <2>8. ConfigReadsBack'
    BY <2>3 DEF SavedInv, ConfigReadsBack
  <2>9. Past' => Past
    BY <2>3, <2>5 DEF Past, Programs
  <2>10. EnvSays => EnvSays'
    BY <2>3 DEF EnvSays
  <2>11. QED
    BY <2>3, <2>5, <2>6, <2>7, <2>8, <2>9, <2>10 DEF SavedInv, Programs
<1>3. QED
  BY <1>1, <1>2 DEF SaveChecked

LEMMA ReplaceSaved ==
  ASSUME SavedInv, NEW p \in Programs, Replace(p)
  PROVE  SavedInv'
<1>1. CASE Refused(p)
  BY <1>1, MovesOnly DEF Refused, ExitOnly, Exit, Programs, Allowed, files, history
<1>2. CASE ~Refused(p)
  <2>1. /\ env' = [state |-> "utf8", lines |-> text[p]] /\ saved' = using[p].settings
        /\ UNCHANGED <<config, cmd, using, text, wrote>> /\ at[p] = "replace"
    BY <1>2 DEF Replace, Renamed
  <2>2. PICK step \in {"idle", "open", "config", "copy", "installer"} :
           /\ GoTo(p, step)
           /\ p = "builder" => step \in {"open", "config"}
           /\ p = "run" => step \notin {"open", "config"} /\ (step = "copy" => cmd = "install")
    BY <1>2 DEF Replace, Exit, Programs
  <2>3. /\ at' = [run |-> at'.run, builder |-> at'.builder]
        /\ p = "run" => at'.run = step /\ at'.builder = at.builder
        /\ p = "builder" => at'.builder = step /\ at'.run = at.run
        /\ at'[p] = step /\ \A q \in Programs : q # p => at'[q] = at[q]
    BY <2>2, Moved DEF SavedInv, CommandTypes
  <2>4. Says(text[p], using[p].settings) /\ LineProblems(text[p]) = {} /\ Valid(using[p].settings)
    BY <2>1 DEF SavedInv, Checked, Programs
  <2>5. EnvSays'
    BY <2>1, <2>4 DEF EnvSays
  <2>6. CommandTypes'
    <3>1. using[p].settings \in Settings /\ text[p] \in Seq(Line)
      BY DEF SavedInv, CommandTypes, Using
    <3>2. QED
      BY <2>1, <2>3, <3>1 DEF SavedInv, CommandTypes, Envs
  <2>7. Checked'
    BY <2>1, <2>3, <2>4 DEF SavedInv, Checked, Programs
  <2>8. ConfigReadsBack'
    BY <2>1 DEF SavedInv, ConfigReadsBack
  <2>9. QED
    BY <2>1, <2>2, <2>3, <2>5, <2>6, <2>7, <2>8 DEF SavedInv, Programs
<1>3. QED
  BY <1>1, <1>2

LEMMA OtherUse ==
  ASSUME NEW r \in Using, NEW s, NEW b
  PROVE  /\ [r EXCEPT !.settings = s] = [settings |-> s, imports |-> r.imports, usable |-> r.usable]
         /\ [r EXCEPT !.usable = b] = [settings |-> r.settings, imports |-> r.imports, usable |-> b]
  BY DEF Using

\* The form: what it shows is its own until Deploy has checked it.
LEMMA OpenSaved ==
  ASSUME SavedInv, Open
  PROVE  SavedInv'
<1>1. PICK u : /\ using' = [using EXCEPT !["builder"] = u]
               /\ u \in Using /\ u.settings.STATS_ENABLED \in {"0", "1"} /\ u.imports # "unparsable"
  <2>1. config \in Configs /\ env \in Envs
    BY DEF SavedInv, CommandTypes
  <2>6. Nothing \in Using /\ Nothing.settings = DEFAULTS /\ Nothing.imports = "none" /\ Nothing.usable = TRUE
    BY DefaultsTyped DEF Nothing, Using
  <2>2. CASE config.state = "yaml"
    <3> DEFINE u == [settings |-> ConfigSettings(config), usable |-> TRUE,
                     imports |-> IF config.imports = "unparsable" THEN "none" ELSE config.imports]
    <3>1. using' = [using EXCEPT !["builder"] = u]
      BY <2>2 DEF Open, Use
    <3>2. u \in Using
      BY <2>1, ConfigTyped DEF Using, Configs
    <3>3. u.settings = ConfigSettings(config) /\ u.imports # "unparsable"
      OBVIOUS
    <3> HIDE DEF u
    <3>4. QED
      BY <2>1, <3>1, <3>2, <3>3, ConfigTyped
  <2>3. CASE config.state = "none"
    <3> DEFINE u == [Nothing EXCEPT !.settings = LoadSettingsFile(env)]
    <3>1. using' = [using EXCEPT !["builder"] = u]
      BY <2>3 DEF Open, Use
    <3>2. u = [settings |-> LoadSettingsFile(env), imports |-> "none", usable |-> TRUE]
      BY <2>6, OtherUse
    <3>3. QED
      BY <2>1, <3>1, <3>2, LoadTyped DEF Using
  <2>4. CASE config.state = "broken"
    <3> DEFINE u == [Nothing EXCEPT !.usable = FALSE]
    <3>1. using' = [using EXCEPT !["builder"] = u]
      BY <2>4 DEF Open, Use
    <3>2. u = [settings |-> DEFAULTS, imports |-> "none", usable |-> FALSE]
      BY <2>6, OtherUse
    <3>3. DEFAULTS.STATS_ENABLED = "1"
      BY DEF DEFAULTS
    <3>4. QED
      BY <3>1, <3>2, <3>3, DefaultsTyped DEF Using
  <2>5. QED
    BY <2>1, <2>2, <2>3, <2>4 DEF Configs
<1>2. /\ at' = [run |-> at'.run, builder |-> at'.builder] /\ at'.builder = "open" /\ at'["builder"] = "open"
      /\ \A q \in Programs : q # "builder" => at'[q] = at[q]
  BY Moved DEF Open, SavedInv, CommandTypes, Programs
<1>3. UNCHANGED <<env, config, cmd, text, saved, wrote>>
  BY DEF Open, files, history
<1>4. QED
  BY <1>1, <1>2, <1>3, UsesOther DEF Programs

LEMMA FormSaved ==
  ASSUME SavedInv, NEW f \in FormEdits, EditForm(f[1], f[2])
  PROVE  SavedInv'
<1> DEFINE u == [using.builder EXCEPT !.settings[f[1]] = f[2]]
<1>1. f[1] \in Known /\ f[2] \in AnyText /\ (f[1] = "STATS_ENABLED" => f[2] \in {"0", "1"})
  BY FilesAssumption
<1>2. using.builder \in Using /\ using.builder.settings \in Settings
  BY DEF SavedInv, CommandTypes, Programs, Using
<1>3. u = [settings |-> [using.builder.settings EXCEPT ![f[1]] = f[2]],
           imports |-> using.builder.imports, usable |-> using.builder.usable]
  BY <1>2 DEF Using
<1>4. u.settings \in Settings /\ u.settings.STATS_ENABLED \in {"0", "1"}
  <2>1. using.builder.settings.STATS_ENABLED \in {"0", "1"}
    BY DEF SavedInv, Checked
  <2>2. QED
    BY <1>1, <1>2, <1>3, <2>1, KnownKeys DEF Settings
<1>5. u \in Using /\ u.imports # "unparsable"
  BY <1>2, <1>3, <1>4 DEF Using, SavedInv, Checked
<1>6. using' = [using EXCEPT !["builder"] = u]
  BY DEF EditForm, Use
<1> HIDE DEF u
<1>7. UNCHANGED <<env, config, cmd, text, saved, wrote, at>> /\ at.builder = "open" /\ at["builder"] = "open"
  BY DEF EditForm, files
<1>8. at' = [run |-> at'.run, builder |-> at'.builder]
  BY <1>7 DEF SavedInv, CommandTypes
<1>9. QED
  BY <1>4, <1>5, <1>6, <1>7, <1>8, UsesOther DEF Programs

LEMMA SaveConfigSaved ==
  ASSUME SavedInv, SaveConfig
  PROVE  SavedInv'
<1>1. CASE Refused("builder")
  BY <1>1, MovesOnly DEF Refused, Programs, Allowed, files, history
<1>2. CASE ~Refused("builder")
  <2> DEFINE s == using.builder.settings
  <2>1. using.builder \in Using /\ s \in Settings /\ using.builder.imports \in {"none", "ok", "unplannable"}
    BY DEF SavedInv, CommandTypes, Checked, Programs, Using
  <2>2. at.builder = "config" /\ Valid(s) /\ s.STATS_ENABLED \in {"0", "1"}
    BY DEF SaveConfig, SavedInv, Checked
  <2>3. \A k \in Ports : CheckPort(s[k])
    BY <2>2 DEF Valid
  <2>4. PICK step \in {"open", "copy", "installer"} : GoTo("builder", step)
    BY <1>2 DEF SaveConfig
  <2>5. Allowed("builder", step)
    BY <2>2, <2>4 DEF Allowed, Past
  <2>6. /\ config' = RenderConfig(s, using.builder.imports) /\ wrote' = {s}
        /\ UNCHANGED <<env, cmd, using, text, saved>>
    BY <1>2 DEF SaveConfig
  <2> HIDE DEF s
  <2>7. QED
    BY <2>1, <2>2, <2>3, <2>4, <2>5, <2>6, ConfigSaved DEF Programs
<1>3. QED
  BY <1>1, <1>2

LEMMA SavedStep ==
  ASSUME SavedInv, [Next]_vars
  PROVE  SavedInv'
<1> USE DEF files, history, Programs
<1>1. CASE PlanImports
  <2>1. PICK step \in {"idle", "copy", "packages"} : GoTo("run", step) /\ (step = "copy" => cmd = "import")
    BY <1>1 DEF PlanImports, ExitOnly, Exit, Keep
  <2>2. UNCHANGED <<env, config, cmd, using, text, saved, wrote>>
    BY <1>1 DEF PlanImports, ExitOnly, Exit, Keep
  <2>3. Valid(using["run"].settings)
    BY <1>1 DEF PlanImports, SavedInv, Checked
  <2>4. QED
    BY <2>1, <2>2, <2>3, MovesOnly DEF Allowed
<1>2. CASE PackagesOk
  <2>1. PICK step \in {"idle", "save"} : GoTo("run", step)
    BY <1>2 DEF PackagesOk, ExitOnly, Exit, Keep
  <2>2. UNCHANGED <<env, config, cmd, using, text, saved, wrote>>
    BY <1>2 DEF PackagesOk, ExitOnly, Exit, Keep
  <2>3. Valid(using["run"].settings)
    BY <1>2 DEF PackagesOk, SavedInv, Checked
  <2>4. QED
    BY <2>1, <2>2, <2>3, MovesOnly DEF Allowed
<1>3. CASE RunInstaller
  BY <1>3, MovesOnly DEF RunInstaller, ExitOnly, Exit, Allowed
<1>4. ASSUME NEW p \in Programs, CopyImports(p)
      PROVE  SavedInv'
  <2>1. PICK step \in {"idle", "open", "installer"} :
           GoTo(p, step) /\ (p = "run" /\ step = "installer" => cmd # "import")
    BY <1>4 DEF CopyImports, Exit
  <2>2. UNCHANGED <<env, config, cmd, using, text, saved, wrote>> /\ at[p] = "copy"
    BY <1>4 DEF CopyImports
  <2>3. (p = "run" => cmd = "import" \/ (cmd = "install" /\ Past)) /\ (p = "builder" => Past)
    <3>1. CASE p = "run"
      <4>1. cmd \in {"install", "import"} /\ at.run = "copy"
        BY <2>2, <3>1 DEF SavedInv
      <4>2. QED
        BY <3>1, <4>1 DEF Past
    <3>2. CASE p = "builder"
      BY <2>2, <3>2 DEF Past
    <3>3. QED
      BY <3>1, <3>2
  <2>4. QED
    BY <2>1, <2>2, <2>3, MovesOnly DEF Allowed
<1>5. ASSUME NEW p \in Programs, Stops(p)
      PROVE  SavedInv'
  BY <1>5, MovesOnly DEF Stops, Allowed
<1>6. CASE Deploy
  <2>1. GoTo("builder", "save") /\ Valid(using["builder"].settings)
    BY <1>6 DEF Deploy
  <2>2. UNCHANGED <<env, config, cmd, using, text, saved, wrote>>
    BY <1>6 DEF Deploy
  <2>3. QED
    BY <2>1, <2>2, MovesOnly DEF Allowed
<1>7. CASE InstallerEnds
  BY <1>7, MovesOnly DEF InstallerEnds, Refused, Allowed
<1>8. ASSUME NEW c \in UserConfigs, EditConfig(c)
      PROVE  SavedInv'
  <2>1. /\ config' = c /\ wrote' = {} /\ UNCHANGED <<env, at, cmd, using, text, saved>> /\ c \in Configs
    BY <1>8, FilesAssumption DEF EditConfig
  <2>2. CommandTypes' /\ Checked' /\ (Past => EnvSays)'
    BY <2>1 DEF SavedInv, CommandTypes, Checked, Past, EnvSays
  <2>3. QED
    BY <2>1, <2>2 DEF SavedInv, ConfigReadsBack
<1>9. ASSUME NEW e \in UserEnvs, EditEnv(e)
      PROVE  SavedInv'
  <2>1. /\ env' = e /\ UNCHANGED <<config, at, cmd, using, text, saved, wrote>> /\ e \in Envs
        /\ at.run = "idle" /\ at.builder \in {"closed", "open"}
    BY <1>9, FilesAssumption DEF EditEnv
  <2>2. CommandTypes' /\ Checked' /\ ~Past' /\ ConfigReadsBack'
    BY <2>1 DEF SavedInv, CommandTypes, Checked, Past, ConfigReadsBack
  <2>3. QED
    BY <2>1, <2>2 DEF SavedInv
<1>10. CASE (\E r \in {"none", "good", "bad"} : EditRequirements(r)) \/ UNCHANGED vars
  <2>1. UNCHANGED <<env, config, at, cmd, using, text, saved, wrote>>
    BY <1>10 DEF EditRequirements, vars
  <2>2. CommandTypes' /\ Checked' /\ (Past => EnvSays)' /\ ConfigReadsBack'
    BY <2>1 DEF SavedInv, CommandTypes, Checked, Past, EnvSays, ConfigReadsBack
  <2>3. QED
    BY <2>1, <2>2 DEF SavedInv
<1>11. QED
  BY <1>1, <1>2, <1>3, <1>4, <1>5, <1>6, <1>7, <1>8, <1>9, <1>10, RunSaved, EnsureSaved, ReadSaved,
     CheckedSaved, ReplaceSaved, OpenSaved, FormSaved, SaveConfigSaved
     DEF Next, User, Program

\* settings.py against the installer, config.py against itself: whoever starts the installer
\* to deploy, it reads from the .env what was last checked and saved, and a config.yaml that
\* a program wrote is read back as it was, for any files, edits and numbers of commands.
THEOREM SavedIsReadHolds == Spec => []SavedIsRead
<1>1. QED
  BY SavedInit, SavedStep, SavedImplies, PTL DEF Spec

----------------------------------------------------------------------------
(* Reading a text bit by bit                                               *)

\* Induction over how far a text has been read.
LEMMA Induct ==
  ASSUME NEW N \in Nat, NEW P, 0 \in P, \A n \in 0..N : n \in P /\ n # N => n + 1 \in P
  PROVE  0..N \subseteq P
<1> DEFINE S == {n \in 0..N : n \notin P}
<1> SUFFICES ASSUME S # {} PROVE FALSE
  OBVIOUS
<1>1. S \in SUBSET Nat
  OBVIOUS
<1>2. PICK n \in S : \A m \in S : n <= m
  <2> HIDE DEF S
  <2> QED
    BY <1>1, Least
<1>3. n # 0 /\ n - 1 \in 0..N /\ n - 1 # N
  BY <1>2
<1>4. n - 1 \in P
  BY <1>2, <1>3
<1>5. (n - 1) + 1 \in P
  BY <1>3, <1>4
<1>6. QED
  BY <1>2, <1>5

\* A function that says how to go on from each value, and the values it then takes.
GoesOn(A, base, N, g) == /\ N \in Nat /\ base \in A
                         /\ \A n \in 1..N : \A a \in A : g[n][a] \in A
Takes(f, A, base, N, g) == /\ f \in [0..N -> A] /\ f[0] = base
                           /\ \A n \in 1..N : f[n] = g[n][f[n - 1]]

\* There is a function that goes on so from the start.
LEMMA Recursion ==
  ASSUME NEW A, NEW base, NEW N, NEW g, GoesOn(A, base, N, g)
  PROVE  \E f : Takes(f, A, base, N, g)
<1> USE DEF GoesOn
<1> DEFINE Upto(f, m) == /\ f \in [0..m -> A] /\ f[0] = base
                         /\ \A n \in 1..m : f[n] = g[n][f[n - 1]]
           P == {m \in 0..N : \E f : Upto(f, m)}
<1>1. 0 \in P
  <2> DEFINE h == [n \in 0..0 |-> base]
  <2>1. Upto(h, 0)
    OBVIOUS
  <2> HIDE DEF h, Upto
  <2>2. QED
    BY <2>1
<1>2. ASSUME NEW m \in 0..N, m \in P, m # N
      PROVE  m + 1 \in P
  <2>1. PICK f : Upto(f, m)
    BY <1>2
  <2> DEFINE h == [n \in 0..m + 1 |-> IF n = m + 1 THEN g[m + 1][f[m]] ELSE f[n]]
  <2>2. f[m] \in A /\ m + 1 \in 1..N /\ m + 1 \in Nat
    BY <1>2, <2>1
  <2>3. g[m + 1][f[m]] \in A
    BY <2>2
  <2>4. \A n \in 0..m + 1 : n # m + 1 => n \in 0..m
    BY <1>2
  <2>5. h \in [0..m + 1 -> A]
    BY <2>1, <2>3, <2>4
  <2>6. h[0] = base
    BY <1>2, <2>1
  <2>7. ASSUME NEW n \in 1..m + 1 PROVE h[n] = g[n][h[n - 1]]
    <3>1. n - 1 \in 0..m + 1 /\ n - 1 # m + 1 /\ n \in 0..m + 1
      BY <1>2
    <3>2. h[n - 1] = f[n - 1]
      BY <3>1
    <3>3. CASE n = m + 1
      BY <3>1, <3>2, <3>3
    <3>4. CASE n # m + 1
      <4>1. n \in 1..m /\ h[n] = f[n]
        BY <3>1, <3>4
      <4>2. QED
        BY <2>1, <3>2, <4>1
    <3>5. QED
      BY <3>3, <3>4
  <2> HIDE DEF h
  <2>8. Upto(h, m + 1)
    BY <2>5, <2>6, <2>7
  <2> HIDE DEF Upto
  <2>9. QED
    BY <1>2, <2>8
<1>3. N \in P
  <2> HIDE DEF P
  <2>1. 0..N \subseteq P
    BY <1>1, <1>2, Induct
  <2>2. QED
    BY <2>1
<1>4. QED
  BY <1>3 DEF Takes

\* Two functions that go on alike are the same.
Alike(f, r, N, A) == /\ N \in Nat /\ f \in [0..N -> A] /\ r = [n \in 0..N |-> r[n]] /\ f[0] = r[0]
                     /\ \A n \in 1..N : f[n - 1] = r[n - 1] => f[n] = r[n]
LEMMA Agree ==
  ASSUME NEW N, NEW A, NEW f, NEW r, Alike(f, r, N, A)
  PROVE  r = f
<1> USE DEF Alike
<1> DEFINE P == {n \in 0..N : f[n] = r[n]}
<1>1. 0 \in P
  OBVIOUS
<1>2. ASSUME NEW n \in 0..N, n \in P, n # N
      PROVE  n + 1 \in P
  <2>1. n + 1 \in 1..N /\ (n + 1) - 1 = n
    BY <1>2
  <2>2. f[n + 1] = r[n + 1]
    BY <1>2, <2>1
  <2>3. QED
    BY <2>1, <2>2
<1>3. 0..N \subseteq P
  <2> HIDE DEF P
  <2> QED
    BY <1>1, <1>2, Induct
<1>4. f = [n \in 0..N |-> f[n]]
  OBVIOUS
<1>5. QED
  BY <1>3, <1>4

----------------------------------------------------------------------------
(* What the functions of a requirements list compute                       *)

Texts == Seq(Pieces)
LexState == [words : Seq(Texts), word : Texts, some : BOOLEAN, quoted : BOOLEAN, escape : BOOLEAN]
LexNone == [words |-> <<>>, word |-> <<>>, some |-> FALSE, quoted |-> FALSE, escape |-> FALSE]

\* shlex reads on from one state to another.
LEMMA ReadTyped ==
  ASSUME NEW a \in LexState, NEW x \in Pieces
  PROVE  Read(a, x) \in LexState /\ End(a) \in LexState
<1>1. a.words \in Seq(Texts) /\ a.word \in Texts /\ a.some \in BOOLEAN /\ a.quoted \in BOOLEAN /\ a.escape \in BOOLEAN
  BY DEF LexState
<1>2. \A b \in LexState, y \in Pieces : Put(b, y) \in LexState
  <2> TAKE b \in LexState, y \in Pieces
  <2>1. Append(b.word, y) \in Texts
    BY DEF LexState, Texts
  <2>2. QED
    BY <2>1 DEF LexState, Put
<1>3. End(a) \in LexState
  <2>1. Append(a.words, a.word) \in Seq(Texts) /\ <<>> \in Texts
    BY <1>1 DEF Texts
  <2>2. QED
    BY <2>1 DEF LexState, End
<1>4. [a EXCEPT !.escape = TRUE] \in LexState
  BY DEF LexState
<1>5. [a EXCEPT !.quoted = ~@, !.some = TRUE] \in LexState
  BY <1>1 DEF LexState
<1>6. "backslash" \in Pieces
  BY DEF Pieces
<1>7. QED
  BY <1>2, <1>3, <1>4, <1>5, <1>6 DEF Read

\* A non-empty set of indices has a first and a last.
LEMMA FirstLast ==
  ASSUME NEW b \in Nat, NEW S \in SUBSET (0..b), S # {}
  PROVE  /\ Min(S) \in S /\ \A m \in S : Min(S) <= m
         /\ Max(S) \in S /\ \A m \in S : m <= Max(S)
<1>1. \E n \in S : \A m \in S : n <= m
  BY Least
<1>2. \E n \in S : \A m \in S : m <= n
  <2> DEFINE R == {b - m : m \in S}
  <2>1. R \in SUBSET Nat /\ R # {}
    <3>1. \A m \in S : m \in 0..b /\ b - m \in Nat
      OBVIOUS
    <3>2. QED
      BY <3>1
  <2>2. PICK k \in R : \A m \in R : k <= m
    <3> HIDE DEF R
    <3> QED
      BY <2>1, Least
  <2>3. PICK n \in S : k = b - n
    BY <2>2
  <2>4. \A m \in S : m <= n
    BY <2>2, <2>3
  <2>5. QED
    BY <2>4
<1>3. Min(S) \in S /\ \A m \in S : Min(S) <= m
  BY <1>1 DEF Min
<1>4. Max(S) \in S /\ \A m \in S : Max(S) >= m
  BY <1>2 DEF Max
<1>5. QED
  BY <1>3, <1>4

\* A part of a text is a text, with its characters where they were.
LEMMA SubText ==
  ASSUME NEW s \in Texts, NEW a \in 1..Len(s) + 1, NEW b \in 0..Len(s), b >= a - 1
  PROVE  /\ SubSeq(s, a, b) \in Texts /\ Len(SubSeq(s, a, b)) = b - a + 1
         /\ \A k \in 1..b - a + 1 : SubSeq(s, a, b)[k] = s[a + k - 1]
  BY DEF Texts

\* What a physical line adds, and what a comment leaves of a line, are texts.
LEMMA PartTyped ==
  ASSUME NEW line \in Texts
  PROVE  Part(line) \in Texts /\ CutComment(line) \in Texts
<1>1. Len(line) \in Nat /\ DOMAIN line = 1..Len(line)
  BY DEF Texts
<1>2. Trimmed(line) \in Texts
  <2> DEFINE kept == {i \in DOMAIN line : line[i] # "backslash"}
  <2>1. CASE kept = {}
    BY <2>1 DEF Trimmed, Texts
  <2>2. CASE kept # {}
    <3>1. kept \in SUBSET (0..Len(line)) /\ kept \subseteq 1..Len(line)
      BY <1>1
    <3>2. Min(kept) \in kept /\ Max(kept) \in kept /\ Min(kept) <= Max(kept)
      <4> HIDE DEF kept
      <4> QED
        BY <1>1, <2>2, <3>1, FirstLast
    <3>3. Trimmed(line) = SubSeq(line, Min(kept), Max(kept))
      BY <2>2 DEF Trimmed
    <3> HIDE DEF kept
    <3> DEFINE a == Min(kept)
               b == Max(kept)
    <3>6. a \in 1..Len(line) /\ b \in 1..Len(line) /\ a <= b
      BY <3>1, <3>2
    <3> HIDE DEF a, b
    <3>7. a \in 1..Len(line) + 1 /\ b \in 0..Len(line) /\ b >= a - 1
      BY <1>1, <3>6
    <3>4. Min(kept) \in 1..Len(line) + 1 /\ Max(kept) \in 0..Len(line) /\ Max(kept) >= Min(kept) - 1
      BY <3>7 DEF a, b
    <3>5. QED
      BY <3>3, <3>4, SubText
  <2>3. QED
    BY <2>1, <2>2
<1>3. <<"blank">> \o line \in Texts
  <2>1. "blank" \in Pieces
    BY DEF Pieces
  <2> DEFINE x == "blank"
  <2>2. x \in Pieces
    BY <2>1
  <2> HIDE DEF x
  <2>3. <<x>> \in Texts
    BY <2>2 DEF Texts
  <2>4. <<x>> \o line \in Texts
    BY <2>3 DEF Texts
  <2>5. QED
    BY <2>4 DEF x
<1>4. CutComment(line) \in Texts
  <2> DEFINE hits == {i \in Begins(line) : line[i] = "#"}
  <2>1. CASE hits = {}
    BY <2>1 DEF CutComment
  <2>2. CASE hits # {}
    <3>1. hits \in SUBSET (0..Len(line)) /\ hits \subseteq 1..Len(line)
      <4>1. Begins(line) \subseteq 1..Len(line)
        BY <1>1 DEF Begins
      <4>2. QED
        BY <1>1, <4>1
    <3>2. Min(hits) \in hits
      <4> HIDE DEF hits
      <4> QED
        BY <1>1, <2>2, <3>1, FirstLast
    <3>3. CutComment(line) = SubSeq(line, 1, Min(hits) - 1)
      BY <2>2 DEF CutComment
    <3> HIDE DEF hits
    <3> DEFINE m == Min(hits)
    <3>6. m \in 1..Len(line)
      BY <3>1, <3>2
    <3> HIDE DEF m
    <3>7. 1 \in 1..Len(line) + 1 /\ m - 1 \in 0..Len(line) /\ m - 1 >= 1 - 1
      BY <1>1, <3>6
    <3>4. 1 \in 1..Len(line) + 1 /\ Min(hits) - 1 \in 0..Len(line) /\ Min(hits) - 1 >= 1 - 1
      BY <3>7 DEF m
    <3>5. QED
      BY <3>3, <3>4, SubText
  <2>3. QED
    BY <2>1, <2>2
<1>5. QED
  BY <1>2, <1>3, <1>4 DEF Part

Strings == {l \in Seq(Texts) : l # <<>>}
JoinState == [pending : Texts, out : Seq(Texts)]
JoinNone == [pending |-> <<>>, out |-> <<>>]

\* The physical lines of a text, read piece by piece.
LEMMA SplitBy ==
  ASSUME NEW typed \in Texts
  PROVE  \E f \in [0..Len(typed) -> Strings] :
            /\ f[0] = <<<<>>>> /\ \A n \in 1..Len(typed) : f[n] = Split(f[n - 1], typed[n])
            /\ PhysicalLines(typed) = f[Len(typed)]
<1> DEFINE N == Len(typed)
           g == [n \in 1..N |-> [a \in Strings |-> Split(a, typed[n])]]
           Rec(h) == h = [n \in 0..N |-> IF n = 0 THEN <<<<>>>> ELSE Split(h[n - 1], typed[n])]
           r == CHOOSE h : Rec(h)
<1>1. N \in Nat /\ \A n \in 1..N : typed[n] \in Pieces
  BY DEF Texts
<1>2. <<<<>>>> \in Strings
  <2>1. <<>> \in Texts
    BY DEF Texts
  <2>2. QED
    BY <2>1 DEF Strings
<1>3. \A n \in 1..N : \A a \in Strings : Split(a, typed[n]) \in Strings
  <2> TAKE n \in 1..N
  <2> TAKE a \in Strings
  <2> USE DEF Strings
  <2>1. Append(a, <<>>) \in Seq(Texts) /\ Append(a, <<>>) # <<>>
    <3>1. <<>> \in Texts
      BY DEF Texts
    <3>2. QED
      BY <3>1
  <2>2. [a EXCEPT ![Len(a)] = Append(@, typed[n])] \in Seq(Texts)
        /\ Len([a EXCEPT ![Len(a)] = Append(@, typed[n])]) = Len(a)
    <3>1. Len(a) \in 1..Len(a) /\ Len(a) \in Nat
      OBVIOUS
    <3>2. Append(a[Len(a)], typed[n]) \in Texts
      BY <1>1, <3>1 DEF Texts
    <3>3. [a EXCEPT ![Len(a)] = Append(@, typed[n])] \in [1..Len(a) -> Texts]
      BY <3>1, <3>2
    <3>4. QED
      BY <3>1, <3>3
  <2>3. QED
    BY <2>1, <2>2 DEF Split, Strings
<1>4. PhysicalLines(typed) = r[Len(typed)]
  BY DEF PhysicalLines, N
<1> HIDE DEF N
<1>5. \A n \in 1..N : \A a \in Strings : g[n][a] = Split(a, typed[n]) /\ g[n][a] \in Strings
  BY <1>3
<1> HIDE DEF g
<1>6. PICK f : f \in [0..N -> Strings] /\ f[0] = <<<<>>>> /\ \A n \in 1..N : f[n] = g[n][f[n - 1]]
  <2>1. GoesOn(Strings, <<<<>>>>, N, g)
    BY <1>1, <1>2, <1>5 DEF GoesOn
  <2>2. QED
    BY <2>1, Recursion DEF Takes
<1>7. \A n \in 1..N : f[n] = Split(f[n - 1], typed[n])
  <2> TAKE n \in 1..N
  <2>1. f[n - 1] \in Strings
    BY <1>1, <1>6
  <2>2. QED
    BY <1>5, <1>6, <2>1
<1>8. Rec(f)
  <2>1. \A n \in 0..N : n # 0 => n \in 1..N
    BY <1>1
  <2>2. \A n \in 0..N : f[n] = IF n = 0 THEN <<<<>>>> ELSE Split(f[n - 1], typed[n])
    BY <1>6, <1>7, <2>1
  <2>3. f = [n \in 0..N |-> f[n]]
    BY <1>6
  <2>4. QED
    BY <2>2, <2>3
<1>9. Rec(r)
  BY <1>8
<1>10. r = f
  <2> HIDE DEF Rec, r
  <2>1. r = [n \in 0..N |-> IF n = 0 THEN <<<<>>>> ELSE Split(r[n - 1], typed[n])]
    BY <1>9 DEF Rec
  <2>2. \A n \in 1..N : n \in 0..N /\ n # 0
    BY <1>1
  <2>3. f[0] = r[0] /\ r = [n \in 0..N |-> r[n]]
    BY <1>1, <1>6, <2>1
  <2>4. \A n \in 1..N : f[n - 1] = r[n - 1] => f[n] = r[n]
    BY <1>7, <2>1, <2>2
  <2>5. Alike(f, r, N, Strings)
    BY <1>1, <1>6, <2>3, <2>4 DEF Alike
  <2>6. QED
    BY <2>5, Agree
<1>11. PhysicalLines(typed) = f[Len(typed)]
  <2> HIDE DEF r
  <2>1. QED
    BY <1>4, <1>10
<1>12. QED
  BY <1>6, <1>7, <1>11 DEF N

\* The logical lines, read line by line.
LEMMA JoinBy ==
  ASSUME NEW typed, PhysicalLines(typed) \in Seq(Texts)
  PROVE  \E f \in [0..Len(PhysicalLines(typed)) -> JoinState] :
            /\ f[0] = JoinNone /\ \A n \in 1..Len(PhysicalLines(typed)) : f[n] = Join(f[n - 1], PhysicalLines(typed)[n])
            /\ LogicalLines(typed) = Yield(f[Len(PhysicalLines(typed))].out, f[Len(PhysicalLines(typed))].pending)
<1> DEFINE N == Len(PhysicalLines(typed))
           g == [n \in 1..N |-> [a \in JoinState |-> Join(a, PhysicalLines(typed)[n])]]
           Rec(h) == h = [n \in 0..N |-> IF n = 0 THEN JoinNone ELSE Join(h[n - 1], PhysicalLines(typed)[n])]
           r == CHOOSE h : Rec(h)
<1>1. N \in Nat /\ \A n \in 1..N : PhysicalLines(typed)[n] \in Texts
  OBVIOUS
<1>2. JoinNone \in JoinState
  BY DEF JoinState, JoinNone, Texts
<1>3. \A n \in 1..N : \A a \in JoinState : Join(a, PhysicalLines(typed)[n]) \in JoinState
  <2> TAKE n \in 1..N
  <2> TAKE a \in JoinState
  <2> DEFINE line == PhysicalLines(typed)[n]
  <2>1. line \in Texts /\ Part(line) \in Texts
    BY <1>1, PartTyped
  <2>2. a.pending \o Part(line) \in Texts
    BY <2>1 DEF Texts, JoinState
  <2>3. Yield(a.out, a.pending \o Part(line)) \in Seq(Texts)
    BY <2>2, PartTyped DEF Yield, JoinState
  <2>4. <<>> \in Texts
    BY DEF Texts
  <2> HIDE DEF line
  <2>5. QED
    BY <2>2, <2>3, <2>4 DEF Join, line, JoinState
<1>4. LogicalLines(typed) = Yield(r[Len(PhysicalLines(typed))].out, r[Len(PhysicalLines(typed))].pending)
  BY DEF LogicalLines, JoinNone, N
<1> HIDE DEF N
<1>5. \A n \in 1..N : \A a \in JoinState : g[n][a] = Join(a, PhysicalLines(typed)[n]) /\ g[n][a] \in JoinState
  BY <1>3
<1> HIDE DEF g
<1>6. PICK f : f \in [0..N -> JoinState] /\ f[0] = JoinNone /\ \A n \in 1..N : f[n] = g[n][f[n - 1]]
  <2>1. GoesOn(JoinState, JoinNone, N, g)
    BY <1>1, <1>2, <1>5 DEF GoesOn
  <2>2. QED
    BY <2>1, Recursion DEF Takes
<1>7. \A n \in 1..N : f[n] = Join(f[n - 1], PhysicalLines(typed)[n])
  <2> TAKE n \in 1..N
  <2>1. f[n - 1] \in JoinState
    BY <1>1, <1>6
  <2>2. QED
    BY <1>5, <1>6, <2>1
<1>8. Rec(f)
  <2>1. \A n \in 0..N : n # 0 => n \in 1..N
    BY <1>1
  <2>2. \A n \in 0..N : f[n] = IF n = 0 THEN JoinNone ELSE Join(f[n - 1], PhysicalLines(typed)[n])
    BY <1>6, <1>7, <2>1
  <2>3. f = [n \in 0..N |-> f[n]]
    BY <1>6
  <2>4. QED
    BY <2>2, <2>3
<1>9. Rec(r)
  BY <1>8
<1>10. r = f
  <2> HIDE DEF Rec, r
  <2>1. r = [n \in 0..N |-> IF n = 0 THEN JoinNone ELSE Join(r[n - 1], PhysicalLines(typed)[n])]
    BY <1>9 DEF Rec
  <2>2. \A n \in 1..N : n \in 0..N /\ n # 0
    BY <1>1
  <2>3. f[0] = r[0] /\ r = [n \in 0..N |-> r[n]]
    BY <1>1, <1>6, <2>1
  <2>4. \A n \in 1..N : f[n - 1] = r[n - 1] => f[n] = r[n]
    BY <1>7, <2>1, <2>2
  <2>5. Alike(f, r, N, JoinState)
    BY <1>1, <1>6, <2>3, <2>4 DEF Alike
  <2>6. QED
    BY <2>5, Agree
<1>11. LogicalLines(typed) = Yield(f[Len(PhysicalLines(typed))].out, f[Len(PhysicalLines(typed))].pending)
  <2> HIDE DEF r
  <2>1. QED
    BY <1>4, <1>10
<1>12. QED
  BY <1>6, <1>7, <1>11 DEF N

\* A token without quotes and backslashes.
LEMMA BareBy ==
  ASSUME NEW token \in Texts
  PROVE  \E f \in [0..Len(token) -> Texts] :
            /\ f[0] = <<>> /\ \A n \in 1..Len(token) : f[n] = Unquoted(f[n - 1], token[n])
            /\ Bare(token) = f[Len(token)]
<1> DEFINE N == Len(token)
           g == [n \in 1..N |-> [a \in Texts |-> Unquoted(a, token[n])]]
           Rec(h) == h = [n \in 0..N |-> IF n = 0 THEN <<>> ELSE Unquoted(h[n - 1], token[n])]
           r == CHOOSE h : Rec(h)
<1>1. N \in Nat /\ \A n \in 1..N : token[n] \in Pieces
  BY DEF Texts
<1>2. <<>> \in Texts
  BY DEF Texts
<1>3. \A n \in 1..N : \A a \in Texts : Unquoted(a, token[n]) \in Texts
  <2> TAKE n \in 1..N
  <2> TAKE a \in Texts
  <2>1. Append(a, token[n]) \in Texts
    BY <1>1 DEF Texts
  <2>2. QED
    BY <2>1 DEF Unquoted
<1>4. Bare(token) = r[Len(token)]
  BY DEF Bare, N
<1> HIDE DEF N
<1>5. \A n \in 1..N : \A a \in Texts : g[n][a] = Unquoted(a, token[n]) /\ g[n][a] \in Texts
  BY <1>3
<1> HIDE DEF g
<1>6. PICK f : f \in [0..N -> Texts] /\ f[0] = <<>> /\ \A n \in 1..N : f[n] = g[n][f[n - 1]]
  <2>1. GoesOn(Texts, <<>>, N, g)
    BY <1>1, <1>2, <1>5 DEF GoesOn
  <2>2. QED
    BY <2>1, Recursion DEF Takes
<1>7. \A n \in 1..N : f[n] = Unquoted(f[n - 1], token[n])
  <2> TAKE n \in 1..N
  <2>1. f[n - 1] \in Texts
    BY <1>1, <1>6
  <2>2. QED
    BY <1>5, <1>6, <2>1
<1>8. Rec(f)
  <2>1. \A n \in 0..N : n # 0 => n \in 1..N
    BY <1>1
  <2>2. \A n \in 0..N : f[n] = IF n = 0 THEN <<>> ELSE Unquoted(f[n - 1], token[n])
    BY <1>6, <1>7, <2>1
  <2>3. f = [n \in 0..N |-> f[n]]
    BY <1>6
  <2>4. QED
    BY <2>2, <2>3
<1>9. Rec(r)
  BY <1>8
<1>10. r = f
  <2> HIDE DEF Rec, r
  <2>1. r = [n \in 0..N |-> IF n = 0 THEN <<>> ELSE Unquoted(r[n - 1], token[n])]
    BY <1>9 DEF Rec
  <2>2. \A n \in 1..N : n \in 0..N /\ n # 0
    BY <1>1
  <2>3. f[0] = r[0] /\ r = [n \in 0..N |-> r[n]]
    BY <1>1, <1>6, <2>1
  <2>4. \A n \in 1..N : f[n - 1] = r[n - 1] => f[n] = r[n]
    BY <1>7, <2>1, <2>2
  <2>5. Alike(f, r, N, Texts)
    BY <1>1, <1>6, <2>3, <2>4 DEF Alike
  <2>6. QED
    BY <2>5, Agree
<1>11. Bare(token) = f[Len(token)]
  <2> HIDE DEF r
  <2>1. QED
    BY <1>4, <1>10
<1>12. QED
  BY <1>6, <1>7, <1>11 DEF N

OptState == [error : BOOLEAN, done : BOOLEAN, value : BOOLEAN, opts : SUBSET (Pieces \cup {"pre"})]
OptNone == [error |-> FALSE, done |-> FALSE, value |-> FALSE, opts |-> {}]

\* optparse goes on from one state to another.
LEMMA TakeTyped ==
  ASSUME NEW a \in OptState, NEW w \in Texts
  PROVE  Take(a, w) \in OptState
<1>1. [a EXCEPT !.value = FALSE] \in OptState /\ [a EXCEPT !.done = TRUE] \in OptState /\ [a EXCEPT !.error = TRUE] \in OptState
  BY DEF OptState
<1>2. [a EXCEPT !.opts = @ \cup {"pre"}] \in OptState
  BY DEF OptState
<1>3. w[2] \in {"r", "C"} => [a EXCEPT !.opts = @ \cup {w[2]}, !.value = Len(w) = 2] \in OptState
  <2>1. (Len(w) = 2) \in BOOLEAN /\ w[2] \in {"r", "C"} => w[2] \in Pieces
    BY DEF Pieces
  <2>2. QED
    BY <2>1 DEF OptState
<1>4. QED
  BY <1>1, <1>2, <1>3 DEF Take

\* What optparse makes of the words, one by one.
LEMMA ParsedBy ==
  ASSUME NEW words \in Seq(Texts)
  PROVE  \E f \in [0..Len(words) -> OptState] :
            /\ f[0] = OptNone /\ \A n \in 1..Len(words) : f[n] = Take(f[n - 1], words[n])
            /\ Optparse(words) = f[Len(words)]
<1> DEFINE N == Len(words)
           g == [n \in 1..N |-> [a \in OptState |-> Take(a, words[n])]]
           Rec(h) == h = [n \in 0..N |-> IF n = 0 THEN OptNone ELSE Take(h[n - 1], words[n])]
           r == CHOOSE h : Rec(h)
<1>1. N \in Nat /\ \A n \in 1..N : words[n] \in Texts
  OBVIOUS
<1>2. OptNone \in OptState
  BY DEF OptState, OptNone
<1>3. \A n \in 1..N : \A a \in OptState : Take(a, words[n]) \in OptState
  BY <1>1, TakeTyped
<1>4. Optparse(words) = r[Len(words)]
  BY DEF Optparse, OptNone, N
<1> HIDE DEF N
<1>5. \A n \in 1..N : \A a \in OptState : g[n][a] = Take(a, words[n]) /\ g[n][a] \in OptState
  BY <1>3
<1> HIDE DEF g
<1>6. PICK f : f \in [0..N -> OptState] /\ f[0] = OptNone /\ \A n \in 1..N : f[n] = g[n][f[n - 1]]
  <2>1. GoesOn(OptState, OptNone, N, g)
    BY <1>1, <1>2, <1>5 DEF GoesOn
  <2>2. QED
    BY <2>1, Recursion DEF Takes
<1>7. \A n \in 1..N : f[n] = Take(f[n - 1], words[n])
  <2> TAKE n \in 1..N
  <2>1. f[n - 1] \in OptState
    BY <1>1, <1>6
  <2>2. QED
    BY <1>5, <1>6, <2>1
<1>8. Rec(f)
  <2>1. \A n \in 0..N : n # 0 => n \in 1..N
    BY <1>1
  <2>2. \A n \in 0..N : f[n] = IF n = 0 THEN OptNone ELSE Take(f[n - 1], words[n])
    BY <1>6, <1>7, <2>1
  <2>3. f = [n \in 0..N |-> f[n]]
    BY <1>6
  <2>4. QED
    BY <2>2, <2>3
<1>9. Rec(r)
  BY <1>8
<1>10. r = f
  <2> HIDE DEF Rec, r
  <2>1. r = [n \in 0..N |-> IF n = 0 THEN OptNone ELSE Take(r[n - 1], words[n])]
    BY <1>9 DEF Rec
  <2>2. \A n \in 1..N : n \in 0..N /\ n # 0
    BY <1>1
  <2>3. f[0] = r[0] /\ r = [n \in 0..N |-> r[n]]
    BY <1>1, <1>6, <2>1
  <2>4. \A n \in 1..N : f[n - 1] = r[n - 1] => f[n] = r[n]
    BY <1>7, <2>1, <2>2
  <2>5. Alike(f, r, N, OptState)
    BY <1>1, <1>6, <2>3, <2>4 DEF Alike
  <2>6. QED
    BY <2>5, Agree
<1>11. Optparse(words) = f[Len(words)]
  <2> HIDE DEF r
  <2>1. QED
    BY <1>4, <1>10
<1>12. QED
  BY <1>6, <1>7, <1>11 DEF N

\* The words of shlex, character by character.
LEMMA LexedBy ==
  ASSUME NEW s \in Texts
  PROVE  \E f \in [0..Len(s) -> LexState] :
            /\ f[0] = LexNone /\ \A n \in 1..Len(s) : f[n] = Read(f[n - 1], s[n])
            /\ Shlex(s) = [words |-> End(f[Len(s)]).words, open |-> f[Len(s)].quoted \/ f[Len(s)].escape]
<1> DEFINE N == Len(s)
           g == [n \in 1..N |-> [a \in LexState |-> Read(a, s[n])]]
           Rec(h) == h = [n \in 0..N |-> IF n = 0 THEN LexNone ELSE Read(h[n - 1], s[n])]
           r == CHOOSE h : Rec(h)
<1>1. N \in Nat /\ \A n \in 1..N : s[n] \in Pieces
  BY DEF Texts
<1>2. LexNone \in LexState
  <2>1. <<>> \in Texts /\ <<>> \in Seq(Texts)
    BY DEF Texts
  <2>2. QED
    BY <2>1 DEF LexState, LexNone
<1>3. \A n \in 1..N : \A a \in LexState : Read(a, s[n]) \in LexState
  BY <1>1, ReadTyped
<1>4. Shlex(s) = [words |-> End(r[Len(s)]).words, open |-> r[Len(s)].quoted \/ r[Len(s)].escape]
  BY DEF Shlex, LexNone, N
<1> HIDE DEF N
<1>5. \A n \in 1..N : \A a \in LexState : g[n][a] = Read(a, s[n]) /\ g[n][a] \in LexState
  BY <1>3
<1> HIDE DEF g
<1>6. PICK f : f \in [0..N -> LexState] /\ f[0] = LexNone /\ \A n \in 1..N : f[n] = g[n][f[n - 1]]
  <2>1. GoesOn(LexState, LexNone, N, g)
    BY <1>1, <1>2, <1>5 DEF GoesOn
  <2>2. QED
    BY <2>1, Recursion DEF Takes
<1>7. \A n \in 1..N : f[n] = Read(f[n - 1], s[n])
  <2> TAKE n \in 1..N
  <2>1. f[n - 1] \in LexState
    BY <1>1, <1>6
  <2>2. QED
    BY <1>5, <1>6, <2>1
<1>8. Rec(f)
  <2>1. \A n \in 0..N : n # 0 => n \in 1..N
    BY <1>1
  <2>2. \A n \in 0..N : f[n] = IF n = 0 THEN LexNone ELSE Read(f[n - 1], s[n])
    BY <1>6, <1>7, <2>1
  <2>3. f = [n \in 0..N |-> f[n]]
    BY <1>6
  <2>4. QED
    BY <2>2, <2>3
<1>9. Rec(r)
  BY <1>8
<1>10. r = f
  <2> HIDE DEF Rec, r
  <2>1. r = [n \in 0..N |-> IF n = 0 THEN LexNone ELSE Read(r[n - 1], s[n])]
    BY <1>9 DEF Rec
  <2>2. \A n \in 1..N : n \in 0..N /\ n # 0
    BY <1>1
  <2>3. f[0] = r[0] /\ r = [n \in 0..N |-> r[n]]
    BY <1>1, <1>6, <2>1
  <2>4. \A n \in 1..N : f[n - 1] = r[n - 1] => f[n] = r[n]
    BY <1>7, <2>1, <2>2
  <2>5. Alike(f, r, N, LexState)
    BY <1>1, <1>6, <2>3, <2>4 DEF Alike
  <2>6. QED
    BY <2>5, Agree
<1>11. Shlex(s) = [words |-> End(f[Len(s)]).words, open |-> f[Len(s)].quoted \/ f[Len(s)].escape]
  <2> HIDE DEF r
  <2>1. QED
    BY <1>4, <1>10
<1>12. QED
  BY <1>6, <1>7, <1>11 DEF N

\* The lines of a run, joined one by one.
LEMMA JoinedBy ==
  ASSUME NEW lines \in Seq(Texts), NEW run \in Runs(lines)
  PROVE  \E f \in [0..(run[2] - run[1] + 1) -> Texts] :
            /\ f[0] = <<>> /\ \A n \in 1..(run[2] - run[1] + 1) : f[n] = (f[n - 1] \o Part(lines[run[1] + n - 1]))
            /\ Joined(lines, run) = CutComment(f[run[2] - run[1] + 1])
<1> DEFINE N == (run[2] - run[1] + 1)
           g == [n \in 1..N |-> [a \in Texts |-> (a \o Part(lines[run[1] + n - 1]))]]
           Rec(h) == h = [n \in 0..N |-> IF n = 0 THEN <<>> ELSE (h[n - 1] \o Part(lines[run[1] + n - 1]))]
           r == CHOOSE h : Rec(h)
<1>1. N \in Nat /\ \A n \in 1..N : Part(lines[run[1] + n - 1]) \in Texts
  <2>1. run[1] \in 1..Len(lines) /\ run[2] \in 1..Len(lines) /\ run[1] <= run[2]
    BY DEF Runs
  <2>2. \A n \in 1..N : lines[run[1] + n - 1] \in Texts
    BY <2>1
  <2>3. N \in Nat
    BY <2>1
  <2>4. QED
    BY <2>2, <2>3, PartTyped
<1>2. <<>> \in Texts
  BY DEF Texts
<1>3. \A n \in 1..N : \A a \in Texts : (a \o Part(lines[run[1] + n - 1])) \in Texts
  <2> TAKE n \in 1..N
  <2> TAKE a \in Texts
  <2> DEFINE part == Part(lines[run[1] + n - 1])
  <2>1. part \in Texts
    BY <1>1
  <2> HIDE DEF part
  <2>2. a \o part \in Texts
    BY <2>1 DEF Texts
  <2>3. QED
    BY <2>2 DEF part
<1>4. Joined(lines, run) = CutComment(r[run[2] - run[1] + 1])
  BY DEF Joined, N
<1> HIDE DEF N
<1>5. \A n \in 1..N : \A a \in Texts : g[n][a] = (a \o Part(lines[run[1] + n - 1])) /\ g[n][a] \in Texts
  BY <1>3
<1> HIDE DEF g
<1>6. PICK f : f \in [0..N -> Texts] /\ f[0] = <<>> /\ \A n \in 1..N : f[n] = g[n][f[n - 1]]
  <2>1. GoesOn(Texts, <<>>, N, g)
    BY <1>1, <1>2, <1>5 DEF GoesOn
  <2>2. QED
    BY <2>1, Recursion DEF Takes
<1>7. \A n \in 1..N : f[n] = (f[n - 1] \o Part(lines[run[1] + n - 1]))
  <2> TAKE n \in 1..N
  <2>1. f[n - 1] \in Texts
    BY <1>1, <1>6
  <2>2. QED
    BY <1>5, <1>6, <2>1
<1>8. Rec(f)
  <2>1. \A n \in 0..N : n # 0 => n \in 1..N
    BY <1>1
  <2>2. \A n \in 0..N : f[n] = IF n = 0 THEN <<>> ELSE (f[n - 1] \o Part(lines[run[1] + n - 1]))
    BY <1>6, <1>7, <2>1
  <2>3. f = [n \in 0..N |-> f[n]]
    BY <1>6
  <2>4. QED
    BY <2>2, <2>3
<1>9. Rec(r)
  BY <1>8
<1>10. r = f
  <2> HIDE DEF Rec, r
  <2>1. r = [n \in 0..N |-> IF n = 0 THEN <<>> ELSE (r[n - 1] \o Part(lines[run[1] + n - 1]))]
    BY <1>9 DEF Rec
  <2>2. \A n \in 1..N : n \in 0..N /\ n # 0
    BY <1>1
  <2>3. f[0] = r[0] /\ r = [n \in 0..N |-> r[n]]
    BY <1>1, <1>6, <2>1
  <2>4. \A n \in 1..N : f[n - 1] = r[n - 1] => f[n] = r[n]
    BY <1>7, <2>1, <2>2
  <2>5. Alike(f, r, N, Texts)
    BY <1>1, <1>6, <2>3, <2>4 DEF Alike
  <2>6. QED
    BY <2>5, Agree
<1>11. Joined(lines, run) = CutComment(f[run[2] - run[1] + 1])
  <2> HIDE DEF r
  <2>1. QED
    BY <1>4, <1>10
<1>12. QED
  BY <1>6, <1>7, <1>11 DEF N

No == FALSE

\* Which tokens are values.
LEMMA ValuesBy ==
  ASSUME NEW options \in Texts
  PROVE  \E f \in [0..Len(options) -> BOOLEAN] :
            /\ f[0] = No /\ \A n \in 1..Len(options) : f[n] = ValueNext(options, n, f[n - 1])
            /\ SomeIgnored(options) <=> \E n \in Ends(options) : ~f[n - 1] /\ IgnoredOnPackageLine(Token(options, n))
<1> DEFINE N == Len(options)
           g == [n \in 1..N |-> [a \in BOOLEAN |-> ValueNext(options, n, a)]]
           Rec(h) == h = [n \in 0..N |-> IF n = 0 THEN No ELSE ValueNext(options, n, h[n - 1])]
           r == CHOOSE h : Rec(h)
<1>1. N \in Nat
  BY DEF Texts
<1>2. No \in BOOLEAN
  BY DEF No
<1>3. \A n \in 1..N : \A a \in BOOLEAN : ValueNext(options, n, a) \in BOOLEAN
  <2> TAKE n \in 1..N
  <2> TAKE a \in BOOLEAN
  <2>1. QED
    BY DEF ValueNext
<1>4. SomeIgnored(options) <=> \E n \in Ends(options) : ~r[n - 1] /\ IgnoredOnPackageLine(Token(options, n))
  BY DEF SomeIgnored, No, N
<1> HIDE DEF N
<1>5. \A n \in 1..N : \A a \in BOOLEAN : g[n][a] = ValueNext(options, n, a) /\ g[n][a] \in BOOLEAN
  BY <1>3
<1> HIDE DEF g
<1>6. PICK f : f \in [0..N -> BOOLEAN] /\ f[0] = No /\ \A n \in 1..N : f[n] = g[n][f[n - 1]]
  <2>1. GoesOn(BOOLEAN, No, N, g)
    BY <1>1, <1>2, <1>5 DEF GoesOn
  <2>2. QED
    BY <2>1, Recursion DEF Takes
<1>7. \A n \in 1..N : f[n] = ValueNext(options, n, f[n - 1])
  <2> TAKE n \in 1..N
  <2>1. f[n - 1] \in BOOLEAN
    BY <1>1, <1>6
  <2>2. QED
    BY <1>5, <1>6, <2>1
<1>8. Rec(f)
  <2>1. \A n \in 0..N : n # 0 => n \in 1..N
    BY <1>1
  <2>2. \A n \in 0..N : f[n] = IF n = 0 THEN No ELSE ValueNext(options, n, f[n - 1])
    BY <1>6, <1>7, <2>1
  <2>3. f = [n \in 0..N |-> f[n]]
    BY <1>6
  <2>4. QED
    BY <2>2, <2>3
<1>9. Rec(r)
  BY <1>8
<1>10. r = f
  <2> HIDE DEF Rec, r
  <2>1. r = [n \in 0..N |-> IF n = 0 THEN No ELSE ValueNext(options, n, r[n - 1])]
    BY <1>9 DEF Rec
  <2>2. \A n \in 1..N : n \in 0..N /\ n # 0
    BY <1>1
  <2>3. f[0] = r[0] /\ r = [n \in 0..N |-> r[n]]
    BY <1>1, <1>6, <2>1
  <2>4. \A n \in 1..N : f[n - 1] = r[n - 1] => f[n] = r[n]
    BY <1>7, <2>1, <2>2
  <2>5. Alike(f, r, N, BOOLEAN)
    BY <1>1, <1>6, <2>3, <2>4 DEF Alike
  <2>6. QED
    BY <2>5, Agree
<1>11. SomeIgnored(options) <=> \E n \in Ends(options) : ~f[n - 1] /\ IgnoredOnPackageLine(Token(options, n))
  <2> HIDE DEF r
  <2>1. QED
    BY <1>4, <1>10
<1>12. QED
  BY <1>6, <1>7, <1>11 DEF N

----------------------------------------------------------------------------
(* The tokens of a line                                                    *)

\* A text is a sequence of pieces.
LEMMA Indexed ==
  ASSUME NEW s \in Texts
  PROVE  Len(s) \in Nat /\ DOMAIN s = 1..Len(s) /\ \A n \in 1..Len(s) : s[n] \in Pieces
  BY DEF Texts

\* The token around a place that is no blank begins at the last beginning before it.
LEMMA TokenAt ==
  ASSUME NEW s \in Texts, NEW n \in 1..Len(s), s[n] # "blank"
  PROVE  \E m \in Begins(s) :
            /\ m \in 1..n /\ \A j \in m..n : s[j] # "blank"
            /\ \A i \in Begins(s) : i <= n => i <= m
            /\ Token(s, n) = SubSeq(s, m, n)
<1> DEFINE back == {m \in 1..n : \A j \in m..n : s[j] # "blank"}
           S == {i \in Begins(s) : i <= n}
<1>1. Len(s) \in Nat /\ DOMAIN s = 1..Len(s) /\ n \in Nat /\ n \in 1..n /\ n \in 0..Len(s)
  BY Indexed
<1>2. n \in back /\ back \in SUBSET Nat
  BY <1>1
<1>3. PICK a \in back : \A m \in back : a <= m
  <2> HIDE DEF back
  <2> QED
    BY <1>2, Least
<1>4. a \in Begins(s)
  <2>1. a \in DOMAIN s /\ s[a] # "blank"
    BY <1>1, <1>3
  <2>2. ASSUME a # 1, s[a - 1] # "blank" PROVE FALSE
    <3>1. a - 1 \in 1..n /\ \A j \in a - 1..n : j = a - 1 \/ j \in a..n
      BY <1>1, <1>3, <2>2
    <3>2. a - 1 \in back
      BY <1>3, <2>2, <3>1
    <3>3. QED
      BY <1>1, <1>3, <3>2
  <2>3. QED
    BY <2>1, <2>2 DEF Begins
<1>5. S \in SUBSET (0..n) /\ a \in S
  <2>1. Begins(s) \subseteq 1..Len(s)
    BY <1>1 DEF Begins
  <2>2. QED
    BY <1>1, <1>3, <1>4, <2>1
<1>6. Max(S) \in S /\ \A i \in S : i <= Max(S)
  <2> HIDE DEF S
  <2> QED
    BY <1>1, <1>5, FirstLast
<1>7. Token(s, n) = SubSeq(s, Max(S), n)
  BY DEF Token
<1> DEFINE m == Max(S)
<1>8. m \in Begins(s) /\ m <= n /\ a <= m /\ m \in 1..n /\ \A i \in Begins(s) : i <= n => i <= m
  <2>1. Begins(s) \subseteq 1..Len(s)
    BY <1>1 DEF Begins
  <2>2. QED
    BY <1>1, <1>3, <1>5, <1>6, <2>1
<1> HIDE DEF m, S
<1>9. \A j \in m..n : s[j] # "blank"
  <2>1. \A j \in m..n : j \in a..n
    BY <1>1, <1>3, <1>8
  <2>2. QED
    BY <1>3, <2>1
<1>10. QED
  BY <1>7, <1>8, <1>9 DEF m

\* A token is a text.
LEMMA TokenTyped ==
  ASSUME NEW s \in Texts, NEW n \in 1..Len(s), s[n] # "blank"
  PROVE  Token(s, n) \in Texts
<1>1. PICK m \in Begins(s) : m \in 1..n /\ Token(s, n) = SubSeq(s, m, n)
  BY TokenAt
<1>2. Len(s) \in Nat
  BY Indexed
<1>3. m \in 1..Len(s) + 1 /\ n \in 0..Len(s) /\ n >= m - 1
  BY <1>1, <1>2
<1>4. QED
  BY <1>1, <1>3, SubText

\* A part of one character.
LEMMA SubAlone ==
  ASSUME NEW s \in Texts, NEW m \in 1..Len(s)
  PROVE  SubSeq(s, m, m) = <<s[m]>>
<1>1. Len(s) \in Nat
  BY Indexed
<1>2. m \in 1..Len(s) + 1 /\ m \in 0..Len(s) /\ m >= m - 1 /\ m - m + 1 = 1 /\ m + 1 - 1 = m
  BY <1>1
<1>3. SubSeq(s, m, m) \in Texts /\ Len(SubSeq(s, m, m)) = 1 /\ SubSeq(s, m, m)[1] = s[m]
  BY <1>2, SubText
<1> DEFINE t == SubSeq(s, m, m)
<1> HIDE DEF t
<1>4. t \in Seq(Pieces) /\ Len(t) = 1 /\ t[1] = s[m]
  BY <1>3 DEF t, Texts
<1>5. t = <<s[m]>>
  BY <1>4
<1>6. QED
  BY <1>5 DEF t

\* A part that ends one character later.
LEMMA SubGrows ==
  ASSUME NEW s \in Texts, NEW n \in 1..Len(s), NEW m \in 1..n, n # Len(s)
  PROVE  SubSeq(s, m, n + 1) = Append(SubSeq(s, m, n), s[n + 1])
  BY DEF Texts

\* Read one place further, it is a new token or the last one with a character more.
LEMMA TokenGrows ==
  ASSUME NEW s \in Texts, NEW n \in 1..Len(s), s[n] # "blank"
  PROVE  /\ n = 1 \/ s[n - 1] = "blank" => Token(s, n) = <<s[n]>>
         /\ n # 1 /\ s[n - 1] # "blank" => Token(s, n) = Append(Token(s, n - 1), s[n])
<1>1. Len(s) \in Nat /\ DOMAIN s = 1..Len(s)
  BY Indexed
<1>2. PICK m \in Begins(s) : /\ m \in 1..n /\ \A j \in m..n : s[j] # "blank"
                             /\ \A i \in Begins(s) : i <= n => i <= m
                             /\ Token(s, n) = SubSeq(s, m, n)
  BY TokenAt
<1>3. CASE n = 1 \/ s[n - 1] = "blank"
  <2>1. n \in Begins(s)
    BY <1>1, <1>3 DEF Begins
  <2>2. m = n
    BY <1>1, <1>2, <2>1
  <2>3. QED
    BY <1>2, <1>3, <2>2, SubAlone
<1>4. CASE n # 1 /\ s[n - 1] # "blank"
  <2>1. n \notin Begins(s) /\ n - 1 \in 1..Len(s)
    BY <1>1, <1>4 DEF Begins
  <2>2. m # n
    BY <1>2, <2>1
  <2>3. PICK k \in Begins(s) : /\ k \in 1..n - 1 /\ \A i \in Begins(s) : i <= n - 1 => i <= k
                               /\ Token(s, n - 1) = SubSeq(s, k, n - 1)
    BY <1>4, <2>1, TokenAt
  <2>4. k = m
    BY <1>1, <1>2, <2>1, <2>2, <2>3
  <2>5. SubSeq(s, m, (n - 1) + 1) = Append(SubSeq(s, m, n - 1), s[(n - 1) + 1])
    <3>1. n - 1 # Len(s)
      BY <1>1
    <3>2. QED
      BY <2>1, <2>3, <2>4, <3>1, SubGrows
  <2>6. (n - 1) + 1 = n
    BY <1>1
  <2>7. QED
    BY <1>2, <1>4, <2>3, <2>4, <2>5, <2>6
<1>5. QED
  BY <1>3, <1>4

\* Without its quotes a token grows by what is no quote.
LEMMA BareGrows ==
  ASSUME NEW t \in Texts, NEW x \in Pieces
  PROVE  /\ Bare(t) \in Texts /\ Bare(<<>>) = <<>>
         /\ Bare(Append(t, x)) = Unquoted(Bare(t), x)
<1>1. ASSUME NEW u \in Texts
      PROVE  \E f : f \in [0..Len(u) -> Texts] /\ f[0] = <<>> /\ (\A n \in 1..Len(u) : f[n] = Unquoted(f[n - 1], u[n]))
                    /\ Bare(u) = f[Len(u)] /\ Bare(u) \in Texts
  <2>1. PICK f : f \in [0..Len(u) -> Texts] /\ f[0] = <<>> /\ (\A n \in 1..Len(u) : f[n] = Unquoted(f[n - 1], u[n]))
                    /\ Bare(u) = f[Len(u)]
    BY BareBy
  <2>2. Len(u) \in 0..Len(u)
    BY Indexed
  <2>3. QED
    BY <2>1, <2>2
<1> DEFINE u == Append(t, x)
           N == Len(t)
<1>2. u \in Texts /\ Len(u) = N + 1 /\ N \in Nat /\ u[N + 1] = x /\ \A n \in 1..N : u[n] = t[n]
  BY DEF Texts
<1> HIDE DEF u
<1>3. PICK f : f \in [0..N -> Texts] /\ f[0] = <<>> /\ (\A n \in 1..N : f[n] = Unquoted(f[n - 1], t[n]))
                    /\ Bare(t) = f[N] /\ Bare(t) \in Texts
  BY <1>1
<1>4. PICK g : g \in [0..Len(u) -> Texts] /\ g[0] = <<>> /\ (\A n \in 1..Len(u) : g[n] = Unquoted(g[n - 1], u[n]))
                    /\ Bare(u) = g[Len(u)]
  BY <1>1, <1>2
<1> HIDE DEF N
<1> DEFINE r == [n \in 0..N |-> g[n]]
<1>5. f[N] = g[N]
  <2>1. r = [n \in 0..N |-> r[n]] /\ f[0] = r[0]
    BY <1>2, <1>3, <1>4
  <2>2. \A n \in 1..N : f[n - 1] = r[n - 1] => f[n] = r[n]
    <3>1. \A n \in 1..N : n \in 0..N /\ n - 1 \in 0..N /\ n \in 1..N + 1
      BY <1>2
    <3>2. QED
      BY <1>2, <1>3, <1>4, <3>1
  <2>3. r[N] = g[N]
    BY <1>2
  <2> HIDE DEF r
  <2>4. Alike(f, r, N, Texts)
    BY <1>2, <1>3, <2>1, <2>2 DEF Alike
  <2>5. QED
    BY <2>3, <2>4, Agree
<1>6. g[N + 1] = Unquoted(g[N], x)
  <2>1. N + 1 \in 1..N + 1 /\ (N + 1) - 1 = N
    BY <1>2
  <2>2. QED
    BY <1>2, <1>4, <2>1
<1>7. Bare(u) = Unquoted(Bare(t), x)
  BY <1>2, <1>3, <1>4, <1>5, <1>6
<1>8. Bare(<<>>) = <<>>
  <2>1. <<>> \in Texts /\ Len(<<>>) = 0
    BY DEF Texts
  <2>2. QED
    BY <1>1, <2>1
<1>9. QED
  BY <1>3, <1>7, <1>8 DEF u

\* The token that is being read at n, bare.
BareTo(s, n) == IF n = 0 \/ s[n] = "blank" THEN <<>> ELSE Bare(Token(s, n))

\* It starts again after a blank and grows by what is no quote and no backslash.
LEMMA BareStep ==
  ASSUME NEW s \in Texts, NEW n \in 1..Len(s)
  PROVE  /\ BareTo(s, n) \in Texts /\ BareTo(s, n - 1) \in Texts
         /\ BareTo(s, n) = IF s[n] = "blank" THEN <<>> ELSE Unquoted(BareTo(s, n - 1), s[n])
<1>1. Len(s) \in Nat /\ s[n] \in Pieces /\ <<>> \in Texts /\ n # 0 /\ (n # 1 => n - 1 \in 1..Len(s)) /\ (n - 1 = 0 <=> n = 1)
  BY Indexed DEF Texts
<1>2. \A k \in 1..Len(s) : BareTo(s, k) \in Texts
  <2> TAKE k \in 1..Len(s)
  <2>1. s[k] # "blank" => Bare(Token(s, k)) \in Texts
    BY <1>1, TokenTyped, BareGrows
  <2>2. QED
    BY <1>1, <2>1 DEF BareTo
<1>3. BareTo(s, 0) = <<>>
  BY DEF BareTo
<1>4. BareTo(s, n - 1) \in Texts
  BY <1>1, <1>2, <1>3
<1>5. ASSUME s[n] # "blank" PROVE BareTo(s, n) = Unquoted(BareTo(s, n - 1), s[n])
  <2>1. BareTo(s, n) = Bare(Token(s, n))
    BY <1>1, <1>5 DEF BareTo
  <2>2. CASE n = 1 \/ s[n - 1] = "blank"
    <3>1. Token(s, n) = <<s[n]>> /\ BareTo(s, n - 1) = <<>>
      BY <1>1, <1>5, <2>2, TokenGrows DEF BareTo
    <3>2. <<s[n]>> = Append(<<>>, s[n])
      OBVIOUS
    <3>3. QED
      BY <1>1, <2>1, <3>1, <3>2, BareGrows
  <2>3. CASE n # 1 /\ s[n - 1] # "blank"
    <3>1. Token(s, n) = Append(Token(s, n - 1), s[n])
      BY <1>5, <2>3, TokenGrows
    <3>2. BareTo(s, n - 1) = Bare(Token(s, n - 1))
      BY <1>1, <2>3 DEF BareTo
    <3>3. Token(s, n - 1) \in Texts
      BY <1>1, <2>3, TokenTyped
    <3>4. QED
      BY <1>1, <2>1, <3>1, <3>2, <3>3, BareGrows
  <2>4. QED
    BY <2>2, <2>3
<1>6. s[n] = "blank" => BareTo(s, n) = <<>>
  BY DEF BareTo
<1>7. QED
  BY <1>2, <1>4, <1>5, <1>6

----------------------------------------------------------------------------
(* A forbidden option: what shlex makes of the tokens                      *)

\* The five things shlex does with a character.
LEMMA ReadCases ==
  ASSUME NEW a \in LexState, NEW x \in Pieces
  PROVE  \/ /\ x = "backslash" /\ ~a.escape
            /\ Read(a, x) = [a EXCEPT !.escape = TRUE]
         \/ /\ x = "quote" /\ ~a.escape
            /\ Read(a, x) = [a EXCEPT !.quoted = ~@, !.some = TRUE]
         \/ /\ x = "blank" /\ ~a.escape /\ ~a.quoted
            /\ Read(a, x) = End(a)
         \/ /\ a.escape \/ x \notin {"backslash", "quote"}
            /\ x = "blank" => a.escape \/ a.quoted
            /\ Read(a, x) = Put(a, x)
         \/ /\ a.escape /\ x \notin {"backslash", "quote"}
            /\ Read(a, x) = Put(Put(a, "backslash"), x)
  BY DEF Read

\* What a character does to the state of shlex.
LEMMA PutIs ==
  ASSUME NEW a \in LexState, NEW x \in Pieces
  PROVE  /\ Put(a, x) \in LexState /\ Put(a, x).word = Append(a.word, x) /\ Put(a, x).words = a.words
         /\ Put(a, x).some /\ ~Put(a, x).escape /\ (Put(a, x).quoted <=> a.quoted)
<1>1. Append(a.word, x) \in Texts
  BY DEF LexState, Texts
<1>2. QED
  BY <1>1 DEF LexState, Put

\* What the end of a word does to it.
LEMMA EndIs ==
  ASSUME NEW a \in LexState
  PROVE  /\ End(a) \in LexState
         /\ a.some => /\ End(a).words = Append(a.words, a.word) /\ End(a).word = <<>> /\ ~End(a).some
                      /\ (End(a).quoted <=> a.quoted) /\ (End(a).escape <=> a.escape)
         /\ ~a.some => End(a) = a
<1>1. Append(a.words, a.word) \in Seq(Texts) /\ <<>> \in Texts
  BY DEF LexState, Texts
<1>2. QED
  BY <1>1 DEF LexState, End

Dash == <<"-">>

\* A word that is one character longer.
LEMMA LongerWord ==
  ASSUME NEW w \in Texts, NEW x \in Pieces
  PROVE  /\ Append(w, x) \in Texts /\ Append(w, x) # <<>>
         /\ Append(w, x) = Dash <=> w = <<>> /\ x = "-"
<1>1. Len(w) \in Nat /\ Len(Append(w, x)) = Len(w) + 1 /\ Append(w, x)[Len(w) + 1] = x
      /\ Append(w, x) \in Texts /\ Append(w, x) # <<>>
  BY DEF Texts
<1>2. Len(Dash) = 1 /\ Dash[1] = "-" /\ Append(<<>>, "-") = Dash
  BY DEF Dash
<1>3. Len(w) = 0 => w = <<>>
  BY DEF Texts
<1>4. ASSUME Append(w, x) = Dash PROVE w = <<>> /\ x = "-"
  <2>1. Len(w) = 0
    BY <1>1, <1>2, <1>4
  <2>2. QED
    BY <1>1, <1>2, <1>3, <1>4, <2>1
<1>5. QED
  BY <1>1, <1>2, <1>4

\* What makes a word the short option -r.
HasR(w) == Len(w) > 1 /\ w[1] = "-" /\ w[2] = "r"

\* A word becomes that option by its second character, and stays it.
LEMMA HasRGrows ==
  ASSUME NEW w \in Texts, NEW x \in Pieces
  PROVE  HasR(Append(w, x)) <=> HasR(w) \/ (w = Dash /\ x = "r")
<1>1. Len(w) \in Nat /\ Len(Append(w, x)) = Len(w) + 1 /\ Append(w, x)[Len(w) + 1] = x
      /\ \A i \in 1..Len(w) : Append(w, x)[i] = w[i]
  BY DEF Texts
<1>2. Len(w) = 1 /\ w[1] = "-" <=> w = Dash
  BY DEF Texts, Dash
<1>3. QED
  BY <1>1, <1>2 DEF HasR

\* Some token read so far is that option, or begins with it.
Found(s, n) == \E m \in 1..n : HasR(BareTo(s, m))

LexInv(s, n, a) ==
    /\ a.word = <<>> => BareTo(s, n) = <<>>
    /\ a.word = Dash => BareTo(s, n) = Dash
    /\ ~a.some => a.word = <<>>
    /\ HasR(a.word) => Found(s, n)
    /\ \A k \in DOMAIN a.words : HasR(a.words[k]) => Found(s, n)

\* shlex puts "-r" at the beginning of a word only where the runner sees it at the beginning
\* of the bare token.
LEMMA LexStep ==
  ASSUME NEW s \in Texts, NEW n \in 1..Len(s), NEW a \in LexState, LexInv(s, n - 1, a)
  PROVE  LexInv(s, n, Read(a, s[n]))
<1> DEFINE x == s[n]
           old == BareTo(s, n - 1)
           new == BareTo(s, n)
<1>1. n \in Nat /\ n - 1 \in Nat /\ n \in 1..n /\ \A m \in 1..n - 1 : m \in 1..n
  BY Indexed
<1>2. x \in Pieces /\ old \in Texts /\ new \in Texts /\ new = IF x = "blank" THEN <<>> ELSE Unquoted(old, x)
  BY Indexed, BareStep
<1>3. Found(s, n - 1) => Found(s, n)
  BY <1>1 DEF Found
<1>4. HasR(new) => Found(s, n)
  BY <1>1 DEF Found
<1> HIDE DEF x, old, new
<1>5. /\ a.word = <<>> => old = <<>>
      /\ a.word = Dash => old = Dash
      /\ ~a.some => a.word = <<>>
      /\ HasR(a.word) => Found(s, n)
      /\ \A k \in DOMAIN a.words : HasR(a.words[k]) => Found(s, n)
  BY <1>3 DEF LexInv, old
<1>6. a.word \in Texts /\ a.words \in Seq(Texts)
  BY DEF LexState
<1> DEFINE b == Read(a, x)
           Goal == /\ b.word = <<>> => new = <<>>
                   /\ b.word = Dash => new = Dash
                   /\ ~b.some => b.word = <<>>
                   /\ HasR(b.word) => Found(s, n)
                   /\ \A k \in DOMAIN b.words : HasR(b.words[k]) => Found(s, n)
<1>7. ~HasR(<<>>) /\ <<>> # Dash
  BY DEF HasR, Dash
<1>8. Goal
  <2>1. CASE x = "backslash" /\ b = [a EXCEPT !.escape = TRUE]
    <3>1. b.word = a.word /\ b.words = a.words /\ b.some = a.some
      BY <2>1 DEF LexState
    <3>2. new = old
      BY <1>2, <2>1 DEF Unquoted
    <3> HIDE DEF b
    <3>3. QED
      BY <1>5, <3>1, <3>2
  <2>2. CASE x = "quote" /\ b = [a EXCEPT !.quoted = ~@, !.some = TRUE]
    <3>1. b.word = a.word /\ b.words = a.words /\ b.some
      BY <2>2 DEF LexState
    <3>2. new = old
      BY <1>2, <2>2 DEF Unquoted
    <3> HIDE DEF b
    <3>3. QED
      BY <1>5, <3>1, <3>2
  <2>3. CASE x = "blank" /\ b = End(a)
    <3>1. new = <<>>
      BY <1>2, <2>3
    <3> HIDE DEF b
    <3>2. CASE a.some
      <4>1. b.words = Append(a.words, a.word) /\ b.word = <<>>
        BY <2>3, <3>2, EndIs
      <4>2. \A k \in DOMAIN b.words : (k \in DOMAIN a.words /\ b.words[k] = a.words[k]) \/ b.words[k] = a.word
        BY <1>6, <4>1
      <4>3. QED
        BY <1>5, <1>7, <3>1, <4>1, <4>2
    <3>3. CASE ~a.some
      <4>1. b = a
        BY <2>3, <3>3, EndIs
      <4>2. QED
        BY <1>5, <1>7, <3>1, <3>3, <4>1
    <3>4. QED
      BY <3>2, <3>3
  <2>4. CASE b = Put(a, x)
    <3> HIDE DEF b
    <3>1. b.word = Append(a.word, x) /\ b.words = a.words /\ b.some
      BY <1>2, <2>4, PutIs
    <3>2. b.word # <<>> /\ (b.word = Dash => a.word = <<>> /\ x = "-")
      BY <1>2, <1>6, <3>1, LongerWord
    <3>3. b.word = Dash => new = Dash
      <4>1. x = "-" => new = Append(old, x)
        BY <1>2 DEF Unquoted
      <4>2. Append(<<>>, "-") = Dash
        BY DEF Dash
      <4>3. QED
        BY <1>5, <3>2, <4>1, <4>2
    <3>4. HasR(b.word) => Found(s, n)
      <4>1. HasR(b.word) <=> HasR(a.word) \/ (a.word = Dash /\ x = "r")
        BY <1>2, <1>6, <3>1, HasRGrows
      <4>2. x = "r" => new = Append(old, x)
        BY <1>2 DEF Unquoted
      <4>3. a.word = Dash /\ x = "r" => HasR(new)
        <5>1. old \in Texts /\ x \in Pieces
          BY <1>2
        <5>2. old = Dash /\ x = "r" => HasR(Append(old, x))
          BY <5>1, HasRGrows
        <5>3. QED
          BY <1>5, <4>2, <5>2
      <4>4. QED
        BY <1>4, <1>5, <4>1, <4>3
    <3>5. QED
      BY <1>5, <3>1, <3>2, <3>3, <3>4
  <2>5. CASE b = Put(Put(a, "backslash"), x)
    <3> HIDE DEF b
    <3> DEFINE c == Put(a, "backslash")
               w == Append(a.word, "backslash")
    <3>1. "backslash" \in Pieces
      BY DEF Pieces
    <3>2. c \in LexState /\ c.word = w /\ c.words = a.words
      BY <3>1, PutIs
    <3>3. w \in Texts /\ w # <<>> /\ w # Dash
      BY <1>6, <3>1, LongerWord
    <3>4. HasR(w) => HasR(a.word)
      BY <1>6, <3>1, HasRGrows
    <3> HIDE DEF c, w
    <3>5. b = Put(c, x)
      BY <2>5 DEF c
    <3>6. b.word = Append(w, x) /\ b.words = a.words /\ b.some
      BY <1>2, <3>2, <3>5, PutIs
    <3>7. b.word # <<>> /\ b.word # Dash
      BY <1>2, <3>3, <3>6, LongerWord
    <3>8. HasR(b.word) => HasR(w)
      BY <1>2, <3>3, <3>6, HasRGrows
    <3>9. QED
      BY <1>5, <3>4, <3>6, <3>7, <3>8
  <2>6. QED
    <3> HIDE DEF Goal, b
    <3> QED
      BY <1>2, <2>1, <2>2, <2>3, <2>4, <2>5, ReadCases DEF b
<1>9. QED
  BY <1>8 DEF LexInv, new, x

\* An option -r that reaches optparse is in a token of the text.
LEMMA OnlyOptions ==
  ASSUME NEW a \in OptState, NEW w \in Texts
  PROVE  "r" \in Take(a, w).opts => "r" \in a.opts \/ HasR(w)
<1>1. [a EXCEPT !.value = FALSE].opts = a.opts /\ [a EXCEPT !.done = TRUE].opts = a.opts
      /\ [a EXCEPT !.error = TRUE].opts = a.opts /\ [a EXCEPT !.opts = @ \cup {"pre"}].opts = a.opts \cup {"pre"}
  BY DEF OptState
<1>2. ASSUME ~Long(w), Starts(w), Len(w) > 1, w[2] \in {"r", "C"}
      PROVE  "r" \in [a EXCEPT !.opts = @ \cup {w[2]}, !.value = Len(w) = 2].opts => "r" \in a.opts \/ HasR(w)
  <2>1. [a EXCEPT !.opts = @ \cup {w[2]}, !.value = Len(w) = 2].opts = a.opts \cup {w[2]}
    BY DEF OptState
  <2>2. w[1] = "-"
    BY <1>2 DEF Long, Starts, Dashes
  <2>3. QED
    BY <1>2, <2>1, <2>2 DEF HasR
<1>3. QED
  BY <1>1, <1>2 DEF Take

\* The states of shlex along a text.
LexTrace(s, f) ==
    /\ f \in [0..Len(s) -> LexState] /\ f[0] = LexNone
    /\ \A n \in 1..Len(s) : f[n] = Read(f[n - 1], s[n])
    /\ Shlex(s).words = End(f[Len(s)]).words
    /\ \A n \in 0..Len(s) : LexInv(s, n, f[n])

\* That holds along every text.
LEMMA LexTraced ==
  ASSUME NEW s \in Texts
  PROVE  \E f : LexTrace(s, f)
<1> DEFINE N == Len(s)
<1>1. N \in Nat /\ N \in 0..N /\ DOMAIN s = 1..N
  BY Indexed
<1>2. PICK f : /\ f \in [0..N -> LexState] /\ f[0] = LexNone /\ \A n \in 1..N : f[n] = Read(f[n - 1], s[n])
               /\ Shlex(s) = [words |-> End(f[N]).words, open |-> f[N].quoted \/ f[N].escape]
  BY LexedBy
<1> HIDE DEF N
<1> DEFINE P == {n \in 0..N : LexInv(s, n, f[n])}
<1>3. 0 \in P
  <2>1. DOMAIN LexNone.words = {} /\ LexNone.word = <<>> /\ ~LexNone.some
    BY DEF LexNone
  <2>2. ~HasR(<<>>) /\ <<>> # Dash /\ BareTo(s, 0) = <<>>
    BY DEF HasR, Dash, BareTo
  <2>3. LexInv(s, 0, LexNone)
    BY <2>1, <2>2 DEF LexInv
  <2>4. QED
    BY <1>1, <1>2, <2>3
<1>4. ASSUME NEW n \in 0..N, n \in P, n # N
      PROVE  n + 1 \in P
  <2>1. n + 1 \in 1..N /\ (n + 1) - 1 = n /\ n + 1 \in 0..N
    BY <1>1, <1>4
  <2>2. f[n] \in LexState /\ LexInv(s, n, f[n]) /\ f[n + 1] = Read(f[n], s[n + 1])
    BY <1>2, <1>4, <2>1
  <2>3. LexInv(s, n + 1, f[n + 1])
    BY <2>1, <2>2, LexStep DEF N
  <2>4. QED
    BY <2>1, <2>3
<1>5. \A n \in 0..N : LexInv(s, n, f[n])
  <2> HIDE DEF P
  <2>1. 0..N \subseteq P
    BY <1>1, <1>3, <1>4, Induct
  <2>2. QED
    BY <2>1 DEF P
<1>6. QED
  BY <1>2, <1>5 DEF LexTrace, N

\* So a "-r" that optparse finds is a token the runner forbids.
LEMMA HiddenR ==
  ASSUME NEW s \in Texts, "r" \in Optparse(Shlex(s).words).opts
  PROVE  \E e \in Ends(s) : ForbiddenOption(Token(s, e))
<1> DEFINE N == Len(s)
<1>1. N \in Nat /\ N \in 0..N /\ DOMAIN s = 1..N
  BY Indexed
<1>2. PICK f : LexTrace(s, f)
  BY LexTraced
<1>5. LexInv(s, N, f[N]) /\ f[N] \in LexState /\ Shlex(s).words = End(f[N]).words
  BY <1>1, <1>2 DEF LexTrace
<1> HIDE DEF N
<1> DEFINE words == End(f[N]).words
<1>6. words \in Seq(Texts) /\ Shlex(s).words = words /\ \A k \in DOMAIN words : HasR(words[k]) => Found(s, N)
  <2>1. words \in Seq(Texts) /\ Shlex(s).words = words
    BY <1>5, EndIs DEF LexState
  <2>2. CASE f[N].some
    <3>1. words = Append(f[N].words, f[N].word) /\ f[N].words \in Seq(Texts)
      BY <1>5, <2>2, EndIs DEF LexState
    <3> HIDE DEF words
    <3>2. \A k \in DOMAIN words : (k \in DOMAIN f[N].words /\ words[k] = f[N].words[k]) \/ words[k] = f[N].word
      BY <3>1
    <3>3. QED
      BY <1>5, <2>1, <3>2 DEF LexInv
  <2>3. CASE ~f[N].some
    BY <1>5, <2>1, <2>3, EndIs DEF LexInv
  <2>4. QED
    BY <2>2, <2>3
<1> HIDE DEF words
<1> DEFINE M == Len(words)
<1>7. PICK o : /\ o \in [0..M -> OptState] /\ o[0] = OptNone /\ \A n \in 1..M : o[n] = Take(o[n - 1], words[n])
               /\ Optparse(words) = o[M]
  BY <1>6, ParsedBy
<1>8. M \in Nat /\ M \in 0..M /\ DOMAIN words = 1..M /\ \A n \in 1..M : words[n] \in Texts
  BY <1>6
<1> HIDE DEF M
<1> DEFINE Q == {n \in 0..M : "r" \in o[n].opts => Found(s, N)}
<1>9. 0 \in Q
  BY <1>7, <1>8 DEF OptNone
<1>10. ASSUME NEW n \in 0..M, n \in Q, n # M
       PROVE  n + 1 \in Q
  <2>1. n + 1 \in 1..M /\ (n + 1) - 1 = n /\ n + 1 \in 0..M
    BY <1>8, <1>10
  <2>2. o[n] \in OptState /\ words[n + 1] \in Texts /\ o[n + 1] = Take(o[n], words[n + 1])
    BY <1>7, <1>8, <1>10, <2>1
  <2>3. "r" \in o[n + 1].opts => "r" \in o[n].opts \/ HasR(words[n + 1])
    BY <2>2, OnlyOptions
  <2>4. QED
    BY <1>6, <1>8, <1>10, <2>1, <2>3
<1>11. Found(s, N)
  <2> HIDE DEF Q
  <2>1. 0..M \subseteq Q
    BY <1>8, <1>9, <1>10, Induct
  <2>2. M \in Q
    BY <1>8, <2>1
  <2>3. QED
    BY <1>6, <1>7, <2>2 DEF Q
<1> DEFINE S == {m \in 1..N : HasR(BareTo(s, m))}
<1>12. PICK m \in S : \A k \in S : k <= m
  <2>1. S # {}
    BY <1>11 DEF Found
  <2>2. S \in SUBSET (0..N)
    BY <1>1
  <2> HIDE DEF S
  <2>3. QED
    BY <1>1, <2>1, <2>2, FirstLast
<1>13. m \in 1..N /\ HasR(BareTo(s, m))
  BY <1>12
<1>14. s[m] # "blank" /\ BareTo(s, m) = Bare(Token(s, m))
  <2>1. ~HasR(<<>>)
    BY DEF HasR
  <2>2. QED
    BY <1>1, <1>13, <2>1 DEF BareTo
<1>15. ASSUME m # N, s[m + 1] # "blank" PROVE FALSE
  <2>1. m + 1 \in 1..N /\ (m + 1) - 1 = m
    BY <1>1, <1>13, <1>15
  <2>2. s[m + 1] \in Pieces /\ BareTo(s, m) \in Texts /\ BareTo(s, m + 1) = Unquoted(BareTo(s, m), s[m + 1])
    BY <1>15, <2>1, BareStep, Indexed DEF N
  <2>3. HasR(BareTo(s, m + 1))
    BY <1>13, <2>2, HasRGrows DEF Unquoted
  <2>4. m + 1 <= m
    BY <1>12, <2>1, <2>3
  <2>5. QED
    BY <1>1, <1>13, <2>4
<1>16. m \in Ends(s)
  BY <1>1, <1>13, <1>14, <1>15 DEF Ends, N
<1>17. ForbiddenOption(Token(s, m))
  <2>1. HasR(Bare(Token(s, m)))
    BY <1>13, <1>14
  <2> DEFINE b == Bare(Token(s, m))
  <2> HIDE DEF b
  <2>2. HasR(b)
    BY <2>1 DEF b
  <2>3. ~Long(b) /\ Starts(b) /\ Len(b) > 1 /\ b[2] = "r"
    <3>1. Len(b) > 1 /\ b[1] = "-" /\ b[2] = "r"
      BY <2>2 DEF HasR
    <3>2. b # <<>>
      BY <3>1
    <3>3. QED
      BY <3>1, <3>2 DEF Long, Starts, Dashes
  <2>4. QED
    BY <2>3 DEF ForbiddenOption, b
<1>18. QED
  BY <1>16, <1>17

----------------------------------------------------------------------------
(* An ignored option: optparse and the runner word by word                 *)

\* What quotes and backslashes can put into a word never leaves the words again.
Odd(w) == \E i \in DOMAIN w : w[i] \in {"blank", "backslash", "quote"}
OddState(a) == Odd(a.word) \/ \E k \in DOMAIN a.words : Odd(a.words[k])

\* A word holds such a piece from the moment it is put in.
LEMMA OddGrows ==
  ASSUME NEW w \in Texts, NEW x \in Pieces
  PROVE  Odd(Append(w, x)) <=> Odd(w) \/ x \in {"blank", "backslash", "quote"}
<1>1. DOMAIN w = 1..Len(w) /\ Len(w) \in Nat /\ DOMAIN Append(w, x) = 1..Len(w) + 1 /\ Append(w, x)[Len(w) + 1] = x
      /\ \A i \in 1..Len(w) : Append(w, x)[i] = w[i]
  BY DEF Texts
<1>2. \A i \in 1..Len(w) + 1 : i \in 1..Len(w) \/ i = Len(w) + 1
  BY <1>1
<1>3. (\A i \in 1..Len(w) : i \in 1..Len(w) + 1) /\ Len(w) + 1 \in 1..Len(w) + 1
  BY <1>1
<1>4. QED
  BY <1>1, <1>2, <1>3 DEF Odd

\* So does a state of shlex.
LEMMA OddPut ==
  ASSUME NEW a \in LexState, NEW x \in Pieces
  PROVE  OddState(Put(a, x)) <=> OddState(a) \/ x \in {"blank", "backslash", "quote"}
<1>1. a.word \in Texts
  BY DEF LexState
<1>2. Odd(Append(a.word, x)) <=> Odd(a.word) \/ x \in {"blank", "backslash", "quote"}
  BY <1>1, OddGrows
<1>3. Put(a, x).word = Append(a.word, x) /\ Put(a, x).words = a.words
  BY PutIs
<1>4. QED
  BY <1>2, <1>3 DEF OddState

\* The end of a word keeps it.
LEMMA OddEnd ==
  ASSUME NEW a \in LexState, OddState(a)
  PROVE  OddState(End(a))
<1>1. CASE a.some
  <2>1. End(a).words = Append(a.words, a.word) /\ a.words \in Seq(Texts)
    BY <1>1, EndIs DEF LexState
  <2> DEFINE ws == End(a).words
             N == Len(a.words)
  <2>2. N \in Nat /\ DOMAIN a.words = 1..N /\ DOMAIN ws = 1..N + 1 /\ ws[N + 1] = a.word
        /\ \A k \in 1..N : ws[k] = a.words[k]
    BY <2>1
  <2> HIDE DEF N
  <2>3. N + 1 \in DOMAIN ws /\ \A k \in DOMAIN a.words : k \in DOMAIN ws /\ ws[k] = a.words[k]
    BY <2>2
  <2>4. \E k \in DOMAIN ws : Odd(ws[k])
    <3> HIDE DEF ws
    <3> QED
      BY <2>2, <2>3 DEF OddState
  <2>5. QED
    BY <2>4 DEF OddState
<1>2. CASE ~a.some
  BY <1>2, EndIs
<1>3. QED
  BY <1>1, <1>2

\* So does every character.
LEMMA OddStays ==
  ASSUME NEW a \in LexState, NEW x \in Pieces, OddState(a)
  PROVE  OddState(Read(a, x))
<1>1. [a EXCEPT !.escape = TRUE].word = a.word /\ [a EXCEPT !.escape = TRUE].words = a.words
      /\ [a EXCEPT !.quoted = ~@, !.some = TRUE].word = a.word /\ [a EXCEPT !.quoted = ~@, !.some = TRUE].words = a.words
  BY DEF LexState
<1>2. OddState([a EXCEPT !.escape = TRUE]) /\ OddState([a EXCEPT !.quoted = ~@, !.some = TRUE])
  BY <1>1 DEF OddState
<1>3. OddState(End(a)) /\ OddState(Put(a, x))
  BY OddEnd, OddPut
<1>4. OddState(Put(Put(a, "backslash"), x))
  <2>1. "backslash" \in Pieces
    BY DEF Pieces
  <2>2. Put(a, "backslash") \in LexState /\ OddState(Put(a, "backslash"))
    BY <2>1, PutIs, OddPut
  <2>3. QED
    BY <2>2, OddPut
<1>5. QED
  BY <1>2, <1>3, <1>4, ReadCases

\* Without such a piece the word that shlex is reading is the runner's token, bare, and
\* the words grow where the tokens end.
LexPlain(s, n, a) ==
    /\ a.word = BareTo(s, n)
    /\ a.some \/ a.escape <=> n # 0 /\ s[n] # "blank"

\* This holds from each character to the next.
LEMMA PlainStep ==
  ASSUME NEW s \in Texts, NEW n \in 1..Len(s), NEW a \in LexState,
         LexInv(s, n - 1, a), LexPlain(s, n - 1, a), ~OddState(Read(a, s[n]))
  PROVE  /\ LexPlain(s, n, Read(a, s[n]))
         /\ \/ n - 1 \in Ends(s) /\ Read(a, s[n]).words = Append(a.words, a.word)
            \/ n - 1 \notin Ends(s) /\ Read(a, s[n]).words = a.words
<1> DEFINE x == s[n]
           old == BareTo(s, n - 1)
           new == BareTo(s, n)
           b == Read(a, x)
           ended == n - 1 \in Ends(s)
           inside == n - 1 # 0 /\ s[n - 1] # "blank"
<1>1. x \in Pieces /\ new = IF x = "blank" THEN <<>> ELSE Unquoted(old, x)
  BY Indexed, BareStep
<1>2. n # 0 /\ (ended <=> inside /\ x = "blank")
  <2>1. Len(s) \in Nat /\ DOMAIN s = 1..Len(s)
    BY Indexed
  <2>2. n - 1 # Len(s) /\ (n - 1) + 1 = n /\ (n - 1 # 0 => n - 1 \in 1..Len(s)) /\ 0 \notin 1..Len(s) /\ n # 0
    BY <2>1
  <2>3. QED
    BY <2>1, <2>2 DEF Ends
<1>3. a.word = old /\ (a.some \/ a.escape <=> inside) /\ (~a.some => a.word = <<>>) /\ ~OddState(b)
  BY DEF LexPlain, LexInv
<1> DEFINE Goal == /\ b.word = new
                   /\ b.some \/ b.escape <=> x # "blank"
                   /\ (ended /\ b.words = Append(a.words, a.word)) \/ (~ended /\ b.words = a.words)
<1> SUFFICES Goal
  BY <1>2 DEF LexPlain
<1> HIDE DEF ended, inside, x, old, new
<1>4. CASE x = "backslash" /\ b = [a EXCEPT !.escape = TRUE]
  <2>1. b.word = a.word /\ b.words = a.words /\ b.escape
    BY <1>4 DEF LexState
  <2>2. new = old
    BY <1>1, <1>4 DEF Unquoted
  <2> HIDE DEF b
  <2>3. QED
    BY <1>2, <1>3, <1>4, <2>1, <2>2
<1>5. CASE x = "quote" /\ b = [a EXCEPT !.quoted = ~@, !.some = TRUE]
  <2>1. b.word = a.word /\ b.words = a.words /\ b.some
    BY <1>5 DEF LexState
  <2>2. new = old
    BY <1>1, <1>5 DEF Unquoted
  <2> HIDE DEF b
  <2>3. QED
    BY <1>2, <1>3, <1>5, <2>1, <2>2
<1>6. CASE x = "blank" /\ ~a.escape /\ b = End(a)
  <2> HIDE DEF b
  <2>1. new = <<>>
    BY <1>1, <1>6
  <2>2. CASE a.some
    <3>1. b.words = Append(a.words, a.word) /\ b.word = <<>> /\ ~b.some /\ ~b.escape
      BY <1>6, <2>2, EndIs
    <3>2. ended
      BY <1>2, <1>3, <1>6, <2>2
    <3>3. b.word = new /\ ~(b.some \/ b.escape) /\ x = "blank"
      BY <1>6, <2>1, <3>1
    <3>4. b.words = Append(a.words, a.word)
      BY <3>1
    <3>5. QED
      BY <3>2, <3>3, <3>4
  <2>3. CASE ~a.some
    <3>1. b = a
      BY <1>6, <2>3, EndIs
    <3>2. QED
      BY <1>2, <1>3, <1>6, <2>1, <2>3, <3>1
  <2>4. QED
    BY <2>2, <2>3
<1>7. CASE b = Put(a, x)
  <2> HIDE DEF b
  <2>1. x \notin {"blank", "backslash", "quote"}
    BY <1>1, <1>3, <1>7, OddPut
  <2>2. b.word = Append(a.word, x) /\ b.words = a.words /\ b.some
    BY <1>1, <1>7, PutIs
  <2>3. new = Append(old, x)
    BY <1>1, <2>1 DEF Unquoted
  <2>4. QED
    BY <1>2, <1>3, <2>1, <2>2, <2>3
<1>8. CASE b = Put(Put(a, "backslash"), x)
  <2>1. "backslash" \in Pieces
    BY DEF Pieces
  <2>2. Put(a, "backslash") \in LexState /\ OddState(Put(a, "backslash"))
    BY <2>1, PutIs, OddPut
  <2>3. OddState(b)
    BY <1>1, <1>8, <2>2, OddPut
  <2>4. QED
    BY <1>3, <2>3
<1>9. QED
  <2> HIDE DEF Goal, b
  <2> QED
    BY <1>1, <1>4, <1>5, <1>6, <1>7, <1>8, ReadCases DEF b

\* optparse goes on word by word.
LEMMA OptGrows ==
  ASSUME NEW ws \in Seq(Texts), NEW w \in Texts
  PROVE  /\ Optparse(ws) \in OptState /\ Optparse(<<>>) = OptNone
         /\ Optparse(Append(ws, w)) = Take(Optparse(ws), w)
<1>1. ASSUME NEW u \in Seq(Texts)
      PROVE  \E f : f \in [0..Len(u) -> OptState] /\ f[0] = OptNone /\ (\A n \in 1..Len(u) : f[n] = Take(f[n - 1], u[n]))
                    /\ Optparse(u) = f[Len(u)] /\ Optparse(u) \in OptState
  <2>1. PICK f : f \in [0..Len(u) -> OptState] /\ f[0] = OptNone /\ (\A n \in 1..Len(u) : f[n] = Take(f[n - 1], u[n]))
                    /\ Optparse(u) = f[Len(u)]
    BY ParsedBy
  <2>2. Len(u) \in 0..Len(u)
    OBVIOUS
  <2>3. QED
    BY <2>1, <2>2
<1> DEFINE u == Append(ws, w)
           N == Len(ws)
<1>2. u \in Seq(Texts) /\ Len(u) = N + 1 /\ N \in Nat /\ u[N + 1] = w /\ \A n \in 1..N : u[n] = ws[n]
  OBVIOUS
<1> HIDE DEF u
<1>3. PICK f : f \in [0..N -> OptState] /\ f[0] = OptNone /\ (\A n \in 1..N : f[n] = Take(f[n - 1], ws[n]))
                    /\ Optparse(ws) = f[N] /\ Optparse(ws) \in OptState
  BY <1>1
<1>4. PICK g : g \in [0..Len(u) -> OptState] /\ g[0] = OptNone /\ (\A n \in 1..Len(u) : g[n] = Take(g[n - 1], u[n]))
                    /\ Optparse(u) = g[Len(u)]
  BY <1>1, <1>2
<1> HIDE DEF N
<1> DEFINE r == [n \in 0..N |-> g[n]]
<1>5. f[N] = g[N]
  <2>1. r = [n \in 0..N |-> r[n]] /\ f[0] = r[0]
    BY <1>2, <1>3, <1>4
  <2>2. \A n \in 1..N : f[n - 1] = r[n - 1] => f[n] = r[n]
    <3>1. \A n \in 1..N : n \in 0..N /\ n - 1 \in 0..N /\ n \in 1..N + 1
      BY <1>2
    <3>2. QED
      BY <1>2, <1>3, <1>4, <3>1
  <2>3. r[N] = g[N]
    BY <1>2
  <2> HIDE DEF r
  <2>4. Alike(f, r, N, OptState)
    BY <1>2, <1>3, <2>1, <2>2 DEF Alike
  <2>5. QED
    BY <2>3, <2>4, Agree
<1>6. g[N + 1] = Take(g[N], w)
  <2>1. N + 1 \in 1..N + 1 /\ (N + 1) - 1 = N
    BY <1>2
  <2>2. QED
    BY <1>2, <1>4, <2>1
<1>7. Optparse(u) = Take(Optparse(ws), w)
  BY <1>2, <1>3, <1>4, <1>5, <1>6
<1>8. Optparse(<<>>) = OptNone
  <2>1. <<>> \in Seq(Texts) /\ Len(<<>>) = 0
    OBVIOUS
  <2>2. QED
    BY <1>1, <2>1
<1>9. QED
  BY <1>3, <1>7, <1>8 DEF u

Pre    == <<"--pre">>
TwoBar == <<"-", "-">>
DashC  == <<"-", "C">>
JustC  == <<"C">>

\* How "--pre" and "-C" are read.
LEMMA Words ==
  /\ Long(Pre) /\ Name(Pre) # JustC /\ Name(Pre) # <<>>
  /\ ~Long(DashC) /\ Starts(DashC) /\ Len(DashC) > 1
<1>1. Pre # <<>> /\ Pre[1] = "--pre" /\ Pre # JustC
  BY DEF Pre, JustC
<1>2. Name(Pre) = Pre
  BY <1>1 DEF Name
<1>3. DashC # <<>> /\ Len(DashC) = 2 /\ DashC[1] = "-" /\ DashC[2] = "C"
  BY DEF DashC
<1>4. QED
  BY <1>1, <1>2, <1>3 DEF Long, Starts, Dashes

\* A short option with C is "-C" alone if it has two characters.
LEMMA IsDashC ==
  ASSUME NEW w \in Texts, ~Long(w), Starts(w), Len(w) > 1, w[2] = "C"
  PROVE  Len(w) = 2 <=> w = DashC
<1>1. w[1] = "-"
  BY DEF Long, Starts, Dashes
<1>2. w \in Seq(Pieces)
  BY DEF Texts
<1>3. QED
  BY <1>1, <1>2 DEF DashC

\* What optparse makes of a word.
LEMMA TakeCases ==
  ASSUME NEW o \in OptState, NEW w \in Texts
  PROVE  /\ o.error \/ o.done => Take(o, w) = o
         /\ ~o.error /\ ~o.done /\ o.value => Take(o, w).value = FALSE /\ Take(o, w).opts = o.opts
         /\ ~o.error /\ ~o.done /\ ~o.value =>
              /\ w = TwoBar => Take(o, w).done = TRUE /\ Take(o, w).opts = o.opts
              /\ w = Pre => Take(o, w).value = FALSE
              /\ Long(w) /\ w # TwoBar /\ w # Pre => Take(o, w).error = TRUE /\ Take(o, w).opts = o.opts
              /\ ~Long(w) /\ Starts(w) /\ Len(w) > 1 /\ w[2] = "C" =>
                    Take(o, w).value = (Len(w) = 2) /\ Take(o, w).opts = o.opts \cup {"C"}
              /\ ~Long(w) /\ Starts(w) /\ Len(w) > 1 /\ w[2] \notin {"r", "C"} =>
                    Take(o, w).error = TRUE /\ Take(o, w).opts = o.opts
              /\ ~Long(w) /\ ~(Starts(w) /\ Len(w) > 1) => Take(o, w) = o
<1>1. Long(TwoBar) /\ Long(Pre) /\ TwoBar # Pre
  <2>1. TwoBar # <<>> /\ TwoBar[1] = "-" /\ TwoBar[2] = "-" /\ Len(TwoBar) = 2 /\ TwoBar # Pre
    BY DEF TwoBar, Pre
  <2>2. QED
    BY <2>1, Words DEF Long, Starts, Dashes
<1>2. o.error \in BOOLEAN /\ o.done \in BOOLEAN /\ o.value \in BOOLEAN
  BY DEF OptState
<1>3. /\ [o EXCEPT !.value = FALSE].value = FALSE /\ [o EXCEPT !.value = FALSE].opts = o.opts
      /\ [o EXCEPT !.done = TRUE].done = TRUE /\ [o EXCEPT !.done = TRUE].opts = o.opts
      /\ [o EXCEPT !.error = TRUE].error = TRUE /\ [o EXCEPT !.error = TRUE].opts = o.opts
      /\ [o EXCEPT !.opts = @ \cup {"pre"}].value = o.value
  BY DEF OptState
<1>4. [o EXCEPT !.opts = @ \cup {w[2]}, !.value = Len(w) = 2].value = (Len(w) = 2)
      /\ [o EXCEPT !.opts = @ \cup {w[2]}, !.value = Len(w) = 2].opts = o.opts \cup {w[2]}
  BY DEF OptState
<1>5. Take(o, w) =
        IF o.error \/ o.done THEN o
        ELSE IF o.value THEN [o EXCEPT !.value = FALSE]
        ELSE CASE w = TwoBar -> [o EXCEPT !.done = TRUE]
               [] w = Pre -> [o EXCEPT !.opts = @ \cup {"pre"}]
               [] Long(w) /\ w \notin {TwoBar, Pre} -> [o EXCEPT !.error = TRUE]
               [] ~Long(w) /\ Starts(w) /\ Len(w) > 1 ->
                    IF w[2] \in {"r", "C"} THEN [o EXCEPT !.opts = @ \cup {w[2]}, !.value = Len(w) = 2]
                    ELSE [o EXCEPT !.error = TRUE]
               [] OTHER -> o
  BY DEF Take, TwoBar, Pre
<1>6. CASE o.error \/ o.done
  BY <1>5, <1>6
<1>7. CASE ~o.error /\ ~o.done /\ o.value
  BY <1>3, <1>5, <1>7
<1>8. CASE ~o.error /\ ~o.done /\ ~o.value
  <2>1. Take(o, w) =
         CASE w = TwoBar -> [o EXCEPT !.done = TRUE]
           [] w = Pre -> [o EXCEPT !.opts = @ \cup {"pre"}]
           [] Long(w) /\ w \notin {TwoBar, Pre} -> [o EXCEPT !.error = TRUE]
           [] ~Long(w) /\ Starts(w) /\ Len(w) > 1 ->
                IF w[2] \in {"r", "C"} THEN [o EXCEPT !.opts = @ \cup {w[2]}, !.value = Len(w) = 2]
                ELSE [o EXCEPT !.error = TRUE]
           [] OTHER -> o
    BY <1>5, <1>8
  <2>2. w = TwoBar => Take(o, w) = [o EXCEPT !.done = TRUE]
    BY <1>1, <2>1
  <2>3. w = Pre => Take(o, w) = [o EXCEPT !.opts = @ \cup {"pre"}]
    BY <1>1, <2>1
  <2>4. Long(w) /\ w # TwoBar /\ w # Pre => Take(o, w) = [o EXCEPT !.error = TRUE]
    BY <1>1, <2>1
  <2>5. ~Long(w) /\ Starts(w) /\ Len(w) > 1 =>
          Take(o, w) = IF w[2] \in {"r", "C"} THEN [o EXCEPT !.opts = @ \cup {w[2]}, !.value = Len(w) = 2]
                       ELSE [o EXCEPT !.error = TRUE]
    BY <1>1, <2>1
  <2>6. ~Long(w) /\ ~(Starts(w) /\ Len(w) > 1) => Take(o, w) = o
    BY <1>1, <2>1
  <2>7. Take(o, w).value = FALSE \/ w # Pre
    BY <1>2, <1>3, <1>8, <2>3
  <2>8. QED
    BY <1>3, <1>4, <1>8, <2>2, <2>4, <2>5, <2>6, <2>7
<1>9. QED
  BY <1>2, <1>6, <1>7, <1>8

\* What the end of a token that is not forbidden does to optparse: it stays in step with
\* the runner on whether a value comes next, and takes "--pre" only where the runner
\* sees an option that would be ignored.
InStep(o, v) == ~o.error /\ ~o.done => (o.value <=> v)

LEMMA CloseStep ==
  ASSUME NEW t, ~ForbiddenOption(t), Bare(t) \in Texts, NEW o \in OptState, NEW v \in BOOLEAN, InStep(o, v)
  PROVE  /\ InStep(Take(o, Bare(t)), ~v /\ TakesSeparateValue(t))
         /\ "pre" \in Take(o, Bare(t)).opts => "pre" \in o.opts \/ (~v /\ IgnoredOnPackageLine(t))
<1> DEFINE w == Bare(t)
           p == Take(o, w)
           sep == TakesSeparateValue(t)
           ign == IgnoredOnPackageLine(t)
<1>1. sep <=> w = DashC \/ (Long(w) /\ Name(w) = JustC)
  BY DEF TakesSeparateValue, DashC, JustC
<1>2. Long(w) => (ign <=> Name(w) \notin {<<>>, JustC})
  BY DEF IgnoredOnPackageLine, JustC
<1>3. ~(~Long(w) /\ Starts(w) /\ Len(w) > 1 /\ w[2] = "r")
  BY DEF ForbiddenOption
<1>4. o.error \in BOOLEAN /\ o.done \in BOOLEAN /\ o.value \in BOOLEAN
  BY DEF OptState
<1>5. w \in Texts
  OBVIOUS
<1> HIDE DEF w, sep, ign
<1>6. p \in OptState
  BY <1>5, TakeTyped
<1>7. p.error \in BOOLEAN /\ p.done \in BOOLEAN /\ p.value \in BOOLEAN
  BY <1>6 DEF OptState
<1>8. InStep(p, ~v /\ sep) /\ ("pre" \in p.opts => "pre" \in o.opts \/ (~v /\ ign))
  <2>1. CASE o.error \/ o.done
    <3>1. p = o
      BY <1>5, <2>1, TakeCases
    <3> HIDE DEF p
    <3>2. QED
      BY <2>1, <3>1 DEF InStep
  <2>2. CASE ~o.error /\ ~o.done /\ o.value
    <3>1. p.value = FALSE /\ p.opts = o.opts /\ v
      BY <1>5, <2>2, TakeCases DEF InStep
    <3> HIDE DEF p
    <3>2. QED
      BY <3>1 DEF InStep
  <2>3. CASE ~o.error /\ ~o.done /\ ~o.value
    <3>0. ~v
      BY <2>3 DEF InStep
    <3>1. CASE w = TwoBar
      <4>1. p.done = TRUE /\ p.opts = o.opts
        BY <1>5, <2>3, <3>1, TakeCases
      <4> HIDE DEF p
      <4>2. QED
        BY <4>1 DEF InStep
    <3>2. CASE w = Pre
      <4>1. p.value = FALSE
        BY <1>5, <2>3, <3>2, TakeCases
      <4>2. ~sep /\ ign
        BY <1>1, <1>2, <3>2, Words
      <4> HIDE DEF p
      <4>3. QED
        BY <3>0, <4>1, <4>2 DEF InStep
    <3>3. CASE w # Pre /\ w # TwoBar /\ Long(w)
      <4>1. p.error = TRUE /\ p.opts = o.opts
        BY <1>5, <2>3, <3>3, TakeCases
      <4> HIDE DEF p
      <4>2. QED
        BY <4>1 DEF InStep
    <3>4. CASE ~Long(w) /\ Starts(w) /\ Len(w) > 1 /\ w[2] = "C"
      <4>1. p.value = (Len(w) = 2) /\ p.opts = o.opts \cup {"C"}
        BY <1>5, <2>3, <3>4, TakeCases
      <4>2. Len(w) = 2 <=> w = DashC
        BY <1>5, <3>4, IsDashC
      <4> HIDE DEF p
      <4>3. p.value <=> sep
        BY <1>1, <3>4, <4>1, <4>2
      <4>4. QED
        BY <3>0, <4>1, <4>3 DEF InStep
    <3>5. CASE ~Long(w) /\ Starts(w) /\ Len(w) > 1 /\ w[2] # "C"
      <4>1. p.error = TRUE /\ p.opts = o.opts
        BY <1>3, <1>5, <2>3, <3>5, TakeCases
      <4> HIDE DEF p
      <4>2. QED
        BY <4>1 DEF InStep
    <3>6. CASE ~Long(w) /\ ~(Starts(w) /\ Len(w) > 1)
      <4>1. p = o
        BY <1>5, <2>3, <3>6, TakeCases
      <4>2. ~sep
        BY <1>1, <3>6, Words
      <4> HIDE DEF p
      <4>3. QED
        BY <2>3, <4>1, <4>2 DEF InStep
    <3>7. QED
      BY <3>1, <3>2, <3>3, <3>4, <3>5, <3>6
  <2>4. QED
    BY <1>4, <2>1, <2>2, <2>3
<1>9. QED
  BY <1>8 DEF w, sep, ign

\* The end of a token, read at the next character or at the end of the text.
LEMMA ClosesAt ==
  ASSUME NEW s \in Texts, NEW e \in Ends(s), ~ForbiddenOption(Token(s, e)), NEW a \in LexState, LexPlain(s, e, a),
         NEW v \in BOOLEAN, InStep(Optparse(a.words), v)
  PROVE  LET p == Optparse(Append(a.words, a.word)) IN
         /\ InStep(p, ValueNext(s, e, v))
         /\ "pre" \in p.opts => "pre" \in Optparse(a.words).opts \/ (~v /\ IgnoredOnPackageLine(Token(s, e)))
<1>1. e \in 1..Len(s) /\ e # 0 /\ s[e] # "blank"
  BY Indexed DEF Ends
<1>2. a.words \in Seq(Texts) /\ a.word \in Texts /\ a.word = Bare(Token(s, e))
  BY <1>1 DEF LexPlain, LexState, BareTo
<1>3. Optparse(a.words) \in OptState /\ Optparse(Append(a.words, a.word)) = Take(Optparse(a.words), Bare(Token(s, e)))
  BY <1>2, OptGrows
<1>4. ValueNext(s, e, v) <=> ~v /\ TakesSeparateValue(Token(s, e))
  BY DEF ValueNext
<1> DEFINE t == Token(s, e)
           o == Optparse(a.words)
           p == Optparse(Append(a.words, a.word))
<1> HIDE DEF t, o, p
<1>5. ~ForbiddenOption(t) /\ Bare(t) \in Texts /\ o \in OptState /\ InStep(o, v) /\ p = Take(o, Bare(t))
  BY <1>2, <1>3 DEF t, o, p
<1>6. InStep(p, ~v /\ TakesSeparateValue(t)) /\ ("pre" \in p.opts => "pre" \in o.opts \/ (~v /\ IgnoredOnPackageLine(t)))
  BY <1>5, CloseStep
<1>7. InStep(p, ValueNext(s, e, v))
  BY <1>4, <1>6 DEF InStep, t
<1>8. QED
  BY <1>6, <1>7 DEF t, o, p

\* In words without blanks, quotes and backslashes, among tokens none of which is forbidden,
\* optparse finds a "--pre" only where the runner finds an option that would be ignored.
LEMMA HiddenPre ==
  ASSUME NEW s \in Texts, \A e \in Ends(s) : ~ForbiddenOption(Token(s, e)),
         \A k \in DOMAIN Shlex(s).words : ~Odd(Shlex(s).words[k]), "pre" \in Optparse(Shlex(s).words).opts
  PROVE  SomeIgnored(s)
<1> DEFINE N == Len(s)
<1>1. N \in Nat /\ N \in 0..N /\ 0 \in 0..N
  BY Indexed
<1>2. PICK f : LexTrace(s, f)
  BY LexTraced
<1>3. PICK v : /\ v \in [0..N -> BOOLEAN] /\ v[0] = No /\ \A n \in 1..N : v[n] = ValueNext(s, n, v[n - 1])
               /\ SomeIgnored(s) <=> \E n \in Ends(s) : ~v[n - 1] /\ IgnoredOnPackageLine(Token(s, n))
  BY ValuesBy
<1>4. \A n \in 0..N : f[n] \in LexState /\ LexInv(s, n, f[n])
  BY <1>2 DEF LexTrace
<1>5. f[0] = LexNone /\ (\A n \in 1..N : f[n] = Read(f[n - 1], s[n])) /\ Shlex(s).words = End(f[N]).words
  BY <1>2 DEF LexTrace
<1>6. \A n \in 1..N : s[n] \in Pieces
  BY Indexed
<1> DEFINE Hit == \E n \in Ends(s) : ~v[n - 1] /\ IgnoredOnPackageLine(Token(s, n))
<1>7. ~OddState(End(f[N]))
  <2>1. f[N] \in LexState /\ LexInv(s, N, f[N])
    BY <1>1, <1>4
  <2>2. End(f[N]).word = <<>>
    BY <2>1, EndIs DEF LexInv
  <2>3. ~Odd(<<>>)
    BY DEF Odd
  <2>4. QED
    BY <1>5, <2>2, <2>3 DEF OddState
<1>8. \A n \in 0..N : ~OddState(f[n])
  <2> DEFINE R == {n \in 0..N : OddState(f[n])}
  <2> SUFFICES ASSUME R # {} PROVE FALSE
    OBVIOUS
  <2>1. PICK m \in R : \A n \in R : n <= m
    <3>1. R \in SUBSET (0..N)
      OBVIOUS
    <3> HIDE DEF R, N
    <3>2. QED
      BY <1>1, <3>1, FirstLast
  <2>2. m \in 0..N /\ OddState(f[m]) /\ f[m] \in LexState
    BY <1>4, <2>1
  <2>3. m # N
    BY <1>7, <2>2, OddEnd
  <2> HIDE DEF N
  <2>4. m + 1 \in 1..N /\ m + 1 \in 0..N /\ (m + 1) - 1 = m
    BY <1>1, <2>2, <2>3
  <2>5. OddState(f[m + 1])
    BY <1>5, <1>6, <2>2, <2>4, OddStays
  <2>6. m + 1 <= m
    BY <2>1, <2>4, <2>5
  <2>7. QED
    BY <1>1, <2>2, <2>6
<1> DEFINE P == {n \in 0..N : /\ LexPlain(s, n, f[n])
                              /\ InStep(Optparse(f[n].words), n # 0 /\ v[n - 1])
                              /\ "pre" \in Optparse(f[n].words).opts => Hit}
<1>9. \A e \in Ends(s) : e \in 1..N /\ s[e] # "blank"
  BY Indexed DEF Ends
<1> HIDE DEF N, Hit
<1>10. 0 \in P
  <2>1. LexPlain(s, 0, LexNone)
    BY DEF LexPlain, LexNone, BareTo
  <2>2. Optparse(LexNone.words) = OptNone
    <3>1. <<>> \in Seq(Texts) /\ <<>> \in Texts /\ LexNone.words = <<>>
      BY DEF Texts, LexNone
    <3>2. QED
      BY <3>1, OptGrows
  <2>3. ~OptNone.value /\ ~("pre" \in OptNone.opts)
    BY DEF OptNone
  <2>4. InStep(OptNone, 0 # 0 /\ v[0 - 1])
    BY <2>3 DEF InStep
  <2>5. QED
    BY <1>1, <1>5, <2>1, <2>2, <2>3, <2>4
<1>11. ASSUME NEW n \in 0..N, n \in P, n # N
       PROVE  n + 1 \in P
  <2>1. n + 1 \in 1..N /\ (n + 1) - 1 = n /\ n + 1 \in 0..N /\ n + 1 # 0 /\ (n # 0 => n \in 1..N /\ n - 1 \in 0..N)
    BY <1>1, <1>11
  <2>2. f[n] \in LexState /\ LexInv(s, n, f[n]) /\ LexPlain(s, n, f[n]) /\ f[n + 1] = Read(f[n], s[n + 1])
        /\ ~OddState(Read(f[n], s[n + 1])) /\ InStep(Optparse(f[n].words), n # 0 /\ v[n - 1])
        /\ ("pre" \in Optparse(f[n].words).opts => Hit)
    BY <1>4, <1>5, <1>8, <1>11, <2>1
  <2>3. /\ LexPlain(s, n + 1, f[n + 1])
        /\ \/ n \in Ends(s) /\ f[n + 1].words = Append(f[n].words, f[n].word)
           \/ n \notin Ends(s) /\ f[n + 1].words = f[n].words
    <3> DEFINE k == n + 1
    <3> HIDE DEF k
    <3>1. k \in 1..Len(s) /\ k - 1 = n /\ f[k] = Read(f[n], s[k]) /\ ~OddState(Read(f[n], s[k]))
      BY <2>1, <2>2 DEF k, N
    <3>2. LexInv(s, k - 1, f[n]) /\ LexPlain(s, k - 1, f[n])
      BY <2>2, <3>1
    <3>3. /\ LexPlain(s, k, Read(f[n], s[k]))
          /\ \/ k - 1 \in Ends(s) /\ Read(f[n], s[k]).words = Append(f[n].words, f[n].word)
             \/ k - 1 \notin Ends(s) /\ Read(f[n], s[k]).words = f[n].words
      BY <2>2, <3>1, <3>2, PlainStep
    <3>4. QED
      BY <3>1, <3>3 DEF k
  <2> DEFINE o == Optparse(f[n].words)
             p == Optparse(f[n + 1].words)
  <2>4. InStep(p, v[n]) /\ ("pre" \in p.opts => Hit)
    <3>1. CASE n \in Ends(s)
      <4>1. n # 0 /\ v[n - 1] \in BOOLEAN /\ v[n] = ValueNext(s, n, v[n - 1]) /\ n \in 1..N
        BY <1>1, <1>3, <1>9, <2>1, <3>1
      <4>2. InStep(o, v[n - 1])
        BY <2>2, <4>1 DEF InStep
      <4>3. p = Optparse(Append(f[n].words, f[n].word))
        BY <2>3, <3>1
      <4> HIDE DEF o, p
      <4>4. InStep(p, ValueNext(s, n, v[n - 1]))
            /\ ("pre" \in p.opts => "pre" \in o.opts \/ (~v[n - 1] /\ IgnoredOnPackageLine(Token(s, n))))
        <5> DEFINE u == v[n - 1]
        <5> HIDE DEF u
        <5>1. u \in BOOLEAN /\ InStep(Optparse(f[n].words), u) /\ ~ForbiddenOption(Token(s, n))
          BY <3>1, <4>1, <4>2 DEF u, o
        <5>2. InStep(p, ValueNext(s, n, u))
              /\ ("pre" \in p.opts => "pre" \in o.opts \/ (~u /\ IgnoredOnPackageLine(Token(s, n))))
          BY <2>2, <3>1, <4>3, <5>1, ClosesAt DEF o
        <5>3. QED
          BY <5>2 DEF u
      <4>5. QED
        BY <2>2, <3>1, <4>1, <4>4 DEF o, Hit
    <3>2. CASE n \notin Ends(s)
      <4>1. p = o
        BY <2>3, <3>2
      <4>2. v[n] <=> n # 0 /\ v[n - 1]
        <5>1. CASE n = 0
          BY <1>3, <5>1 DEF No
        <5>2. CASE n # 0
          <6>1. v[n] = ValueNext(s, n, v[n - 1]) /\ v[n - 1] \in BOOLEAN
            BY <1>3, <2>1, <5>2
          <6>2. QED
            BY <3>2, <5>2, <6>1 DEF ValueNext
        <5>3. QED
          BY <5>1, <5>2
      <4> HIDE DEF o, p
      <4>3. InStep(o, v[n])
        BY <2>2, <4>2 DEF InStep, o
      <4>4. QED
        BY <2>2, <4>1, <4>3 DEF o
    <3>3. QED
      BY <3>1, <3>2
  <2>5. InStep(p, n + 1 # 0 /\ v[(n + 1) - 1])
    <3> HIDE DEF p
    <3> QED
      BY <2>1, <2>4 DEF InStep
  <2>6. QED
    BY <2>1, <2>3, <2>4, <2>5
<1>12. N \in P
  <2> HIDE DEF P
  <2>1. 0..N \subseteq P
    BY <1>1, <1>10, <1>11, Induct
  <2>2. QED
    BY <1>1, <2>1
<1>13. f[N] \in LexState /\ LexPlain(s, N, f[N]) /\ InStep(Optparse(f[N].words), N # 0 /\ v[N - 1])
       /\ ("pre" \in Optparse(f[N].words).opts => Hit)
  BY <1>1, <1>4, <1>12
<1>14. Hit
  <2>1. CASE f[N].some
    <3>1. N # 0 /\ s[N] # "blank" /\ End(f[N]).words = Append(f[N].words, f[N].word)
      BY <1>13, <2>1, EndIs DEF LexPlain
    <3>2. N \in Ends(s) /\ N \in 1..N /\ N - 1 \in 0..N
      BY <1>1, <3>1, Indexed DEF Ends, N
    <3> DEFINE u == v[N - 1]
    <3>3. u \in BOOLEAN
      BY <1>3, <3>2
    <3>4. InStep(Optparse(f[N].words), u)
      BY <1>13, <3>1 DEF InStep
    <3> HIDE DEF u
    <3>5. "pre" \in Optparse(Append(f[N].words, f[N].word)).opts =>
             "pre" \in Optparse(f[N].words).opts \/ (~u /\ IgnoredOnPackageLine(Token(s, N)))
      BY <1>13, <3>2, <3>3, <3>4, ClosesAt
    <3>6. QED
      BY <1>5, <1>13, <3>1, <3>2, <3>5 DEF u, Hit
  <2>2. CASE ~f[N].some
    BY <1>5, <1>13, <2>2, EndIs
  <2>3. QED
    BY <2>1, <2>2
<1>15. QED
  BY <1>3, <1>14 DEF Hit

----------------------------------------------------------------------------
(* The tokens of the options of a line                                     *)

\* Texts are the same when their characters are.
LEMMA SameText ==
  ASSUME NEW t \in Texts, NEW u \in Texts, Len(t) = Len(u), \A k \in 1..Len(t) : t[k] = u[k]
  PROVE  t = u
  BY DEF Texts

\* From the beginning of a token on, a line has its tokens where they were.
LEMMA RestTokens ==
  ASSUME NEW s \in Texts, NEW m \in Begins(s), NEW e \in Ends(SubSeq(s, m, Len(s)))
  PROVE  e + m - 1 \in Ends(s) /\ Token(SubSeq(s, m, Len(s)), e) = Token(s, e + m - 1)
<1> DEFINE N == Len(s)
           rest == SubSeq(s, m, Len(s))
           L == N - m + 1
           place(i) == i + m - 1
<1>1. N \in Nat /\ DOMAIN s = 1..N /\ m \in 1..N /\ s[m] # "blank" /\ (m = 1 \/ s[m - 1] = "blank")
  BY Indexed DEF Begins
<1>2. m \in 1..Len(s) + 1 /\ N \in 0..Len(s) /\ N >= m - 1 /\ L \in Nat
  BY <1>1
<1>3. rest \in Texts /\ Len(rest) = L /\ \A k \in 1..L : rest[k] = s[m + k - 1]
  BY <1>2, SubText
<1>4. DOMAIN rest = 1..L
  BY <1>3, Indexed
<1>5. e \in Ends(rest)
  OBVIOUS
<1> HIDE DEF rest
<1>6. e \in 1..L /\ rest[e] # "blank" /\ (e = L \/ rest[e + 1] = "blank")
  BY <1>3, <1>4, <1>5 DEF Ends
<1>7. \A i \in 1..L : place(i) \in 1..N /\ rest[i] = s[place(i)] /\ (i # L => i + 1 \in 1..L) /\ (i # 1 => i - 1 \in 1..L)
                      /\ place(i + 1) = place(i) + 1 /\ place(i - 1) = place(i) - 1 /\ (i = L <=> place(i) = N)
                      /\ (i = 1 <=> place(i) = m)
  <2> TAKE i \in 1..L
  <2>1. N \in Nat /\ m \in 1..N
    BY <1>1
  <2>2. rest[i] = s[m + i - 1]
    BY <1>3
  <2> HIDE DEF N
  <2>3. i \in Nat /\ m + i - 1 = i + m - 1
    BY <2>1
  <2>4. place(i) \in 1..N /\ (i # L => i + 1 \in 1..L) /\ (i # 1 => i - 1 \in 1..L)
        /\ place(i + 1) = place(i) + 1 /\ place(i - 1) = place(i) - 1 /\ (i = L <=> place(i) = N)
        /\ (i = 1 <=> place(i) = m)
    BY <2>1, <2>3
  <2>5. rest[i] = s[place(i)]
    BY <2>2, <2>3
  <2>6. QED
    BY <2>4, <2>5
<1> HIDE DEF L
<1>8. place(e) \in Ends(s)
  <2>1. place(e) \in 1..N /\ s[place(e)] # "blank"
    BY <1>6, <1>7
  <2>2. place(e) = N \/ s[place(e) + 1] = "blank"
    <3>1. CASE e = L
      BY <1>6, <1>7, <3>1
    <3>2. CASE e # L
      <4>1. e + 1 \in 1..L /\ place(e + 1) = place(e) + 1
        BY <1>6, <1>7, <3>2
      <4> HIDE DEF place
      <4>2. QED
        BY <1>6, <1>7, <3>2, <4>1
    <3>3. QED
      BY <3>1, <3>2
  <2> HIDE DEF place
  <2>3. QED
    BY <1>1, <2>1, <2>2 DEF Ends, N
<1>9. \A i \in 1..L : i \in Begins(rest) <=> place(i) \in Begins(s)
  <2> TAKE i \in 1..L
  <2>1. CASE i = 1
    <3>1. place(i) = m /\ rest[i] # "blank"
      BY <1>1, <1>7, <2>1
    <3> HIDE DEF place
    <3>2. QED
      BY <1>4, <2>1, <3>1 DEF Begins
  <2>2. CASE i # 1
    <3>1. i - 1 \in 1..L /\ place(i - 1) = place(i) - 1 /\ place(i) \in 1..N /\ place(i) # 1 /\ rest[i] = s[place(i)]
      BY <1>1, <1>7, <2>2
    <3> HIDE DEF place
    <3>2. rest[i - 1] = s[place(i) - 1]
      BY <1>7, <3>1
    <3>3. QED
      BY <1>1, <1>4, <2>2, <3>1, <3>2 DEF Begins
  <2>3. QED
    BY <2>1, <2>2
<1>10. PICK b \in Begins(rest) : b \in 1..e /\ (\A i \in Begins(rest) : i <= e => i <= b) /\ Token(rest, e) = SubSeq(rest, b, e)
  BY <1>3, <1>6, TokenAt
<1>11. PICK c \in Begins(s) : c \in 1..place(e) /\ (\A i \in Begins(s) : i <= place(e) => i <= c)
                               /\ Token(s, place(e)) = SubSeq(s, c, place(e))
  <2>1. place(e) \in 1..Len(s) /\ s[place(e)] # "blank"
    BY <1>6, <1>7
  <2> HIDE DEF place
  <2>2. QED
    BY <2>1, TokenAt
<1>12. b \in 1..L /\ place(b) \in Begins(s)
  <2>1. b \in 1..L
    BY <1>2, <1>6, <1>10
  <2> HIDE DEF place
  <2>2. QED
    BY <1>9, <1>10, <2>1
<1>13. place(b) <= c
  <2>1. place(b) <= place(e)
    BY <1>1, <1>6, <1>10
  <2> HIDE DEF place
  <2>2. QED
    BY <1>11, <1>12, <2>1
<1>14. c <= place(b)
  <2>1. m <= c
    <3>1. m <= place(e)
      BY <1>1, <1>6
    <3> HIDE DEF place
    <3>2. QED
      BY <1>11, <3>1
  <2> DEFINE d == c - m + 1
  <2>2. d \in 1..L /\ place(d) = c /\ d <= e
    BY <1>1, <1>6, <1>11, <2>1 DEF L
  <2> HIDE DEF d, place
  <2>3. d \in Begins(rest)
    BY <1>9, <2>2
  <2>4. d <= b
    BY <1>10, <2>2, <2>3
  <2>5. QED
    BY <1>1, <1>12, <2>2, <2>4 DEF place
<1>15. c = place(b)
  BY <1>1, <1>11, <1>12, <1>13, <1>14
<1>16. SubSeq(rest, b, e) = SubSeq(s, place(b), place(e))
  <2> DEFINE t == SubSeq(rest, b, e)
             u == SubSeq(s, place(b), place(e))
             K == e - b + 1
  <2>1. b \in 1..Len(rest) + 1 /\ e \in 0..Len(rest) /\ e >= b - 1 /\ K \in Nat
    BY <1>3, <1>6, <1>10, <1>12, <1>2
  <2>2. t \in Texts /\ Len(t) = K /\ \A k \in 1..K : t[k] = rest[b + k - 1]
    BY <1>3, <2>1, SubText
  <2>3. place(b) \in 1..Len(s) + 1 /\ place(e) \in 0..Len(s) /\ place(e) >= place(b) - 1 /\ place(e) - place(b) + 1 = K
    BY <1>1, <1>6, <1>7, <1>10, <1>12
  <2>4. u \in Texts /\ Len(u) = K /\ \A k \in 1..K : u[k] = s[place(b) + k - 1]
    <3> HIDE DEF place, K
    <3>1. QED
      BY <2>3, SubText
  <2>5. \A k \in 1..K : t[k] = u[k]
    <3> TAKE k \in 1..K
    <3>1. b + k - 1 \in 1..L /\ place(b + k - 1) = place(b) + k - 1
      <4>1. b \in Nat /\ e \in Nat /\ L \in Nat /\ m \in Nat /\ 1 <= b /\ b <= e /\ e <= L
        BY <1>1, <1>2, <1>6, <1>10
      <4> HIDE DEF t, u
      <4>2. k \in Nat /\ 1 <= k /\ k <= e - b + 1
        BY <4>1
      <4>3. QED
        BY <4>1, <4>2
    <3>2. t[k] = rest[b + k - 1] /\ u[k] = s[place(b) + k - 1]
      BY <2>2, <2>4
    <3> HIDE DEF t, u, place, K
    <3>3. rest[b + k - 1] = s[place(b + k - 1)]
      BY <1>7, <3>1
    <3>4. QED
      BY <3>1, <3>2, <3>3
  <2> HIDE DEF t, u, place, K
  <2>6. t = u
    BY <2>2, <2>4, <2>5, SameText
  <2>7. QED
    BY <2>6 DEF t, u
<1>17. Token(rest, e) = Token(s, place(e))
  BY <1>10, <1>11, <1>15, <1>16
<1>18. QED
  BY <1>8, <1>17 DEF rest

\* The tokens of the options of a line are tokens of the line.
LEMMA OptionTokens ==
  ASSUME NEW line \in Texts
  PROVE  /\ OptionPart(line) \in Texts
         /\ \A e \in Ends(OptionPart(line)) : \E i \in Ends(line) : Token(OptionPart(line), e) = Token(line, i)
<1> DEFINE dashed == {i \in Begins(line) : line[i] \in Dashes}
<1>1. CASE dashed = {}
  <2>1. OptionPart(line) = <<>>
    BY <1>1 DEF OptionPart
  <2>2. <<>> \in Texts /\ Ends(<<>>) = {}
    BY DEF Texts, Ends
  <2>3. QED
    BY <2>1, <2>2
<1>2. CASE dashed # {}
  <2>1. OptionPart(line) = SubSeq(line, Min(dashed), Len(line))
    BY <1>2 DEF OptionPart
  <2>2. Len(line) \in Nat /\ Begins(line) \subseteq 1..Len(line)
    BY Indexed DEF Begins
  <2>3. dashed \in SUBSET (0..Len(line))
    BY <2>2
  <2>4. Min(dashed) \in dashed
    <3> HIDE DEF dashed
    <3> QED
      BY <1>2, <2>2, <2>3, FirstLast
  <2> DEFINE m == Min(dashed)
  <2>5. m \in Begins(line) /\ m \in 1..Len(line)
    BY <2>2, <2>4
  <2> HIDE DEF m
  <2>6. SubSeq(line, m, Len(line)) \in Texts
    <3>1. m \in 1..Len(line) + 1 /\ Len(line) \in 0..Len(line) /\ Len(line) >= m - 1
      BY <2>2, <2>5
    <3>2. QED
      BY <3>1, SubText
  <2>7. \A e \in Ends(SubSeq(line, m, Len(line))) : \E i \in Ends(line) : Token(SubSeq(line, m, Len(line)), e) = Token(line, i)
    BY <2>5, RestTokens
  <2>8. QED
    BY <2>1, <2>6, <2>7 DEF m
<1>3. QED
  BY <1>1, <1>2

\* What the runner checks in a line makes the line harmless.
LineOk(line) == /\ \A i \in Ends(line) : ~ForbiddenOption(Token(line, i))
                /\ HasPackage(line) => ~SomeIgnored(OptionPart(line))

\* Then pip finds no option in it that is forbidden or would be ignored.
LEMMA HarmlessLine ==
  ASSUME NEW line \in Texts, Blank(line) \/ LineOk(line)
  PROVE  /\ "r" \notin PipOptions(line)
         /\ HasPackage(line) /\ Plain(line) => "pre" \notin PipOptions(line)
<1> DEFINE part == OptionPart(line)
           opts == Optparse(Shlex(part).words).opts
<1>1. PipOptions(line) = {"error"} \/ PipOptions(line) = opts
  BY DEF PipOptions, PipWords
<1>2. part \in Texts
  BY OptionTokens
<1>3. \A e \in Ends(part) : ~ForbiddenOption(Token(part, e))
  <2>1. CASE Blank(line)
    <3>1. part = <<>>
      BY <2>1 DEF Blank, OptionPart
    <3>2. Ends(<<>>) = {}
      BY DEF Ends
    <3>3. QED
      BY <3>1, <3>2
  <2>2. CASE LineOk(line)
    <3> HIDE DEF part
    <3>1. \A e \in Ends(part) : \E i \in Ends(line) : Token(part, e) = Token(line, i)
      BY OptionTokens DEF part
    <3>2. QED
      BY <2>2, <3>1 DEF LineOk
  <2>3. QED
    BY <2>1, <2>2
<1>4. HasPackage(line) => ~SomeIgnored(part)
  BY DEF LineOk, Blank, HasPackage
<1>5. Plain(line) => \A k \in DOMAIN Shlex(part).words : ~Odd(Shlex(part).words[k])
  BY DEF Plain, PipWords, Odd
<1> HIDE DEF part
<1>6. "r" \notin opts
  BY <1>2, <1>3, HiddenR
<1>7. HasPackage(line) /\ Plain(line) => "pre" \notin opts
  BY <1>2, <1>3, <1>4, <1>5, HiddenPre
<1> HIDE DEF opts
<1>8. QED
  BY <1>1, <1>6, <1>7

----------------------------------------------------------------------------
(* The lines of a text                                                     *)

\* A text has at least one physical line.
LEMMA LinesTyped ==
  ASSUME NEW typed \in Texts
  PROVE  PhysicalLines(typed) \in Seq(Texts) /\ PhysicalLines(typed) # <<>>
<1>1. PICK f \in [0..Len(typed) -> Strings] : PhysicalLines(typed) = f[Len(typed)]
  BY SplitBy
<1>2. Len(typed) \in 0..Len(typed)
  BY Indexed
<1>3. PhysicalLines(typed) \in Strings
  BY <1>1, <1>2
<1>4. QED
  BY <1>3 DEF Strings

\* The last physical lines of the lines of a text.
LineEnds(lines) == {e \in 1..Len(lines) : e = Len(lines) \/ ~Continued(lines[e])}

\* The whole lines w, by their last physical lines, and the logical lines g yielded so far.
Yields(lines, w, g) ==
    /\ w \in [1..Len(lines) -> Texts] /\ g \in [0..Len(lines) -> Seq(Texts)] /\ g[0] = <<>>
    /\ \A n \in 1..Len(lines) :
         g[n] = IF n \in LineEnds(lines) /\ ~Blank(w[n]) THEN Append(g[n - 1], w[n]) ELSE g[n - 1]

\* The empty line is blank.
LEMMA Empty0 ==
  CutComment(<<>>) = <<>> /\ Blank(<<>>) /\ <<>> \in Texts
<1>1. Begins(<<>>) = {}
  BY DEF Begins
<1>2. QED
  BY <1>1 DEF CutComment, Blank, Texts

\* What a physical line does to the lines read so far.
LEMMA JoinIs ==
  ASSUME NEW a \in JoinState, NEW line \in Texts
  PROVE  /\ a.pending \o Part(line) \in Texts /\ CutComment(a.pending \o Part(line)) \in Texts
         /\ Continued(line) => Join(a, line).pending = a.pending \o Part(line) /\ Join(a, line).out = a.out
         /\ ~Continued(line) => /\ Join(a, line).pending = <<>>
                                /\ Join(a, line).out = Yield(a.out, a.pending \o Part(line))
<1> DEFINE p == Part(line)
<1>1. p \in Texts /\ a.pending \in Texts
  BY PartTyped DEF JoinState
<1> HIDE DEF p
<1>2. a.pending \o p \in Texts
  BY <1>1 DEF Texts
<1>3. CutComment(a.pending \o p) \in Texts
  BY <1>2, PartTyped
<1>4. [a EXCEPT !.pending = @ \o p].pending = a.pending \o p /\ [a EXCEPT !.pending = @ \o p].out = a.out
  BY DEF JoinState
<1>5. Join(a, line) = IF Continued(line) THEN [a EXCEPT !.pending = @ \o p]
                      ELSE [pending |-> <<>>, out |-> Yield(a.out, a.pending \o p)]
  BY DEF Join, p
<1>6. QED
  BY <1>2, <1>3, <1>4, <1>5 DEF p

\* pip joins the physical lines to the same whole lines, and the logical lines are those of
\* them that are not blank.
LEMMA Logical ==
  ASSUME NEW typed \in Texts
  PROVE  \E w, g : /\ Yields(PhysicalLines(typed), w, g)
                   /\ LogicalLines(typed) = g[Len(PhysicalLines(typed))]
                   /\ \A run \in Runs(PhysicalLines(typed)) : Joined(PhysicalLines(typed), run) = w[run[2]]
<1> DEFINE lines == PhysicalLines(typed)
           N == Len(lines)
<1>1. lines \in Seq(Texts) /\ lines # <<>>
  BY LinesTyped
<1>2. PICK f : /\ f \in [0..N -> JoinState]
               /\ f[0] = JoinNone /\ \A n \in 1..N : f[n] = Join(f[n - 1], lines[n])
               /\ LogicalLines(typed) = Yield(f[N].out, f[N].pending)
  BY <1>1, JoinBy
<1> HIDE DEF lines
<1>3. N \in Nat /\ N # 0 /\ N \in 1..N /\ N \in 0..N /\ \A n \in 1..N : lines[n] \in Texts /\ n - 1 \in 0..N /\ n \in 0..N
  BY <1>1
<1> DEFINE whole(n) == f[n - 1].pending \o Part(lines[n])
           w == [n \in 1..N |-> CutComment(whole(n))]
           g == [n \in 0..N |-> IF n = N THEN LogicalLines(typed) ELSE f[n].out]
<1>4. ASSUME NEW n \in 1..N
      PROVE  /\ whole(n) \in Texts /\ CutComment(whole(n)) \in Texts
             /\ Continued(lines[n]) => f[n].pending = whole(n) /\ f[n].out = f[n - 1].out
             /\ ~Continued(lines[n]) => f[n].pending = <<>> /\ f[n].out = Yield(f[n - 1].out, whole(n))
             /\ f[n - 1].out \in Seq(Texts) /\ f[n].out \in Seq(Texts)
  <2>1. f[n - 1] \in JoinState /\ f[n] \in JoinState /\ lines[n] \in Texts /\ f[n] = Join(f[n - 1], lines[n])
    BY <1>2, <1>3
  <2>2. f[n - 1].out \in Seq(Texts) /\ f[n].out \in Seq(Texts)
    BY <2>1 DEF JoinState
  <2> DEFINE a == f[n - 1]
             line == lines[n]
             b == f[n]
             x == whole(n)
  <2>3. a \in JoinState /\ line \in Texts /\ b = Join(a, line) /\ x = a.pending \o Part(line)
    BY <2>1
  <2> HIDE DEF a, line, b, x
  <2>4. /\ x \in Texts /\ CutComment(x) \in Texts
        /\ Continued(line) => b.pending = x /\ b.out = a.out
        /\ ~Continued(line) => b.pending = <<>> /\ b.out = Yield(a.out, x)
    BY <2>3, JoinIs
  <2>5. QED
    BY <2>2, <2>4 DEF a, line, b, x
<1> HIDE DEF whole
<1>5. LogicalLines(typed) = Yield(f[N - 1].out, whole(N))
  <2>1. CASE Continued(lines[N])
    BY <1>2, <1>3, <1>4, <2>1
  <2>2. CASE ~Continued(lines[N])
    <3>1. LogicalLines(typed) = Yield(f[N].out, <<>>) /\ f[N].out = Yield(f[N - 1].out, whole(N))
      BY <1>2, <1>3, <1>4, <2>2
    <3>2. Yield(f[N].out, <<>>) = f[N].out
      BY Empty0 DEF Yield
    <3>3. QED
      BY <3>1, <3>2
  <2>3. QED
    BY <2>1, <2>2
<1>6. LogicalLines(typed) \in Seq(Texts)
  <2>1. f[N - 1].out \in Seq(Texts) /\ CutComment(whole(N)) \in Texts
    BY <1>3, <1>4
  <2> DEFINE out == f[N - 1].out
             x == CutComment(whole(N))
  <2>2. LogicalLines(typed) = IF Blank(x) THEN out ELSE Append(out, x)
    BY <1>5 DEF Yield
  <2> HIDE DEF out, x
  <2>3. out \in Seq(Texts) /\ x \in Texts
    BY <2>1 DEF out, x
  <2>4. QED
    BY <2>2, <2>3
<1>7. w \in [1..N -> Texts]
  BY <1>4
<1>8. g \in [0..N -> Seq(Texts)]
  <2>1. \A n \in 0..N : f[n].out \in Seq(Texts)
    BY <1>2 DEF JoinState
  <2>2. QED
    BY <1>6, <2>1
<1>9. g[0] = <<>>
  BY <1>2, <1>3 DEF JoinNone
<1>10. ASSUME NEW n \in 1..N
       PROVE  g[n] = IF n \in LineEnds(lines) /\ ~Blank(w[n]) THEN Append(g[n - 1], w[n]) ELSE g[n - 1]
  <2>1. g[n - 1] = f[n - 1].out /\ w[n] = CutComment(whole(n)) /\ n \in 0..N
    BY <1>3
  <2>2. n \in LineEnds(lines) <=> n = N \/ ~Continued(lines[n])
    BY DEF LineEnds
  <2>3. n \in LineEnds(lines) => g[n] = Yield(f[n - 1].out, whole(n))
    BY <1>3, <1>4, <1>5, <2>2
  <2>4. n \notin LineEnds(lines) => g[n] = f[n - 1].out
    BY <1>3, <1>4, <2>1, <2>2
  <2> HIDE DEF g, w
  <2>5. QED
    BY <2>1, <2>3, <2>4 DEF Yield
<1>11. ASSUME NEW run \in Runs(lines)
       PROVE  Joined(lines, run) = w[run[2]]
  <2> DEFINE a == run[1]
             b == run[2]
             K == b - a + 1
  <2>1. /\ a \in 1..N /\ b \in 1..N /\ a <= b
        /\ a = 1 \/ ~Continued(lines[a - 1])
        /\ \A k \in a..b - 1 : Continued(lines[k])
    BY DEF Runs
  <2>2. PICK h : /\ h \in [0..K -> Texts]
                 /\ h[0] = <<>> /\ \A n \in 1..K : h[n] = h[n - 1] \o Part(lines[a + n - 1])
                 /\ Joined(lines, run) = CutComment(h[K])
    BY <1>1, JoinedBy
  <2> HIDE DEF a, b, N, w, g
  <2> DEFINE M == b - a
             P == {k \in 0..M : h[k] = f[a + k - 1].pending}
  <2>3. M \in Nat /\ M + 1 = K /\ a + M = b /\ a + K - 1 = b /\ K \in 1..K /\ K - 1 = M /\ a \in Nat /\ b \in Nat
    BY <1>3, <2>1
  <2>4. 0 \in P
    <3>1. f[a - 1].pending = <<>>
      <4>1. CASE a = 1
        BY <1>2, <4>1 DEF JoinNone
      <4>2. CASE a # 1
        <5>1. a - 1 \in 1..N
          BY <1>3, <2>1, <4>2
        <5>2. QED
          BY <1>4, <2>1, <4>2, <5>1
      <4>3. QED
        BY <4>1, <4>2
    <3>2. a + 0 - 1 = a - 1 /\ 0 \in 0..M
      BY <2>3
    <3>3. QED
      BY <2>2, <3>1, <3>2
  <2>5. ASSUME NEW k \in 0..M, k \in P, k # M
        PROVE  k + 1 \in P
    <3>1. k + 1 \in 1..K /\ (k + 1) - 1 = k /\ a + (k + 1) - 1 = a + k /\ k + 1 \in 0..M
          /\ a + k \in a..b - 1 /\ a + k \in 1..N /\ (a + k) - 1 = a + k - 1
      BY <1>3, <2>1, <2>3, <2>5
    <3>2. h[k + 1] = h[k] \o Part(lines[a + k]) /\ h[k] = f[a + k - 1].pending
      BY <2>2, <2>5, <3>1
    <3>3. f[a + k].pending = f[a + k - 1].pending \o Part(lines[a + k])
      BY <1>4, <2>1, <3>1 DEF whole
    <3>4. QED
      BY <3>1, <3>2, <3>3
  <2>6. h[M] = f[b - 1].pending
    <3> HIDE DEF P, M
    <3>1. 0..M \subseteq P
      BY <2>3, <2>4, <2>5, Induct
    <3>2. M \in P
      BY <2>3, <3>1
    <3>3. QED
      BY <2>3, <3>2 DEF P
  <2>7. h[K] = whole(b)
    BY <2>2, <2>3, <2>6 DEF whole
  <2>8. QED
    BY <2>1, <2>2, <2>7 DEF w, b
<1> HIDE DEF w, g
<1>12. Yields(lines, w, g)
  BY <1>7, <1>8, <1>9, <1>10 DEF Yields
<1>13. LogicalLines(typed) = g[N]
  BY <1>3 DEF g
<1>14. QED
  BY <1>11, <1>12, <1>13 DEF lines

\* Each whole line that is not blank is a logical line.
LEMMA InLogical ==
  ASSUME NEW lines \in Seq(Texts), NEW w, NEW g, Yields(lines, w, g), NEW e \in LineEnds(lines), ~Blank(w[e])
  PROVE  \E k \in DOMAIN g[Len(lines)] : g[Len(lines)][k] = w[e]
<1> DEFINE N == Len(lines)
<1>1. N \in Nat /\ e \in 1..N /\ N \in 0..N
  BY DEF LineEnds
<1>2. /\ g \in [0..N -> Seq(Texts)]
      /\ \A n \in 1..N : g[n] = IF n \in LineEnds(lines) /\ ~Blank(w[n]) THEN Append(g[n - 1], w[n]) ELSE g[n - 1]
  BY DEF Yields
<1> HIDE DEF N
<1> DEFINE P == {n \in 0..N : e <= n => \E k \in DOMAIN g[n] : g[n][k] = w[e]}
<1>3. 0 \in P
  BY <1>1
<1>4. ASSUME NEW n \in 0..N, n \in P, n # N
      PROVE  n + 1 \in P
  <2>1. n + 1 \in 1..N /\ (n + 1) - 1 = n /\ n + 1 \in 0..N /\ (e <= n + 1 => e <= n \/ e = n + 1)
    BY <1>1, <1>4
  <2>2. g[n] \in Seq(Texts)
    BY <1>2
  <2>3. g[n + 1] = IF n + 1 \in LineEnds(lines) /\ ~Blank(w[n + 1]) THEN Append(g[n], w[n + 1]) ELSE g[n]
    BY <1>2, <2>1
  <2> DEFINE old == g[n]
             x == w[n + 1]
             new == Append(old, x)
             L == Len(old)
  <2>4. L \in Nat /\ DOMAIN old = 1..L /\ DOMAIN new = 1..L + 1 /\ new[L + 1] = x /\ \A k \in 1..L : new[k] = old[k]
    BY <2>2
  <2> HIDE DEF new, L
  <2>5. L + 1 \in DOMAIN new /\ \A k \in DOMAIN old : k \in DOMAIN new /\ new[k] = old[k]
    BY <2>4
  <2>6. g[n + 1] = new \/ g[n + 1] = old
    BY <2>3 DEF new
  <2>7. e <= n => \E k \in DOMAIN g[n + 1] : g[n + 1][k] = w[e]
    BY <1>4, <2>5, <2>6
  <2>8. e = n + 1 => \E k \in DOMAIN g[n + 1] : g[n + 1][k] = w[e]
    <3>1. e = n + 1 => g[n + 1] = new /\ new[L + 1] = w[e]
      BY <2>3, <2>4 DEF new
    <3>2. QED
      BY <2>5, <3>1
  <2>9. QED
    BY <2>1, <2>7, <2>8
<1>5. N \in P
  <2> HIDE DEF P
  <2>1. 0..N \subseteq P
    BY <1>1, <1>3, <1>4, Induct
  <2>2. QED
    BY <1>1, <2>1
<1>6. QED
  BY <1>1, <1>5 DEF N

\* There are as many packages in the logical lines as in the whole ones.
LEMMA Counts ==
  ASSUME NEW lines \in Seq(Texts), NEW w, NEW g, Yields(lines, w, g)
  PROVE  Cardinality({k \in DOMAIN g[Len(lines)] : HasPackage(g[Len(lines)][k])})
           = Cardinality({e \in LineEnds(lines) : HasPackage(w[e])})
<1> DEFINE N == Len(lines)
           A(n) == {k \in DOMAIN g[n] : HasPackage(g[n][k])}
           B(n) == {e \in LineEnds(lines) : e <= n /\ HasPackage(w[e])}
<1>1. N \in Nat /\ N \in 0..N
  OBVIOUS
<1>2. /\ g \in [0..N -> Seq(Texts)] /\ g[0] = <<>>
      /\ \A n \in 1..N : g[n] = IF n \in LineEnds(lines) /\ ~Blank(w[n]) THEN Append(g[n - 1], w[n]) ELSE g[n - 1]
  BY DEF Yields
<1>3. LineEnds(lines) \subseteq 1..N
  BY DEF LineEnds
<1> HIDE DEF N
<1> DEFINE P == {n \in 0..N : IsFiniteSet(A(n)) /\ IsFiniteSet(B(n)) /\ Cardinality(A(n)) = Cardinality(B(n))}
<1>4. 0 \in P
  <2>1. A(0) = {} /\ B(0) = {}
    BY <1>1, <1>2, <1>3
  <2>2. IsFiniteSet({})
    BY FS_EmptySet
  <2>3. IsFiniteSet(A(0)) /\ IsFiniteSet(B(0)) /\ Cardinality(A(0)) = Cardinality(B(0))
    BY <2>1, <2>2
  <2>4. 0 \in 0..N
    BY <1>1
  <2> HIDE DEF A, B
  <2>5. QED
    BY <2>3, <2>4
<1>5. ASSUME NEW n \in 0..N, n \in P, n # N
      PROVE  n + 1 \in P
  <2>1. n + 1 \in 1..N /\ (n + 1) - 1 = n /\ n + 1 \in 0..N /\ ~(n + 1 <= n) /\ \A e \in 1..N : e <= n + 1 <=> e <= n \/ e = n + 1
    BY <1>1, <1>5
  <2>2. g[n] \in Seq(Texts) /\ g[n + 1] = IF n + 1 \in LineEnds(lines) /\ ~Blank(w[n + 1]) THEN Append(g[n], w[n + 1]) ELSE g[n]
    BY <1>2, <2>1
  <2> DEFINE old == g[n]
             x == w[n + 1]
             new == Append(old, x)
             L == Len(old)
  <2>3. L \in Nat /\ DOMAIN old = 1..L /\ DOMAIN new = 1..L + 1 /\ new[L + 1] = x /\ \A k \in 1..L : new[k] = old[k]
    BY <2>2
  <2>4. HasPackage(x) => ~Blank(x)
    BY DEF HasPackage, Blank
  <2> HIDE DEF new, L, x
  <2>5. CASE n + 1 \in LineEnds(lines) /\ HasPackage(x)
    <3>1. g[n + 1] = new
      BY <2>2, <2>4, <2>5 DEF new, x
    <3>2. A(n + 1) = A(n) \cup {L + 1} /\ L + 1 \notin A(n)
      <4>1. \A k \in 1..L + 1 : k \in 1..L \/ k = L + 1
        BY <2>3
      <4>2. \A k \in 1..L : k \in 1..L + 1 /\ k # L + 1
        BY <2>3
      <4>3. L + 1 \in 1..L + 1
        BY <2>3
      <4>4. QED
        BY <2>3, <2>5, <3>1, <4>1, <4>2, <4>3
    <3>3. B(n + 1) = B(n) \cup {n + 1} /\ n + 1 \notin B(n)
      BY <1>3, <2>1, <2>5 DEF x
    <3> DEFINE S == A(n)
               T == B(n)
    <3>4. IsFiniteSet(S) /\ IsFiniteSet(T) /\ Cardinality(S) = Cardinality(T)
      BY <1>5
    <3> HIDE DEF S, T
    <3>5. /\ IsFiniteSet(S \cup {L + 1}) /\ (L + 1 \notin S => Cardinality(S \cup {L + 1}) = Cardinality(S) + 1)
          /\ IsFiniteSet(T \cup {n + 1}) /\ (n + 1 \notin T => Cardinality(T \cup {n + 1}) = Cardinality(T) + 1)
      BY <3>4, FS_AddElement
    <3>6. A(n + 1) = S \cup {L + 1} /\ L + 1 \notin S /\ B(n + 1) = T \cup {n + 1} /\ n + 1 \notin T
      BY <3>2, <3>3 DEF S, T
    <3> HIDE DEF A, B
    <3>7. IsFiniteSet(A(n + 1)) /\ IsFiniteSet(B(n + 1)) /\ Cardinality(A(n + 1)) = Cardinality(B(n + 1))
      BY <3>4, <3>5, <3>6
    <3>8. QED
      BY <2>1, <3>7
  <2>6. CASE ~(n + 1 \in LineEnds(lines) /\ HasPackage(x))
    <3>1. A(n + 1) = A(n)
      <4>1. CASE g[n + 1] = g[n]
        BY <4>1
      <4>2. CASE g[n + 1] # g[n]
        <5>1. g[n + 1] = new /\ ~HasPackage(x)
          BY <2>2, <2>6, <4>2 DEF new, x
        <5>2. \A k \in 1..L + 1 : k \in 1..L \/ k = L + 1
          BY <2>3
        <5>3. \A k \in 1..L : k \in 1..L + 1
          BY <2>3
        <5>4. QED
          BY <2>3, <5>1, <5>2, <5>3
      <4>3. QED
        BY <4>1, <4>2
    <3>2. B(n + 1) = B(n)
      BY <1>3, <2>1, <2>6 DEF x
    <3> HIDE DEF A, B
    <3>3. QED
      BY <1>5, <2>1, <3>1, <3>2
  <2>7. QED
    BY <2>5, <2>6
<1>6. N \in P
  <2> HIDE DEF P
  <2>1. 0..N \subseteq P
    BY <1>1, <1>4, <1>5, Induct
  <2>2. QED
    BY <1>1, <2>1
<1>7. B(N) = {e \in LineEnds(lines) : HasPackage(w[e])}
  BY <1>1, <1>3
<1>8. QED
  BY <1>6, <1>7 DEF N

\* The lines pip joins and their last physical lines correspond.
LEMMA RunsEnd ==
  ASSUME NEW lines \in Seq(Texts)
  PROVE  /\ \A run \in Runs(lines) : run[2] \in LineEnds(lines)
         /\ \A run, other \in Runs(lines) : run[2] = other[2] => run = other
         /\ \A e \in LineEnds(lines) : \E run \in Runs(lines) : run[2] = e
<1> DEFINE N == Len(lines)
<1>1. N \in Nat
  OBVIOUS
<1>2. ASSUME NEW run \in Runs(lines)
      PROVE  /\ run[1] \in 1..N /\ run[2] \in 1..N /\ run = <<run[1], run[2]>> /\ run[1] <= run[2]
             /\ run[1] = 1 \/ ~Continued(lines[run[1] - 1])
             /\ \A k \in run[1]..run[2] - 1 : Continued(lines[k])
             /\ run[2] = N \/ ~Continued(lines[run[2]])
  BY DEF Runs
<1>3. \A run \in Runs(lines) : run[2] \in LineEnds(lines)
  BY <1>2 DEF LineEnds
<1>4. ASSUME NEW run \in Runs(lines), NEW other \in Runs(lines), run[2] = other[2]
      PROVE  ~(run[1] < other[1])
  <2> SUFFICES ASSUME run[1] < other[1] PROVE FALSE
    OBVIOUS
  <2> DEFINE a == run[1]
             b == other[1]
             e == run[2]
  <2>1. a \in 1..N /\ b \in 1..N /\ e \in 1..N /\ b <= e /\ a < b /\ (b = 1 \/ ~Continued(lines[b - 1]))
        /\ \A k \in a..e - 1 : Continued(lines[k])
    BY <1>2, <1>4
  <2> HIDE DEF a, b, e, N
  <2>2. b # 1 /\ b - 1 \in a..e - 1
    BY <1>1, <2>1
  <2>3. QED
    BY <2>1, <2>2
<1>5. ASSUME NEW run \in Runs(lines), NEW other \in Runs(lines), run[2] = other[2]
      PROVE  run = other
  <2>1. ~(run[1] < other[1]) /\ ~(other[1] < run[1])
    BY <1>4, <1>5
  <2>2. run[1] \in Nat /\ other[1] \in Nat
    BY <1>1, <1>2
  <2>3. run[1] = other[1]
    BY <2>1, <2>2
  <2>4. run = <<run[1], run[2]>> /\ other = <<other[1], other[2]>>
    BY <1>2
  <2>5. QED
    BY <1>5, <2>3, <2>4
<1>6. ASSUME NEW e \in LineEnds(lines)
      PROVE  \E run \in Runs(lines) : run[2] = e
  <2>1. e \in 1..N /\ (e = N \/ ~Continued(lines[e]))
    BY DEF LineEnds
  <2> DEFINE S == {a \in 1..e : \A k \in a..e - 1 : Continued(lines[k])}
  <2> HIDE DEF N
  <2>2. e \in S /\ S \in SUBSET Nat
    BY <1>1, <2>1
  <2>3. PICK a \in S : \A m \in S : a <= m
    <3> HIDE DEF S
    <3> QED
      BY <2>2, Least
  <2>4. a \in 1..N /\ a <= e /\ \A k \in a..e - 1 : Continued(lines[k])
    BY <1>1, <2>1, <2>3
  <2>5. a = 1 \/ ~Continued(lines[a - 1])
    <3> SUFFICES ASSUME a # 1, Continued(lines[a - 1]) PROVE FALSE
      OBVIOUS
    <3>1. a - 1 \in 1..e /\ \A k \in a - 1..e - 1 : k = a - 1 \/ k \in a..e - 1
      BY <1>1, <2>1, <2>4
    <3>2. a - 1 \in S
      BY <2>4, <3>1
    <3>3. QED
      BY <1>1, <2>3, <2>4, <3>2
  <2>6. <<a, e>> \in Runs(lines)
    <3> DEFINE run == <<a, e>>
    <3>1. run \in (1..N) \X (1..N) /\ run[1] = a /\ run[2] = e
      BY <2>1, <2>4
    <3> HIDE DEF run
    <3>2. run \in Runs(lines)
      BY <2>1, <2>4, <2>5, <3>1 DEF Runs, N
    <3>3. QED
      BY <3>2 DEF run
  <2>7. QED
    BY <2>6
<1>7. QED
  BY <1>3, <1>5, <1>6

\* There are as many packages in what pip joins.
LEMMA RunCount ==
  ASSUME NEW lines \in Seq(Texts), NEW w, \A run \in Runs(lines) : Joined(lines, run) = w[run[2]]
  PROVE  Cardinality({run \in Runs(lines) : HasPackage(Joined(lines, run))})
           = Cardinality({e \in LineEnds(lines) : HasPackage(w[e])})
<1> DEFINE S == {run \in Runs(lines) : HasPackage(Joined(lines, run))}
           T == {e \in LineEnds(lines) : HasPackage(w[e])}
           h == [run \in S |-> run[2]]
<1>1. \A run \in S : run[2] \in T
  BY RunsEnd
<1>2. \A run, other \in S : run[2] = other[2] => run = other
  BY RunsEnd
<1>3. \A e \in T : \E run \in S : run[2] = e
  BY RunsEnd
<1>4. IsFiniteSet(T)
  <2>1. Len(lines) \in Nat
    OBVIOUS
  <2>2. IsFiniteSet(1..Len(lines))
    BY <2>1, FS_Interval
  <2>3. T \in SUBSET (1..Len(lines))
    BY DEF LineEnds
  <2> HIDE DEF T
  <2>4. QED
    BY <2>2, <2>3, FS_Subset
<1>5. ExistsBijection(S, T)
  <2> HIDE DEF S, T
  <2>1. h \in [S -> T] /\ (\A a, b \in S : h[a] = h[b] => a = b) /\ \A e \in T : \E run \in S : h[run] = e
    BY <1>1, <1>2, <1>3
  <2> HIDE DEF h
  <2>2. h \in Bijection(S, T)
    BY <2>1 DEF Bijection, Injection, Surjection, IsInjective
  <2>3. QED
    BY <2>2 DEF ExistsBijection
<1>6. QED
  <2> HIDE DEF S, T
  <2>1. ExistsBijection(T, S)
    BY <1>5, Fun_ExistsBijSymmetric
  <2>2. Cardinality(S) = Cardinality(T)
    BY <1>4, <2>1, FS_Bijection
  <2>3. QED
    BY <2>2 DEF S, T

\* The property of one text.
LEMMA ReadsAsPip ==
  ASSUME list \in Texts
  PROVE  ReadAsPipDoes
<1> DEFINE lines == PhysicalLines(list)
<1>1. lines \in Seq(Texts)
  BY LinesTyped
<1>2. PICK w, g : /\ Yields(lines, w, g)
                  /\ LogicalLines(list) = g[Len(lines)]
                  /\ \A run \in Runs(lines) : Joined(lines, run) = w[run[2]]
  BY Logical
<1>3. CountIsPips
  <2>1. RequirementCount(list) = Cardinality({k \in DOMAIN g[Len(lines)] : HasPackage(g[Len(lines)][k])})
    BY <1>2 DEF RequirementCount
  <2> HIDE DEF lines
  <2>2. Cardinality({run \in Runs(lines) : HasPackage(Joined(lines, run))})
          = Cardinality({e \in LineEnds(lines) : HasPackage(w[e])})
    BY <1>1, <1>2, RunCount
  <2>3. Cardinality({k \in DOMAIN g[Len(lines)] : HasPackage(g[Len(lines)][k])})
          = Cardinality({e \in LineEnds(lines) : HasPackage(w[e])})
    BY <1>1, <1>2, Counts
  <2>4. QED
    BY <2>1, <2>2, <2>3 DEF CountIsPips, lines
<1>4. AcceptedIsHarmless
  <2> SUFFICES ASSUME Accepted(list), NEW run \in Runs(lines)
               PROVE  LET line == Joined(lines, run) IN
                      /\ "r" \notin PipOptions(line)
                      /\ HasPackage(line) /\ Plain(line) => "pre" \notin PipOptions(line)
    BY DEF AcceptedIsHarmless, PipLines
  <2> HIDE DEF lines
  <2> DEFINE line == Joined(lines, run)
             e == run[2]
  <2>1. line = w[e] /\ e \in LineEnds(lines) /\ e \in 1..Len(lines)
    BY <1>1, <1>2, RunsEnd DEF LineEnds
  <2>2. line \in Texts
    BY <1>2, <2>1 DEF Yields
  <2>3. ~Blank(line) => LineOk(line)
    <3> SUFFICES ASSUME ~Blank(line) PROVE LineOk(line)
      OBVIOUS
    <3>1. PICK k \in DOMAIN g[Len(lines)] : g[Len(lines)][k] = w[e]
      BY <1>1, <1>2, <2>1, InLogical
    <3>2. k \in DOMAIN LogicalLines(list) /\ LogicalLines(list)[k] = line
      BY <1>2, <2>1, <3>1
    <3> HIDE DEF line
    <3>3. QED
      BY <3>2 DEF Accepted, LineOk
  <2> HIDE DEF line
  <2>4. /\ "r" \notin PipOptions(line)
        /\ HasPackage(line) /\ Plain(line) => "pre" \notin PipOptions(line)
    BY <2>2, <2>3, HarmlessLine
  <2>5. QED
    BY <2>4 DEF line
<1>5. QED
  BY <1>3, <1>4 DEF ReadAsPipDoes

\* ReadAsPipDoes: for a text of any length, an accepted list holds nothing forbidden for
\* pip, no option that pip would ignore beside a package unless a word it gets holds a
\* blank, a quote or a backslash, and as many packages as the runner counts
\* (deps_runner.py:117, "The checks below follow the same steps").
THEOREM ReadAsPipDoesHolds == FilesSpec => []ReadAsPipDoes
<1>1. FilesInit => list \in Texts
  BY DEF FilesInit, ListInit, Texts
<1>2. list \in Texts /\ [FilesNext]_fileVars => (list \in Texts)'
  <2> SUFFICES ASSUME list \in Texts, [FilesNext]_fileVars
               PROVE  list' \in Texts
    OBVIOUS
  <2>1. CASE list' = list
    BY <2>1
  <2>2. ASSUME NEW piece \in Pieces, Type(piece)
        PROVE  list' \in Texts
    BY <2>2 DEF Type, Texts
  <2>3. CASE Empty
    BY <2>3 DEF Empty, Texts
  <2>4. QED
    BY <2>1, <2>2, <2>3 DEF FilesNext, ListNext, fileVars
<1>3. list \in Texts => ReadAsPipDoes
  BY ReadsAsPip
<1>4. QED
  BY <1>1, <1>2, <1>3, PTL DEF FilesSpec
=============================================================================
