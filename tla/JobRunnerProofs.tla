-------------------------- MODULE JobRunnerProofs --------------------------
(***************************************************************************)
(* What holds of JobRunner for every number of servers, one-offs, texts,   *)
(* jobs and crashes; and, in the last part, of the deploy that uses it:    *)
(* what its client reports is true.                                        *)
(***************************************************************************)
EXTENDS BaselineDeploy, JobRunnerService, TLAPS

\* Whoever is inside start() or runs a job thread holds the flock; a subprocess
\* belongs to a waiting job thread, and a job thread to a numbered job.
LockInv ==
    \A p \in Proc :
        /\ worker[p] # "none" => flock = p /\ job[p].id \in Ids
        /\ Locked(p) => flock = p /\ worker[p] = "none" /\ nextId \in Ids
        /\ child[p] # "none" => worker[p] \in {"mkvenvWait", "pipWait"}
        /\ phase[p] \in {"down", "loading"} => worker[p] = "none" /\ ~Locked(p)

USE DEF Proc, Free, TakeFlock, DropFlock, Counts, Unfinished, Listed, Kill

\* Before the first process starts: no flock, no job, no venv.
LEMMA InitOK == Init => TypeOK /\ LockInv
  BY ProcAssumption, TextAssumption, BoundAssumption, SwitchAssumption
  DEF Init, Volume, TypeOK, LockInv, Locked, NoJob, Jobs, Statuses, Venvs, Absent, Usable, Texts, Ids

----------------------------------------------------------------------------
\* Every step keeps flock, start() and the job thread together.
LEMMA LockStep ==
  ASSUME TypeOK, LockInv, [Next]_vars
  PROVE  LockInv'
<1> USE ProcAssumption, BoundAssumption, SwitchAssumption DEF TypeOK, LockInv, Locked, memory, thread, pip, late, records, lists, bounds
<1>1. CASE UNCHANGED vars
  BY <1>1 DEF vars
<1>2. ASSUME NEW p \in Proc, Life(p)
      PROVE  LockInv'
  <2>1. CASE BootRead(p)
    BY <2>1 DEF BootRead
  <2>2. CASE BootPersist(p)
    BY <2>2 DEF BootPersist
  <2>3. CASE Gone(p)
    BY <2>3 DEF Gone
  <2>4. CASE Shutdown(p)
    BY <2>4 DEF Shutdown
  <2>5. QED
    BY <1>2, <2>1, <2>2, <2>3, <2>4 DEF Life, Crash, Exit
<1>3. ASSUME NEW p \in Proc, Handlers(p)
      PROVE  LockInv'
  <2>1. CASE \E t \in PageLists : SaveRequirements(p, t)
    BY <2>1 DEF SaveRequirements
  <2>2. CASE \E t \in Baselines : SaveBaseline(p, t)
    BY <2>2 DEF SaveBaseline
  <2>3. CASE ClearCache(p) \/ ClearCacheDone(p)
    BY <2>3 DEF ClearCache, ClearCacheDone
  <2>4. CASE StartFlock(p)
    BY <2>4 DEF StartFlock
  <2>5. CASE StartMark(p)
    BY <2>5 DEF StartMark
  <2>6. CASE StartTruncate(p)
    BY <2>6 DEF StartTruncate
  <2>7. CASE StartFails(p)
    BY <2>7 DEF StartFails
  <2>8. CASE \E action \in {"install", "reset"} : StartPublish(p, action)
    BY <2>8 DEF StartPublish
  <2>9. CASE Cancel(p)
    BY <2>9 DEF Cancel
  <2>10. QED
    BY <1>3, <2>1, <2>2, <2>3, <2>4, <2>5, <2>6, <2>7, <2>8, <2>9 DEF Handlers, StartGoesOn
<1>4. ASSUME NEW p \in Proc, Threads(p)
      PROVE  LockInv'
  <2>1. CASE GraceExpires(p)
    BY <2>1 DEF GraceExpires
  <2>2. CASE \E end \in {"ok", "failed"} : ChildExits(p, end)
    BY <2>2 DEF ChildExits, ChildEnds
  <2>3. CASE \E id \in Ids : KillFires(p, id)
    BY <2>3 DEF KillFires, ChildEnds
  <2>4. CASE \E id \in Ids : OrphanWrites(p, id) \/ OrphanEnds(p, id)
    BY <2>4 DEF OrphanWrites, OrphanEnds
  <2>5. QED
    BY <1>4, <2>1, <2>2, <2>3, <2>4 DEF Threads
<1>5. ASSUME NEW p \in Proc, Worker(p)
      PROVE  LockInv'
  <2> USE DEF Goto, Returns
  <2>1. CASE Begin(p)
    BY <2>1 DEF Begin
  <2>2. CASE RemoveTree(p)
    BY <2>2 DEF RemoveTree
  <2>3. CASE CheckCancelled(p)
    BY <2>3 DEF CheckCancelled
  <2>4. CASE Check(p)
    BY <2>4 DEF Check
  <2>5. CASE MakeVenv(p)
    BY <2>5 DEF MakeVenv
  <2>6. CASE Pip(p)
    BY <2>6 DEF Pip
  <2>7. CASE CommandDone(p)
    BY <2>7 DEF CommandDone
  <2>8. CASE Finish(p)
    BY <2>8 DEF Finish, Jobs
  <2>9. CASE CloseLog(p)
    BY <2>9 DEF CloseLog
  <2>10. CASE Record(p)
    BY <2>10 DEF Record
  <2>11. CASE Release(p)
    BY <2>11 DEF Release
  <2>12. QED
    BY <1>5, <2>1, <2>2, <2>3, <2>4, <2>5, <2>6, <2>7, <2>8, <2>9, <2>10, <2>11 DEF Worker
<1>6. QED
  BY <1>1, <1>2, <1>3, <1>4, <1>5 DEF Next

\* What the helpers on the venv return is a venv.
LEMMA VenvHelpers ==
  ASSUME NEW v \in Venvs, NEW want \in SUBSET Texts
  PROVE  /\ Absent \in Venvs /\ Broken \in Venvs /\ Usable({}) \in Venvs
         /\ Torn(v) \subseteq Venvs
         /\ HalfInstalled(v, want) \subseteq Venvs
         /\ Installed(v, want) \subseteq Venvs
<1> USE DEF Venvs, Usable, Absent, Broken
<1>1. \A S \in SUBSET v.sat : S \in SUBSET Texts
  OBVIOUS
<1>2. Torn(v) \subseteq Venvs
  BY <1>1 DEF Torn
<1>3. \A S \in SUBSET (v.sat \cup want) : S \in SUBSET Texts
  OBVIOUS
<1>4. HalfInstalled(v, want) \subseteq Venvs
  BY <1>3 DEF HalfInstalled
<1>5. \A S \in SUBSET v.sat : want \cup S \in SUBSET Texts
  OBVIOUS
<1>6. Installed(v, want) \subseteq Venvs
  BY <1>5 DEF Installed
<1>7. QED
  BY <1>2, <1>4, <1>6

\* What baseline.json gets keeps its type.
LEMMA RecordType ==
  ASSUME TypeOK, NEW p \in Proc, NEW ok \in BOOLEAN, RecordBaseline(p, ok)
  PROVE  baselineState' \in [sha : Baselines, ok : BOOLEAN]
<1>1. jobBaseline[p] \in Baselines /\ baselineState \in [sha : Baselines, ok : BOOLEAN]
  BY DEF TypeOK
<1>2. [sha |-> jobBaseline[p], ok |-> ok] \in [sha : Baselines, ok : BOOLEAN]
  BY <1>1
<1>3. QED
  BY <1>1, <1>2 DEF RecordBaseline

\* Every step keeps the types.
LEMMA TypeStep ==
  ASSUME TypeOK, LockInv, [Next]_vars
  PROVE  TypeOK'
<1> USE ProcAssumption, TextAssumption, BoundAssumption, SwitchAssumption DEF TypeOK, LockInv, memory, thread, pip, late, records, lists, bounds
<1>1. CASE UNCHANGED vars
  BY <1>1 DEF vars
<1>2. ASSUME NEW p \in Proc, Life(p)
      PROVE  TypeOK'
  <2>1. CASE BootRead(p)
    BY <2>1 DEF BootRead, Jobs, Statuses
  <2>2. CASE BootPersist(p)
    BY <2>2 DEF BootPersist, Persist, Jobs, Statuses
  <2>3. CASE Gone(p)
    <3>1. job' \in [Proc -> Jobs]
      BY <2>3 DEF Gone, NoJob, Jobs, Statuses
    <3>2. venv' \in Venvs
      BY <2>3, VenvHelpers DEF Gone
    <3>3. maintenance' \in [Proc -> BOOLEAN] /\ cancelRequested' \in [Proc -> BOOLEAN]
      BY <2>3 DEF Gone
    <3>4. logOpen' \in [Proc -> BOOLEAN] /\ grace' \in [Proc -> BOOLEAN]
      BY <2>3 DEF Gone
    <3>5. wanted' \in [Proc -> SUBSET Texts]
      BY <2>3 DEF Gone
    <3>6. firing' \in [Proc -> SUBSET Ids] /\ orphans' \in [Proc -> SUBSET Ids]
      BY <2>3 DEF Gone
    <3>7. /\ phase' \in [Proc -> {"down", "loading", "up", "saved", "waiting", "stopping"}]
          /\ starting' \in [Proc -> {"free", "flocked", "marked", "truncated"}]
          /\ jobBaseline' \in [Proc -> Baselines]
      BY <2>3 DEF Gone
    <3>8. /\ worker' \in [Proc -> {"none", "release"} \cup Working]
          /\ outcome' \in [Proc -> {"succeeded", "failed", "cancelled"}]
          /\ child' \in [Proc -> {"none", "running", "ok", "failed"}]
      BY <2>3 DEF Gone
    <3>9. /\ flock' \in Proc \cup {NoProc}
          /\ UNCHANGED <<records, lists, log, nextId>>
      BY <2>3 DEF Gone
    <3>10. stops' \in 0..MaxStops
      BY <1>2 DEF Life, Crash, Exit, BootRead, BootPersist, Shutdown
    <3>11. QED
      BY <3>1, <3>2, <3>3, <3>4, <3>5, <3>6, <3>7, <3>8, <3>9, <3>10
  <2>4. CASE Shutdown(p)
    BY <2>4 DEF Shutdown
  <2>5. QED
    BY <1>2, <2>1, <2>2, <2>3, <2>4 DEF Life, Crash, Exit
<1>3. ASSUME NEW p \in Proc, Handlers(p)
      PROVE  TypeOK'
  <2>1. CASE \E t \in PageLists : SaveRequirements(p, t)
    BY <2>1 DEF SaveRequirements
  <2>2. CASE \E t \in Baselines : SaveBaseline(p, t)
    BY <2>2 DEF SaveBaseline
  <2>3. CASE ClearCache(p) \/ ClearCacheDone(p)
    <3>1. maintenance' \in [Proc -> BOOLEAN]
      BY <2>3 DEF ClearCache, ClearCacheDone
    <3>2. QED
      BY <2>3, <3>1 DEF ClearCache, ClearCacheDone
  <2>4. CASE StartFlock(p)
    BY <2>4 DEF StartFlock, Ids
  <2>5. CASE StartMark(p)
    <3>1. baselineState' \in [sha : Baselines, ok : BOOLEAN]
      BY <2>5, RecordType DEF StartMark
    <3>2. QED
      BY <2>5, <3>1 DEF StartMark
  <2>6. CASE StartTruncate(p)
    BY <2>6 DEF StartTruncate
  <2>7. CASE StartFails(p)
    BY <2>7 DEF StartFails
  <2>8. CASE \E action \in {"install", "reset"} : StartPublish(p, action)
    BY <2>8 DEF StartPublish, Persist, Jobs, Statuses, Locked, Ids, Working
  <2>9. CASE Cancel(p)
    BY <2>9 DEF Cancel
  <2>10. QED
    BY <1>3, <2>1, <2>2, <2>3, <2>4, <2>5, <2>6, <2>7, <2>8, <2>9 DEF Handlers, StartGoesOn
<1>4. ASSUME NEW p \in Proc, Threads(p)
      PROVE  TypeOK'
  <2>1. CASE GraceExpires(p)
    BY <2>1 DEF GraceExpires
  <2>2. CASE \E end \in {"ok", "failed"} : ChildExits(p, end)
    <3>1. venv' \in Venvs
      BY <2>2, VenvHelpers DEF ChildExits, ChildEnds
    <3>2. QED
      BY <2>2, <3>1 DEF ChildExits, ChildEnds
  <2>3. CASE \E id \in Ids : KillFires(p, id)
    <3>1. venv' \in Venvs
      BY <2>3, VenvHelpers DEF KillFires, ChildEnds
    <3>2. log' \subseteq Ids /\ firing' \in [Proc -> SUBSET Ids]
      BY <2>3 DEF KillFires
    <3>3. child' \in [Proc -> {"none", "running", "ok", "failed"}]
      <4>1. child' = [child EXCEPT ![p] = "failed"] \/ child' = child
        BY <2>3 DEF KillFires, ChildEnds
      <4>2. QED
        BY <4>1
    <3>4. grace' \in [Proc -> BOOLEAN]
      <4>1. grace' = [grace EXCEPT ![p] = FALSE] \/ grace' = grace
        BY <2>3 DEF KillFires, ChildEnds
      <4>2. QED
        BY <4>1
    <3>5. QED
      BY <2>3, <3>1, <3>2, <3>3, <3>4 DEF KillFires
  <2>4. CASE \E id \in Ids : OrphanWrites(p, id) \/ OrphanEnds(p, id)
    <3>1. log' \subseteq Ids
      BY <2>4 DEF OrphanWrites, OrphanEnds
    <3>2. orphans' \in [Proc -> SUBSET Ids]
      BY <2>4 DEF OrphanWrites, OrphanEnds
    <3>3. QED
      BY <2>4, <3>1, <3>2 DEF OrphanWrites, OrphanEnds
  <2>5. QED
    BY <1>4, <2>1, <2>2, <2>3, <2>4 DEF Threads
<1>5. ASSUME NEW p \in Proc, Worker(p)
      PROVE  TypeOK'
  <2> USE DEF Goto, Returns, Working, Mutating
  <2>1. CASE Begin(p)
    <3>1. venv' \in Venvs
      BY <2>1, VenvHelpers DEF Begin
    <3>2. log' \subseteq Ids
      BY <2>1 DEF Begin
    <3>3. QED
      BY <2>1, <3>1, <3>2 DEF Begin
  <2>2. CASE RemoveTree(p)
    <3>1. venv' \in Venvs
      BY <2>2, VenvHelpers DEF RemoveTree
    <3>2. QED
      BY <2>2, <3>1 DEF RemoveTree
  <2>3. CASE CheckCancelled(p)
    BY <2>3 DEF CheckCancelled
  <2>4. CASE Check(p)
    <3>1. venv' \in Venvs
      BY <2>4, VenvHelpers DEF Check
    <3>2. QED
      BY <2>4, <3>1 DEF Check
  <2>5. CASE MakeVenv(p)
    <3>1. venv' \in Venvs
      BY <2>5, VenvHelpers DEF MakeVenv
    <3>2. child' \in [Proc -> {"none", "running", "ok", "failed"}]
      BY <2>5 DEF MakeVenv
    <3>3. QED
      BY <2>5, <3>1, <3>2 DEF MakeVenv
  <2>6. CASE Pip(p)
    BY <2>6 DEF Pip, Texts
  <2>7. CASE CommandDone(p)
    BY <2>7 DEF CommandDone
  <2>8. CASE Finish(p)
    BY <2>8 DEF Finish, Persist, Jobs, Statuses
  <2>9. CASE CloseLog(p)
    <3>1. log' \subseteq Ids
      BY <2>9 DEF CloseLog
    <3>2. logOpen' \in [Proc -> BOOLEAN]
      BY <2>9 DEF CloseLog
    <3>3. QED
      BY <2>9, <3>1, <3>2 DEF CloseLog
  <2>10. CASE Record(p)
    <3>1. baselineState' \in [sha : Baselines, ok : BOOLEAN]
      BY <2>10, RecordType, (job[p].status = "succeeded") \in BOOLEAN DEF Record
    <3>2. QED
      BY <2>10, <3>1 DEF Record
  <2>11. CASE Release(p)
    BY <2>11 DEF Release
  <2>12. QED
    BY <1>5, <2>1, <2>2, <2>3, <2>4, <2>5, <2>6, <2>7, <2>8, <2>9, <2>10, <2>11 DEF Worker
<1>6. QED
  BY <1>1, <1>2, <1>3, <1>4, <1>5 DEF Next

----------------------------------------------------------------------------
\* What start() marks stays marked until the job's own outcome is recorded.
MarkInv ==
    \A p \in Proc :
        worker[p] \in Working \/ starting[p] \in {"marked", "truncated"} => ~baselineState.ok

\* Every step keeps an unfinished job's record "not ok", if records can be written.
LEMMA MarkStep ==
  ASSUME TypeOK, LockInv, MarkInv, WritesFail = FALSE, [Next]_vars
  PROVE  MarkInv'
<1> USE ProcAssumption DEF TypeOK, LockInv, MarkInv, Locked, Working, Mutating,
        memory, thread, pip, late, records, lists, bounds
<1>1. CASE UNCHANGED vars
  BY <1>1 DEF vars
<1>2. ASSUME NEW p \in Proc, Life(p)
      PROVE  MarkInv'
  <2>1. CASE BootRead(p)
    BY <2>1 DEF BootRead
  <2>2. CASE BootPersist(p)
    BY <2>2 DEF BootPersist
  <2>3. CASE Gone(p)
    BY <2>3 DEF Gone
  <2>4. CASE Shutdown(p)
    BY <2>4 DEF Shutdown
  <2>5. QED
    BY <1>2, <2>1, <2>2, <2>3, <2>4 DEF Life, Crash, Exit
<1>3. ASSUME NEW p \in Proc, Handlers(p)
      PROVE  MarkInv'
  <2>1. CASE \E t \in PageLists : SaveRequirements(p, t)
    BY <2>1 DEF SaveRequirements
  <2>2. CASE \E t \in Baselines : SaveBaseline(p, t)
    BY <2>2 DEF SaveBaseline
  <2>3. CASE ClearCache(p) \/ ClearCacheDone(p)
    BY <2>3 DEF ClearCache, ClearCacheDone
  <2>4. CASE StartFlock(p)
    BY <2>4 DEF StartFlock
  <2>5. CASE StartMark(p)
    BY <2>5 DEF StartMark, RecordBaseline
  <2>6. CASE StartTruncate(p)
    BY <2>6 DEF StartTruncate
  <2>7. CASE StartFails(p)
    BY <2>7 DEF StartFails
  <2>8. CASE \E action \in {"install", "reset"} : StartPublish(p, action)
    BY <2>8 DEF StartPublish
  <2>9. CASE Cancel(p)
    BY <2>9 DEF Cancel
  <2>10. QED
    BY <1>3, <2>1, <2>2, <2>3, <2>4, <2>5, <2>6, <2>7, <2>8, <2>9 DEF Handlers, StartGoesOn
<1>4. ASSUME NEW p \in Proc, Threads(p)
      PROVE  MarkInv'
  <2>1. CASE GraceExpires(p)
    BY <2>1 DEF GraceExpires
  <2>2. CASE \E end \in {"ok", "failed"} : ChildExits(p, end)
    BY <2>2 DEF ChildExits, ChildEnds
  <2>3. CASE \E id \in Ids : KillFires(p, id)
    BY <2>3 DEF KillFires, ChildEnds
  <2>4. CASE \E id \in Ids : OrphanWrites(p, id) \/ OrphanEnds(p, id)
    BY <2>4 DEF OrphanWrites, OrphanEnds
  <2>5. QED
    BY <1>4, <2>1, <2>2, <2>3, <2>4 DEF Threads
<1>5. ASSUME NEW p \in Proc, Worker(p)
      PROVE  MarkInv'
  <2> USE DEF Goto, Returns
  <2>1. CASE Begin(p)
    BY <2>1 DEF Begin
  <2>2. CASE RemoveTree(p)
    BY <2>2 DEF RemoveTree
  <2>3. CASE CheckCancelled(p)
    BY <2>3 DEF CheckCancelled
  <2>4. CASE Check(p)
    BY <2>4 DEF Check
  <2>5. CASE MakeVenv(p)
    BY <2>5 DEF MakeVenv
  <2>6. CASE Pip(p)
    BY <2>6 DEF Pip
  <2>7. CASE CommandDone(p)
    BY <2>7 DEF CommandDone
  <2>8. CASE Finish(p)
    BY <2>8 DEF Finish
  <2>9. CASE CloseLog(p)
    BY <2>9 DEF CloseLog
  <2>10. CASE Record(p)
    BY <2>10 DEF Record, RecordBaseline
  <2>11. CASE Release(p)
    BY <2>11 DEF Release
  <2>12. QED
    BY <1>5, <2>1, <2>2, <2>3, <2>4, <2>5, <2>6, <2>7, <2>8, <2>9, <2>10, <2>11 DEF Worker
<1>6. QED
  BY <1>1, <1>2, <1>3, <1>4, <1>5 DEF Next

----------------------------------------------------------------------------
(* The order of flock, log and status; clear_cache against jobs             *)

\* A cache clean-up and a job of the same process exclude each other.
CacheInv ==
    \A p \in Proc :
        /\ worker[p] \in Mutating \cup {"begin", "finish"} => Running(p)
        /\ maintenance[p] => ~Locked(p) /\ worker[p] \notin Mutating \cup {"begin", "finish"}
        /\ phase[p] = "down" => ~maintenance[p]

SharedInv == LogKept /\ LogOpenForJob /\ CacheInv

\* Every step keeps log and download cache with the job they belong to.
LEMMA SharedStep ==
  ASSUME TypeOK, LockInv, SharedInv, [Next]_vars
  PROVE  SharedInv'
<1> USE ProcAssumption DEF TypeOK, LockInv, SharedInv, LogKept, LogOpenForJob, CacheInv, Locked, Running, Busy,
        Working, Mutating, memory, thread, pip, late, records, lists, bounds
<1>1. CASE UNCHANGED vars
  BY <1>1 DEF vars
<1>2. ASSUME NEW p \in Proc, Life(p)
      PROVE  SharedInv'
  <2>1. CASE BootRead(p)
    BY <2>1 DEF BootRead
  <2>2. CASE BootPersist(p)
    BY <2>2 DEF BootPersist
  <2>3. CASE Gone(p)
    BY <2>3 DEF Gone
  <2>4. CASE Shutdown(p)
    BY <2>4 DEF Shutdown
  <2>5. QED
    BY <1>2, <2>1, <2>2, <2>3, <2>4 DEF Life, Crash, Exit
<1>3. ASSUME NEW p \in Proc, Handlers(p)
      PROVE  SharedInv'
  <2>1. CASE \E t \in PageLists : SaveRequirements(p, t)
    BY <2>1 DEF SaveRequirements
  <2>2. CASE \E t \in Baselines : SaveBaseline(p, t)
    BY <2>2 DEF SaveBaseline
  <2>3. CASE ClearCache(p) \/ ClearCacheDone(p)
    BY <2>3 DEF Serving, ClearCache, ClearCacheDone
  <2>4. CASE StartFlock(p)
    BY <2>4 DEF StartFlock
  <2>5. CASE StartMark(p)
    BY <2>5 DEF StartMark
  <2>6. CASE StartTruncate(p)
    BY <2>6 DEF StartTruncate
  <2>7. CASE StartFails(p)
    BY <2>7 DEF StartFails
  <2>8. CASE \E action \in {"install", "reset"} : StartPublish(p, action)
    BY <2>8 DEF StartPublish
  <2>9. CASE Cancel(p)
    BY <2>9 DEF Cancel
  <2>10. QED
    BY <1>3, <2>1, <2>2, <2>3, <2>4, <2>5, <2>6, <2>7, <2>8, <2>9 DEF Handlers, StartGoesOn
<1>4. ASSUME NEW p \in Proc, Threads(p)
      PROVE  SharedInv'
  <2>1. CASE GraceExpires(p)
    BY <2>1 DEF GraceExpires
  <2>2. CASE \E end \in {"ok", "failed"} : ChildExits(p, end)
    BY <2>2 DEF ChildExits, ChildEnds
  <2>3. CASE \E id \in Ids : KillFires(p, id)
    BY <2>3 DEF KillFires, ChildEnds
  <2>4. CASE \E id \in Ids : OrphanWrites(p, id) \/ OrphanEnds(p, id)
    BY <2>4 DEF OrphanWrites, OrphanEnds
  <2>5. QED
    BY <1>4, <2>1, <2>2, <2>3, <2>4 DEF Threads
<1>5. ASSUME NEW p \in Proc, Worker(p)
      PROVE  SharedInv'
  <2> USE DEF Goto, Returns
  <2>1. CASE Begin(p)
    BY <2>1 DEF Begin
  <2>2. CASE RemoveTree(p)
    BY <2>2 DEF RemoveTree
  <2>3. CASE CheckCancelled(p)
    BY <2>3 DEF CheckCancelled
  <2>4. CASE Check(p)
    BY <2>4 DEF Check
  <2>5. CASE MakeVenv(p)
    BY <2>5 DEF MakeVenv
  <2>6. CASE Pip(p)
    BY <2>6 DEF Pip
  <2>7. CASE CommandDone(p)
    BY <2>7 DEF CommandDone
  <2>8. CASE Finish(p)
    BY <2>8 DEF Finish, Jobs
  <2>9. CASE CloseLog(p)
    BY <2>9 DEF CloseLog
  <2>10. CASE Record(p)
    BY <2>10 DEF Record
  <2>11. CASE Release(p)
    BY <2>11 DEF Release
  <2>12. QED
    BY <1>5, <2>1, <2>2, <2>3, <2>4, <2>5, <2>6, <2>7, <2>8, <2>9, <2>10, <2>11 DEF Worker
<1>6. QED
  BY <1>1, <1>2, <1>3, <1>4, <1>5 DEF Next

----------------------------------------------------------------------------
\* With one process only, nobody changes the lists under a job, and what the
\* record will name is what pip was asked for.
Satisfied(p) == venv.state = "ok" /\ jobBaseline[p] \in venv.sat \cup {NoPkgs}

OkInv ==
    /\ OkMeansInstalled
    /\ \A p \in Proc :
          /\ phase[p] = "down" => ~Running(p)
          /\ worker[p] \in Mutating \cup {"begin", "finish"} => Running(p) /\ jobBaseline[p] = baseline
          /\ Locked(p) => jobBaseline[p] = baseline
          /\ worker[p] \in {"pip", "pipWait"} => venv.state = "ok"
          /\ worker[p] = "mkvenvWait" /\ child[p] = "ok" => venv.state = "ok"
          /\ worker[p] = "pipWait" => wanted[p] = Listed
          /\ worker[p] = "pipWait" /\ child[p] = "ok" => Listed \subseteq venv.sat
          /\ worker[p] = "finish" /\ outcome[p] = "succeeded" =>
                 venv.state = "ok" /\ Listed \subseteq venv.sat
          /\ worker[p] \in {"closing", "record"} /\ job[p].status = "succeeded" => Satisfied(p)

\* ... and job.json says of the last job what its record will say.
FileInv ==
    /\ OkOnlyAfterSuccess
    /\ \A p \in Proc :
          /\ phase[p] = "loading" => jobFile.status = "running"
          /\ worker[p] \in {"closing", "record"} => jobFile.status = job[p].status
          /\ worker[p] \in Mutating \cup {"begin", "finish"} => jobFile.status = "running"

AloneInv == OkInv /\ FileInv

\* With one process and records that can be written, every step keeps both records truthful.
LEMMA AloneStep ==
  ASSUME TypeOK, LockInv, MarkInv, AloneInv, WritesFail = FALSE, \A p, q \in Proc : p = q, [Next]_vars
  PROVE  AloneInv'
<1> USE ProcAssumption DEF TypeOK, LockInv, MarkInv, AloneInv, OkInv, FileInv, OkMeansInstalled, OkOnlyAfterSuccess,
        Satisfied, Locked, Running, Busy, Working, Mutating, Jobs, memory, thread, pip, late, records, lists, bounds
<1>1. CASE UNCHANGED vars
  BY <1>1 DEF vars
<1>2. ASSUME NEW p \in Proc, Life(p)
      PROVE  AloneInv'
  <2>1. CASE BootRead(p)
    BY <2>1 DEF BootRead
  <2>2. CASE BootPersist(p)
    BY <2>2 DEF BootPersist, Persist
  <2>3. CASE Gone(p)
    BY <2>3 DEF Gone, HalfInstalled, Usable, NoJob
  <2>4. CASE Shutdown(p)
    BY <2>4 DEF Shutdown
  <2>5. QED
    BY <1>2, <2>1, <2>2, <2>3, <2>4 DEF Life, Crash, Exit
<1>3. ASSUME NEW p \in Proc, Handlers(p)
      PROVE  AloneInv'
  <2>1. CASE \E t \in PageLists : SaveRequirements(p, t)
    BY <2>1 DEF SaveRequirements
  <2>2. CASE \E t \in Baselines : SaveBaseline(p, t)
    BY <2>2 DEF SaveBaseline
  <2>3. CASE ClearCache(p) \/ ClearCacheDone(p)
    BY <2>3 DEF ClearCache, ClearCacheDone
  <2>4. CASE StartFlock(p)
    BY <2>4 DEF StartFlock
  <2>5. CASE StartMark(p)
    BY <2>5 DEF StartMark, RecordBaseline
  <2>6. CASE StartTruncate(p)
    BY <2>6 DEF StartTruncate
  <2>7. CASE StartFails(p)
    BY <2>7 DEF StartFails
  <2>8. CASE \E action \in {"install", "reset"} : StartPublish(p, action)
    BY <2>8 DEF StartPublish, Persist
  <2>9. CASE Cancel(p)
    BY <2>9 DEF Cancel
  <2>10. QED
    BY <1>3, <2>1, <2>2, <2>3, <2>4, <2>5, <2>6, <2>7, <2>8, <2>9 DEF Handlers, StartGoesOn
<1>4. ASSUME NEW p \in Proc, Threads(p)
      PROVE  AloneInv'
  <2>1. CASE GraceExpires(p)
    BY <2>1 DEF GraceExpires
  <2>2. CASE \E end \in {"ok", "failed"} : ChildExits(p, end)
    BY <2>2 DEF ChildExits, ChildEnds, Installed, HalfInstalled, Usable
  <2>3. CASE \E id \in Ids : KillFires(p, id)
    BY <2>3 DEF KillFires, ChildEnds, HalfInstalled, Usable
  <2>4. CASE \E id \in Ids : OrphanWrites(p, id) \/ OrphanEnds(p, id)
    BY <2>4 DEF OrphanWrites, OrphanEnds
  <2>5. QED
    BY <1>4, <2>1, <2>2, <2>3, <2>4 DEF Threads
<1>5. ASSUME NEW p \in Proc, Worker(p)
      PROVE  AloneInv'
  <2> USE DEF Goto, Returns
  <2>1. CASE Begin(p)
    BY <2>1 DEF Begin, Torn, Usable, Broken
  <2>2. CASE RemoveTree(p)
    BY <2>2 DEF RemoveTree
  <2>3. CASE CheckCancelled(p)
    BY <2>3 DEF CheckCancelled
  <2>4. CASE Check(p)
    BY <2>4 DEF Check, Torn, Usable, Broken
  <2>5. CASE MakeVenv(p)
    BY <2>5 DEF MakeVenv
  <2>6. CASE Pip(p)
    <3>0. Listed' = Listed
      BY <2>6 DEF Pip, Listed
    <3>1. OkInv'
      <4>1. CASE Goto(p, "pipWait") /\ wanted' = [wanted EXCEPT ![p] = Listed]
        BY <2>6, <4>1 DEF Pip
      <4>2. CASE Returns(p, "succeeded") /\ Listed = {} /\ UNCHANGED pip
        BY <2>6, <3>0, <4>2 DEF Pip
      <4>3. CASE (Returns(p, "failed") \/ Returns(p, "cancelled")) /\ UNCHANGED pip
        BY <2>6, <3>0, <4>3 DEF Pip
      <4>4. QED
        BY <2>6, <4>1, <4>2, <4>3, Zenon DEF Pip
    <3>2. FileInv'
      BY <2>6 DEF Pip
    <3>3. QED
      BY <3>1, <3>2
  <2>7. CASE CommandDone(p)
    BY <2>7 DEF CommandDone
  <2>8. CASE Finish(p)
    BY <2>8 DEF Finish, Persist
  <2>9. CASE CloseLog(p)
    BY <2>9 DEF CloseLog
  <2>10. CASE Record(p)
    BY <2>10 DEF Record, RecordBaseline
  <2>11. CASE Release(p)
    BY <2>11 DEF Release
  <2>12. QED
    BY <1>5, <2>1, <2>2, <2>3, <2>4, <2>5, <2>6, <2>7, <2>8, <2>9, <2>10, <2>11 DEF Worker
<1>6. QED
  BY <1>1, <1>2, <1>3, <1>4, <1>5 DEF Next

----------------------------------------------------------------------------
(* Steps that satisfy the action properties                                *)

\* The step that makes a job "succeeded" finds the venv as the lists ask.
LEMMA SuccessStep ==
  ASSUME TypeOK, LockInv, OkInv, [Next]_vars, NEW p \in Proc,
         Running(p), job'[p].id = job[p].id, job'[p].status = "succeeded"
  PROVE  venv.state = "ok" /\ Listed \subseteq venv.sat
<1> USE DEF TypeOK, LockInv, Locked, Running, memory, thread, pip, late, records, lists, bounds
<1>1. ASSUME NEW q \in Proc, Worker(q)
      PROVE  Finish(q) \/ UNCHANGED job
  BY <1>1 DEF Worker, Begin, RemoveTree, CheckCancelled, Check, MakeVenv, Pip, CommandDone,
              CloseLog, Record, Release
<1>2. ASSUME NEW q \in Proc, Threads(q)
      PROVE  UNCHANGED job
  BY <1>2 DEF Threads, GraceExpires, ChildExits, KillFires, OrphanWrites, OrphanEnds
<1>3. ASSUME NEW q \in Proc, Handlers(q)
      PROVE  UNCHANGED job \/ \E action \in {"install", "reset"} : StartPublish(q, action)
  BY <1>3 DEF Handlers, StartGoesOn, SaveRequirements, SaveBaseline, ClearCache, ClearCacheDone, StartFlock,
              StartMark, StartTruncate, StartFails, Cancel
<1>4. ASSUME NEW q \in Proc, Life(q)
      PROVE  UNCHANGED job \/ BootRead(q) \/ Gone(q)
  BY <1>4 DEF Life, BootPersist, Crash, Exit, Shutdown
<1>5. ASSUME NEW q \in Proc, BootRead(q)
      PROVE  job'[p] = job[p]
  BY <1>5 DEF BootRead, OkInv
<1>6. ASSUME NEW q \in Proc, Gone(q)
      PROVE  job'[p] = job[p] \/ job'[p].status = "idle"
  BY <1>6 DEF Gone, NoJob
<1>7. ASSUME NEW q \in Proc, NEW action, StartPublish(q, action)
      PROVE  job'[p] = job[p] \/ job'[p].status = "running"
  BY <1>7 DEF StartPublish
<1>8. PICK q \in Proc : Finish(q) /\ q = p
  BY <1>1, <1>2, <1>3, <1>4, <1>5, <1>6, <1>7 DEF Next, vars, Finish
<1>9. worker[p] = "finish" /\ outcome[p] = "succeeded"
  BY <1>8 DEF Finish, Jobs
<1>10. QED
  BY <1>9 DEF OkInv

\* Over all processes: the job that runs is the last one started, job.json is never of
\* a later one, and until its worker says its outcome the file calls it running or
\* interrupted.
OrderInv ==
    /\ jobFile.id < nextId
    /\ \A p \in Proc :
          /\ job[p].id < nextId
          /\ phase[p] = "loading" => job[p].status = "interrupted"
          /\ worker[p] \in Working => job[p].id = nextId - 1
          /\ worker[p] \in Mutating \cup {"begin", "finish"} /\ jobFile.id = job[p].id =>
                 jobFile.status \in {"running", "interrupted"}

\* What a step may do to job.json.
Kept ==
    \/ jobFile' = jobFile
    \/ jobFile'.id > jobFile.id
    \/ jobFile'.id = jobFile.id /\ jobFile.status \in {"running", "interrupted"}
    \/ \E p \in Proc : ComesUp(p)

\* Every step keeps the order of the jobs, and with it what is said of each.
LEMMA OrderStep ==
  ASSUME TypeOK, LockInv, OrderInv, WritesFail = FALSE, [Next]_vars
  PROVE  OrderInv' /\ Kept
<1> USE ProcAssumption DEF TypeOK, LockInv, OrderInv, Kept, Locked, Running, Busy, Working, Mutating, Jobs,
        memory, thread, pip, late, records, lists, bounds
<1>1. CASE UNCHANGED vars
  BY <1>1 DEF vars
<1>2. ASSUME NEW p \in Proc, Life(p)
      PROVE  OrderInv' /\ Kept
  <2>1. CASE BootRead(p)
    BY <2>1 DEF BootRead
  <2>2. CASE BootPersist(p)
    <3>1. ComesUp(p) /\ jobFile' = job[p]
      BY <2>2 DEF BootPersist, Persist, ComesUp
    <3>2. OrderInv'
      BY <2>2, <3>1 DEF BootPersist
    <3>3. QED
      BY <3>1, <3>2
  <2>3. CASE Gone(p)
    BY <2>3 DEF Gone, NoJob
  <2>4. CASE Shutdown(p)
    BY <2>4 DEF Shutdown
  <2>5. QED
    BY <1>2, <2>1, <2>2, <2>3, <2>4 DEF Life, Crash, Exit
<1>3. ASSUME NEW p \in Proc, Handlers(p)
      PROVE  OrderInv' /\ Kept
  <2>1. CASE \E action \in {"install", "reset"} : StartPublish(p, action)
    BY <2>1 DEF StartPublish, Persist
  <2>2. CASE StartFlock(p) \/ StartMark(p) \/ StartTruncate(p) \/ StartFails(p)
    <3>1. UNCHANGED <<job, jobFile, nextId, worker>> /\ (phase'[p] = "loading" => phase[p] = "loading")
      BY <2>2 DEF StartFlock, StartMark, StartTruncate, StartFails
    <3>2. \A q \in Proc : phase'[q] = "loading" => phase[q] = "loading"
      BY <2>2, <3>1 DEF StartFlock, StartMark, StartTruncate, StartFails
    <3>3. QED
      BY <3>1, <3>2
  <2>3. CASE ClearCache(p) \/ ClearCacheDone(p) \/ Cancel(p)
    BY <2>3 DEF ClearCache, ClearCacheDone, Cancel
  <2>4. CASE (\E t \in PageLists : SaveRequirements(p, t)) \/ (\E t \in Baselines : SaveBaseline(p, t))
    BY <2>4 DEF SaveRequirements, SaveBaseline
  <2>5. QED
    BY <1>3, <2>1, <2>2, <2>3, <2>4 DEF Handlers, StartGoesOn
<1>4. ASSUME NEW p \in Proc, Threads(p)
      PROVE  OrderInv' /\ Kept
  BY <1>4 DEF Threads, GraceExpires, ChildExits, KillFires, OrphanWrites, OrphanEnds
<1>5. ASSUME NEW p \in Proc, Worker(p)
      PROVE  OrderInv' /\ Kept
  <2> USE DEF Goto, Returns
  <2>1. CASE Begin(p) \/ RemoveTree(p) \/ CheckCancelled(p) \/ Check(p) \/ MakeVenv(p)
    BY <2>1 DEF Begin, RemoveTree, CheckCancelled, Check, MakeVenv
  <2>2. CASE Pip(p) \/ CommandDone(p)
    BY <2>2 DEF Pip, CommandDone
  <2>3. CASE Finish(p)
    BY <2>3 DEF Finish, Persist
  <2>4. CASE CloseLog(p) \/ Record(p) \/ Release(p)
    BY <2>4 DEF CloseLog, Record, Release
  <2>5. QED
    BY <1>5, <2>1, <2>2, <2>3, <2>4 DEF Worker
<1>6. QED
  BY <1>1, <1>2, <1>3, <1>4, <1>5 DEF Next

----------------------------------------------------------------------------
(* The theorems                                                            *)

\* The types of JobRunner's state, and who holds the flock.
THEOREM TypeCorrect == Spec => [](TypeOK /\ LockInv)
<1>1. TypeOK /\ LockInv /\ [Next]_vars => (TypeOK /\ LockInv)'
  BY LockStep, TypeStep
<1>2. QED
  BY InitOK, <1>1, PTL DEF Spec

\* start()'s flock: over all processes that share the volume, one job thread at
\* most is between two changes of the venv or has a subprocess.
THEOREM VenvExclusion == Spec => []OneVenvWriter
<1>1. TypeOK /\ LockInv => OneVenvWriter
  BY DEF LockInv, OneVenvWriter, ChangesVenv, Mutating
<1>2. QED
  BY TypeCorrect, <1>1, PTL

\* _record_baseline(False) in start(): if it is written, no crash at any later step
\* of the job leaves a record that says installed, whatever other processes do.
THEOREM UnfinishedNeverTrusted ==
  ASSUME WritesFail = FALSE
  PROVE  Spec => []UnfinishedNotOk
<1>1. Init => MarkInv
  BY DEF Init, MarkInv, Working, Mutating
<1>2. TypeOK /\ LockInv /\ MarkInv /\ [Next]_vars => MarkInv'
  BY MarkStep
<1>3. MarkInv => UnfinishedNotOk
  BY DEF MarkInv, UnfinishedNotOk
<1>4. QED
  BY TypeCorrect, <1>1, <1>2, <1>3, PTL DEF Spec

\* SharedInv always holds.
LEMMA SharedInductive == Spec => []SharedInv
<1>1. Init => SharedInv
  BY DEF Init, SharedInv, LogKept, LogOpenForJob, CacheInv, Working, Mutating
<1>2. TypeOK /\ LockInv /\ SharedInv /\ [Next]_vars => SharedInv'
  BY SharedStep
<1>3. QED
  BY TypeCorrect, <1>1, <1>2, PTL DEF Spec

\* The flock is taken before the log is truncated: a running job's log is its own.
THEOREM RunningLogKept == Spec => []LogKept
  BY SharedInductive, PTL DEF SharedInv

\* The flock is released after the log is closed: a worker that is finishing never
\* closes the log of the next job of its process.
THEOREM RunningLogOpen == Spec => []LogOpenForJob
  BY SharedInductive, PTL DEF SharedInv

\* clear_cache and a pip of the same process exclude each other.
THEOREM CacheNeverUnderPip == Spec => []CacheClearAlone
<1>1. TypeOK /\ LockInv /\ SharedInv => CacheClearAlone
  BY DEF LockInv, SharedInv, CacheInv, CacheClearAlone, Mutating
<1>2. QED
  BY TypeCorrect, SharedInductive, <1>1, PTL

\* Any number of processes on the volume: but for one that read job.json while a job
\* ran and starts up late, no process's write takes job.json back to an older job, or
\* replaces the outcome of the last one.
THEOREM OutcomesStay ==
  ASSUME WritesFail = FALSE
  PROVE  Spec => OutcomeKept
<1>1. Init => OrderInv
  BY DEF Init, Volume, OrderInv, NoJob, Working, Mutating
<1>2. TypeOK /\ LockInv /\ OrderInv /\ [Next]_vars => OrderInv' /\ [Kept]_vars
  BY OrderStep
<1>3. [][Kept]_vars => OutcomeKept
  BY PTL DEF OutcomeKept, Kept
<1>4. QED
  BY TypeCorrect, <1>1, <1>2, <1>3, PTL DEF Spec

----------------------------------------------------------------------------
(* One process on the volume, and no write of the records fails.           *)

\* All the invariants of the single process, together.
LEMMA AloneInductive ==
  ASSUME WritesFail = FALSE, \A p, q \in Proc : p = q
  PROVE  Spec => [](TypeOK /\ LockInv /\ MarkInv /\ OkInv /\ FileInv)
<1>1. Init => MarkInv /\ OkInv /\ FileInv
  <2> USE DEF Working, Mutating
  <2>1. Init => MarkInv
    BY DEF Init, MarkInv
  <2>2. Init => OkMeansInstalled /\ OkOnlyAfterSuccess
    <3>1. ASSUME NEW t \in Earlier, Volume(t)
          PROVE  OkMeansInstalled /\ OkOnlyAfterSuccess
      BY <3>1 DEF Volume, Usable, OkMeansInstalled, OkOnlyAfterSuccess
    <3>2. QED
      BY <3>1 DEF Init
  <2>3. Init => OkInv
    BY <2>2 DEF Init, OkInv, Running, Locked, NoJob
  <2>4. Init => FileInv
    BY <2>2 DEF Init, FileInv
  <2>5. QED
    BY <2>1, <2>3, <2>4
<1>2. TypeOK /\ LockInv /\ MarkInv /\ OkInv /\ FileInv /\ [Next]_vars => (MarkInv /\ OkInv /\ FileInv)'
  BY MarkStep, AloneStep DEF AloneInv
<1>3. QED
  BY TypeCorrect, <1>1, <1>2, PTL DEF Spec

\* baseline.json tells the truth about the environment at every step, across
\* crashes, cancels, resets and saves of other texts.
THEOREM RecordIsTruthful ==
  ASSUME WritesFail = FALSE, \A p, q \in Proc : p = q
  PROVE  Spec => []OkMeansInstalled
<1>1. OkInv => OkMeansInstalled
  BY DEF OkInv
<1>2. QED
  BY AloneInductive, <1>1, PTL

\* baseline.json and job.json never contradict each other.
THEOREM RecordsAgree ==
  ASSUME WritesFail = FALSE, \A p, q \in Proc : p = q
  PROVE  Spec => []OkOnlyAfterSuccess
<1>1. FileInv => OkOnlyAfterSuccess
  BY DEF FileInv
<1>2. QED
  BY AloneInductive, <1>1, PTL

\* A job that reports success has installed both lists as they are at that moment.
THEOREM SuccessIsReal ==
  ASSUME WritesFail = FALSE, \A p, q \in Proc : p = q
  PROVE  Spec => SuccessMeansInstalled
<1>1. TypeOK /\ LockInv /\ OkInv /\ [Next]_vars =>
        [\A p \in Proc :
           Running(p) /\ job'[p].id = job[p].id /\ job'[p].status = "succeeded" =>
               venv.state = "ok" /\ Listed \subseteq venv.sat]_vars
  BY SuccessStep
<1>2. QED
  BY AloneInductive, <1>1, PTL DEF Spec, SuccessMeansInstalled

----------------------------------------------------------------------------
(* JobRunner implements VenvService                                        *)

\* Every step of the runner is a step of the service or changes nothing of it.
LEMMA ServiceStep ==
  ASSUME TypeOK, TypeOK', LockInv, MarkInv, Alone => OkInv, WritesFail = FALSE, [Next]_vars
  PROVE  [Service!Next]_(Service!vars)
<1> DEFINE Stutter == UNCHANGED <<flock, baselineState, venv>>
           Changes(p) == flock = p /\ ~baselineState.ok /\ UNCHANGED <<flock, baselineState>>
<1> USE ProcAssumption DEF LockInv, MarkInv, memory, thread, pip, late, records, lists, bounds
<1>1. venv' \in Venvs /\ baselineState' \in [sha : Baselines, ok : BOOLEAN]
  BY DEF TypeOK
<1>2. Stutter => [Service!Next]_(Service!vars)
  BY DEF Service!vars
<1>3. \A p \in Proc : Changes(p) => Service!Change(p)
  BY <1>1 DEF Service!Change
<1>4. CASE UNCHANGED vars
  BY <1>2, <1>4 DEF vars
<1>5. ASSUME NEW p \in Proc, Life(p)
      PROVE  Stutter \/ Service!Release(p) \/ Service!Die(p)
  <2>1. CASE BootRead(p) \/ BootPersist(p) \/ Shutdown(p)
    BY <2>1 DEF BootRead, BootPersist, Shutdown
  <2>2. CASE Gone(p) /\ child[p] = "running" /\ worker[p] = "pipWait"
    <3>1. flock = p /\ ~baselineState.ok
      BY <2>2 DEF Working, Mutating
    <3>2. QED
      BY <1>1, <2>2, <3>1 DEF Gone, Service!Die
  <2>3. CASE Gone(p) /\ ~(child[p] = "running" /\ worker[p] = "pipWait")
    BY <2>3 DEF Gone, Service!Release
  <2>4. QED
    BY <1>5, <2>1, <2>2, <2>3 DEF Life, Crash, Exit
<1>6. ASSUME NEW p \in Proc, Handlers(p)
      PROVE  Stutter \/ Service!Acquire(p) \/ Service!Withdraw(p) \/ Service!Release(p)
  <2>1. CASE StartFlock(p)
    BY <2>1 DEF StartFlock, Service!Acquire
  <2>2. CASE StartMark(p)
    <3>1. baselineState' = [sha |-> jobBaseline[p], ok |-> FALSE] /\ flock = p
      BY <2>2 DEF StartMark, RecordBaseline, Locked
    <3>2. jobBaseline[p] \in Baselines
      BY DEF TypeOK
    <3>3. QED
      BY <2>2, <3>1, <3>2 DEF StartMark, Service!Withdraw
  <2>3. CASE StartFails(p)
    BY <2>3 DEF StartFails, Locked, Service!Release
  <2>4. QED
    BY <1>6, <2>1, <2>2, <2>3
    DEF Handlers, StartGoesOn, SaveRequirements, SaveBaseline, ClearCache, ClearCacheDone,
        StartTruncate, StartPublish, Cancel
<1>7. ASSUME NEW p \in Proc, Threads(p)
      PROVE  Stutter \/ Changes(p)
  <2>1. child[p] # "none" => flock = p /\ ~baselineState.ok
    BY DEF Working, Mutating
  <2>2. ASSUME NEW end, ChildEnds(p, end)
        PROVE  flock = p /\ ~baselineState.ok
    BY <2>1, <2>2 DEF ChildEnds
  <2>3. QED
    BY <1>7, <2>2 DEF Threads, GraceExpires, ChildExits, KillFires, OrphanWrites, OrphanEnds
<1>8. ASSUME NEW p \in Proc, Worker(p)
      PROVE  Stutter \/ Changes(p) \/ Service!Commit(p) \/ Service!Withdraw(p) \/ Service!Release(p)
  <2>1. CASE Begin(p) \/ RemoveTree(p) \/ Check(p) \/ MakeVenv(p)
    BY <2>1 DEF Begin, RemoveTree, Check, MakeVenv, Working, Mutating
  <2>2. CASE Record(p)
    <3>1. flock = p /\ ~baselineState.ok /\ jobBaseline[p] \in Baselines
      BY <2>2 DEF Record, Working, TypeOK
    <3>2. CASE Counts(job[p].status)
      <4>1. Alone => Satisfies(venv, jobBaseline[p])
        BY <2>2, <3>2 DEF Record, OkInv, Satisfied, Satisfies
      <4>2. baselineState' = [sha |-> jobBaseline[p], ok |-> TRUE] /\ UNCHANGED <<flock, venv>>
        BY <2>2, <3>2 DEF Record, RecordBaseline
      <4>3. QED
        BY <3>1, <4>1, <4>2 DEF Service!Commit
    <3>3. CASE ~Counts(job[p].status)
      <4>1. baselineState' = [sha |-> jobBaseline[p], ok |-> FALSE] /\ UNCHANGED <<flock, venv>>
        BY <2>2, <3>3 DEF Record, RecordBaseline
      <4>2. QED
        BY <3>1, <4>1 DEF Service!Withdraw
    <3>4. QED
      BY <3>2, <3>3
  <2>3. CASE Release(p)
    BY <2>3 DEF Release, Service!Release
  <2>4. QED
    BY <1>8, <2>1, <2>2, <2>3 DEF Worker, CheckCancelled, Pip, CommandDone, Finish, CloseLog
<1>9. QED
  BY <1>2, <1>3, <1>4, <1>5, <1>6, <1>7, <1>8 DEF Next, Service!Next

\* If records can be written, the runner with all its threads, crashes and second
\* processes is an implementation of the service its callers rely on; a second
\* process only costs the certainty that a record names what is installed.
THEOREM ImplementsService ==
  ASSUME WritesFail = FALSE
  PROVE  Spec => KeepsPromise
<1>1. Init => Service!Init
  <2>1. ASSUME NEW t \in Earlier, Volume(t)
        PROVE  baselineState \in [sha : Baselines, ok : BOOLEAN] /\ venv \in Venvs
               /\ (baselineState.ok => Satisfies(venv, baselineState.sha))
    BY <2>1, TextAssumption DEF Volume, Venvs, Absent, Usable, Texts, Satisfies
  <2>2. QED
    BY <2>1 DEF Init, Service!Init
<1>2. Spec => [](TypeOK /\ LockInv /\ MarkInv)
  <2>1. Init => MarkInv
    BY DEF Init, MarkInv, Working, Mutating
  <2>2. TypeOK /\ LockInv /\ MarkInv /\ [Next]_vars => MarkInv'
    BY MarkStep
  <2>3. QED
    BY TypeCorrect, <2>1, <2>2, PTL DEF Spec
<1>3. Spec => [](Alone => OkInv)
  <2>1. CASE Alone
    <3>1. Spec => []OkInv
      BY <2>1, AloneInductive, PTL DEF Alone
    <3>2. QED
      BY <3>1, PTL
  <2>2. CASE ~Alone
    BY <2>2, PTL
  <2>3. QED
    BY <2>1, <2>2
<1>4. TypeOK /\ TypeOK' /\ LockInv /\ MarkInv /\ (Alone => OkInv) /\ [Next]_vars
        => [Service!Next]_(Service!vars)
  BY ServiceStep
<1>5. QED
  BY <1>1, <1>2, <1>3, <1>4, PTL DEF Spec, KeepsPromise, Service!Spec

----------------------------------------------------------------------------
(* The deploy                                                              *)

\* The job the client follows is still the one its runner has.
Mine == at \in {"follow", "ask"} /\ job[target].id = jobId

\* Where the claim "installed" comes from: the text is baseline.txt once it is saved,
\* pip is asked for it, and from pip's success on it was there.
EarnedInv ==
    /\ at \in Asking => phase[target] \notin {"down", "loading"}
    /\ at \in Asking \ {"put"} => baseline = text
    /\ Mine /\ worker[target] = "pipWait" => text \in wanted[target] \cup {NoPkgs}
    /\ Mine /\ worker[target] = "pipWait" /\ child[target] = "ok" => met
    /\ Mine /\ worker[target] = "finish" /\ outcome[target] = "succeeded" => met
    /\ Mine /\ job[target].status = "succeeded" => met
    /\ OkIsEarned

\* Every step of the composition is a step of the runners, or none of theirs.
LEMMA StepOfRunners ==
  ASSUME DeployTypeOK, DeployNext
  PROVE  [Next]_vars
<1>1. ASSUME NEW p \in Proc, Ends(p) \/ Page(p) \/ Rest(p)
      PROVE  Next
  BY <1>1 DEF Ends, Page, Rest, Next, Life, Handlers, StartGoesOn
<1>2. ASSUME Client
      PROVE  Next \/ UNCHANGED vars
  <2> USE DEF DeployTypeOK
  <2>1. CASE Put \/ Post \/ PostAnswered \/ Interrupt
    <3>1. ASSUME SaveBaseline(target, text) \/ StartFlock(target) \/ StartPublish(target, "install")
                    \/ StartFails(target) \/ Cancel(target) \/ Shutdown(target)
          PROVE  target \in Proc /\ text \in Baselines => Next
      BY <3>1 DEF Next, Life, Handlers, StartGoesOn
    <3>2. QED
      BY <2>1, <3>1 DEF Put, Post, PostAnswered, Interrupt
  <2>2. QED
    BY <1>2, <2>1 DEF Client, ClientGoesOn, BeginDeploy, Recorded, Probe, DryRun, Follow, Ask, GivesUp
<1> QED
  BY <1>1, <1>2 DEF DeployNext

\* The client's own variables keep their types.
LEMMA DeployTypeStep ==
  ASSUME TypeOK, LockInv, DeployTypeOK, [DeployNext]_deployVars
  PROVE  DeployTypeOK'
<1> USE DeployAssumption, BoundAssumption DEF DeployTypeOK, GoTo, Asking, Ended
<1>1. CASE UNCHANGED deployVars
  BY <1>1 DEF deployVars, client
<1>2. ASSUME DeployNext
      PROVE  met' \in BOOLEAN /\ overtaken' \in BOOLEAN
  <2>1. met' \in BOOLEAN
    BY <1>2, Zenon DEF DeployNext, Observe, DeployTypeOK, Has
  <2>2. overtaken' \in BOOLEAN
    BY <1>2, Zenon DEF DeployNext, Observe, DeployTypeOK
  <2>3. QED
    BY <2>1, <2>2
<1>3. ASSUME NEW p \in Proc, Ends(p) \/ Page(p) \/ Rest(p)
      PROVE  UNCHANGED <<target, text, jobId, waited, deploys>> /\ at' \in Asking \cup Ended
  BY <1>3 DEF Ends, Page, Rest, client
<1>4. ASSUME Client
      PROVE  /\ at' \in Asking \cup Ended /\ target' \in Proc /\ text' \in Baselines
             /\ jobId' \in 0..MaxJobs /\ waited' \in 0..BusyLimit /\ deploys' \in 0..MaxDeploys
  <2>1. CASE \E p \in Proc, t \in Baselines : BeginDeploy(p, t)
    BY <2>1 DEF BeginDeploy
  <2>2. CASE Put \/ Post
    BY <2>2 DEF Put, Post, Refused
  <2>3. CASE PostAnswered
    <3>1. nextId \in 1..(MaxJobs + 1) /\ (StartPublish(target, "install") => nextId \in Ids)
      BY DEF TypeOK, StartPublish, LockInv, Locked
    <3>2. QED
      BY <2>3, <3>1 DEF PostAnswered, Ids
  <2>4. CASE Recorded \/ Probe \/ DryRun \/ Follow \/ Ask \/ Interrupt \/ GivesUp
    BY <2>4 DEF Recorded, Probe, DryRun, Follow, Ask, Interrupt, GivesUp
  <2>5. QED
    BY <1>4, <2>1, <2>2, <2>3, <2>4 DEF Client, ClientGoesOn
<1>5. QED
  BY <1>1, <1>2, <1>3, <1>4 DEF DeployNext

\* The types hold in the composition, and all that is proved of JobRunner with them.
THEOREM DeployTypeCorrect == DeploySpec => [](TypeOK /\ LockInv /\ DeployTypeOK)
<1>1. DeployInit => TypeOK /\ LockInv /\ DeployTypeOK
  <2>1. Init => TypeOK /\ LockInv
    BY InitOK
  <2>2. DeployInit => DeployTypeOK
    <3>1. DeployInit => met \in BOOLEAN /\ overtaken \in BOOLEAN
      BY Zenon DEF DeployInit
    <3>2. QED
      BY <3>1, TextAssumption, DeployAssumption, BoundAssumption DEF DeployInit, DeployTypeOK, Asking, Ended
  <2>3. QED
    BY <2>1, <2>2 DEF DeployInit
<1>2. TypeOK /\ LockInv /\ DeployTypeOK /\ [DeployNext]_deployVars => (TypeOK /\ LockInv /\ DeployTypeOK)'
  <2>1. DeployTypeOK /\ [DeployNext]_deployVars => [Next]_vars
    BY StepOfRunners DEF deployVars
  <2>2. QED
    BY <2>1, LockStep, TypeStep, DeployTypeStep
<1>3. QED
  BY <1>1, <1>2, PTL DEF DeploySpec

\* The composition is a JobRunner: every theorem about Spec holds in it.
THEOREM DeployRefinesRunners == DeploySpec => Spec
<1>1. DeployInit => Init
  BY DEF DeployInit
<1>2. DeployTypeOK /\ [DeployNext]_deployVars => [Next]_vars
  BY StepOfRunners DEF deployVars
<1>3. QED
  BY <1>1, <1>2, DeployTypeCorrect, PTL DEF DeploySpec, Spec

----------------------------------------------------------------------------
\* The runners' own steps, and the page's: pip is asked for what is listed, and leaves
\* it in the environment when it succeeds.
LEMMA RestEarned ==
  ASSUME TypeOK, LockInv, DeployTypeOK, EarnedInv, Observe, NEW p \in Proc, Page(p) \/ Rest(p)
  PROVE  EarnedInv'
<1> USE ProcAssumption DEF TypeOK, LockInv, DeployTypeOK, EarnedInv, OkIsEarned, Mine, Locked, Running, Busy,
        Asking, Ended, client, memory, thread, pip, late, records, lists, bounds
<1>1. UNCHANGED client /\ (at \in Asking => (met' = (met \/ Has(text)')))
  BY DEF Page, Rest, Observe
<1>2. at \in Ended => met' = met
  BY <1>1 DEF Observe
<1>3. ASSUME Page(p)
      PROVE  EarnedInv'
  <2>1. CASE \E t \in PageLists : SaveRequirements(p, t)
    BY <2>1, <1>1, <1>2 DEF SaveRequirements
  <2>2. CASE ClearCache(p) \/ ClearCacheDone(p) \/ Cancel(p)
    BY <2>2, <1>1, <1>2 DEF ClearCache, ClearCacheDone, Cancel
  <2>3. CASE StartFlock(p) \/ StartFails(p)
    BY <2>3, <1>1, <1>2 DEF StartFlock, StartFails
  <2>4. CASE \E action \in {"install", "reset"} : StartPublish(p, action)
    BY <2>4, <1>1, <1>2, <1>3 DEF StartPublish, Page
  <2>5. QED
    BY <1>3, <2>1, <2>2, <2>3, <2>4 DEF Page
<1>4. ASSUME Rest(p)
      PROVE  EarnedInv'
  <2> USE DEF Goto, Returns
  <2>1. CASE BootRead(p)
    BY <2>1, <1>1, <1>2 DEF BootRead
  <2>2. CASE BootPersist(p)
    BY <2>2, <1>1, <1>2 DEF BootPersist
  <2>3. CASE Shutdown(p)
    BY <2>3, <1>1, <1>2 DEF Shutdown
  <2>4. CASE StartMark(p) \/ StartTruncate(p)
    BY <2>4, <1>1, <1>2 DEF StartMark, StartTruncate
  <2>5. CASE GraceExpires(p)
    BY <2>5, <1>1, <1>2 DEF GraceExpires
  <2>6. ASSUME NEW end \in {"ok", "failed"}, ChildEnds(p, end), UNCHANGED <<worker, wanted, phase, job, outcome, baseline>>
        PROVE  EarnedInv'
    <3>1. CASE p = target /\ Mine /\ worker[p] = "pipWait" /\ end = "ok"
      <4>1. venv'.state = "ok" /\ wanted[p] \subseteq venv'.sat
        BY <2>6, <3>1 DEF ChildEnds, Installed, Usable
      <4>2. Has(text)'
        BY <1>1, <3>1, <4>1 DEF Has
      <4>3. QED
        BY <1>1, <2>6, <3>1, <4>2
    <3>2. QED
      BY <1>1, <1>2, <2>6, <3>1 DEF ChildEnds
  <2>7. CASE \E id \in Ids : KillFires(p, id)
    <3>1. ChildEnds(p, "failed") \/ UNCHANGED child
      BY <2>7 DEF KillFires
    <3>2. QED
      BY <2>6, <2>7, <3>1, <1>1, <1>2 DEF KillFires
  <2>8. CASE \E id \in Ids : OrphanWrites(p, id) \/ OrphanEnds(p, id)
    BY <2>8, <1>1, <1>2 DEF OrphanWrites, OrphanEnds
  <2>9. CASE Threads(p)
    BY <2>5, <2>6, <2>7, <2>8, <2>9 DEF Threads, ChildExits
  <2>10. CASE Begin(p) \/ RemoveTree(p) \/ CheckCancelled(p) \/ Check(p) \/ MakeVenv(p)
    BY <2>10, <1>1, <1>2 DEF Begin, RemoveTree, CheckCancelled, Check, MakeVenv
  <2>11. CASE Pip(p)
    <3>1. at \in Asking /\ text = NoPkgs => met'
      BY <1>1 DEF Has
    <3>2. worker[p] = "pip" /\ worker'[p] \in {"pipWait", "finish"}
      BY <2>11 DEF Pip
    <3>3. worker'[p] = "pipWait" => wanted'[p] = Listed /\ child'[p] = "running"
      BY <2>11 DEF Pip
    <3>4. worker'[p] = "finish" /\ outcome'[p] = "succeeded" => Listed = {}
      BY <2>11 DEF Pip
    <3>5. \A q \in Proc \ {p} : /\ worker'[q] = worker[q] /\ wanted'[q] = wanted[q]
                               /\ child'[q] = child[q] /\ outcome'[q] = outcome[q]
      BY <2>11 DEF Pip
    <3>6. UNCHANGED <<phase, job, baseline>>
      BY <2>11 DEF Pip
    <3>7. QED
      BY <3>1, <3>2, <3>3, <3>4, <3>5, <3>6, <1>1, <1>2
  <2>12. CASE CommandDone(p)
    BY <2>12, <1>1, <1>2 DEF CommandDone
  <2>13. CASE Finish(p)
    BY <2>13, <1>1, <1>2 DEF Finish
  <2>14. CASE CloseLog(p) \/ Record(p) \/ Release(p)
    BY <2>14, <1>1, <1>2 DEF CloseLog, Record, Release
  <2>15. QED
    BY <1>4, <2>1, <2>2, <2>3, <2>4, <2>9, <2>10, <2>11, <2>12, <2>13, <2>14 DEF Rest, Worker
<1>5. QED
  BY <1>3, <1>4

\* The end of a container ends the client in it, and no other one's claim.
LEMMA EndEarned ==
  ASSUME TypeOK, DeployTypeOK, EarnedInv, Observe, NEW p \in Proc, Ends(p)
  PROVE  EarnedInv'
<1> USE DEF TypeOK, DeployTypeOK, EarnedInv, OkIsEarned, Mine, Asking, Ended, lists
<1>1. UNCHANGED <<baseline, target, text, jobId>> /\ Gone(p)
  BY DEF Ends, Crash, Exit, Gone
<1>2. at' = "failed" \/ (at' = at /\ (at \in Asking => target # p))
  BY DEF Ends
<1>3. (at' = at /\ met) => met'
  BY DEF Observe
<1>4. QED
  BY <1>1, <1>2, <1>3 DEF Gone

\* The client's steps: it goes on from what is stored, and claims what it has seen.
LEMMA ClientEarned ==
  ASSUME TypeOK, LockInv, DeployTypeOK, EarnedInv, Observe, Client
  PROVE  EarnedInv'
<1> USE DEF TypeOK, DeployTypeOK, EarnedInv, OkIsEarned, Mine, GoTo, Asking, Ended, memory, thread, pip, late,
        records, lists, bounds
<1>1. at \in Asking => (met => met') /\ (Has(text)' => met')
  BY DEF Observe
<1>2. CASE \E p \in Proc, t \in Baselines : BeginDeploy(p, t)
  BY <1>2 DEF BeginDeploy, vars
<1>3. CASE Put \/ Post
  BY <1>3, <1>1 DEF Put, Post, Refused, SaveBaseline, StartFlock, vars
<1>4. CASE PostAnswered
  BY <1>4, <1>1 DEF PostAnswered, StartPublish, StartFails
<1>5. CASE Recorded \/ Probe \/ DryRun
  BY <1>5, <1>1 DEF Recorded, Probe, DryRun, Has, vars
<1>6. CASE Follow \/ Ask \/ GivesUp
  BY <1>6, <1>1 DEF Follow, Ask, GivesUp, vars
<1>7. CASE Interrupt
  BY <1>7, <1>1 DEF Interrupt, Cancel, Shutdown, vars
<1>8. QED
  BY <1>2, <1>3, <1>4, <1>5, <1>6, <1>7 DEF Client, ClientGoesOn

\* A deploy that reports success had its packages in the environment while it ran.
THEOREM SuccessIsEarned == DeploySpec => []OkIsEarned
<1>1. DeployInit => EarnedInv
  BY DEF DeployInit, EarnedInv, OkIsEarned, Mine, Asking
<1>2. TypeOK /\ LockInv /\ DeployTypeOK /\ EarnedInv /\ [DeployNext]_deployVars => EarnedInv'
  <2>1. CASE UNCHANGED deployVars
    BY <2>1 DEF deployVars, vars, client, memory, thread, pip, late, records, lists, bounds, EarnedInv, Mine, OkIsEarned
  <2>2. QED
    BY <2>1, RestEarned, EndEarned, ClientEarned DEF DeployNext
<1>3. EarnedInv => OkIsEarned
  BY DEF EarnedInv
<1>4. QED
  BY <1>1, <1>2, <1>3, DeployTypeCorrect, PTL DEF DeploySpec

----------------------------------------------------------------------------
\* From when on baseline.txt is the text deployed, and from when on whatever
\* baseline.json says, or a job still will, is said of it.
Stored  == at \in (Asking \ {"put"}) \cup {"ok"} /\ text # NoPkgs
Current == at \in {"probe", "dryrun", "starting", "follow", "ask", "ok"} /\ text # NoPkgs

ShownInv ==
    /\ Stored => baseline = text
    /\ Stored /\ ~overtaken => \A p \in Proc : starting[p] = "flocked" => jobBaseline[p] = text
    /\ Current /\ ~overtaken =>
           /\ \A p \in Proc : Locked(p) \/ worker[p] \in Working => jobBaseline[p] = text
           /\ at # "starting" /\ baselineState.ok => baselineState.sha = text

\* The runners' own steps, and the page's: every digest is taken of, and every record
\* made for, the text that is stored.
LEMMA RestShown ==
  ASSUME TypeOK, LockInv, MarkInv, DeployTypeOK, ShownInv, Observe, NEW p \in Proc, Page(p) \/ Rest(p)
  PROVE  ShownInv'
<1> USE ProcAssumption DEF TypeOK, LockInv, MarkInv, DeployTypeOK, ShownInv, Stored, Current, Locked, Running, Busy,
        Asking, Ended, Working, Mutating, client, memory, thread, pip, late, records, lists, bounds
<1>1. UNCHANGED client /\ (Stored => overtaken' = overtaken)
  BY DEF Page, Rest, Observe
<1>2. ASSUME Page(p)
      PROVE  ShownInv'
  <2>1. CASE \E t \in PageLists : SaveRequirements(p, t)
    BY <2>1, <1>1 DEF SaveRequirements
  <2>2. CASE ClearCache(p) \/ ClearCacheDone(p) \/ Cancel(p)
    BY <2>2, <1>1 DEF ClearCache, ClearCacheDone, Cancel
  <2>3. CASE StartFlock(p) \/ StartFails(p)
    BY <2>3, <1>1, <1>2 DEF StartFlock, StartFails, Page
  <2>4. CASE \E action \in {"install", "reset"} : StartPublish(p, action)
    BY <2>4, <1>1, <1>2 DEF StartPublish, Page
  <2>5. QED
    BY <1>2, <2>1, <2>2, <2>3, <2>4 DEF Page
<1>3. ASSUME Rest(p)
      PROVE  ShownInv'
  <2> USE DEF Goto, Returns
  <2>1. CASE BootRead(p) \/ BootPersist(p) \/ Shutdown(p)
    BY <2>1, <1>1 DEF BootRead, BootPersist, Shutdown
  <2>2. CASE StartMark(p)
    BY <2>2, <1>1 DEF StartMark, RecordBaseline
  <2>3. CASE StartTruncate(p)
    BY <2>3, <1>1 DEF StartTruncate
  <2>4. CASE Threads(p)
    BY <2>4, <1>1 DEF Threads, GraceExpires, ChildExits, KillFires, OrphanWrites, OrphanEnds
  <2>5. CASE Begin(p) \/ RemoveTree(p) \/ CheckCancelled(p) \/ Check(p) \/ MakeVenv(p)
    BY <2>5, <1>1 DEF Begin, RemoveTree, CheckCancelled, Check, MakeVenv
  <2>6. CASE Pip(p) \/ CommandDone(p)
    BY <2>6, <1>1 DEF Pip, CommandDone
  <2>7. CASE Finish(p) \/ CloseLog(p) \/ Release(p)
    BY <2>7, <1>1 DEF Finish, CloseLog, Release
  <2>8. CASE Record(p)
    BY <2>8, <1>1 DEF Record, RecordBaseline
  <2>9. QED
    BY <1>3, <2>1, <2>2, <2>3, <2>4, <2>5, <2>6, <2>7, <2>8 DEF Rest, Worker
<1>4. QED
  BY <1>2, <1>3

\* A container that ends takes its start() and its job along, and leaves the files.
LEMMA EndShown ==
  ASSUME TypeOK, DeployTypeOK, ShownInv, Observe, NEW p \in Proc, Ends(p)
  PROVE  ShownInv'
<1> USE DEF TypeOK, DeployTypeOK, ShownInv, Stored, Current, Locked, Asking, Ended, Working, Mutating, lists, records
<1>1. UNCHANGED <<baseline, baselineState, target, text>> /\ Gone(p)
  BY DEF Ends, Crash, Exit, Gone
<1>2. at' = at \/ (at' = "failed" /\ target = p)
  BY DEF Ends
<1>3. Stored => overtaken' = overtaken
  BY DEF Observe
<1>4. QED
  BY <1>1, <1>2, <1>3 DEF Gone

\* The client's steps: it saves its text when nobody is inside start(), trusts a record
\* only when nobody will write one, and starts its job when no other job is left.
LEMMA ClientShown ==
  ASSUME TypeOK, LockInv, MarkInv, DeployTypeOK, ShownInv, Observe, Client
  PROVE  ShownInv'
<1> USE ProcAssumption DEF TypeOK, LockInv, MarkInv, DeployTypeOK, ShownInv, Stored, Current, Locked, Running, Busy,
        Asking, Ended, Working, Mutating, GoTo, memory, thread, pip, late, records, lists, bounds
<1>0. overtaken' = IF at = "put" THEN \E q \in Proc : starting[q] = "flocked" ELSE overtaken
  BY DEF Observe
<1>1. CASE \E p \in Proc, t \in Baselines : BeginDeploy(p, t)
  BY <1>1 DEF BeginDeploy, vars
<1>2. CASE Put
  BY <1>2, <1>0 DEF Put, Refused, SaveBaseline, vars
<1>3. CASE Post
  BY <1>3, <1>0 DEF Post, Refused, StartFlock, vars
<1>4. CASE PostAnswered
  BY <1>4, <1>0 DEF PostAnswered, StartPublish, StartFails
<1>5. CASE Recorded
  BY <1>5, <1>0 DEF Recorded, vars
<1>6. CASE Probe \/ DryRun \/ Follow \/ Ask
  BY <1>6, <1>0 DEF Probe, DryRun, Follow, Ask, vars
<1>7. CASE Interrupt
  BY <1>7, <1>0 DEF Interrupt, Cancel, Shutdown, vars
<1>8. CASE GivesUp
  BY <1>8, <1>0 DEF GivesUp, vars
<1>9. QED
  BY <1>1, <1>2, <1>3, <1>4, <1>5, <1>6, <1>7, <1>8 DEF Client, ClientGoesOn

\* After a deploy that succeeded, an "installed" record is of the text just deployed,
\* with any number of servers and one-offs beside it, unless one of them was inside
\* start() with the older text and had not marked its record when the text was saved.
THEOREM ShownHolds ==
  ASSUME WritesFail = FALSE
  PROVE  DeploySpec => []ShownIsDeployed
<1>1. DeployInit => MarkInv /\ ShownInv
  BY DEF DeployInit, Init, MarkInv, ShownInv, Stored, Current, Locked, Asking, Working, Mutating
<1>2. TypeOK /\ LockInv /\ DeployTypeOK /\ MarkInv /\ ShownInv /\ [DeployNext]_deployVars => (MarkInv /\ ShownInv)'
  <2> SUFFICES ASSUME TypeOK, LockInv, DeployTypeOK, MarkInv, ShownInv, [DeployNext]_deployVars
               PROVE  MarkInv' /\ ShownInv'
    OBVIOUS
  <2>1. [Next]_vars
    BY StepOfRunners DEF deployVars
  <2>2. MarkInv'
    BY <2>1, MarkStep
  <2>3. CASE UNCHANGED deployVars
    BY <2>2, <2>3 DEF deployVars, vars, client, memory, records, lists, thread, ShownInv, Stored, Current, Locked
  <2>4. QED
    BY <2>2, <2>3, RestShown, EndShown, ClientShown DEF DeployNext
<1>3. ShownInv => ShownIsDeployed
  BY DEF ShownInv, ShownIsDeployed, Current
<1>4. QED
  BY <1>1, <1>2, <1>3, DeployTypeCorrect, PTL DEF DeploySpec
=============================================================================
