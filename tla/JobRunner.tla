----------------------------- MODULE JobRunner -----------------------------
(***************************************************************************)
(* The dependency runner's JobRunner (src/stack/jupyter/deps_runner.py):   *)
(* one package job at a time changes the shared virtual environment.  Two  *)
(* kinds of process share the volume: the long-running server (its HTTP    *)
(* handler threads call the JobRunner methods) and the one-off             *)
(* "deps_runner.py baseline --local" containers.  Every process has its    *)
(* own JobRunner object; flock, job.json, baseline.json, baseline.txt,     *)
(* requirements.txt, job.log and the venv are shared; files survive a      *)
(* crash.  start() holds self._lock over several steps (Locked(p)); every  *)
(* other method holds it for one, so those steps test ~Locked(p).          *)
(***************************************************************************)
EXTENDS Integers, FiniteSets

CONSTANTS
    Servers,      \* processes that run main(): HTTP handlers, any number of jobs
    OneOffs,      \* processes that run _baseline_local(): at most one job
    Baselines,    \* texts a deploy may store as baseline.txt
    PageLists,    \* texts the page may store as requirements.txt
    NoPkgs,       \* a text without packages; also the digest "nothing known"
    Earlier,      \* texts installed before the history begins (NoPkgs: none was)
    NoProc,       \* the flock is free
    MaxJobs,      \* bound: jobs started over all processes
    MaxStops,     \* bound: crashes and SIGTERMs over all processes
    WritesFail,   \* may a write that is only logged on OSError fail?
    Daemonises    \* may a build backend daemonise and keep the log pipe open?

Proc == Servers \cup OneOffs

ASSUME ProcAssumption == Servers \cap OneOffs = {} /\ NoProc \notin Proc
ASSUME TextAssumption == NoPkgs \in Baselines \cap PageLists /\ Earlier \subseteq Baselines
ASSUME BoundAssumption == MaxJobs \in Nat /\ MaxStops \in Nat
ASSUME SwitchAssumption == WritesFail \in BOOLEAN /\ Daemonises \in BOOLEAN

VARIABLES
    \* ---- one JobRunner object per process (lost when the process ends)
    phase,            \* "down", "loading", "up", "saved", "waiting", "stopping"
    job,              \* self.job
    starting,         \* where start() is, while it holds self._lock
    maintenance,      \* self._maintenance
    cancelRequested,  \* self._cancel_requested
    jobBaseline,      \* self._job_baseline: baseline.txt as start() read it
    logOpen,          \* self._log_handle is not None
    worker,           \* where the job thread is in _run / _run_steps
    outcome,          \* the status _run_steps returned
    child,            \* self._process: the venv or pip subprocess
    wanted,           \* the texts the running pip installs
    grace,            \* a kill_later thread waits for the subprocess
    firing,           \* jobs whose kill_later timed out, notice not yet written
    orphans,          \* jobs whose log-pump thread outlived the job
    \* ---- the kernel and the shared volume
    flock,            \* the process that holds the flock on LOCK_FILE
    jobFile,          \* job.json
    baselineState,    \* baseline.json
    baseline,         \* baseline.txt
    requirements,     \* requirements.txt
    venv,             \* VENV_DIR: usable or not, and the texts it satisfies
    log,              \* job.log: the jobs whose output it holds
    \* ---- bookkeeping of the model
    nextId,           \* the next job id (secrets.token_hex in the code)
    stops             \* crashes and SIGTERMs so far

memory  == <<job, maintenance, cancelRequested, jobBaseline>>
thread  == <<worker, outcome>>
pip     == <<child, wanted>>
late    == <<grace, firing, orphans>>
records == <<jobFile, baselineState>>
lists   == <<baseline, requirements>>
bounds  == <<nextId, stops>>
vars    == <<phase, memory, starting, logOpen, thread, pip, late, flock, records, lists, venv,
             log, bounds>>

----------------------------------------------------------------------------
Texts    == (Baselines \cup PageLists) \ {NoPkgs}
Ids      == 1..MaxJobs
Statuses == {"idle", "running", "succeeded", "failed", "cancelled", "interrupted"}
Jobs     == [id : 0..MaxJobs, action : {"none", "install", "reset"}, status : Statuses]
Venvs    == [state : {"absent", "broken", "ok"}, sat : SUBSET Texts]

NoJob     == [id |-> 0, action |-> "none", status |-> "idle"]
Absent    == [state |-> "absent", sat |-> {}]
Broken    == [state |-> "broken", sat |-> {}]
Usable(S) == [state |-> "ok", sat |-> S]

\* What a removal that has begun leaves behind at any moment: packages gone in
\* any order, the venv's own Python still there or not.
Torn(v) == {Broken} \cup (IF v.state = "ok" THEN {Usable(S) : S \in SUBSET v.sat} ELSE {})

\* What pip leaves when it ends without success (some of the old, some of the new)
\* and with success (all it was asked for; other packages may have moved).
HalfInstalled(v, want) == {Usable(S) : S \in SUBSET (v.sat \cup want)}
Installed(v, want)     == {Usable(want \cup S) : S \in SUBSET v.sat}

Locked(p)  == starting[p] # "free"
Running(p) == job[p].status = "running"
Alive(p)   == phase[p] # "down"

\* Mutants, here and below, are the plausible mistakes the properties must notice.
MutantBusyNoJob(p)   == maintenance[p]
MutantBusyNoCache(p) == Running(p)
Busy(p)              == Running(p) \/ maintenance[p]

Listed == {baseline, requirements} \ {NoPkgs}   \* has_requirements(text)

Unfinished(j) == j.status = "running"

Counts(status) == status = "succeeded"

\* From the first step of _run to the last change it may make on the volume.
Mutating == {"removing", "checkCancel", "check", "clearing", "mkvenv", "mkvenvWait",
             "pip", "pipWait"}
Working  == {"begin", "finish", "closing", "record"} \cup Mutating

----------------------------------------------------------------------------
\* What earlier deploys left on the volume: nothing, or the environment of a text and
\* its records; baseline.txt may have been emptied since (that starts no job).
Volume(t) ==
    /\ baseline \in {t, NoPkgs}
    /\ baselineState = [sha |-> t, ok |-> t # NoPkgs]
    /\ venv = IF t = NoPkgs THEN Absent ELSE Usable({t})
    /\ jobFile = IF t = NoPkgs THEN NoJob ELSE [id |-> 0, action |-> "install", status |-> "succeeded"]

Init ==
    /\ phase = [p \in Proc |-> "down"]
    /\ job = [p \in Proc |-> NoJob]
    /\ starting = [p \in Proc |-> "free"]
    /\ jobBaseline = [p \in Proc |-> NoPkgs]
    /\ worker = [p \in Proc |-> "none"] /\ outcome = [p \in Proc |-> "failed"]
    /\ child = [p \in Proc |-> "none"] /\ wanted = [p \in Proc |-> {}]
    /\ maintenance = [p \in Proc |-> FALSE] /\ cancelRequested = [p \in Proc |-> FALSE]
    /\ logOpen = [p \in Proc |-> FALSE] /\ grace = [p \in Proc |-> FALSE]
    /\ firing = [p \in Proc |-> {}] /\ orphans = [p \in Proc |-> {}]
    /\ flock = NoProc
    /\ \E t \in Earlier : Volume(t)
    /\ requirements = NoPkgs /\ log = {}
    /\ nextId = 1 /\ stops = 0

\* _persist and _record_baseline log an OSError and go on.
Persist(j) == jobFile' = j \/ (WritesFail /\ UNCHANGED jobFile)

MutantRecord(p, ok) ==   \* nothing is marked unfinished
    IF ok THEN baselineState' = [sha |-> jobBaseline[p], ok |-> TRUE] ELSE UNCHANGED baselineState
MutantDigest(p, ok) == baselineState' = [baselineState EXCEPT !.ok = ok]   \* stale digest
RecordBaseline(p, ok) ==
    \/ baselineState' = [sha |-> jobBaseline[p], ok |-> ok]
    \/ WritesFail /\ UNCHANGED baselineState

\* flock(LOCK_EX | LOCK_NB): refused, not waited for.  Closing the file releases it.
MutantTakeFlock(p) == flock' = p
TakeFlock(p)       == flock = NoProc /\ flock' = p

MutantDropFlock(p) == UNCHANGED flock
DropFlock(p)       == flock' = NoProc

----------------------------------------------------------------------------
(* The life of a process                                                   *)

\* JobRunner.__init__ and _load_job: a job.json that still says "running" is
\* read first and rewritten in a second step, with no lock across processes.
BootRead(p) ==
    /\ phase[p] = "down"
    /\ IF Unfinished(jobFile)
       THEN /\ job' = [job EXCEPT ![p] = [jobFile EXCEPT !.status = "interrupted"]]
            /\ phase' = [phase EXCEPT ![p] = "loading"]
       ELSE /\ job' = [job EXCEPT ![p] = jobFile]
            /\ phase' = [phase EXCEPT ![p] = "up"]
    /\ UNCHANGED <<starting, maintenance, cancelRequested, jobBaseline, logOpen, thread, pip,
                   late, flock, records, lists, venv, log, bounds>>

BootPersist(p) ==
    /\ phase[p] = "loading" /\ phase' = [phase EXCEPT ![p] = "up"]
    /\ Persist(job[p])
    /\ UNCHANGED <<memory, starting, logOpen, thread, pip, late, flock, baselineState, lists,
                   venv, log, bounds>>

\* The container's processes are gone: memory, threads, subprocess and flock.
\* The volume stays as it is at this instant.
Gone(p) ==
    /\ phase' = [phase EXCEPT ![p] = "down"]
    /\ job' = [job EXCEPT ![p] = NoJob]
    /\ starting' = [starting EXCEPT ![p] = "free"]
    /\ jobBaseline' = [jobBaseline EXCEPT ![p] = NoPkgs]
    /\ worker' = [worker EXCEPT ![p] = "none"] /\ outcome' = [outcome EXCEPT ![p] = "failed"]
    /\ child' = [child EXCEPT ![p] = "none"] /\ wanted' = [wanted EXCEPT ![p] = {}]
    /\ maintenance' = [maintenance EXCEPT ![p] = FALSE]
    /\ cancelRequested' = [cancelRequested EXCEPT ![p] = FALSE]
    /\ logOpen' = [logOpen EXCEPT ![p] = FALSE] /\ grace' = [grace EXCEPT ![p] = FALSE]
    /\ firing' = [firing EXCEPT ![p] = {}] /\ orphans' = [orphans EXCEPT ![p] = {}]
    /\ flock' = IF flock = p THEN NoProc ELSE flock
    /\ IF child[p] = "running" /\ worker[p] = "pipWait"
       THEN venv' \in HalfInstalled(venv, wanted[p])
       ELSE UNCHANGED venv
    /\ UNCHANGED <<records, lists, log, nextId>>

\* SIGKILL, out of memory, power: at any moment.
Crash(p) ==
    /\ Alive(p)
    /\ stops < MaxStops /\ stops' = stops + 1
    /\ Gone(p)

\* main() and _baseline_local() return.  After shutdown() the join has a timeout,
\* so the worker need not have finished.  A one-off ends when its install is up
\* to date or refused, and when its worker thread is no longer alive.
Exit(p) ==
    /\ \/ phase[p] = "stopping"
       \/ phase[p] = "saved" /\ ~Locked(p)
       \/ phase[p] = "waiting" /\ worker[p] = "none"
    /\ Gone(p) /\ UNCHANGED stops

\* SIGTERM.  A one-off installs its handler only when its job has started.
Shutdown(p) ==
    /\ phase[p] = IF p \in Servers THEN "up" ELSE "waiting"
    /\ ~Locked(p)
    /\ stops < MaxStops /\ stops' = stops + 1
    /\ phase' = [phase EXCEPT ![p] = "stopping"]
    /\ cancelRequested' = [cancelRequested EXCEPT ![p] = TRUE]
    /\ grace' = [grace EXCEPT ![p] = @ \/ child[p] = "running"]
    /\ UNCHANGED <<job, starting, maintenance, jobBaseline, logOpen, thread, pip, firing, orphans,
                   flock, records, lists, venv, log, nextId>>

----------------------------------------------------------------------------
(* The methods handler threads call                                        *)

\* Requests in flight when SIGTERM comes go on while shutdown() waits for the worker.
Serving(p) == p \in Servers /\ phase[p] \in {"up", "stopping"}

\* The guard the three methods share: `with self._lock: if ...: raise Busy`.
Free(p) == ~Locked(p) /\ ~Busy(p)

SaveRequirements(p, text) ==
    /\ Serving(p) /\ Free(p)
    /\ requirements' = text
    /\ UNCHANGED <<phase, memory, starting, logOpen, thread, pip, late, flock, records, baseline,
                   venv, log, bounds>>

SaveBaseline(p, text) ==
    /\ \/ Serving(p)
       \/ p \in OneOffs /\ phase[p] = "up"
    /\ Free(p)
    /\ baseline' = text
    /\ phase' = [phase EXCEPT ![p] = IF p \in OneOffs THEN "saved" ELSE @]
    /\ UNCHANGED <<memory, starting, logOpen, thread, pip, late, flock, records, requirements,
                   venv, log, bounds>>

ClearCache(p) ==
    /\ Serving(p) /\ Free(p)
    /\ maintenance' = [maintenance EXCEPT ![p] = TRUE]
    /\ UNCHANGED <<phase, job, starting, cancelRequested, jobBaseline, logOpen, thread, pip, late,
                   flock, records, lists, venv, log, bounds>>

ClearCacheDone(p) ==
    /\ maintenance[p] /\ ~Locked(p)
    /\ maintenance' = [maintenance EXCEPT ![p] = FALSE]
    /\ UNCHANGED <<phase, job, starting, cancelRequested, jobBaseline, logOpen, thread, pip, late,
                   flock, records, lists, venv, log, bounds>>

\* start(): the checks, the flock and the digest of baseline.txt ...
StartFlock(p) ==
    /\ phase[p] = IF p \in Servers THEN "up" ELSE "saved"
    /\ ~Locked(p) /\ ~Busy(p)
    /\ nextId \in Ids
    /\ TakeFlock(p)
    /\ jobBaseline' = [jobBaseline EXCEPT ![p] = baseline]
    /\ starting' = [starting EXCEPT ![p] = "flocked"]
    /\ UNCHANGED <<phase, job, maintenance, cancelRequested, logOpen, thread, pip, late, records,
                   lists, venv, log, bounds>>

\* ... baseline.json is marked unfinished ...
StartMark(p) ==
    /\ starting[p] = "flocked" /\ starting' = [starting EXCEPT ![p] = "marked"]
    /\ RecordBaseline(p, FALSE)
    /\ UNCHANGED <<phase, memory, logOpen, thread, pip, late, flock, jobFile, lists, venv, log,
                   bounds>>

\* ... the log is truncated ...
StartTruncate(p) ==
    /\ starting[p] = "marked" /\ starting' = [starting EXCEPT ![p] = "truncated"]
    /\ log' = {} /\ logOpen' = [logOpen EXCEPT ![p] = TRUE]
    /\ UNCHANGED <<phase, memory, thread, pip, late, flock, records, lists, venv, bounds>>

\* ... unless reading baseline.txt or opening the log raises; a one-off ends with it ...
StartFails(p) ==
    /\ starting[p] \in {"flocked", "marked"} /\ starting' = [starting EXCEPT ![p] = "free"]
    /\ DropFlock(p)
    /\ phase' = [phase EXCEPT ![p] = IF p \in OneOffs THEN "stopping" ELSE @]
    /\ UNCHANGED <<memory, logOpen, thread, pip, late, records, lists, venv, log, bounds>>

\* ... and the new job becomes visible, is persisted and gets its thread.
StartPublish(p, action) ==
    LET new == [id |-> nextId, action |-> action, status |-> "running"] IN
    /\ starting[p] = "truncated" /\ starting' = [starting EXCEPT ![p] = "free"]
    /\ p \in OneOffs => action = "install"
    /\ job' = [job EXCEPT ![p] = new] /\ nextId' = nextId + 1
    /\ Persist(new)
    /\ cancelRequested' = [cancelRequested EXCEPT ![p] = FALSE]
    /\ worker' = [worker EXCEPT ![p] = "begin"] /\ outcome' = [outcome EXCEPT ![p] = "failed"]
    /\ phase' = [phase EXCEPT ![p] = IF p \in OneOffs THEN "waiting" ELSE @]
    /\ UNCHANGED <<maintenance, jobBaseline, logOpen, pip, late, flock, baselineState, lists, venv,
                   log, stops>>

\* cancel(): the flag is all the worker needs; _terminate's SIGTERM may end the
\* subprocess (it may end at any time anyway) and starts the kill_later thread.
Cancel(p) ==
    /\ Serving(p) /\ ~Locked(p) /\ Running(p)
    /\ cancelRequested' = [cancelRequested EXCEPT ![p] = TRUE]
    /\ grace' = [grace EXCEPT ![p] = @ \/ child[p] = "running"]
    /\ UNCHANGED <<phase, job, starting, maintenance, jobBaseline, logOpen, thread, pip, firing,
                   orphans, flock, records, lists, venv, log, bounds>>

----------------------------------------------------------------------------
(* The subprocess, and the kill_later and log-pump threads                 *)

\* The subprocess ends; a waiting kill_later thread returns without a word.
ChildEnds(p, end) ==
    /\ child[p] = "running"
    /\ child' = [child EXCEPT ![p] = end]
    /\ grace' = [grace EXCEPT ![p] = FALSE]
    /\ \/ worker[p] = "mkvenvWait" /\ end = "ok" /\ venv' = Usable({})
       \/ worker[p] = "mkvenvWait" /\ end = "failed" /\ UNCHANGED venv
       \/ worker[p] = "pipWait" /\ end = "ok" /\ venv' \in Installed(venv, wanted[p])
       \/ worker[p] = "pipWait" /\ end = "failed" /\ venv' \in HalfInstalled(venv, wanted[p])

ChildExits(p, end) ==
    /\ ChildEnds(p, end)
    /\ UNCHANGED <<phase, memory, starting, logOpen, thread, wanted, firing, orphans, flock,
                   records, lists, log, bounds>>

\* kill_later: process.wait(CANCEL_KILL_AFTER) timed out ...
GraceExpires(p) ==
    /\ grace[p] /\ child[p] = "running"
    /\ grace' = [grace EXCEPT ![p] = FALSE]
    /\ firing' = [firing EXCEPT ![p] = @ \cup {job[p].id}]
    /\ UNCHANGED <<phase, memory, starting, logOpen, thread, pip, orphans, flock, records, lists,
                   venv, log, bounds>>

\* ... the notice goes to whatever log is open now, SIGKILL to the group of the job
\* the thread was started for.
MutantKill(p, id) == UNCHANGED <<child, grace, venv>>
Kill(p, id) ==
    IF child[p] = "running" /\ job[p].id = id
    THEN ChildEnds(p, "failed")
    ELSE UNCHANGED <<child, grace, venv>>

KillFires(p, id) ==
    /\ id \in firing[p] /\ firing' = [firing EXCEPT ![p] = @ \ {id}]
    /\ log' = IF logOpen[p] THEN log \cup {id} ELSE log
    /\ Kill(p, id)
    /\ UNCHANGED <<phase, memory, starting, logOpen, thread, wanted, orphans, flock, records,
                   lists, bounds>>

\* _pump of a process that daemonised: what it prints goes to the log open now.
OrphanWrites(p, id) ==
    /\ id \in orphans[p] /\ logOpen[p]
    /\ log' = log \cup {id}
    /\ UNCHANGED <<phase, memory, starting, logOpen, thread, pip, late, flock, records, lists,
                   venv, bounds>>

OrphanEnds(p, id) ==
    /\ id \in orphans[p] /\ orphans' = [orphans EXCEPT ![p] = @ \ {id}]
    /\ UNCHANGED <<phase, memory, starting, logOpen, thread, pip, grace, firing, flock, records,
                   lists, venv, log, bounds>>

----------------------------------------------------------------------------
(* The job thread: _run and _run_steps                                     *)

Goto(p, step) == worker' = [worker EXCEPT ![p] = step] /\ UNCHANGED outcome

\* _run_steps returned the status, or raised ("failed").
Returns(p, status) ==
    worker' = [worker EXCEPT ![p] = "finish"] /\ outcome' = [outcome EXCEPT ![p] = status]

Begin(p) ==
    /\ worker[p] = "begin"
    /\ log' = log \cup {job[p].id}
    /\ IF job[p].action = "reset" /\ venv.state # "absent"
       THEN Goto(p, "removing") /\ venv' \in Torn(venv)
       ELSE Goto(p, "checkCancel") /\ UNCHANGED venv
    /\ UNCHANGED <<phase, memory, starting, logOpen, pip, late, flock, records, lists, bounds>>

\* remove_tree(VENV_DIR) ends: done, or an OSError part way.
RemoveTree(p) ==
    /\ \/ worker[p] = "removing" /\ venv' = Absent /\ Goto(p, "checkCancel")
       \/ worker[p] = "clearing" /\ venv' = Absent /\ Goto(p, "mkvenv")
       \/ worker[p] \in {"removing", "clearing"} /\ UNCHANGED venv /\ Returns(p, "failed")
    /\ UNCHANGED <<phase, memory, starting, logOpen, pip, late, flock, records, lists, log, bounds>>

CheckCancelled(p) ==
    /\ worker[p] = "checkCancel"
    /\ IF cancelRequested[p] THEN Returns(p, "cancelled") ELSE Goto(p, "check")
    /\ UNCHANGED <<phase, memory, starting, logOpen, pip, late, flock, records, lists, venv, log,
                   bounds>>

\* Empty TMPDIR (may raise), then _venv_problem: a venv that works may still be
\* found faulty, when its Python does not answer within 30 s.
Check(p) ==
    /\ worker[p] = "check"
    /\ \/ venv.state = "ok" /\ Goto(p, "pip") /\ UNCHANGED venv
       \/ venv.state = "absent" /\ Goto(p, "mkvenv") /\ UNCHANGED venv
       \/ venv.state # "absent" /\ Goto(p, "clearing") /\ venv' \in Torn(venv)
       \/ Returns(p, "failed") /\ UNCHANGED venv
    /\ UNCHANGED <<phase, memory, starting, logOpen, pip, late, flock, records, lists, log, bounds>>

\* _command: nothing starts once a cancel was accepted; Popen itself may raise.
MakeVenv(p) ==
    /\ worker[p] = "mkvenv"
    /\ \/ cancelRequested[p] /\ Returns(p, "cancelled") /\ UNCHANGED <<child, venv>>
       \/ ~cancelRequested[p] /\ Returns(p, "failed") /\ UNCHANGED <<child, venv>>
       \/ /\ ~cancelRequested[p] /\ Goto(p, "mkvenvWait")
          /\ child' = [child EXCEPT ![p] = "running"] /\ venv' = Broken
    /\ UNCHANGED <<phase, memory, starting, logOpen, wanted, late, flock, records, lists, log,
                   bounds>>

\* The lists are read; with packages in them _command starts pip.
Pip(p) ==
    /\ worker[p] = "pip"
    /\ \/ Listed = {} /\ Returns(p, "succeeded") /\ UNCHANGED pip
       \/ Listed # {} /\ cancelRequested[p] /\ Returns(p, "cancelled") /\ UNCHANGED pip
       \/ Returns(p, "failed") /\ UNCHANGED pip   \* reading a list or Popen raised
       \/ /\ Listed # {} /\ ~cancelRequested[p] /\ Goto(p, "pipWait")
          /\ child' = [child EXCEPT ![p] = "running"] /\ wanted' = [wanted EXCEPT ![p] = Listed]
    /\ UNCHANGED <<phase, memory, starting, logOpen, late, flock, records, lists, venv, log,
                   bounds>>

\* _command returns: the reader thread was joined, or given up after 5 s + 5 s
\* (it stays as an orphan pump), self._process is cleared.
CommandDone(p) ==
    /\ child[p] \in {"ok", "failed"}
    /\ child' = [child EXCEPT ![p] = "none"] /\ wanted' = [wanted EXCEPT ![p] = {}]
    /\ \/ UNCHANGED orphans
       \/ /\ Daemonises /\ worker[p] = "pipWait"
          /\ orphans' = [orphans EXCEPT ![p] = @ \cup {job[p].id}]
    /\ \/ cancelRequested[p] /\ Returns(p, "cancelled")
       \/ ~cancelRequested[p] /\ child[p] = "failed" /\ Returns(p, "failed")
       \/ ~cancelRequested[p] /\ child[p] = "ok" /\ worker[p] = "mkvenvWait" /\ Goto(p, "pip")
       \/ ~cancelRequested[p] /\ child[p] = "ok" /\ worker[p] = "pipWait" /\ Returns(p, "succeeded")
    /\ UNCHANGED <<phase, memory, starting, logOpen, grace, firing, flock, records, lists, venv,
                   log, bounds>>

\* _run's finally block: first, under the lock, the outcome becomes visible ...
Finish(p) ==
    LET status == IF phase[p] = "stopping" /\ ~Counts(outcome[p]) THEN "interrupted" ELSE outcome[p]
        ended  == [job[p] EXCEPT !.status = status]
    IN
    /\ worker[p] = "finish" /\ Goto(p, "closing") /\ ~Locked(p)
    /\ job' = [job EXCEPT ![p] = ended]
    /\ Persist(ended)
    /\ UNCHANGED <<phase, starting, maintenance, cancelRequested, jobBaseline, logOpen, pip, late,
                   flock, baselineState, lists, venv, log, bounds>>

\* ... then, without it, the last log line is written and the log closed ...
CloseLog(p) ==
    /\ worker[p] = "closing" /\ Goto(p, "record")
    /\ log' = log \cup {job[p].id} /\ logOpen' = [logOpen EXCEPT ![p] = FALSE]
    /\ UNCHANGED <<phase, memory, starting, pip, late, flock, records, lists, venv, bounds>>

\* ... baseline.json gets the outcome ...
Record(p) ==
    /\ worker[p] = "record" /\ Goto(p, "release")
    /\ RecordBaseline(p, Counts(job[p].status))
    /\ UNCHANGED <<phase, memory, starting, logOpen, pip, late, flock, jobFile, lists, venv, log,
                   bounds>>

\* ... and the flock is released.
Release(p) ==
    /\ worker[p] = "release" /\ Goto(p, "none")
    /\ DropFlock(p)
    /\ UNCHANGED <<phase, memory, starting, logOpen, pip, late, records, lists, venv, log, bounds>>

----------------------------------------------------------------------------
Life(p) == BootRead(p) \/ BootPersist(p) \/ Crash(p) \/ Exit(p) \/ Shutdown(p)

StartGoesOn(p) ==
    \/ StartMark(p) \/ StartTruncate(p)
    \/ \E action \in {"install", "reset"} : StartPublish(p, action)

Handlers(p) ==
    \/ \E text \in PageLists : SaveRequirements(p, text)
    \/ \E text \in Baselines : SaveBaseline(p, text)
    \/ ClearCache(p) \/ ClearCacheDone(p)
    \/ StartFlock(p) \/ StartGoesOn(p) \/ StartFails(p) \/ Cancel(p)

Threads(p) ==
    \/ GraceExpires(p)
    \/ \E end \in {"ok", "failed"} : ChildExits(p, end)
    \/ \E id \in Ids : KillFires(p, id) \/ OrphanWrites(p, id) \/ OrphanEnds(p, id)

Worker(p) ==
    \/ Begin(p) \/ RemoveTree(p) \/ CheckCancelled(p) \/ Check(p) \/ MakeVenv(p) \/ Pip(p)
    \/ CommandDone(p) \/ Finish(p) \/ CloseLog(p) \/ Record(p) \/ Release(p)

Next == \E p \in Proc : Life(p) \/ Handlers(p) \/ Threads(p) \/ Worker(p)

Spec == Init /\ [][Next]_vars

\* Threads that can run do run: the operating system schedules them, and a timeout
\* elapses.  Each kill_later thread is a thread of its own.  Nothing is assumed of
\* users, of crashes, or of a subprocess nobody cancelled: pip may run for ever.
Fairness ==
    \A p \in Proc :
        /\ WF_vars(Worker(p))
        /\ WF_vars(StartGoesOn(p))
        /\ WF_vars(GraceExpires(p))
        /\ \A id \in Ids : WF_vars(KillFires(p, id))

FairSpec == Spec /\ Fairness

----------------------------------------------------------------------------
(* Properties                                                              *)

\* Types and ranges of every variable.
TypeOK ==
    /\ phase \in [Proc -> {"down", "loading", "up", "saved", "waiting", "stopping"}]
    /\ job \in [Proc -> Jobs]
    /\ starting \in [Proc -> {"free", "flocked", "marked", "truncated"}]
    /\ maintenance \in [Proc -> BOOLEAN]
    /\ cancelRequested \in [Proc -> BOOLEAN]
    /\ jobBaseline \in [Proc -> Baselines]
    /\ logOpen \in [Proc -> BOOLEAN]
    /\ worker \in [Proc -> {"none", "release"} \cup Working]
    /\ outcome \in [Proc -> {"succeeded", "failed", "cancelled"}]
    /\ child \in [Proc -> {"none", "running", "ok", "failed"}]
    /\ wanted \in [Proc -> SUBSET Texts]
    /\ grace \in [Proc -> BOOLEAN]
    /\ firing \in [Proc -> SUBSET Ids]
    /\ orphans \in [Proc -> SUBSET Ids]
    /\ flock \in Proc \cup {NoProc}
    /\ jobFile \in Jobs
    /\ baseline \in Baselines
    /\ requirements \in PageLists
    /\ baselineState \in [sha : Baselines, ok : BOOLEAN]
    /\ venv \in Venvs
    /\ log \subseteq Ids
    /\ nextId \in 1..(MaxJobs + 1)
    /\ stops \in 0..MaxStops

\* "Only one pip may change the venv at a time" (start(), line 698): over all
\* processes, one at most runs a subprocess or is between two changes of the venv.
ChangesVenv(p) == child[p] # "none" \/ worker[p] \in Mutating
OneVenvWriter ==
    \A p, q \in Proc : ChangesVenv(p) /\ ChangesVenv(q) => p = q

\* "A job killed with its container never counts as installed" (start(), line
\* 708): from the moment a job has its thread until its own outcome is recorded,
\* baseline.json says "not ok", whatever other processes do; so a crash at any
\* of these steps leaves a record the next deploy does not trust.
UnfinishedNotOk ==
    \A p \in Proc : worker[p] \in Working => ~baselineState.ok

\* baseline.json says "ok" only while the environment really satisfies the
\* requirements.txt it names, so the page's "installed" and the deploy's "changed
\* since the last install" are right; also after crashes, cancels and resets.
OkMeansInstalled ==
    baselineState.ok =>
        /\ venv.state = "ok"
        /\ baselineState.sha \in venv.sat \cup {NoPkgs}

\* The two records agree: baseline.json never says "ok" next to a job.json whose
\* last job did not succeed, at whatever step the process died.
OkOnlyAfterSuccess == baselineState.ok => jobFile.status = "succeeded"

\* A job that reports success has installed what baseline.txt and requirements.txt
\* say at that moment, although handlers may have tried to save others meanwhile.
SuccessMeansInstalled ==
    [][\A p \in Proc :
          Running(p) /\ job'[p].id = job[p].id /\ job'[p].status = "succeeded" =>
              venv.state = "ok" /\ Listed \subseteq venv.sat]_vars

\* The finishing window, between "no longer running" and the flock's release: the
\* next job of the same process cannot start in it and lose its log to the old
\* worker's close (the flock, not the status, is what refuses start() there).
LogOpenForJob ==
    \A p \in Proc :
        starting[p] = "truncated" \/ worker[p] \in Working \ {"record"} => logOpen[p]

\* No process truncates the log of a job another process is still running.
LogKept ==
    \A p \in Proc : worker[p] \in Working \ {"begin"} => job[p].id \in log

\* The download cache is never emptied under a running pip of the same process.
CacheClearAlone ==
    \A p \in Proc : maintenance[p] => child[p] = "none" /\ worker[p] \notin Mutating

\* job.json, which every process on the volume writes without a lock across processes,
\* moves on from job to job and never back: of one job it goes from "running" to its
\* outcome, and only an "interrupted" is corrected, by the job's own worker.  A process
\* that read job.json before the job ended and starts up late is the exception.
ComesUp(p) == phase[p] = "loading" /\ phase'[p] = "up"
OutcomeKept ==
    [][\/ jobFile' = jobFile
       \/ jobFile'.id > jobFile.id
       \/ jobFile'.id = jobFile.id /\ jobFile.status \in {"running", "interrupted"}
       \/ \E p \in Proc : ComesUp(p)]_vars

\* What job.json says of a job that ended stays; only the next job replaces it.  (Not
\* so when another process starts while the job runs: README, section 4.)
OutcomeFinal ==
    [][jobFile.status \notin {"idle", "running"} /\ jobFile' # jobFile => jobFile'.id > jobFile.id]_vars

\* "A reader never gets the previous job's output under the new id" (start(), line
\* 711): what a log-pump thread that outlived its job wrote is not in the log that
\* GET /log serves under the id of a later job.  (Not so: README, section 4.)
LogUnderItsId ==
    \A p \in Servers : phase[p] = "up" => \A id \in log \cap orphans[p] : id >= job[p].id

\* "A job killed with its container never counts as installed" (start(), line 708),
\* asked when everything was killed: an ok record is one the environment lives up to.
\* (Not so with a full disk: README, section 4.)
KilledNeverCounts == (\A p \in Proc : ~Alive(p)) => OkMeansInstalled

\* A cancel (or SIGTERM) is never ignored: the job stops being "running", whatever
\* its subprocess does with SIGTERM.
CancelEnds ==
    \A p \in Proc : (Running(p) /\ cancelRequested[p]) ~> ~Running(p)

\* A job that ended lets go of the environment, so the next one can start.
EndedFreesVenv ==
    \A p \in Proc : (flock = p /\ ~Running(p)) ~> (flock # p \/ Running(p))
=============================================================================
