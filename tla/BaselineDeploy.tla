--------------------------- MODULE BaselineDeploy ---------------------------
(***************************************************************************)
(* "deps_runner.py baseline", the step of a deploy that makes the          *)
(* environment match the project's requirements.txt, composed with the     *)
(* JobRunners it talks to.  The client runs inside the runner's container  *)
(* and speaks HTTP to its server (_baseline_remote), or, with statistics   *)
(* off, is itself the process that owns a JobRunner (_baseline_local).     *)
(* Users of the page go on starting, cancelling, resetting and saving.     *)
(***************************************************************************)
EXTENDS JobRunner

CONSTANTS
    MaxDeploys,   \* bound: deploys, one after the other (the installer's lock)
    BusyLimit     \* BUSY_WAIT_LIMIT, counted in the waits of call_when_free

ASSUME DeployAssumption == MaxDeploys \in Nat /\ BusyLimit \in Nat

VARIABLES
    at,       \* where the client is
    target,   \* the process it talks to, or is
    text,     \* the project's requirements.txt, from stdin
    jobId,    \* the job its POST /jobs was answered with
    waited,   \* how often a 409 made it wait
    deploys,  \* deploys begun so far
    met,      \* (history) the environment had the text's packages during this deploy
    overtaken \* (history) when its text was saved, another start() had just read the older

client     == <<at, target, text, jobId, waited, deploys>>
deployVars == <<vars, client, met, overtaken>>

Asking == {"put", "record", "probe", "dryrun", "post", "starting", "follow", "ask"}
Ended  == {"idle", "ok", "failed"}

\* What the deploy is for.
Has(t) == t = NoPkgs \/ (venv.state = "ok" /\ t \in venv.sat)

DeployInit ==
    /\ Init
    /\ at = "idle" /\ target \in Proc /\ text = NoPkgs /\ jobId = 0
    /\ waited = 0 /\ deploys = 0 /\ met = FALSE /\ overtaken = FALSE

GoTo(step) == at' = step /\ UNCHANGED <<target, text, jobId, deploys>>

----------------------------------------------------------------------------
(* The client's steps                                                      *)

BeginDeploy(p, t) ==
    /\ at \in Ended /\ deploys < MaxDeploys
    /\ phase[p] = "up"
    /\ at' = "put" /\ target' = p /\ text' = t /\ jobId' = 0 /\ waited' = 0
    /\ deploys' = deploys + 1
    /\ UNCHANGED vars

\* A 409: wait and ask again, up to the limit; without a server: give up.
Refused(step, next) ==
    IF target \in Servers /\ waited < BusyLimit
    THEN GoTo(step) /\ waited' = waited + 1
    ELSE GoTo("failed") /\ UNCHANGED waited

\* PUT /baseline, its first half: the text is saved ...
Put ==
    /\ at = "put"
    /\ \/ SaveBaseline(target, text) /\ GoTo("record") /\ UNCHANGED waited
       \/ ~Locked(target) /\ Busy(target) /\ Refused("put", "record") /\ UNCHANGED vars

\* ... and its second, baseline_check, without any lock: what baseline.json says of
\* the text (and of the image, which the model leaves open) ...
Recorded ==
    /\ at = "record"
    /\ \/ text = NoPkgs /\ GoTo("ok")
       \/ text # NoPkgs /\ GoTo("post")
       \/ text # NoPkgs /\ baselineState = [sha |-> text, ok |-> TRUE] /\ GoTo("probe")
    /\ UNCHANGED <<waited, vars>>

\* ... whether the venv's Python answers ...
Probe ==
    /\ at = "probe"
    /\ GoTo("post") \/ (venv.state = "ok" /\ GoTo("dryrun"))
    /\ UNCHANGED <<waited, vars>>

\* ... and whether "pip install --dry-run" finds nothing left to install.
DryRun ==
    /\ at = "dryrun"
    /\ GoTo("post") \/ (venv.state = "ok" /\ baseline \in venv.sat /\ GoTo("ok"))
    /\ UNCHANGED <<waited, vars>>

\* POST /jobs (or start()): start() goes on in the runner; refused, it waits again
\* with a new budget.
Post ==
    /\ at = "post"
    /\ \/ StartFlock(target) /\ GoTo("starting") /\ UNCHANGED waited
       \/ /\ ~Locked(target) /\ (Busy(target) \/ flock # NoProc)
          /\ Refused("post", "follow") /\ UNCHANGED vars

\* The answer names the job; an error ends the client.
PostAnswered ==
    /\ at = "starting" /\ UNCHANGED <<target, text, waited, deploys>>
    /\ \/ /\ StartPublish(target, "install")
          /\ at' = "follow" /\ jobId' = nextId
       \/ /\ StartFails(target)
          /\ at' = "failed" /\ UNCHANGED jobId

\* GET /log until its job has ended or is no longer the runner's job; the client of
\* its own JobRunner waits for the thread, or is told to stop and waits for a while.
MutantFollow ==
    /\ at = "follow" /\ job[target].id # jobId
    /\ GoTo("ask") /\ UNCHANGED <<waited, vars>>
Follow ==
    /\ at = "follow" /\ ~Locked(target)
    /\ IF target \in Servers
       THEN job[target].id # jobId \/ ~Running(target)
       ELSE worker[target] = "none" \/ phase[target] = "stopping"
    /\ GoTo("ask") /\ UNCHANGED <<waited, vars>>

\* GET /state, then _finish: exit code 0 for success alone, and only of its own job.
MutantAsk ==
    /\ at = "ask" /\ GoTo(IF job[target].status = "failed" THEN "failed" ELSE "ok")
    /\ UNCHANGED <<waited, vars>>
Ask ==
    /\ at = "ask" /\ ~Locked(target)
    /\ GoTo(IF job[target].id = jobId /\ job[target].status = "succeeded" THEN "ok" ELSE "failed")
    /\ UNCHANGED <<waited, vars>>

\* Ctrl-C while it follows: POST /cancel, which ends whatever job runs by then and is
\* refused when none does (its answer is not read); a local client's shutdown().
Interrupt ==
    /\ at = "follow" /\ UNCHANGED waited
    /\ \/ Cancel(target) /\ GoTo("failed")
       \/ target \in Servers /\ ~Locked(target) /\ ~Running(target)
             /\ GoTo("failed") /\ UNCHANGED vars
       \/ target \in OneOffs /\ Shutdown(target) /\ GoTo("follow")

\* Ctrl-C elsewhere, a timeout, a connection refused: nothing is taken back, and a
\* start() under way goes on without it.
GivesUp ==
    /\ at \in Asking /\ target \in Servers
    /\ GoTo("failed") /\ UNCHANGED <<waited, vars>>

ClientGoesOn ==
    Put \/ Recorded \/ Probe \/ DryRun \/ Post \/ PostAnswered \/ Follow \/ Ask

Client ==
    \/ \E p \in Proc, t \in Baselines : BeginDeploy(p, t)
    \/ ClientGoesOn \/ Interrupt \/ GivesUp

----------------------------------------------------------------------------
(* Everyone else                                                           *)

\* The container ends, and the client with it.  A local client's container ends
\* when the client has.
Ends(p) ==
    /\ Crash(p) \/ (Exit(p) /\ ~(p \in OneOffs /\ target = p /\ at \in Asking))
    /\ at' = (IF target = p /\ at \in Asking THEN "failed" ELSE at)
    /\ UNCHANGED <<target, text, jobId, waited, deploys>>

\* The page's users.  Their jobs leave one id for each deploy (a bound of the model).
Reserved ==
    MaxDeploys - deploys + (IF at \in {"put", "record", "probe", "dryrun", "post"} THEN 1 ELSE 0)

Page(p) ==
    /\ p \in Servers /\ UNCHANGED client
    /\ \/ \E t \in PageLists : SaveRequirements(p, t)
       \/ ClearCache(p) \/ ClearCacheDone(p) \/ Cancel(p)
       \/ StartFlock(p) /\ nextId + Reserved <= MaxJobs
       \/ ~(at = "starting" /\ target = p) /\ StartFails(p)
       \/ \E action \in {"install", "reset"} :
             ~(at = "starting" /\ target = p) /\ StartPublish(p, action)

Rest(p) ==
    /\ UNCHANGED client
    /\ \/ BootRead(p) \/ BootPersist(p) \/ (p \in Servers /\ Shutdown(p))
       \/ StartMark(p) \/ StartTruncate(p) \/ Threads(p) \/ Worker(p)

Observe ==
    /\ met' = IF at' \in Ended /\ at \in Ended THEN met ELSE (at \in Asking /\ met) \/ Has(text)'
    /\ overtaken' = IF at = "put" THEN \E q \in Proc : starting[q] = "flocked" ELSE overtaken

DeployNext == (Client \/ \E p \in Proc : Ends(p) \/ Page(p) \/ Rest(p)) /\ Observe

DeploySpec == DeployInit /\ [][DeployNext]_deployVars

\* The client runs on; its requests get self._lock in the end however often others
\* take it before; a container told to stop stops; a cache is emptied some time.
DeployFairness ==
    /\ Fairness
    /\ SF_deployVars(ClientGoesOn /\ Observe)
    /\ \A p \in Proc :
          WF_deployVars((Ends(p) /\ Exit(p)) /\ Observe) /\ WF_vars(ClearCacheDone(p))

DeployFairSpec == DeploySpec /\ DeployFairness

----------------------------------------------------------------------------
(* Properties                                                              *)

\* Types and ranges of the client's variables.
DeployTypeOK ==
    /\ at \in Asking \cup Ended /\ target \in Proc /\ text \in Baselines
    /\ jobId \in 0..MaxJobs /\ waited \in 0..BusyLimit /\ deploys \in 0..MaxDeploys
    /\ met \in BOOLEAN /\ overtaken \in BOOLEAN

\* "A failed install never counts" (exit code 0 is what the installer goes by): a
\* deploy reports success, be it by skipping the install or after one, only if the
\* environment really had this requirements.txt's packages while it ran, whatever
\* page users saved, started, cancelled or reset between any two of its steps.
OkIsEarned == at = "ok" => met

\* What the page says after a deploy that succeeded: as long as baseline.json says
\* "installed" at all, it says so of the text just deployed, never of an older one, even
\* if the deploy skipped the install, or users and another process started jobs at any
\* of its steps.  Not claimed when the text was saved between another start()'s reading
\* of the older text and its mark in baseline.json: README, section 4.
ShownIsDeployed ==
    at = "ok" /\ text # NoPkgs /\ ~overtaken /\ baselineState.ok => baselineState.sha = text

\* The client never waits for ever (it holds the installer's lock): not for busy
\* runners, not for a job of its own that was replaced, cancelled or killed, as long
\* as no subprocess runs for ever.
DeployEnds ==
    (\A p \in Proc : []<>(child[p] # "running")) => (at \in Asking ~> at \in Ended)
=============================================================================
