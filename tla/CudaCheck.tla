------------------------------ MODULE CudaCheck ------------------------------
(***************************************************************************)
(* src/verify_cuda.sh: the check that installs PyTorch through the         *)
(* Dependencies page, tries it in a notebook kernel and puts the list of   *)
(* before back.  Calls go through `docker exec`; other clients use the     *)
(* page meanwhile, and Ctrl-C may come at any moment.                      *)
(***************************************************************************)
EXTENDS ListRunner

CONSTANTS
    Torch,      \* the lines of TORCH_REQUIREMENTS, one at least
    MinFree,    \* MIN_FREE_GB
    MaxFree,    \* bound: free disk space
    MaxStops,   \* bound: restarts of the runner
    MaxLost     \* bound: calls that fail

VARIABLES
    \* ---- the runner: how its last job ended, whether it is to be cancelled, and the lines
    \* the environment has packages for
    status, cancelling, env, stops,
    \* ---- the script
    pc,         \* where it is
    options,    \* "check", "install" or "cleanup" (--install --cleanup)
    report,     \* run_kernel_check: could the kernel import torch?
    original,   \* ORIGINAL_REQUIREMENTS_B64
    installed,  \* INSTALLED_BY_US: "0", "running" or "1"
    code,       \* the exit code
    late,       \* the call that was on its way when the script was interrupted, or "none"
    lost,
    \* ---- history: the list at the start; "previous package list reinstalled" was said;
    \* another client saved or started a job
    found, restored, meddled

script  == <<options, report, original, installed, code>>
jobVars == <<status, cancelling, env, stops>>
history == <<found, restored>>
vars    == <<runnerVars, jobVars, pc, script, late, lost, history, meddled>>

----------------------------------------------------------------------------
CheckInit ==
    /\ status = "idle" /\ cancelling = FALSE /\ stops = 0
    /\ env \in SUBSET (list.lines \cup Torch)   \* perhaps torch of a list of before
    /\ pc = "kernel" /\ options \in {"check", "install", "cleanup"}
    /\ report = FALSE /\ original = Empty /\ installed = "0" /\ code = 1
    /\ late = "none" /\ lost = 0
    /\ found = list /\ restored = FALSE /\ meddled = FALSE

Init == RunnerInit /\ CheckInit

----------------------------------------------------------------------------
(* The runner                                                              *)

\* What a job leaves: a reset that succeeds the list, an install that succeeds also what
\* was there, any other end some of both.
Left(end) ==
    CASE end = "succeeded" /\ job = "reset"   -> {list.lines}
      [] end = "succeeded" /\ job = "install" -> {list.lines \cup kept : kept \in SUBSET env}
      [] OTHER                                -> SUBSET (env \cup list.lines)

Ends ==
    /\ JobEnds /\ cancelling' = FALSE
    /\ status' \in {"succeeded", "failed"} \cup (IF cancelling THEN {"cancelled"} ELSE {})
    /\ env' \in Left(status')
    /\ UNCHANGED <<stops, pc, script, late, lost, history, meddled>>

\* The container is killed and comes back: a running job is "interrupted".
Restarts ==
    /\ stops < MaxStops /\ stops' = stops + 1
    /\ job' = "none" /\ closing' = FALSE /\ maintenance' = FALSE /\ cancelling' = FALSE
    /\ IF Running THEN status' = "interrupted" /\ env' \in Left("interrupted") ELSE UNCHANGED <<status, env>>
    /\ UNCHANGED <<list, others, pc, script, late, lost, history, meddled>>

\* POST /cancel names no job.
Cancels == cancelling' = (cancelling \/ Running) /\ UNCHANGED <<list, job, closing, maintenance, status, env, stops>>

Others ==
    /\ \/ (OtherSaves \/ OtherClears) /\ UNCHANGED jobVars
       \/ Running /\ ~cancelling /\ Cancels /\ UNCHANGED others
       \/ OtherStarts /\ status' = "running" /\ cancelling' = FALSE /\ UNCHANGED <<env, stops>>
    /\ meddled' = TRUE
    /\ UNCHANGED <<pc, script, late, lost, history>>

GoesOn == (JobCloses \/ ClearEnds) /\ UNCHANGED <<jobVars, pc, script, late, lost, history, meddled>>

----------------------------------------------------------------------------
(* The script                                                              *)

Goes(place) == pc' = place /\ UNCHANGED <<script, late, history, meddled>>
Dies(exit)  == pc' = "done" /\ code' = exit
               /\ UNCHANGED <<options, report, original, installed, late, history, meddled>>

\* A call is answered and changes nothing, is lost, or is handled (below).
Unanswered == lost < MaxLost /\ lost' = lost + 1
Works      == UNCHANGED <<runnerVars, jobVars, lost>>
Fails      == Unanswered /\ UNCHANGED <<runnerVars, jobVars>>

Importable == Torch \subseteq env

\* run_kernel_check, and what comes after it.
KernelRuns ==
    /\ pc \in {"kernel", "again"} /\ report' = Importable
    /\ \/ (pc = "again" \/ Importable) /\ pc' = "verdict" /\ UNCHANGED code
       \/ pc = "kernel" /\ ~Importable /\ options # "check" /\ pc' = "wait" /\ UNCHANGED code
       \/ pc = "kernel" /\ ~Importable /\ options = "check" /\ pc' = "done" /\ code' = 4
    /\ Works /\ UNCHANGED <<options, original, installed, late, history, meddled>>

\* No code can be run in a kernel, or no GPU is there: the script exits.
KernelFails == pc \in {"kernel", "again"} /\ Dies(1) /\ Works

\* wait_idle: up to 150 looks; a failing one ends the script.
Waits ==
    /\ pc = "wait"
    /\ \/ Works /\ ~Running /\ Goes("summary")
       \/ Works /\ Running /\ Dies(1)
       \/ Fails /\ Dies(1)

MutantEnough(free) == TRUE   \* the disk is not looked at
Enough(free)       == free >= MinFree

\* The second summary: inside `if`, its failure does not end the script, and an empty
\* answer reads as an empty list and no free space.
Summary ==
    /\ pc = "summary"
    /\ \E free \in 0..MaxFree :
          /\ \/ original' = list /\ Works
             \/ original' = Empty /\ free = 0 /\ Fails
          /\ pc' = IF Enough(free) THEN "confirm" ELSE "done"
    /\ UNCHANGED <<options, report, installed, code, late, history, meddled>>

Confirms == pc = "confirm" /\ Works /\ (Goes("put") \/ Dies(1))

Added(text) == [lines |-> text.lines \cup Torch, ended |-> TRUE]

\* deps_api put and run; a call that fails may have been handled.
Takes(text)    == Saves(text) /\ UNCHANGED <<others, jobVars>>
Begins(action) ==
    /\ Starts(action) /\ status' = "running" /\ cancelling' = FALSE
    /\ UNCHANGED <<others, env, stops>>

Puts ==
    /\ pc = "put"
    /\ \/ /\ Takes(Added(original)) /\ UNCHANGED lost
          /\ pc' = "post" /\ installed' = "running"
          /\ UNCHANGED <<options, report, original, code, late, history, meddled>>
       \/ Takes(Added(original)) /\ Unanswered /\ Dies(1)
       \/ (Busy \/ ~Accepted(Added(original))) /\ Works /\ Dies(1)
       \/ Fails /\ Dies(1)

Posts(action, next, failed) ==
    \/ Begins(action) /\ UNCHANGED lost /\ next
    \/ Begins(action) /\ Unanswered /\ failed
    \/ Held /\ Works /\ failed
    \/ Fails /\ failed

InstallEnds(place) ==
    /\ pc' = place /\ installed' = "1"
    /\ UNCHANGED <<options, report, original, code, late, history, meddled>>

Installs == pc = "post" /\ Posts("install", Goes("follow"), InstallEnds("verdict"))

\* The log says whether a job runs, the state how it ended: two calls, and any job.
Follows ==
    \/ pc = "follow" /\ ~Running /\ Works /\ Goes("ask")
    \/ pc = "followReset" /\ ~Running /\ Works /\ Goes("askReset")
    \/ pc \in {"follow", "ask"} /\ Fails /\ InstallEnds("verdict")   \* the stats container goes away
    \/ pc \in {"followReset", "askReset"} /\ Fails /\ Goes("clear")

Ended == status # "running"

Asks ==
    \/ pc = "ask" /\ Ended /\ Works /\ InstallEnds(IF status = "succeeded" THEN "again" ELSE "verdict")
    \/ pc = "ask" /\ ~Ended /\ Works /\ Goes("follow")
    \/ pc = "askReset" /\ ~Ended /\ Works /\ Goes("followReset")
    \/ /\ pc = "askReset" /\ Ended /\ Works
       /\ pc' = "clear" /\ restored' = (status = "succeeded")
       /\ UNCHANGED <<script, late, found, meddled>>

\* The exit code, which the cleanup does not change.
Verdict ==
    /\ pc = "verdict"
    /\ code' \in (IF report THEN {0, 1} ELSE {1})
    /\ pc' = IF options = "cleanup" /\ installed = "1" THEN "restore" ELSE "done"
    /\ Works /\ UNCHANGED <<options, report, original, installed, late, history, meddled>>

Restores ==
    /\ pc = "restore"
    /\ \/ Takes(original) /\ UNCHANGED lost /\ Goes("reset")
       \/ Takes(original) /\ Unanswered /\ Dies(code)
       \/ (Busy \/ ~Accepted(original)) /\ Works /\ Dies(code)
       \/ Fails /\ Dies(code)

MutantRestoreBy == "install"   \* packages that are not listed any more stay
RestoreBy       == "reset"

Resets == pc = "reset" /\ Posts(RestoreBy, Goes("followReset"), Goes("clear"))

\* deps_api cache-clear, whatever it answers.
Clears ==
    /\ pc = "clear" /\ Dies(code)
    /\ \/ ~Busy /\ maintenance' = TRUE /\ UNCHANGED <<list, job, closing, others, jobVars, lost>>
       \/ Works

Script ==
    \/ KernelRuns \/ KernelFails \/ Waits \/ Summary \/ Confirms \/ Puts \/ Installs
    \/ Follows \/ Asks \/ Verdict \/ Restores \/ Resets \/ Clears

\* on_interrupt: an install that runs is cancelled, or whatever runs; the call on its way
\* goes on inside the container.
Interrupt ==
    /\ pc # "done" /\ pc' = "done" /\ code' = 130
    /\ late' \in {"none"} \cup ({pc} \cap {"put", "post", "restore", "reset"})
    /\ \/ installed = "running" /\ Cancels /\ UNCHANGED <<others, lost>>
       \/ Works
    /\ UNCHANGED <<options, report, original, installed, history, meddled>>

Late ==
    /\ late # "none" /\ late' = "none"
    /\ \/ late = "put" /\ Takes(Added(original))
       \/ late = "restore" /\ Takes(original)
       \/ late = "post" /\ Begins("install")
       \/ late = "reset" /\ Begins(RestoreBy)
       \/ UNCHANGED <<runnerVars, jobVars>>
    /\ UNCHANGED <<pc, script, lost, history, meddled>>

----------------------------------------------------------------------------
Next == Ends \/ Restarts \/ Others \/ GoesOn \/ Script \/ Interrupt \/ Late

Spec == Init /\ [][Next]_vars

----------------------------------------------------------------------------
(* Properties                                                              *)

\* Types and ranges of every variable.
TypeOK ==
    /\ list \in Stored /\ job \in {"none", "install", "reset"} /\ closing \in BOOLEAN /\ maintenance \in BOOLEAN
    /\ others \in [saves : 0..MaxSaves, jobs : 0..MaxJobs] /\ stops \in 0..MaxStops
    /\ status \in {"idle", "running", "succeeded", "failed", "cancelled", "interrupted"}
    /\ cancelling \in BOOLEAN /\ env \subseteq Lines
    /\ pc \in {"kernel", "wait", "summary", "confirm", "put", "post", "follow", "ask", "again", "verdict",
                "restore", "reset", "followReset", "askReset", "clear", "done"}
    /\ options \in {"check", "install", "cleanup"} /\ report \in BOOLEAN /\ original \in Stored
    /\ installed \in {"0", "running", "1"} /\ code \in {0, 1, 4, 130}
    /\ late \in {"none", "put", "post", "restore", "reset"} /\ lost \in 0..MaxLost
    /\ found \in Stored /\ restored \in BOOLEAN /\ meddled \in BOOLEAN

\* No line of the user's list is lost, whatever call fails, whichever job somebody starts
\* and whenever the script is interrupted; unless another client saved a list.
NothingLost == others.saves > 0 \/ found.lines \subseteq list.lines

\* "previous package list reinstalled" means that list and environment are as before,
\* as long as nobody else used the page.
RestoredAll == restored /\ ~meddled => list = found /\ env = found.lines

\* What the script says of the list and does to it is right.
ListSafe == NothingLost /\ RestoredAll

\* "install, verify, then restore the previous package list" (verify_cuda.sh:7), when every
\* call was answered, nobody interfered and the script was not interrupted.  (Not so:
\* README, section 4.)
CleansUp ==
    pc = "done" /\ options = "cleanup" /\ installed = "1" /\ code # 130
    /\ ~meddled /\ lost = 0 /\ stops = 0  =>  list = found
=============================================================================
