------------------------------- MODULE Builder -------------------------------
(***************************************************************************)
(* The desktop builder (src/builder.py): three Runners, each one child     *)
(* process at a time, and the window that chains them: Deploy asks         *)
(* Tailscale, then `compose ps`, then runs import, install and, when the   *)
(* installer asks for it, a host step under pkexec and once more install.  *)
(* Everything in the window runs on the event loop, one slot at a time;    *)
(* the children, and the user's clicks between two slots, do not wait.     *)
(*                                                                         *)
(* A program that is not on PATH makes start() emit done() itself.  No     *)
(* caller does anything after start(), so the slot that done() calls is    *)
(* the end of the same step here.                                          *)
(***************************************************************************)
EXTENDS Naturals, Sequences

CONSTANT MaxDialogs   \* bound: message boxes open over each other

ASSUME DialogAssumption == MaxDialogs \in Nat \ {0}

VARIABLES
    proc,      \* per Runner: its QProcess and the flags of the run
    pipe,      \* what the installer printed and the job Runner has not read: a ROOT_STEP_REQUIRED line
    busy,      \* self._busy
    job,       \* self._job
    rootStep,  \* self._root_step: a sysctl/firewall step, or one with --cert
    afterCert, \* self._after_certificate
    tsThen,    \* self._after_tailscale is set
    psThen,    \* self._after_status is set
    again,     \* self._status_again
    hasIp,     \* self.ts.ip is not empty
    docker,    \* self.docker_problem is ""
    dialogs,   \* the message boxes' nested event loops, the innermost last
    leaving,   \* closeEvent: the Runner terminate_and_wait() is at
    told,      \* what the banner says: nothing final, success, or a problem
    \* History, for the properties only.
    fresh,     \* the `compose ps` now running was started for the deploy that waits
    printed,   \* the root step the last installer run asked for
    applied,   \* a root step of this click ended well
    prompts,   \* pkexec prompts since the click
    installs   \* installer runs since the click

window  == <<busy, job, rootStep, afterCert, told>>
waits   == <<tsThen, psThen, again, fresh>>
history == <<printed, applied, prompts, installs>>
vars    == <<proc, pipe, window, waits, hasIp, docker, dialogs, leaving, history>>

Runners == {"job", "status", "tailscale"}
Steps   == {"none", "plain", "cert"}
Jobs    == {"", "import", "install", "start", "stop", "pkexec"}

\* at: no process, running (as us, or as root once authorised), ended and not yet reported.
\* why: the _timed_out and _cancelled flags.  sig: the last signal sent.
Processes == [at : {"off", "up", "root", "gone"}, why : {"", "timeout", "cancel"},
              sig : {"none", "term", "kill"}, ok : BOOLEAN]
Off     == [at |-> "off", why |-> "", sig |-> "none", ok |-> FALSE]
Up      == [Off EXCEPT !.at = "up"]

Running(r) == proc[r].at # "off"   \* is_running()
Closing    == leaving # "no"       \* self._closing

Init ==
    /\ proc \in [Runners -> {Off, Up}] /\ proc["job"] = Off
    /\ pipe = "none" /\ busy = FALSE /\ job = "" /\ rootStep = "none" /\ afterCert = FALSE
    /\ told = "" /\ tsThen = FALSE /\ psThen = FALSE /\ again = FALSE /\ fresh = FALSE
    /\ hasIp = FALSE /\ docker = FALSE /\ dialogs = <<>> /\ leaving = "no"
    /\ printed = "none" /\ applied = FALSE /\ prompts = 0 /\ installs = 0

----------------------------------------------------------------------------
(* What the slots are made of.  ps is proc after the Runner reset itself.  *)

\* refresh_status: start `compose ps` (docker may be missing), or have another one started
\* when the running one ends.
RefreshPs(ps) ==
    \/ /\ ps["status"].at = "off"
       /\ proc' = [ps EXCEPT !["status"] = Up] /\ fresh' = psThen
       /\ UNCHANGED <<again, docker>>
    \/ /\ ps["status"].at = "off"
       /\ proc' = ps /\ docker' = FALSE
       /\ UNCHANGED <<again, fresh>>
    \/ /\ ps["status"].at # "off"
       /\ proc' = ps /\ again' = TRUE
       /\ UNCHANGED <<fresh, docker>>

\* The message boxes: exec() of one more, and the end of the innermost.
Open(then) == Append(dialogs, then)
Top        == dialogs[Len(dialogs)]
Closed     == SubSeq(dialogs, 1, Len(dialogs) - 1)

\* _set_busy(False) and a message box; `then` is what follows its exec().
Message(then) ==
    /\ busy' = FALSE /\ job' = "" /\ told' = "problem"
    /\ dialogs' = Open(then)

\* _run_import and _run_installer.
RunJob(ps, c, cert) ==
    /\ proc' = [ps EXCEPT !["job"] = Up]
    /\ busy' = TRUE /\ job' = c /\ rootStep' = "none" /\ afterCert' = cert /\ told' = ""
    /\ printed' = "none" /\ installs' = installs + (IF c = "import" THEN 0 ELSE 1)

----------------------------------------------------------------------------
(* The user                                                                *)

Clickable == ~Closing /\ dialogs = <<>>   \* a message box blocks the window

\* deploy is refused with a message (no tailscale command counts as a refusal) ...
RefuseDeploy ==
    /\ Message("nothing") /\ hasIp' \in {hasIp, FALSE}
    /\ UNCHANGED <<proc, tsThen, history>>

\* ... or on to Tailscale; a probe that runs already will do.
BeginDeploy ==
    /\ busy' = TRUE /\ tsThen' = TRUE
    /\ proc' = IF Running("tailscale") THEN proc ELSE [proc EXCEPT !["tailscale"] = Up]
    /\ told' = "" /\ printed' = "none"
    /\ applied' = FALSE /\ prompts' = 0 /\ installs' = 0
    /\ UNCHANGED <<job, dialogs, hasIp>>

Deploy ==
    /\ Clickable /\ ~busy
    /\ RefuseDeploy \/ BeginDeploy
    /\ UNCHANGED <<pipe, rootStep, afterCert, psThen, again, fresh, docker, leaving>>

\* stop and start_or_restart (restart is start to this model); a message without an installer.
RunCommand(c) ==
    /\ proc' = [proc EXCEPT !["job"] = Up]
    /\ busy' = TRUE /\ job' = c /\ rootStep' = "none" /\ afterCert' = FALSE /\ told' = ""
    /\ printed' = "none" /\ applied' = FALSE /\ prompts' = 0 /\ installs' = 1
    /\ UNCHANGED dialogs

Command(c) ==
    /\ Clickable /\ ~busy
    /\ RunCommand(c) \/ (Message("nothing") /\ UNCHANGED <<proc, rootStep, afterCert, history>>)
    /\ UNCHANGED <<pipe, waits, hasIp, docker, leaving>>

\* The innermost message box is answered; the slot it suspended goes on.
Dismiss ==
    /\ ~Closing /\ dialogs # <<>> /\ Top # "close?"
    /\ dialogs' = Closed
    /\ IF Top = "refresh"
       THEN RefreshPs(proc) ELSE UNCHANGED <<proc, again, fresh, docker>>
    /\ UNCHANGED <<pipe, window, tsThen, psThen, hasIp, leaving, history>>

----------------------------------------------------------------------------
(* Timers                                                                  *)

PollStatus ==
    /\ ~Closing /\ proc["status"].at = "off"
    /\ RefreshPs(proc)
    /\ UNCHANGED <<pipe, window, tsThen, psThen, hasIp, dialogs, leaving, history>>

PollTailscale ==
    /\ ~Closing /\ ~busy /\ proc["tailscale"].at = "off"
    /\ \/ proc' = [proc EXCEPT !["tailscale"] = Up] /\ UNCHANGED hasIp
       \/ hasIp' = FALSE /\ UNCHANGED proc
    /\ UNCHANGED <<pipe, window, waits, docker, dialogs, leaving, history>>

\* PROBE_TIMEOUT_MS: cancel() with the reason kept apart.
Timeout(r) ==
    /\ ~Closing /\ r # "job" /\ Running(r) /\ proc[r].why = ""
    /\ proc' = [proc EXCEPT ![r].why = "timeout", ![r].sig = IF proc[r].at = "gone" THEN @ ELSE "term"]
    /\ UNCHANGED <<pipe, window, waits, hasIp, docker, dialogs, leaving, history>>

\* kill_grace_ms after the SIGTERM.
Kill(r) ==
    /\ ~Closing /\ proc[r].at = "up" /\ proc[r].sig = "term"
    /\ proc' = [proc EXCEPT ![r].sig = "kill"]
    /\ UNCHANGED <<pipe, window, waits, hasIp, docker, dialogs, leaving, history>>

----------------------------------------------------------------------------
(* The Runners' signals                                                    *)

Good(r)  == proc[r].at = "gone" /\ proc[r].why = "" /\ proc[r].ok   \* outcome "ok"
Reset(r) == [proc EXCEPT ![r] = Off]                               \* _complete, before done()

Done(r)  == ~Closing /\ proc[r].at = "gone"                        \* its finished signal

\* _on_job_output: a root step is only read from the installer's own output.
Read(line) == IF line # "none" /\ job # "pkexec" THEN line ELSE rootStep

Output ==
    /\ ~Closing /\ Running("job") /\ pipe # "none"
    /\ rootStep' = Read(pipe) /\ pipe' = "none"
    /\ UNCHANGED <<proc, busy, job, afterCert, told, waits, hasIp, docker, dialogs, leaving, history>>

\* _deploy_checked: problems and failed saves are told; else import, or install at once.
RefuseChecked(ps) ==
    /\ Message("nothing") /\ proc' = ps
    /\ UNCHANGED <<rootStep, afterCert, printed, installs>>
GoAhead(ps) ==
    /\ docker' /\ \E c \in {"import", "install"} : RunJob(ps, c, FALSE)
    /\ UNCHANGED dialogs
DeployChecked(ps) == RefuseChecked(ps) \/ GoAhead(ps)

\* _on_status_done.  ("cancelled" happens to a probe only when the window closes.)
PsAgain ==      \* somebody asked meanwhile
    /\ docker' = Good("status")
    /\ proc' = [proc EXCEPT !["status"] = Up] /\ fresh' = psThen
    /\ UNCHANGED <<pipe, window, tsThen, psThen, hasIp, dialogs, leaving, history>>
PsForDeploy ==
    /\ psThen /\ psThen' = FALSE
    /\ DeployChecked(Reset("status"))
    /\ UNCHANGED <<pipe, tsThen, fresh, hasIp, leaving, applied, prompts>>
PsShown ==
    /\ ~psThen /\ proc' = Reset("status")
    /\ UNCHANGED <<pipe, window, tsThen, psThen, fresh, hasIp, dialogs, leaving, history>>

MutantStatusDone ==
    /\ Done("status") /\ again' = FALSE
    /\ \/ again /\ ~psThen /\ PsAgain
       \/ docker' = Good("status") /\ (PsForDeploy \/ PsShown)
MutantForgetful ==
    /\ Done("status") /\ again' = FALSE
    /\ \/ again /\ proc' = Reset("status") /\ docker' = Good("status") /\ psThen' = FALSE
          /\ UNCHANGED <<pipe, window, tsThen, fresh, hasIp, dialogs, leaving, history>>
       \/ ~again /\ docker' = Good("status") /\ (PsForDeploy \/ PsShown)
StatusDone ==
    /\ Done("status") /\ again' = FALSE
    /\ \/ again /\ PsAgain
       \/ docker' = Good("status") /\ ~again /\ (PsForDeploy \/ PsShown)
       \/ docker' = FALSE /\ again /\ (PsForDeploy \/ PsShown)   \* asked in vain: docker is gone

\* _on_tailscale_done, and _deploy_tailscale_checked when a deploy waits for it.
IpShown ==
    /\ ~tsThen /\ proc' = Reset("tailscale")
    /\ UNCHANGED <<busy, job, told, psThen, again, fresh, docker, dialogs>>
NoIp ==
    /\ tsThen /\ ~hasIp' /\ proc' = Reset("tailscale") /\ Message("nothing")
    /\ UNCHANGED <<psThen, again, fresh, docker>>
AskPs ==
    /\ tsThen /\ hasIp' /\ psThen' = TRUE
    /\ IF Running("status")
       THEN proc' = Reset("tailscale") /\ again' = TRUE /\ UNCHANGED fresh
       ELSE proc' = [Reset("tailscale") EXCEPT !["status"] = Up] /\ fresh' = TRUE /\ UNCHANGED again
    /\ UNCHANGED <<busy, job, told, docker, dialogs>>
NoDocker ==     \* not on PATH
    /\ tsThen /\ hasIp' /\ ~Running("status")
    /\ proc' = Reset("tailscale") /\ docker' = FALSE /\ Message("nothing")
    /\ UNCHANGED <<psThen, again, fresh>>

TailscaleDone ==
    /\ Done("tailscale") /\ tsThen' = FALSE
    /\ hasIp' \in BOOLEAN /\ (proc["tailscale"].why # "" => ~hasIp')
    /\ IpShown \/ NoIp \/ AskPs \/ NoDocker
    /\ UNCHANGED <<pipe, rootStep, afterCert, leaving, history>>

----------------------------------------------------------------------------
(* _on_job_done.  The Runner read the rest of the output first, so `step`  *)
(* is the root step the whole output asks for.                             *)

\* _job_succeeded and then refresh_status.
Succeeded(step) ==
    /\ busy' = FALSE /\ job' = "" /\ rootStep' = step /\ told' = "success"
    /\ RefreshPs(Reset("job"))
    /\ UNCHANGED <<afterCert, tsThen, psThen, dialogs, printed, prompts, installs>>

\* _job_failed, _root_step_repeated, and a root step that was not applied.
Failed(step) ==
    /\ Message("refresh") /\ rootStep' = step
    /\ proc' = Reset("job")
    /\ UNCHANGED <<afterCert, waits, docker, printed, prompts, installs>>

\* The installer asks for a root step: polkit asks the user.
AskRoot(step) ==
    /\ job' = "pkexec" /\ rootStep' = step /\ prompts' = prompts + 1
    /\ proc' = [proc EXCEPT !["job"] = Up]
    /\ UNCHANGED <<busy, afterCert, told, waits, docker, dialogs, printed, installs>>

\* The next process of the chain.
Goes(c, cert) ==
    /\ RunJob(Reset("job"), c, cert)
    /\ UNCHANGED <<waits, docker, dialogs, prompts>>

\* _on_root_step_done: a new certificate needs one more install.
MutantRootDone ==
    \/ ~Good("job") /\ Failed(rootStep)
    \/ Good("job") /\ rootStep = "cert" /\ Goes("install", FALSE)
    \/ Good("job") /\ rootStep # "cert" /\ Succeeded(rootStep)
RootDone ==
    \/ ~Good("job") /\ Failed(rootStep)
    \/ Good("job") /\ rootStep = "cert" /\ ~afterCert /\ Goes("install", TRUE)
    \/ Good("job") /\ (rootStep # "cert" \/ afterCert) /\ Succeeded(rootStep)

InstallerDone(step) ==
    \/ ~Good("job") /\ Failed(step)
    \/ Good("job") /\ job = "import" /\ Goes("install", FALSE)
    \/ Good("job") /\ job # "import" /\ step # "none" /\ afterCert /\ Failed(step)
    \/ Good("job") /\ job # "import" /\ step # "none" /\ ~afterCert /\ (AskRoot(step) \/ Failed(step))
    \/ Good("job") /\ job # "import" /\ step = "none" /\ Succeeded(step)

\* _on_finished drains what is left in the pipe before done().
MutantJobDone ==
    /\ Done("job") /\ pipe' = "none"
    /\ IF job = "pkexec" THEN RootDone ELSE InstallerDone(rootStep)
    /\ UNCHANGED <<hasIp, leaving, applied>>
JobDone ==
    /\ Done("job") /\ pipe' = "none"
    /\ IF job = "pkexec" THEN RootDone ELSE InstallerDone(Read(pipe))
    /\ UNCHANGED <<hasIp, leaving, applied>>

----------------------------------------------------------------------------
(* Closing: a click, or Ctrl-C in the terminal, which no message box stops *)

Leave ==
    /\ leaving' = "job" /\ dialogs' = <<>>
    /\ UNCHANGED <<proc, pipe, window, waits, hasIp, docker, history>>

Close ==
    /\ ~Closing
    /\ IF ~Running("job") THEN Leave
       ELSE /\ Len(dialogs) < MaxDialogs
            /\ dialogs' = Open("close?")
            /\ UNCHANGED <<proc, pipe, window, waits, hasIp, docker, leaving, history>>

Stay ==
    /\ dialogs' = Closed
    /\ UNCHANGED <<proc, pipe, window, waits, hasIp, docker, leaving, history>>

AnswerClose ==
    /\ ~Closing /\ dialogs # <<>> /\ Top = "close?"
    /\ Leave \/ Stay

After(r) == IF r = "job" THEN "status" ELSE IF r = "status" THEN "tailscale" ELSE "closed"

\* terminate_and_wait of each Runner in turn; the done() of a process that ends now is
\* ignored.  Only a process that runs as root survives the SIGKILL.
MutantTerminate(r) ==
    /\ leaving = r
    /\ \/ proc[r].at = "off" /\ leaving' = After(r) /\ UNCHANGED proc
       \/ /\ proc[r].at # "off" /\ proc[r].why = "" /\ UNCHANGED leaving
          /\ proc' = [proc EXCEPT ![r].why = "cancel", ![r].sig = IF proc[r].at = "gone" THEN @ ELSE "term"]
       \/ proc[r].at = "gone" /\ proc[r].why # "" /\ leaving' = After(r) /\ proc' = Reset(r)
       \/ proc[r].at \in {"up", "root"} /\ proc[r].why # "" /\ leaving' = After(r) /\ UNCHANGED proc
    /\ UNCHANGED <<pipe, window, waits, hasIp, docker, dialogs, history>>
Terminate(r) ==
    /\ leaving = r
    /\ \/ proc[r].at = "off" /\ leaving' = After(r) /\ UNCHANGED proc
       \/ /\ proc[r].at # "off" /\ proc[r].why = "" /\ UNCHANGED leaving
          /\ proc' = [proc EXCEPT ![r].why = "cancel", ![r].sig = IF proc[r].at = "gone" THEN @ ELSE "term"]
       \/ proc[r].at = "gone" /\ proc[r].why # "" /\ leaving' = After(r) /\ proc' = Reset(r)
       \/ proc[r].at \in {"up", "root"} /\ proc[r].sig = "term" /\ UNCHANGED leaving
          /\ proc' = [proc EXCEPT ![r].sig = "kill"]
       \/ proc[r].at = "root" /\ proc[r].sig = "kill" /\ leaving' = After(r) /\ UNCHANGED proc
    /\ UNCHANGED <<pipe, window, waits, hasIp, docker, dialogs, history>>

----------------------------------------------------------------------------
(* The children                                                            *)

\* maybe_root_step of the installer.
Prints(step) ==
    /\ ~Closing /\ proc["job"].at = "up" /\ job \in {"install", "start", "stop"}
    /\ printed = "none" /\ printed' = step /\ pipe' = step
    /\ UNCHANGED <<proc, window, waits, hasIp, docker, dialogs, leaving, applied, prompts, installs>>

\* The user authorises pkexec: the step runs as root from here on.
Authorised ==
    /\ job = "pkexec" /\ proc["job"].at = "up"
    /\ proc' = [proc EXCEPT !["job"].at = "root"]
    /\ UNCHANGED <<pipe, window, waits, hasIp, docker, dialogs, leaving, history>>

Exits(r, ok) ==
    /\ proc[r].at = "root" \/ (proc[r].at = "up" /\ (ok => proc[r].sig # "kill" /\ (r = "job" => job # "pkexec")))
    /\ proc' = [proc EXCEPT ![r].at = "gone", ![r].ok = ok]
    /\ applied' = (applied \/ (proc[r].at = "root" /\ ok))
    /\ UNCHANGED <<pipe, window, waits, hasIp, docker, dialogs, leaving, printed, prompts, installs>>

----------------------------------------------------------------------------
Slots == Output \/ StatusDone \/ TailscaleDone \/ JobDone
Next ==
    \/ Deploy \/ \E c \in {"start", "stop"} : Command(c)
    \/ Dismiss \/ Close \/ AnswerClose
    \/ PollStatus \/ PollTailscale
    \/ \E r \in Runners : Timeout(r) \/ Kill(r) \/ Terminate(r)
    \/ Slots
    \/ \E s \in Steps \ {"none"} : Prints(s)
    \/ Authorised
    \/ \E r \in Runners, ok \in BOOLEAN : Exits(r, ok)

Spec == Init /\ [][Next]_vars

\* The event loop reaches every slot and timer; a job ends by itself, a probe at the latest
\* when it is killed.
FairSpec ==
    /\ Spec
    /\ WF_vars(StatusDone) /\ WF_vars(TailscaleDone) /\ WF_vars(JobDone)
    /\ \A r \in {"status", "tailscale"} : WF_vars(Timeout(r)) /\ WF_vars(Kill(r))
    /\ \A r \in Runners :
          WF_vars((r = "job" \/ proc[r].sig = "kill") /\ \E ok \in BOOLEAN : Exits(r, ok))

----------------------------------------------------------------------------
(* Type and properties                                                     *)

TypeOK ==
    /\ proc \in [Runners -> Processes]
    /\ pipe \in Steps /\ rootStep \in Steps /\ printed \in Steps
    /\ busy \in BOOLEAN /\ afterCert \in BOOLEAN /\ tsThen \in BOOLEAN /\ psThen \in BOOLEAN
    /\ again \in BOOLEAN /\ hasIp \in BOOLEAN /\ docker \in BOOLEAN /\ fresh \in BOOLEAN
    /\ applied \in BOOLEAN /\ job \in Jobs /\ told \in {"", "success", "problem"}
    /\ dialogs \in Seq({"nothing", "refresh", "close?"})
    /\ leaving \in Runners \cup {"no", "closed"}
    /\ prompts \in Nat /\ installs \in Nat

\* One click asks the user for root at most once, and runs the installer at most twice: the
\* round through pkexec and back to install does not go in circles.
OnePrompt == prompts \in {0, 1} /\ installs \in {0, 1, 2}

\* "Deployed" is said only when every root step the installer asked for, in whichever piece
\* of its output, was applied.
SuccessIsComplete == told = "success" => printed = "none" \/ applied

\* The ports of a deploy are checked against a `compose ps` that was started after the
\* deploy asked for it, never against the answer of a poll that was under way.
UsesFreshPs == [][job = "" /\ job' \in {"import", "install"} => fresh]_vars

\* No child of ours outlives the window.
NoOrphan == leaving = "closed" => \A r \in Runners : proc[r].at # "up"

\* The window does not stay busy: whatever is missing, hangs or fails, the controls come back.
NeverStuckBusy == busy ~> (~busy \/ Closing)

\* builder.py:1458: "closing waits for it to finish" (a step that runs as root).
\* (Not so, the SIGKILL that root ignores is the last thing waited for: README, section 4.)
ClosingWaits == leaving = "closed" => proc["job"].at # "root"
=============================================================================
