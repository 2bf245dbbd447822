---------------------------- MODULE BuilderProofs ----------------------------
(***************************************************************************)
(* Proofs about the desktop builder: what one click can start, what        *)
(* "Deployed" stands for, and that no child is left behind.                *)
(***************************************************************************)
EXTENDS Builder, SequenceTheorems, TLAPS

Installer == {"install", "start", "stop"}

\* Where a click stands: busy means that exactly one thing is under way that calls back.
Flow ==
    /\ busy <=> (job # "" \/ tsThen \/ psThen)
    /\ tsThen => job = "" /\ ~psThen
    /\ psThen => job = ""
    /\ ~Closing => /\ job # "" <=> Running("job")
                   /\ tsThen => Running("tailscale")
                   /\ psThen => Running("status") /\ (again \/ fresh)

\* How many prompts and installer runs lead there.
Counted ==
    /\ tsThen \/ psThen \/ job = "import" => prompts = 0 /\ installs = 0
    /\ job \in Installer /\ ~afterCert => prompts = 0 /\ installs = 1
    /\ job = "pkexec" => prompts = 1 /\ installs = 1
    /\ job \in Installer /\ afterCert => prompts = 1 /\ installs = 2
    /\ job = "import" => ~afterCert

\* Where the root step of the running installer is.
Noted ==
    /\ busy => told # "success"
    /\ job \in Installer => printed \in {"none", pipe, rootStep}
    /\ pipe # "none" => job \in Installer /\ pipe = printed
    /\ job = "pkexec" /\ proc["job"].at = "gone" /\ proc["job"].ok => applied

\* terminate_and_wait leaves nothing of ours behind it.
Swept ==
    /\ leaving \in {"status", "tailscale", "closed"} => proc["job"].at # "up"
    /\ leaving \in {"tailscale", "closed"} => proc["status"].at # "up"
    /\ leaving = "closed" => proc["tailscale"].at # "up"

\* The records that the actions make are processes.
LEMMA Values ==
  /\ Off \in Processes /\ Up \in Processes
  /\ \A p \in Processes : [p EXCEPT !.sig = "kill"] \in Processes /\ [p EXCEPT !.at = "root"] \in Processes
  /\ \A p \in Processes, w \in {"timeout", "cancel"}, g \in {"none", "term", "kill"} :
        [p EXCEPT !.why = w, !.sig = g] \in Processes
  /\ \A p \in Processes, ok \in BOOLEAN : [p EXCEPT !.at = "gone", !.ok = ok] \in Processes
  /\ \A p \in Processes : p.sig \in {"none", "term", "kill"} /\ p.ok \in BOOLEAN
BY DEF Processes, Off, Up

\* No process is none.
LEMMA OffIsOff == Off.at = "off"
BY DEF Off

\* A signal changes neither where a process is nor how it ended.
LEMMA Signalled ==
  \A p \in Processes :
     /\ [p EXCEPT !.sig = "kill"].at = p.at /\ [p EXCEPT !.sig = "kill"].ok = p.ok
     /\ \A g \in {"none", "term", "kill"} :
          [p EXCEPT !.why = "cancel", !.sig = g].at = p.at /\ [p EXCEPT !.why = "cancel", !.sig = g].ok = p.ok
BY DEF Processes

\* Every step keeps the processes' types.
LEMMA ProcStep == ASSUME proc \in [Runners -> Processes], [Next]_vars PROVE proc' \in [Runners -> Processes]
<1>1. CASE Deploy
  <2>1. CASE RefuseDeploy
    BY <1>1, <2>1, Values DEF Deploy, RefuseDeploy, Message, Reset, Runners
  <2>2. CASE BeginDeploy
    BY <1>1, <2>2, Values DEF Deploy, BeginDeploy, Reset, Runners
  <2>q. QED
    BY <1>1, <2>1, <2>2, Zenon DEF Deploy
<1>2. CASE Dismiss
  BY <1>2, Values DEF Dismiss, RefreshPs, Reset, Runners
<1>3. CASE Close
  BY <1>3, Values DEF Close, Leave, Reset, Runners
<1>4. CASE AnswerClose
  <2>1. CASE Leave
    BY <1>4, <2>1, Values DEF AnswerClose, Leave, Reset, Runners
  <2>2. CASE Stay
    BY <1>4, <2>2, Values DEF AnswerClose, Stay, Reset, Runners
  <2>q. QED
    BY <1>4, <2>1, <2>2, Zenon DEF AnswerClose
<1>5. CASE PollStatus
  BY <1>5, Values DEF PollStatus, RefreshPs, Reset, Runners
<1>6. CASE PollTailscale
  BY <1>6, Values DEF PollTailscale, Reset, Runners
<1>7. CASE Output
  BY <1>7, Values DEF Output, Read, Reset, Runners
<1>8. CASE StatusDone
  <2>1. CASE again /\ PsAgain
    BY <1>8, <2>1, Values DEF StatusDone, PsAgain, Reset, Runners
  <2>2. CASE PsForDeploy /\ RefuseChecked(Reset("status"))
    BY <1>8, <2>2, Values DEF StatusDone, PsForDeploy, RefuseChecked, Message, Reset, Runners
  <2>3. CASE PsForDeploy /\ GoAhead(Reset("status"))
    BY <1>8, <2>3, Values DEF StatusDone, PsForDeploy, GoAhead, RunJob, Reset, Runners
  <2>4. CASE PsShown
    BY <1>8, <2>4, Values DEF StatusDone, PsShown, Reset, Runners
  <2>q. QED
    BY <1>8, <2>1, <2>2, <2>3, <2>4, Zenon DEF StatusDone, DeployChecked, PsForDeploy
<1>9. CASE TailscaleDone
  <2>1. CASE IpShown
    BY <1>9, <2>1, Values DEF TailscaleDone, IpShown, Reset, Runners
  <2>2. CASE NoIp
    BY <1>9, <2>2, Values DEF TailscaleDone, NoIp, Message, Reset, Runners
  <2>3. CASE AskPs
    BY <1>9, <2>3, Values DEF TailscaleDone, AskPs, Reset, Runners
  <2>4. CASE NoDocker
    BY <1>9, <2>4, Values DEF TailscaleDone, NoDocker, Message, Reset, Runners
  <2>q. QED
    BY <1>9, <2>1, <2>2, <2>3, <2>4, Zenon DEF TailscaleDone
<1>10. CASE JobDone
  <2>1. CASE job = "pkexec" /\ Failed(rootStep)
    BY <1>10, <2>1, Values DEF JobDone, Failed, Message, Reset, Runners
  <2>2. CASE job = "pkexec" /\ Good("job") /\ Goes("install", TRUE)
    BY <1>10, <2>2, Values DEF JobDone, Goes, RunJob, Reset, Runners
  <2>3. CASE job = "pkexec" /\ Good("job") /\ Succeeded(rootStep)
    BY <1>10, <2>3, Values DEF JobDone, Succeeded, RefreshPs, Reset, Runners
  <2>4. CASE job # "pkexec" /\ Failed(Read(pipe))
    BY <1>10, <2>4, Values DEF JobDone, Failed, Message, Read, Reset, Runners
  <2>5. CASE job = "import" /\ Goes("install", FALSE)
    BY <1>10, <2>5, Values DEF JobDone, Goes, RunJob, Reset, Runners
  <2>6. CASE job \notin {"import", "pkexec"} /\ Read(pipe) # "none" /\ ~afterCert /\ AskRoot(Read(pipe))
    BY <1>10, <2>6, Values DEF JobDone, AskRoot, Read, Reset, Runners
  <2>7. CASE job \notin {"import", "pkexec"} /\ Read(pipe) = "none" /\ Succeeded(Read(pipe))
    BY <1>10, <2>7, Values DEF JobDone, Succeeded, RefreshPs, Read, Reset, Runners
  <2>q. QED
    BY <1>10, <2>1, <2>2, <2>3, <2>4, <2>5, <2>6, <2>7, Zenon DEF JobDone, RootDone, InstallerDone
<1>11. CASE Authorised
  BY <1>11, Values DEF Authorised, Reset, Runners
<1>12. ASSUME NEW c \in {"start", "stop"}, Command(c)
      PROVE  proc' \in [Runners -> Processes]
  <2>1. CASE RunCommand(c)
    BY <1>12, <2>1, Values DEF Command, RunCommand, Reset, Runners
  <2>2. CASE Message("nothing") /\ UNCHANGED <<proc, rootStep, afterCert, history>>
    BY <1>12, <2>2, Values DEF Command, Message, Reset, Runners
  <2>q. QED
    BY <1>12, <2>1, <2>2, Zenon DEF Command
<1>13. ASSUME NEW r \in Runners, Timeout(r)
      PROVE  proc' \in [Runners -> Processes]
  BY <1>13, Values DEF Timeout, Reset, Runners
<1>14. ASSUME NEW r \in Runners, Kill(r)
      PROVE  proc' \in [Runners -> Processes]
  BY <1>14, Values DEF Kill, Reset, Runners
<1>15. ASSUME NEW r \in Runners, Terminate(r)
      PROVE  proc' \in [Runners -> Processes]
  <2>1. PICK p \in Processes : p = proc[r]
    OBVIOUS
  <2>2. proc' = proc \/ proc' = [proc EXCEPT ![r] = Off] \/ proc' = [proc EXCEPT ![r] = [p EXCEPT !.sig = "kill"]]
        \/ \E g \in {"none", "term", "kill"} : proc' = [proc EXCEPT ![r] = [p EXCEPT !.why = "cancel", !.sig = g]]
    BY <1>15, <2>1, Values DEF Terminate, Reset
  <2>3. proc' = proc \/ \E x \in Processes : proc' = [proc EXCEPT ![r] = x]
    BY <2>2, Values
  <2>q. QED
    BY <2>3
<1>16. ASSUME NEW s \in Steps \ {"none"}, Prints(s)
      PROVE  proc' \in [Runners -> Processes]
  BY <1>16, Values DEF Prints, Reset, Runners
<1>17. ASSUME NEW r \in Runners, NEW ok \in BOOLEAN, Exits(r, ok)
      PROVE  proc' \in [Runners -> Processes]
  BY <1>17, Values DEF Exits, Reset, Runners
<1>18. CASE UNCHANGED vars
  BY <1>18 DEF vars, Reset, Runners
<1>q. QED
  BY <1>1, <1>2, <1>3, <1>4, <1>5, <1>6, <1>7, <1>8, <1>9, <1>10, <1>11, <1>12, <1>13, <1>14, <1>15, <1>16, <1>17, <1>18 DEF Next, Slots

Kinds ==
    /\ pipe \in Steps /\ rootStep \in Steps /\ printed \in Steps
    /\ job \in Jobs /\ told \in {"", "success", "problem"}
    /\ leaving \in Runners \cup {"no", "closed"}

\* Every step keeps the types of job, root steps, banner and closing.
LEMMA KindStep == ASSUME Kinds, [Next]_vars PROVE Kinds'
<1> USE DEF Kinds
<1>1. CASE Deploy
  <2>1. CASE RefuseDeploy
    BY <1>1, <2>1 DEF Deploy, RefuseDeploy, Message, window, waits, history, Steps, Jobs, Runners, After
  <2>2. CASE BeginDeploy
    BY <1>1, <2>2 DEF Deploy, BeginDeploy, window, waits, history, Steps, Jobs, Runners, After
  <2>q. QED
    BY <1>1, <2>1, <2>2, Zenon DEF Deploy
<1>2. CASE Dismiss
  BY <1>2 DEF Dismiss, RefreshPs, window, waits, history, Steps, Jobs, Runners, After
<1>3. CASE Close
  BY <1>3 DEF Close, Leave, window, waits, history, Steps, Jobs, Runners, After
<1>4. CASE AnswerClose
  <2>1. CASE Leave
    BY <1>4, <2>1 DEF AnswerClose, Leave, window, waits, history, Steps, Jobs, Runners, After
  <2>2. CASE Stay
    BY <1>4, <2>2 DEF AnswerClose, Stay, window, waits, history, Steps, Jobs, Runners, After
  <2>q. QED
    BY <1>4, <2>1, <2>2, Zenon DEF AnswerClose
<1>5. CASE PollStatus
  BY <1>5 DEF PollStatus, RefreshPs, window, waits, history, Steps, Jobs, Runners, After
<1>6. CASE PollTailscale
  BY <1>6 DEF PollTailscale, window, waits, history, Steps, Jobs, Runners, After
<1>7. CASE Output
  BY <1>7 DEF Output, Read, window, waits, history, Steps, Jobs, Runners, After
<1>8. CASE StatusDone
  <2>1. CASE again /\ PsAgain
    BY <1>8, <2>1 DEF StatusDone, PsAgain, window, waits, history, Steps, Jobs, Runners, After
  <2>2. CASE PsForDeploy /\ RefuseChecked(Reset("status"))
    BY <1>8, <2>2 DEF StatusDone, PsForDeploy, RefuseChecked, Message, window, waits, history, Steps, Jobs, Runners, After
  <2>3. CASE PsForDeploy /\ GoAhead(Reset("status"))
    BY <1>8, <2>3 DEF StatusDone, PsForDeploy, GoAhead, RunJob, window, waits, history, Steps, Jobs, Runners, After
  <2>4. CASE PsShown
    BY <1>8, <2>4 DEF StatusDone, PsShown, window, waits, history, Steps, Jobs, Runners, After
  <2>q. QED
    BY <1>8, <2>1, <2>2, <2>3, <2>4, Zenon DEF StatusDone, DeployChecked, PsForDeploy
<1>9. CASE TailscaleDone
  <2>1. CASE IpShown
    BY <1>9, <2>1 DEF TailscaleDone, IpShown, window, waits, history, Steps, Jobs, Runners, After
  <2>2. CASE NoIp
    BY <1>9, <2>2 DEF TailscaleDone, NoIp, Message, window, waits, history, Steps, Jobs, Runners, After
  <2>3. CASE AskPs
    BY <1>9, <2>3 DEF TailscaleDone, AskPs, window, waits, history, Steps, Jobs, Runners, After
  <2>4. CASE NoDocker
    BY <1>9, <2>4 DEF TailscaleDone, NoDocker, Message, window, waits, history, Steps, Jobs, Runners, After
  <2>q. QED
    BY <1>9, <2>1, <2>2, <2>3, <2>4, Zenon DEF TailscaleDone
<1>10. CASE JobDone
  <2>1. CASE job = "pkexec" /\ Failed(rootStep)
    BY <1>10, <2>1 DEF JobDone, Failed, Message, window, waits, history, Steps, Jobs, Runners, After
  <2>2. CASE job = "pkexec" /\ Good("job") /\ Goes("install", TRUE)
    BY <1>10, <2>2 DEF JobDone, Goes, RunJob, window, waits, history, Steps, Jobs, Runners, After
  <2>3. CASE job = "pkexec" /\ Good("job") /\ Succeeded(rootStep)
    BY <1>10, <2>3 DEF JobDone, Succeeded, RefreshPs, window, waits, history, Steps, Jobs, Runners, After
  <2>4. CASE job # "pkexec" /\ Failed(Read(pipe))
    BY <1>10, <2>4 DEF JobDone, Failed, Message, Read, window, waits, history, Steps, Jobs, Runners, After
  <2>5. CASE job = "import" /\ Goes("install", FALSE)
    BY <1>10, <2>5 DEF JobDone, Goes, RunJob, window, waits, history, Steps, Jobs, Runners, After
  <2>6. CASE job \notin {"import", "pkexec"} /\ Read(pipe) # "none" /\ ~afterCert /\ AskRoot(Read(pipe))
    BY <1>10, <2>6 DEF JobDone, AskRoot, Read, window, waits, history, Steps, Jobs, Runners, After
  <2>7. CASE job \notin {"import", "pkexec"} /\ Read(pipe) = "none" /\ Succeeded(Read(pipe))
    BY <1>10, <2>7 DEF JobDone, Succeeded, RefreshPs, Read, window, waits, history, Steps, Jobs, Runners, After
  <2>q. QED
    BY <1>10, <2>1, <2>2, <2>3, <2>4, <2>5, <2>6, <2>7, Zenon DEF JobDone, RootDone, InstallerDone
<1>11. CASE Authorised
  BY <1>11 DEF Authorised, window, waits, history, Steps, Jobs, Runners, After
<1>12. ASSUME NEW c \in {"start", "stop"}, Command(c)
      PROVE  Kinds'
  <2>1. CASE RunCommand(c)
    BY <1>12, <2>1 DEF Command, RunCommand, window, waits, history, Steps, Jobs, Runners, After
  <2>2. CASE Message("nothing") /\ UNCHANGED <<proc, rootStep, afterCert, history>>
    BY <1>12, <2>2 DEF Command, Message, window, waits, history, Steps, Jobs, Runners, After
  <2>q. QED
    BY <1>12, <2>1, <2>2, Zenon DEF Command
<1>13. ASSUME NEW r \in Runners, Timeout(r)
      PROVE  Kinds'
  BY <1>13 DEF Timeout, window, waits, history, Steps, Jobs, Runners, After
<1>14. ASSUME NEW r \in Runners, Kill(r)
      PROVE  Kinds'
  BY <1>14 DEF Kill, window, waits, history, Steps, Jobs, Runners, After
<1>15. ASSUME NEW r \in Runners, Terminate(r)
      PROVE  Kinds'
  BY <1>15 DEF Terminate, window, waits, history, Steps, Jobs, Runners, After
<1>16. ASSUME NEW s \in Steps \ {"none"}, Prints(s)
      PROVE  Kinds'
  BY <1>16 DEF Prints, window, waits, history, Steps, Jobs, Runners, After
<1>17. ASSUME NEW r \in Runners, NEW ok \in BOOLEAN, Exits(r, ok)
      PROVE  Kinds'
  BY <1>17 DEF Exits, window, waits, history, Steps, Jobs, Runners, After
<1>18. CASE UNCHANGED vars
  BY <1>18 DEF vars, window, waits, history, Steps, Jobs, Runners, After
<1>q. QED
  BY <1>1, <1>2, <1>3, <1>4, <1>5, <1>6, <1>7, <1>8, <1>9, <1>10, <1>11, <1>12, <1>13, <1>14, <1>15, <1>16, <1>17, <1>18 DEF Next, Slots

\* What a step does to the two counters.
Counts ==
    /\ prompts' \in {0, prompts, prompts + 1}
    /\ installs' \in {0, 1, installs, installs + 0, installs + 1}

\* Every step keeps the counts or adds to them.
LEMMA CountStep == ASSUME [Next]_vars PROVE Counts
<1> USE DEF Counts
<1>1. CASE Deploy
  <2>1. CASE RefuseDeploy
    BY <1>1, <2>1 DEF Deploy, RefuseDeploy, Message, window, waits, history
  <2>2. CASE BeginDeploy
    BY <1>1, <2>2 DEF Deploy, BeginDeploy, window, waits, history
  <2>q. QED
    BY <1>1, <2>1, <2>2, Zenon DEF Deploy
<1>2. CASE Dismiss
  BY <1>2 DEF Dismiss, RefreshPs, window, waits, history
<1>3. CASE Close
  BY <1>3 DEF Close, Leave, window, waits, history
<1>4. CASE AnswerClose
  <2>1. CASE Leave
    BY <1>4, <2>1 DEF AnswerClose, Leave, window, waits, history
  <2>2. CASE Stay
    BY <1>4, <2>2 DEF AnswerClose, Stay, window, waits, history
  <2>q. QED
    BY <1>4, <2>1, <2>2, Zenon DEF AnswerClose
<1>5. CASE PollStatus
  BY <1>5 DEF PollStatus, RefreshPs, window, waits, history
<1>6. CASE PollTailscale
  BY <1>6 DEF PollTailscale, window, waits, history
<1>7. CASE Output
  BY <1>7 DEF Output, Read, window, waits, history
<1>8. CASE StatusDone
  <2>1. CASE again /\ PsAgain
    BY <1>8, <2>1 DEF StatusDone, PsAgain, window, waits, history
  <2>2. CASE PsForDeploy /\ RefuseChecked(Reset("status"))
    BY <1>8, <2>2 DEF StatusDone, PsForDeploy, RefuseChecked, Message, window, waits, history
  <2>3. CASE PsForDeploy /\ GoAhead(Reset("status"))
    BY <1>8, <2>3 DEF StatusDone, PsForDeploy, GoAhead, RunJob, window, waits, history
  <2>4. CASE PsShown
    BY <1>8, <2>4 DEF StatusDone, PsShown, window, waits, history
  <2>q. QED
    BY <1>8, <2>1, <2>2, <2>3, <2>4, Zenon DEF StatusDone, DeployChecked, PsForDeploy
<1>9. CASE TailscaleDone
  <2>1. CASE IpShown
    BY <1>9, <2>1 DEF TailscaleDone, IpShown, window, waits, history
  <2>2. CASE NoIp
    BY <1>9, <2>2 DEF TailscaleDone, NoIp, Message, window, waits, history
  <2>3. CASE AskPs
    BY <1>9, <2>3 DEF TailscaleDone, AskPs, window, waits, history
  <2>4. CASE NoDocker
    BY <1>9, <2>4 DEF TailscaleDone, NoDocker, Message, window, waits, history
  <2>q. QED
    BY <1>9, <2>1, <2>2, <2>3, <2>4, Zenon DEF TailscaleDone
<1>10. CASE JobDone
  <2>1. CASE job = "pkexec" /\ Failed(rootStep)
    BY <1>10, <2>1 DEF JobDone, Failed, Message, window, waits, history
  <2>2. CASE job = "pkexec" /\ Good("job") /\ Goes("install", TRUE)
    BY <1>10, <2>2 DEF JobDone, Goes, RunJob, window, waits, history
  <2>3. CASE job = "pkexec" /\ Good("job") /\ Succeeded(rootStep)
    BY <1>10, <2>3 DEF JobDone, Succeeded, RefreshPs, window, waits, history
  <2>4. CASE job # "pkexec" /\ Failed(Read(pipe))
    BY <1>10, <2>4 DEF JobDone, Failed, Message, Read, window, waits, history
  <2>5. CASE job = "import" /\ Goes("install", FALSE)
    BY <1>10, <2>5 DEF JobDone, Goes, RunJob, window, waits, history
  <2>6. CASE job \notin {"import", "pkexec"} /\ Read(pipe) # "none" /\ ~afterCert /\ AskRoot(Read(pipe))
    BY <1>10, <2>6 DEF JobDone, AskRoot, Read, window, waits, history
  <2>7. CASE job \notin {"import", "pkexec"} /\ Read(pipe) = "none" /\ Succeeded(Read(pipe))
    BY <1>10, <2>7 DEF JobDone, Succeeded, RefreshPs, Read, window, waits, history
  <2>q. QED
    BY <1>10, <2>1, <2>2, <2>3, <2>4, <2>5, <2>6, <2>7, Zenon DEF JobDone, RootDone, InstallerDone
<1>11. CASE Authorised
  BY <1>11 DEF Authorised, window, waits, history
<1>12. ASSUME NEW c \in {"start", "stop"}, Command(c)
      PROVE  Counts
  <2>1. CASE RunCommand(c)
    BY <1>12, <2>1 DEF Command, RunCommand, window, waits, history
  <2>2. CASE Message("nothing") /\ UNCHANGED <<proc, rootStep, afterCert, history>>
    BY <1>12, <2>2 DEF Command, Message, window, waits, history
  <2>q. QED
    BY <1>12, <2>1, <2>2, Zenon DEF Command
<1>13. ASSUME NEW r \in Runners, Timeout(r)
      PROVE  Counts
  BY <1>13 DEF Timeout, window, waits, history
<1>14. ASSUME NEW r \in Runners, Kill(r)
      PROVE  Counts
  BY <1>14 DEF Kill, window, waits, history
<1>15. ASSUME NEW r \in Runners, Terminate(r)
      PROVE  Counts
  BY <1>15 DEF Terminate, window, waits, history
<1>16. ASSUME NEW s \in Steps \ {"none"}, Prints(s)
      PROVE  Counts
  BY <1>16 DEF Prints, window, waits, history
<1>17. ASSUME NEW r \in Runners, NEW ok \in BOOLEAN, Exits(r, ok)
      PROVE  Counts
  BY <1>17 DEF Exits, window, waits, history
<1>18. CASE UNCHANGED vars
  BY <1>18 DEF vars, window, waits, history
<1>q. QED
  BY <1>1, <1>2, <1>3, <1>4, <1>5, <1>6, <1>7, <1>8, <1>9, <1>10, <1>11, <1>12, <1>13, <1>14, <1>15, <1>16, <1>17, <1>18 DEF Next, Slots

Flags ==
    /\ busy \in BOOLEAN /\ afterCert \in BOOLEAN /\ tsThen \in BOOLEAN /\ psThen \in BOOLEAN
    /\ again \in BOOLEAN /\ hasIp \in BOOLEAN /\ docker \in BOOLEAN /\ fresh \in BOOLEAN
    /\ applied \in BOOLEAN

\* Every step keeps the flags Boolean.
LEMMA FlagStep == ASSUME Flags, [Next]_vars PROVE Flags'
<1> USE DEF Flags
<1>0. Good("status") \in BOOLEAN
  BY Zenon DEF Good
<1>1. CASE Deploy
  <2>1. CASE RefuseDeploy
    BY <1>1, <2>1, <1>0, Zenon DEF Deploy, RefuseDeploy, Message, window, waits, history
  <2>2. CASE BeginDeploy
    BY <1>1, <2>2, <1>0, Zenon DEF Deploy, BeginDeploy, window, waits, history
  <2>q. QED
    BY <1>1, <2>1, <2>2, Zenon DEF Deploy
<1>2. CASE Dismiss
  BY <1>2, <1>0, Zenon DEF Dismiss, RefreshPs, window, waits, history
<1>3. CASE Close
  BY <1>3, <1>0, Zenon DEF Close, Leave, window, waits, history
<1>4. CASE AnswerClose
  <2>1. CASE Leave
    BY <1>4, <2>1, <1>0, Zenon DEF AnswerClose, Leave, window, waits, history
  <2>2. CASE Stay
    BY <1>4, <2>2, <1>0, Zenon DEF AnswerClose, Stay, window, waits, history
  <2>q. QED
    BY <1>4, <2>1, <2>2, Zenon DEF AnswerClose
<1>5. CASE PollStatus
  BY <1>5, <1>0, Zenon DEF PollStatus, RefreshPs, window, waits, history
<1>6. CASE PollTailscale
  BY <1>6, <1>0, Zenon DEF PollTailscale, window, waits, history
<1>7. CASE Output
  BY <1>7, <1>0, Zenon DEF Output, Read, window, waits, history
<1>8. CASE StatusDone
  <2>0. docker' \in BOOLEAN
    BY <1>8, <1>0, Zenon DEF StatusDone, PsAgain
  <2>1. CASE again /\ PsAgain
    BY <1>8, <2>1, <2>0, Zenon DEF StatusDone, PsAgain, window, waits, history
  <2>2. CASE PsForDeploy /\ RefuseChecked(Reset("status"))
    BY <1>8, <2>2, <2>0, Zenon DEF StatusDone, PsForDeploy, RefuseChecked, Message, window, waits, history
  <2>3. CASE PsForDeploy /\ GoAhead(Reset("status"))
    BY <1>8, <2>3, <2>0, Zenon DEF StatusDone, PsForDeploy, GoAhead, RunJob, window, waits, history
  <2>4. CASE PsShown
    BY <1>8, <2>4, <2>0, Zenon DEF StatusDone, PsShown, window, waits, history
  <2>q. QED
    BY <1>8, <2>1, <2>2, <2>3, <2>4, Zenon DEF StatusDone, DeployChecked, PsForDeploy
<1>9. CASE TailscaleDone
  <2>1. CASE IpShown
    BY <1>9, <2>1, <1>0, Zenon DEF TailscaleDone, IpShown, window, waits, history
  <2>2. CASE NoIp
    BY <1>9, <2>2, <1>0, Zenon DEF TailscaleDone, NoIp, Message, window, waits, history
  <2>3. CASE AskPs
    BY <1>9, <2>3, <1>0, Zenon DEF TailscaleDone, AskPs, window, waits, history
  <2>4. CASE NoDocker
    BY <1>9, <2>4, <1>0, Zenon DEF TailscaleDone, NoDocker, Message, window, waits, history
  <2>q. QED
    BY <1>9, <2>1, <2>2, <2>3, <2>4, Zenon DEF TailscaleDone
<1>10. CASE JobDone
  <2>1. CASE job = "pkexec" /\ Failed(rootStep)
    BY <1>10, <2>1, <1>0, Zenon DEF JobDone, Failed, Message, window, waits, history
  <2>2. CASE job = "pkexec" /\ Good("job") /\ Goes("install", TRUE)
    BY <1>10, <2>2, <1>0, Zenon DEF JobDone, Goes, RunJob, window, waits, history
  <2>3. CASE job = "pkexec" /\ Good("job") /\ Succeeded(rootStep)
    BY <1>10, <2>3, <1>0, Zenon DEF JobDone, Succeeded, RefreshPs, window, waits, history
  <2>4. CASE job # "pkexec" /\ Failed(Read(pipe))
    BY <1>10, <2>4, <1>0, Zenon DEF JobDone, Failed, Message, Read, window, waits, history
  <2>5. CASE job = "import" /\ Goes("install", FALSE)
    BY <1>10, <2>5, <1>0, Zenon DEF JobDone, Goes, RunJob, window, waits, history
  <2>6. CASE job \notin {"import", "pkexec"} /\ Read(pipe) # "none" /\ ~afterCert /\ AskRoot(Read(pipe))
    BY <1>10, <2>6, <1>0, Zenon DEF JobDone, AskRoot, Read, window, waits, history
  <2>7. CASE job \notin {"import", "pkexec"} /\ Read(pipe) = "none" /\ Succeeded(Read(pipe))
    BY <1>10, <2>7, <1>0, Zenon DEF JobDone, Succeeded, RefreshPs, Read, window, waits, history
  <2>q. QED
    BY <1>10, <2>1, <2>2, <2>3, <2>4, <2>5, <2>6, <2>7, Zenon DEF JobDone, RootDone, InstallerDone
<1>11. CASE Authorised
  BY <1>11, <1>0, Zenon DEF Authorised, window, waits, history
<1>12. ASSUME NEW c \in {"start", "stop"}, Command(c)
      PROVE  Flags'
  <2>1. CASE RunCommand(c)
    BY <1>12, <2>1, <1>0, Zenon DEF Command, RunCommand, window, waits, history
  <2>2. CASE Message("nothing") /\ UNCHANGED <<proc, rootStep, afterCert, history>>
    BY <1>12, <2>2, <1>0, Zenon DEF Command, Message, window, waits, history
  <2>q. QED
    BY <1>12, <2>1, <2>2, Zenon DEF Command
<1>13. ASSUME NEW r \in Runners, Timeout(r)
      PROVE  Flags'
  BY <1>13, <1>0, Zenon DEF Timeout, window, waits, history
<1>14. ASSUME NEW r \in Runners, Kill(r)
      PROVE  Flags'
  BY <1>14, <1>0, Zenon DEF Kill, window, waits, history
<1>15. ASSUME NEW r \in Runners, Terminate(r)
      PROVE  Flags'
  BY <1>15, <1>0, Zenon DEF Terminate, window, waits, history
<1>16. ASSUME NEW s \in Steps \ {"none"}, Prints(s)
      PROVE  Flags'
  BY <1>16, <1>0, Zenon DEF Prints, window, waits, history
<1>17. ASSUME NEW r \in Runners, NEW ok \in BOOLEAN, Exits(r, ok)
      PROVE  Flags'
  BY <1>17, <1>0, Zenon DEF Exits, window, waits, history
<1>18. CASE UNCHANGED vars
  BY <1>18 DEF vars, window, waits, history
<1>q. QED
  BY <1>1, <1>2, <1>3, <1>4, <1>5, <1>6, <1>7, <1>8, <1>9, <1>10, <1>11, <1>12, <1>13, <1>14, <1>15, <1>16, <1>17, <1>18 DEF Next, Slots

Boxes == {"nothing", "refresh", "close?"}

\* Opening and answering a message box keeps the stack a stack of boxes.
LEMMA BoxTypes ==
  ASSUME dialogs \in Seq(Boxes)
  PROVE  /\ \A x \in Boxes : Open(x) \in Seq(Boxes)
         /\ dialogs # <<>> => Closed \in Seq(Boxes)
         /\ <<>> \in Seq(Boxes)
<1>1. \A x \in Boxes : Open(x) \in Seq(Boxes)
  BY DEF Open
<1>2. dialogs # <<>> => Closed \in Seq(Boxes)
  BY SubSeqProperties DEF Closed
<1>q. QED
  BY <1>1, <1>2

\* Every step keeps the stack of message boxes.
LEMMA DialogStep == ASSUME dialogs \in Seq(Boxes), [Next]_vars PROVE dialogs' \in Seq(Boxes)
<1>0. /\ \A x \in {"nothing", "refresh", "close?"} : Open(x) \in Seq(Boxes)
      /\ dialogs # <<>> => Closed \in Seq(Boxes)
      /\ <<>> \in Seq(Boxes)
  BY BoxTypes DEF Boxes
<1>1. CASE Deploy
  <2>1. CASE RefuseDeploy
    BY <1>1, <2>1, <1>0 DEF Deploy, RefuseDeploy, Message, window, waits, history
  <2>2. CASE BeginDeploy
    BY <1>1, <2>2, <1>0 DEF Deploy, BeginDeploy, window, waits, history
  <2>q. QED
    BY <1>1, <2>1, <2>2, Zenon DEF Deploy
<1>2. CASE Dismiss
  BY <1>2, <1>0 DEF Dismiss, RefreshPs, window, waits, history
<1>3. CASE Close
  BY <1>3, <1>0 DEF Close, Leave, window, waits, history
<1>4. CASE AnswerClose
  <2>1. CASE Leave
    BY <1>4, <2>1, <1>0 DEF AnswerClose, Leave, window, waits, history
  <2>2. CASE Stay
    BY <1>4, <2>2, <1>0 DEF AnswerClose, Stay, window, waits, history
  <2>q. QED
    BY <1>4, <2>1, <2>2, Zenon DEF AnswerClose
<1>5. CASE PollStatus
  BY <1>5, <1>0 DEF PollStatus, RefreshPs, window, waits, history
<1>6. CASE PollTailscale
  BY <1>6, <1>0 DEF PollTailscale, window, waits, history
<1>7. CASE Output
  BY <1>7, <1>0 DEF Output, Read, window, waits, history
<1>8. CASE StatusDone
  <2>1. CASE again /\ PsAgain
    BY <1>8, <2>1, <1>0 DEF StatusDone, PsAgain, window, waits, history
  <2>2. CASE PsForDeploy /\ RefuseChecked(Reset("status"))
    BY <1>8, <2>2, <1>0 DEF StatusDone, PsForDeploy, RefuseChecked, Message, window, waits, history
  <2>3. CASE PsForDeploy /\ GoAhead(Reset("status"))
    BY <1>8, <2>3, <1>0 DEF StatusDone, PsForDeploy, GoAhead, RunJob, window, waits, history
  <2>4. CASE PsShown
    BY <1>8, <2>4, <1>0 DEF StatusDone, PsShown, window, waits, history
  <2>q. QED
    BY <1>8, <2>1, <2>2, <2>3, <2>4, Zenon DEF StatusDone, DeployChecked, PsForDeploy
<1>9. CASE TailscaleDone
  <2>1. CASE IpShown
    BY <1>9, <2>1, <1>0 DEF TailscaleDone, IpShown, window, waits, history
  <2>2. CASE NoIp
    BY <1>9, <2>2, <1>0 DEF TailscaleDone, NoIp, Message, window, waits, history
  <2>3. CASE AskPs
    BY <1>9, <2>3, <1>0 DEF TailscaleDone, AskPs, window, waits, history
  <2>4. CASE NoDocker
    BY <1>9, <2>4, <1>0 DEF TailscaleDone, NoDocker, Message, window, waits, history
  <2>q. QED
    BY <1>9, <2>1, <2>2, <2>3, <2>4, Zenon DEF TailscaleDone
<1>10. CASE JobDone
  <2>1. CASE job = "pkexec" /\ Failed(rootStep)
    BY <1>10, <2>1, <1>0 DEF JobDone, Failed, Message, window, waits, history
  <2>2. CASE job = "pkexec" /\ Good("job") /\ Goes("install", TRUE)
    BY <1>10, <2>2, <1>0 DEF JobDone, Goes, RunJob, window, waits, history
  <2>3. CASE job = "pkexec" /\ Good("job") /\ Succeeded(rootStep)
    BY <1>10, <2>3, <1>0 DEF JobDone, Succeeded, RefreshPs, window, waits, history
  <2>4. CASE job # "pkexec" /\ Failed(Read(pipe))
    BY <1>10, <2>4, <1>0 DEF JobDone, Failed, Message, Read, window, waits, history
  <2>5. CASE job = "import" /\ Goes("install", FALSE)
    BY <1>10, <2>5, <1>0 DEF JobDone, Goes, RunJob, window, waits, history
  <2>6. CASE job \notin {"import", "pkexec"} /\ Read(pipe) # "none" /\ ~afterCert /\ AskRoot(Read(pipe))
    BY <1>10, <2>6, <1>0 DEF JobDone, AskRoot, Read, window, waits, history
  <2>7. CASE job \notin {"import", "pkexec"} /\ Read(pipe) = "none" /\ Succeeded(Read(pipe))
    BY <1>10, <2>7, <1>0 DEF JobDone, Succeeded, RefreshPs, Read, window, waits, history
  <2>q. QED
    BY <1>10, <2>1, <2>2, <2>3, <2>4, <2>5, <2>6, <2>7, Zenon DEF JobDone, RootDone, InstallerDone
<1>11. CASE Authorised
  BY <1>11, <1>0 DEF Authorised, window, waits, history
<1>12. ASSUME NEW c \in {"start", "stop"}, Command(c)
      PROVE  dialogs' \in Seq(Boxes)
  <2>1. CASE RunCommand(c)
    BY <1>12, <2>1, <1>0 DEF Command, RunCommand, window, waits, history
  <2>2. CASE Message("nothing") /\ UNCHANGED <<proc, rootStep, afterCert, history>>
    BY <1>12, <2>2, <1>0 DEF Command, Message, window, waits, history
  <2>q. QED
    BY <1>12, <2>1, <2>2, Zenon DEF Command
<1>13. ASSUME NEW r \in Runners, Timeout(r)
      PROVE  dialogs' \in Seq(Boxes)
  BY <1>13, <1>0 DEF Timeout, window, waits, history
<1>14. ASSUME NEW r \in Runners, Kill(r)
      PROVE  dialogs' \in Seq(Boxes)
  BY <1>14, <1>0 DEF Kill, window, waits, history
<1>15. ASSUME NEW r \in Runners, Terminate(r)
      PROVE  dialogs' \in Seq(Boxes)
  BY <1>15, <1>0 DEF Terminate, window, waits, history
<1>16. ASSUME NEW s \in Steps \ {"none"}, Prints(s)
      PROVE  dialogs' \in Seq(Boxes)
  BY <1>16, <1>0 DEF Prints, window, waits, history
<1>17. ASSUME NEW r \in Runners, NEW ok \in BOOLEAN, Exits(r, ok)
      PROVE  dialogs' \in Seq(Boxes)
  BY <1>17, <1>0 DEF Exits, window, waits, history
<1>18. CASE UNCHANGED vars
  BY <1>18 DEF vars, window, waits, history
<1>q. QED
  BY <1>1, <1>2, <1>3, <1>4, <1>5, <1>6, <1>7, <1>8, <1>9, <1>10, <1>11, <1>12, <1>13, <1>14, <1>15, <1>16, <1>17, <1>18 DEF Next, Slots

\* Every step keeps the types.
LEMMA TypeStep == ASSUME TypeOK, [Next]_vars PROVE TypeOK'
<1>1. proc' \in [Runners -> Processes]
  BY ProcStep DEF TypeOK
<1>2. Kinds'
  BY KindStep DEF TypeOK, Kinds
<1>3. Flags'
  BY FlagStep, Zenon DEF TypeOK, Flags
<1>4. dialogs' \in Seq(Boxes)
  BY DialogStep DEF TypeOK, Boxes
<1>5. prompts \in Nat /\ installs \in Nat
  BY DEF TypeOK
<1>6. prompts' \in Nat /\ installs' \in Nat
  BY <1>5, CountStep DEF Counts
<1>q. QED
  BY <1>1, <1>2, <1>3, <1>4, <1>6, Zenon DEF TypeOK, Kinds, Flags, Boxes

\* Every step counts prompts and installer runs with the chain it is in.
LEMMA CountedStep == ASSUME TypeOK, Flow, Counted, OnePrompt, [Next]_vars PROVE Counted' /\ OnePrompt'
<1> USE DEF Flow, Counted, OnePrompt, Installer
<1>0. prompts \in Nat /\ installs \in Nat /\ job \in Jobs /\ afterCert \in BOOLEAN /\ tsThen \in BOOLEAN /\ psThen \in BOOLEAN /\ busy \in BOOLEAN
  BY Zenon DEF TypeOK
<1>1. CASE Deploy
  <2>1. CASE RefuseDeploy
    BY <1>1, <2>1, <1>0 DEF Deploy, RefuseDeploy, Message, window, waits, history, Jobs
  <2>2. CASE BeginDeploy
    <3>1. prompts' = 0 /\ installs' = 0 /\ job' = "" /\ tsThen' /\ psThen' = FALSE
      BY <1>1, <2>2, <1>0 DEF Deploy, BeginDeploy
    <3>q. QED
      BY <3>1, Zenon
  <2>q. QED
    BY <1>1, <2>1, <2>2, Zenon DEF Deploy
<1>2. CASE Dismiss
  BY <1>2, <1>0 DEF Dismiss, RefreshPs, window, waits, history, Jobs
<1>3. CASE Close
  BY <1>3, <1>0 DEF Close, Leave, window, waits, history, Jobs
<1>4. CASE AnswerClose
  <2>1. CASE Leave
    BY <1>4, <2>1, <1>0 DEF AnswerClose, Leave, window, waits, history, Jobs
  <2>2. CASE Stay
    BY <1>4, <2>2, <1>0 DEF AnswerClose, Stay, window, waits, history, Jobs
  <2>q. QED
    BY <1>4, <2>1, <2>2, Zenon DEF AnswerClose
<1>5. CASE PollStatus
  BY <1>5, <1>0 DEF PollStatus, RefreshPs, window, waits, history, Jobs
<1>6. CASE PollTailscale
  BY <1>6, <1>0 DEF PollTailscale, window, waits, history, Jobs
<1>7. CASE Output
  BY <1>7, <1>0 DEF Output, Read, window, waits, history, Jobs
<1>8. CASE StatusDone
  <2>1. CASE again /\ PsAgain
    BY <1>8, <2>1, <1>0 DEF StatusDone, PsAgain, window, waits, history, Jobs
  <2>2. CASE PsForDeploy /\ RefuseChecked(Reset("status"))
    BY <1>8, <2>2, <1>0 DEF StatusDone, PsForDeploy, RefuseChecked, Message, window, waits, history, Jobs
  <2>3. CASE PsForDeploy /\ GoAhead(Reset("status"))
    <3>1. PICK c \in {"import", "install"} : RunJob(Reset("status"), c, FALSE)
      BY <2>3, Zenon DEF PsForDeploy, GoAhead
    <3>2. prompts' = 0 /\ tsThen' = FALSE /\ psThen' = FALSE /\ job' = c /\ afterCert' = FALSE
      BY <1>8, <2>3, <3>1, <1>0 DEF StatusDone, PsForDeploy, RunJob
    <3>3. installs = 0 /\ installs' = installs + (IF c = "import" THEN 0 ELSE 1)
      BY <2>3, <3>1, <1>0 DEF PsForDeploy, RunJob
    <3>4. IF c = "import" THEN installs' = 0 ELSE installs' = 1
      BY ONLY <3>3
    <3>q. QED
      BY <3>1, <3>2, <3>4, Zenon
  <2>4. CASE PsShown
    BY <1>8, <2>4, <1>0 DEF StatusDone, PsShown, window, waits, history, Jobs
  <2>q. QED
    BY <1>8, <2>1, <2>2, <2>3, <2>4, Zenon DEF StatusDone, DeployChecked, PsForDeploy
<1>9. CASE TailscaleDone
  <2>1. CASE IpShown
    BY <1>9, <2>1, <1>0 DEF TailscaleDone, IpShown, window, waits, history, Jobs
  <2>2. CASE NoIp
    BY <1>9, <2>2, <1>0 DEF TailscaleDone, NoIp, Message, window, waits, history, Jobs
  <2>3. CASE AskPs
    BY <1>9, <2>3, <1>0 DEF TailscaleDone, AskPs, window, waits, history, Jobs
  <2>4. CASE NoDocker
    BY <1>9, <2>4, <1>0 DEF TailscaleDone, NoDocker, Message, window, waits, history, Jobs
  <2>q. QED
    BY <1>9, <2>1, <2>2, <2>3, <2>4, Zenon DEF TailscaleDone
<1>10. CASE JobDone
  <2>1. CASE job = "pkexec" /\ Failed(rootStep)
    BY <1>10, <2>1, <1>0 DEF JobDone, Failed, Message, window, waits, history, Jobs
  <2>2. CASE job = "pkexec" /\ Good("job") /\ Goes("install", TRUE)
    <3>1. prompts' = 1 /\ job' = "install" /\ afterCert' = TRUE /\ tsThen' = FALSE /\ psThen' = FALSE
      BY <2>2, <1>0 DEF Goes, RunJob, waits, Jobs
    <3>2. installs = 1 /\ installs' = installs + 1
      BY <2>2, <1>0 DEF Goes, RunJob, waits, Jobs
    <3>3. installs' = 2
      BY ONLY <3>2
    <3>q. QED
      BY <3>1, <3>3, Zenon
  <2>3. CASE job = "pkexec" /\ Good("job") /\ Succeeded(rootStep)
    BY <1>10, <2>3, <1>0 DEF JobDone, Succeeded, RefreshPs, window, waits, history, Jobs
  <2>4. CASE job # "pkexec" /\ Failed(Read(pipe))
    BY <1>10, <2>4, <1>0 DEF JobDone, Failed, Message, Read, window, waits, history, Jobs
  <2>5. CASE job = "import" /\ Goes("install", FALSE)
    <3>1. prompts' = 0 /\ job' = "install" /\ afterCert' = FALSE /\ tsThen' = FALSE /\ psThen' = FALSE
      BY <2>5, <1>0 DEF Goes, RunJob, waits, Jobs
    <3>2. installs = 0 /\ installs' = installs + 1
      BY <2>5, <1>0 DEF Goes, RunJob, waits, Jobs
    <3>3. installs' = 1
      BY ONLY <3>2
    <3>q. QED
      BY <3>1, <3>3, Zenon
  <2>6. CASE job \notin {"import", "pkexec"} /\ Read(pipe) # "none" /\ ~afterCert /\ AskRoot(Read(pipe))
    <3>0. job \in Installer
      BY <1>10, <2>6, <1>0, Zenon DEF JobDone, Done, Running, Jobs
    <3>1. prompts = 0 /\ prompts' = prompts + 1 /\ job' = "pkexec" /\ tsThen' = FALSE /\ psThen' = FALSE
      BY <3>0, <2>6, <1>0 DEF AskRoot, waits, Jobs
    <3>2. installs = 1 /\ installs' = installs
      BY <3>0, <2>6, <1>0 DEF AskRoot, waits, Jobs
    <3>3. installs' = 1 /\ prompts' = 1
      BY ONLY <3>1, <3>2
    <3>q. QED
      BY <3>1, <3>3, Zenon
  <2>7. CASE job \notin {"import", "pkexec"} /\ Read(pipe) = "none" /\ Succeeded(Read(pipe))
    BY <1>10, <2>7, <1>0 DEF JobDone, Succeeded, RefreshPs, Read, window, waits, history, Jobs
  <2>q. QED
    BY <1>10, <2>1, <2>2, <2>3, <2>4, <2>5, <2>6, <2>7, Zenon DEF JobDone, RootDone, InstallerDone
<1>11. CASE Authorised
  BY <1>11, <1>0 DEF Authorised, window, waits, history, Jobs
<1>12. ASSUME NEW c \in {"start", "stop"}, Command(c)
      PROVE  Counted' /\ OnePrompt'
  <2>1. CASE RunCommand(c)
    <3>1. prompts' = 0 /\ installs' = 1 /\ job' = c /\ afterCert' = FALSE /\ tsThen' = FALSE /\ psThen' = FALSE
      BY <1>12, <2>1, <1>0 DEF Command, RunCommand, waits
    <3>q. QED
      BY <3>1, Zenon
  <2>2. CASE Message("nothing") /\ UNCHANGED <<proc, rootStep, afterCert, history>>
    BY <1>12, <2>2, <1>0 DEF Command, Message, window, waits, history, Jobs
  <2>q. QED
    BY <1>12, <2>1, <2>2, Zenon DEF Command
<1>13. ASSUME NEW r \in Runners, Timeout(r)
      PROVE  Counted' /\ OnePrompt'
  BY <1>13, <1>0 DEF Timeout, window, waits, history, Jobs
<1>14. ASSUME NEW r \in Runners, Kill(r)
      PROVE  Counted' /\ OnePrompt'
  BY <1>14, <1>0 DEF Kill, window, waits, history, Jobs
<1>15. ASSUME NEW r \in Runners, Terminate(r)
      PROVE  Counted' /\ OnePrompt'
  BY <1>15, <1>0 DEF Terminate, window, waits, history, Jobs
<1>16. ASSUME NEW s \in Steps \ {"none"}, Prints(s)
      PROVE  Counted' /\ OnePrompt'
  BY <1>16, <1>0 DEF Prints, window, waits, history, Jobs
<1>17. ASSUME NEW r \in Runners, NEW ok \in BOOLEAN, Exits(r, ok)
      PROVE  Counted' /\ OnePrompt'
  BY <1>17, <1>0 DEF Exits, window, waits, history, Jobs
<1>18. CASE UNCHANGED vars
  BY <1>18 DEF vars, window, waits, history, Jobs
<1>q. QED
  BY <1>1, <1>2, <1>3, <1>4, <1>5, <1>6, <1>7, <1>8, <1>9, <1>10, <1>11, <1>12, <1>13, <1>14, <1>15, <1>16, <1>17, <1>18 DEF Next, Slots

\* Every step keeps busy and what calls back together.
LEMMA FlowStep == ASSUME TypeOK, Flow, [Next]_vars PROVE Flow'
<1> USE DEF Flow, Running, Closing, Off, Up
<1>1. CASE Deploy
  <2>1. CASE RefuseDeploy
    BY <1>1, <2>1 DEF Deploy, RefuseDeploy, Message, window, waits, history, Done, Clickable, Reset, Runners, Processes, TypeOK
  <2>2. CASE BeginDeploy
    BY <1>1, <2>2 DEF Deploy, BeginDeploy, window, waits, history, Done, Clickable, Reset, Runners, Processes, TypeOK
  <2>q. QED
    BY <1>1, <2>1, <2>2, Zenon DEF Deploy
<1>2. CASE Dismiss
  BY <1>2 DEF Dismiss, RefreshPs, window, waits, history, Done, Clickable, Reset, Runners, Processes, TypeOK
<1>3. CASE Close
  BY <1>3 DEF Close, Leave, window, waits, history, Done, Clickable, Reset, Runners, Processes, TypeOK
<1>4. CASE AnswerClose
  <2>1. CASE Leave
    BY <1>4, <2>1 DEF AnswerClose, Leave, window, waits, history, Done, Clickable, Reset, Runners, Processes, TypeOK
  <2>2. CASE Stay
    BY <1>4, <2>2 DEF AnswerClose, Stay, window, waits, history, Done, Clickable, Reset, Runners, Processes, TypeOK
  <2>q. QED
    BY <1>4, <2>1, <2>2, Zenon DEF AnswerClose
<1>5. CASE PollStatus
  BY <1>5 DEF PollStatus, RefreshPs, window, waits, history, Done, Clickable, Reset, Runners, Processes, TypeOK
<1>6. CASE PollTailscale
  BY <1>6 DEF PollTailscale, window, waits, history, Done, Clickable, Reset, Runners, Processes, TypeOK
<1>7. CASE Output
  BY <1>7 DEF Output, Read, window, waits, history, Done, Clickable, Reset, Runners, Processes, TypeOK
<1>8. CASE StatusDone
  <2>1. CASE again /\ PsAgain
    BY <1>8, <2>1 DEF StatusDone, PsAgain, window, waits, history, Done, Clickable, Reset, Runners, Processes, TypeOK
  <2>2. CASE PsForDeploy /\ RefuseChecked(Reset("status"))
    BY <1>8, <2>2 DEF StatusDone, PsForDeploy, RefuseChecked, Message, window, waits, history, Done, Clickable, Reset, Runners, Processes, TypeOK
  <2>3. CASE PsForDeploy /\ GoAhead(Reset("status"))
    BY <1>8, <2>3 DEF StatusDone, PsForDeploy, GoAhead, RunJob, window, waits, history, Done, Clickable, Reset, Runners, Processes, TypeOK
  <2>4. CASE PsShown
    BY <1>8, <2>4 DEF StatusDone, PsShown, window, waits, history, Done, Clickable, Reset, Runners, Processes, TypeOK
  <2>q. QED
    BY <1>8, <2>1, <2>2, <2>3, <2>4, Zenon DEF StatusDone, DeployChecked, PsForDeploy
<1>9. CASE TailscaleDone
  <2>1. CASE IpShown
    BY <1>9, <2>1 DEF TailscaleDone, IpShown, window, waits, history, Done, Clickable, Reset, Runners, Processes, TypeOK
  <2>2. CASE NoIp
    BY <1>9, <2>2 DEF TailscaleDone, NoIp, Message, window, waits, history, Done, Clickable, Reset, Runners, Processes, TypeOK
  <2>3. CASE AskPs
    BY <1>9, <2>3 DEF TailscaleDone, AskPs, window, waits, history, Done, Clickable, Reset, Runners, Processes, TypeOK
  <2>4. CASE NoDocker
    BY <1>9, <2>4 DEF TailscaleDone, NoDocker, Message, window, waits, history, Done, Clickable, Reset, Runners, Processes, TypeOK
  <2>q. QED
    BY <1>9, <2>1, <2>2, <2>3, <2>4, Zenon DEF TailscaleDone
<1>10. CASE JobDone
  <2>1. CASE job = "pkexec" /\ Failed(rootStep)
    BY <1>10, <2>1 DEF JobDone, Failed, Message, window, waits, history, Done, Clickable, Reset, Runners, Processes, TypeOK
  <2>2. CASE job = "pkexec" /\ Good("job") /\ Goes("install", TRUE)
    BY <1>10, <2>2 DEF JobDone, Goes, RunJob, window, waits, history, Done, Clickable, Reset, Runners, Processes, TypeOK
  <2>3. CASE job = "pkexec" /\ Good("job") /\ Succeeded(rootStep)
    <3>1. job # ""
      BY <1>10, Zenon DEF JobDone, Done
    <3>2. busy' = FALSE /\ job' = "" /\ tsThen' = FALSE /\ psThen' = FALSE
      BY <2>3, <3>1, Zenon DEF Succeeded, TypeOK
    <3>3. proc'["job"] = Off
      BY <2>3 DEF Succeeded, RefreshPs, Reset, Runners, TypeOK
    <3>4. proc'["job"].at = "off"
      BY ONLY <3>3, OffIsOff
    <3>q. QED
      BY <3>2, <3>4, Zenon
  <2>4. CASE job # "pkexec" /\ Failed(Read(pipe))
    BY <1>10, <2>4 DEF JobDone, Failed, Message, Read, window, waits, history, Done, Clickable, Reset, Runners, Processes, TypeOK
  <2>5. CASE job = "import" /\ Goes("install", FALSE)
    BY <1>10, <2>5 DEF JobDone, Goes, RunJob, window, waits, history, Done, Clickable, Reset, Runners, Processes, TypeOK
  <2>6. CASE job \notin {"import", "pkexec"} /\ Read(pipe) # "none" /\ ~afterCert /\ AskRoot(Read(pipe))
    BY <1>10, <2>6 DEF JobDone, AskRoot, Read, window, waits, history, Done, Clickable, Reset, Runners, Processes, TypeOK
  <2>7. CASE job \notin {"import", "pkexec"} /\ Read(pipe) = "none" /\ Succeeded(Read(pipe))
    <3>1. job # ""
      BY <1>10, Zenon DEF JobDone, Done
    <3>2. busy' = FALSE /\ job' = "" /\ tsThen' = FALSE /\ psThen' = FALSE
      BY <2>7, <3>1, Zenon DEF Succeeded, TypeOK
    <3>3. proc'["job"] = Off
      BY <2>7 DEF Succeeded, RefreshPs, Reset, Runners, TypeOK
    <3>4. proc'["job"].at = "off"
      BY ONLY <3>3, OffIsOff
    <3>q. QED
      BY <3>2, <3>4, Zenon
  <2>q. QED
    BY <1>10, <2>1, <2>2, <2>3, <2>4, <2>5, <2>6, <2>7, Zenon DEF JobDone, RootDone, InstallerDone
<1>11. CASE Authorised
  BY <1>11 DEF Authorised, window, waits, history, Done, Clickable, Reset, Runners, Processes, TypeOK
<1>12. ASSUME NEW c \in {"start", "stop"}, Command(c)
      PROVE  Flow'
  <2>1. CASE RunCommand(c)
    BY <1>12, <2>1 DEF Command, RunCommand, window, waits, history, Done, Clickable, Reset, Runners, Processes, TypeOK
  <2>2. CASE Message("nothing") /\ UNCHANGED <<proc, rootStep, afterCert, history>>
    BY <1>12, <2>2 DEF Command, Message, window, waits, history, Done, Clickable, Reset, Runners, Processes, TypeOK
  <2>q. QED
    BY <1>12, <2>1, <2>2, Zenon DEF Command
<1>13. ASSUME NEW r \in Runners, Timeout(r)
      PROVE  Flow'
  BY <1>13 DEF Timeout, window, waits, history, Done, Clickable, Reset, Runners, Processes, TypeOK
<1>14. ASSUME NEW r \in Runners, Kill(r)
      PROVE  Flow'
  BY <1>14 DEF Kill, window, waits, history, Done, Clickable, Reset, Runners, Processes, TypeOK
<1>15. ASSUME NEW r \in Runners, Terminate(r)
      PROVE  Flow'
  <2>1. leaving # "no" /\ leaving' # "no" /\ UNCHANGED <<busy, job, tsThen, psThen>>
    BY <1>15 DEF Terminate, After, Runners, window, waits
  <2>q. QED
    BY <2>1, Zenon
<1>16. ASSUME NEW s \in Steps \ {"none"}, Prints(s)
      PROVE  Flow'
  BY <1>16 DEF Prints, window, waits, history, Done, Clickable, Reset, Runners, Processes, TypeOK
<1>17. ASSUME NEW r \in Runners, NEW ok \in BOOLEAN, Exits(r, ok)
      PROVE  Flow'
  BY <1>17 DEF Exits, window, waits, history, Done, Clickable, Reset, Runners, Processes, TypeOK
<1>18. CASE UNCHANGED vars
  BY <1>18 DEF vars, window, waits, history, Done, Clickable, Reset, Runners, Processes, TypeOK
<1>q. QED
  BY <1>1, <1>2, <1>3, <1>4, <1>5, <1>6, <1>7, <1>8, <1>9, <1>10, <1>11, <1>12, <1>13, <1>14, <1>15, <1>16, <1>17, <1>18 DEF Next, Slots

\* No step loses the installer's request for a root step.
LEMMA NotedStep == ASSUME TypeOK, Flow, Noted, SuccessIsComplete, [Next]_vars PROVE Noted' /\ SuccessIsComplete'
<1> USE DEF Flow, Noted, SuccessIsComplete, Running, Closing, Installer
<1>1. CASE Deploy
  <2>1. CASE RefuseDeploy
    BY <1>1, <2>1 DEF Deploy, RefuseDeploy, Message, window, waits, history, Done, Clickable, Reset, Off, Up, Runners, Processes, Steps, Jobs, TypeOK
  <2>2. CASE BeginDeploy
    BY <1>1, <2>2 DEF Deploy, BeginDeploy, window, waits, history, Done, Clickable, Reset, Off, Up, Runners, Processes, Steps, Jobs, TypeOK
  <2>q. QED
    BY <1>1, <2>1, <2>2, Zenon DEF Deploy
<1>2. CASE Dismiss
  BY <1>2 DEF Dismiss, RefreshPs, window, waits, history, Done, Clickable, Reset, Off, Up, Runners, Processes, Steps, Jobs, TypeOK
<1>3. CASE Close
  BY <1>3 DEF Close, Leave, window, waits, history, Done, Clickable, Reset, Off, Up, Runners, Processes, Steps, Jobs, TypeOK
<1>4. CASE AnswerClose
  <2>1. CASE Leave
    BY <1>4, <2>1 DEF AnswerClose, Leave, window, waits, history, Done, Clickable, Reset, Off, Up, Runners, Processes, Steps, Jobs, TypeOK
  <2>2. CASE Stay
    BY <1>4, <2>2 DEF AnswerClose, Stay, window, waits, history, Done, Clickable, Reset, Off, Up, Runners, Processes, Steps, Jobs, TypeOK
  <2>q. QED
    BY <1>4, <2>1, <2>2, Zenon DEF AnswerClose
<1>5. CASE PollStatus
  BY <1>5 DEF PollStatus, RefreshPs, window, waits, history, Done, Clickable, Reset, Off, Up, Runners, Processes, Steps, Jobs, TypeOK
<1>6. CASE PollTailscale
  BY <1>6 DEF PollTailscale, window, waits, history, Done, Clickable, Reset, Off, Up, Runners, Processes, Steps, Jobs, TypeOK
<1>7. CASE Output
  BY <1>7 DEF Output, Read, window, waits, history, Done, Clickable, Reset, Off, Up, Runners, Processes, Steps, Jobs, TypeOK
<1>8. CASE StatusDone
  <2>1. CASE again /\ PsAgain
    BY <1>8, <2>1 DEF StatusDone, PsAgain, window, waits, history, Done, Clickable, Reset, Off, Up, Runners, Processes, Steps, Jobs, TypeOK
  <2>2. CASE PsForDeploy /\ RefuseChecked(Reset("status"))
    BY <1>8, <2>2 DEF StatusDone, PsForDeploy, RefuseChecked, Message, window, waits, history, Done, Clickable, Reset, Off, Up, Runners, Processes, Steps, Jobs, TypeOK
  <2>3. CASE PsForDeploy /\ GoAhead(Reset("status"))
    BY <1>8, <2>3 DEF StatusDone, PsForDeploy, GoAhead, RunJob, window, waits, history, Done, Clickable, Reset, Off, Up, Runners, Processes, Steps, Jobs, TypeOK
  <2>4. CASE PsShown
    BY <1>8, <2>4 DEF StatusDone, PsShown, window, waits, history, Done, Clickable, Reset, Off, Up, Runners, Processes, Steps, Jobs, TypeOK
  <2>q. QED
    BY <1>8, <2>1, <2>2, <2>3, <2>4, Zenon DEF StatusDone, DeployChecked, PsForDeploy
<1>9. CASE TailscaleDone
  <2>1. CASE IpShown
    BY <1>9, <2>1 DEF TailscaleDone, IpShown, window, waits, history, Done, Clickable, Reset, Off, Up, Runners, Processes, Steps, Jobs, TypeOK
  <2>2. CASE NoIp
    BY <1>9, <2>2 DEF TailscaleDone, NoIp, Message, window, waits, history, Done, Clickable, Reset, Off, Up, Runners, Processes, Steps, Jobs, TypeOK
  <2>3. CASE AskPs
    BY <1>9, <2>3 DEF TailscaleDone, AskPs, window, waits, history, Done, Clickable, Reset, Off, Up, Runners, Processes, Steps, Jobs, TypeOK
  <2>4. CASE NoDocker
    BY <1>9, <2>4 DEF TailscaleDone, NoDocker, Message, window, waits, history, Done, Clickable, Reset, Off, Up, Runners, Processes, Steps, Jobs, TypeOK
  <2>q. QED
    BY <1>9, <2>1, <2>2, <2>3, <2>4, Zenon DEF TailscaleDone
<1>10. CASE JobDone
  <2>1. CASE job = "pkexec" /\ Failed(rootStep)
    BY <1>10, <2>1 DEF JobDone, Failed, Message, window, waits, history, Done, Clickable, Reset, Off, Up, Runners, Processes, Steps, Jobs, TypeOK
  <2>2. CASE job = "pkexec" /\ Good("job") /\ Goes("install", TRUE)
    BY <1>10, <2>2 DEF JobDone, Goes, RunJob, window, waits, history, Done, Clickable, Reset, Off, Up, Runners, Processes, Steps, Jobs, TypeOK
  <2>3. CASE job = "pkexec" /\ Good("job") /\ Succeeded(rootStep)
    <3>1. applied
      BY <1>10, <2>3, Zenon DEF JobDone, Done, Good
    <3>2. busy' = FALSE /\ job' = "" /\ pipe' = "none" /\ applied'
      BY <1>10, <2>3, <3>1, Zenon DEF JobDone, Succeeded
    <3>q. QED
      BY <3>2, Zenon
  <2>4. CASE job # "pkexec" /\ Failed(Read(pipe))
    BY <1>10, <2>4 DEF JobDone, Failed, Message, Read, window, waits, history, Done, Clickable, Reset, Off, Up, Runners, Processes, Steps, Jobs, TypeOK
  <2>5. CASE job = "import" /\ Goes("install", FALSE)
    BY <1>10, <2>5 DEF JobDone, Goes, RunJob, window, waits, history, Done, Clickable, Reset, Off, Up, Runners, Processes, Steps, Jobs, TypeOK
  <2>6. CASE job \notin {"import", "pkexec"} /\ Read(pipe) # "none" /\ ~afterCert /\ AskRoot(Read(pipe))
    BY <1>10, <2>6 DEF JobDone, AskRoot, Read, window, waits, history, Done, Clickable, Reset, Off, Up, Runners, Processes, Steps, Jobs, TypeOK
  <2>7. CASE job \notin {"import", "pkexec"} /\ Read(pipe) = "none" /\ Succeeded(Read(pipe))
    BY <1>10, <2>7 DEF JobDone, Succeeded, RefreshPs, Read, window, waits, history, Done, Clickable, Reset, Off, Up, Runners, Processes, Steps, Jobs, TypeOK
  <2>q. QED
    BY <1>10, <2>1, <2>2, <2>3, <2>4, <2>5, <2>6, <2>7, Zenon DEF JobDone, RootDone, InstallerDone
<1>11. CASE Authorised
  BY <1>11 DEF Authorised, window, waits, history, Done, Clickable, Reset, Off, Up, Runners, Processes, Steps, Jobs, TypeOK
<1>12. ASSUME NEW c \in {"start", "stop"}, Command(c)
      PROVE  Noted' /\ SuccessIsComplete'
  <2>1. CASE RunCommand(c)
    BY <1>12, <2>1 DEF Command, RunCommand, window, waits, history, Done, Clickable, Reset, Off, Up, Runners, Processes, Steps, Jobs, TypeOK
  <2>2. CASE Message("nothing") /\ UNCHANGED <<proc, rootStep, afterCert, history>>
    BY <1>12, <2>2 DEF Command, Message, window, waits, history, Done, Clickable, Reset, Off, Up, Runners, Processes, Steps, Jobs, TypeOK
  <2>q. QED
    BY <1>12, <2>1, <2>2, Zenon DEF Command
<1>13. ASSUME NEW r \in Runners, Timeout(r)
      PROVE  Noted' /\ SuccessIsComplete'
  BY <1>13 DEF Timeout, window, waits, history, Done, Clickable, Reset, Off, Up, Runners, Processes, Steps, Jobs, TypeOK
<1>14. ASSUME NEW r \in Runners, Kill(r)
      PROVE  Noted' /\ SuccessIsComplete'
  BY <1>14 DEF Kill, window, waits, history, Done, Clickable, Reset, Off, Up, Runners, Processes, Steps, Jobs, TypeOK
<1>15. ASSUME NEW r \in Runners, Terminate(r)
      PROVE  Noted' /\ SuccessIsComplete'
  <2>0. proc \in [Runners -> Processes]
    BY Zenon DEF TypeOK
  <2>1. PICK p \in Processes : p = proc[r]
    BY <2>0
  <2>2. proc' = proc \/ proc' = [proc EXCEPT ![r] = Off] \/ proc' = [proc EXCEPT ![r] = [p EXCEPT !.sig = "kill"]]
        \/ \E g \in {"none", "term", "kill"} : proc' = [proc EXCEPT ![r] = [p EXCEPT !.why = "cancel", !.sig = g]]
    BY <1>15, <2>1, Values DEF Terminate, Reset
  <2>3. proc' = proc \/ proc' = [proc EXCEPT ![r] = Off] \/ \E x \in Processes : x.at = p.at /\ x.ok = p.ok /\ proc' = [proc EXCEPT ![r] = x]
    BY <2>2, Values, Signalled
  <2>4. proc'["job"].at = "gone" /\ proc'["job"].ok => proc["job"].at = "gone" /\ proc["job"].ok
    BY ONLY <2>1, <2>3, <2>0, OffIsOff DEF Runners
  <2>5. UNCHANGED <<busy, told, job, printed, pipe, rootStep, applied>> /\ Closing'
    BY <1>15 DEF Terminate, window, history, After, Runners
  <2>q. QED
    BY <2>4, <2>5, Zenon
<1>16. ASSUME NEW s \in Steps \ {"none"}, Prints(s)
      PROVE  Noted' /\ SuccessIsComplete'
  BY <1>16 DEF Prints, window, waits, history, Done, Clickable, Reset, Off, Up, Runners, Processes, Steps, Jobs, TypeOK
<1>17. ASSUME NEW r \in Runners, NEW ok \in BOOLEAN, Exits(r, ok)
      PROVE  Noted' /\ SuccessIsComplete'
  BY <1>17 DEF Exits, window, waits, history, Done, Clickable, Reset, Off, Up, Runners, Processes, Steps, Jobs, TypeOK
<1>18. CASE UNCHANGED vars
  BY <1>18 DEF vars, window, waits, history, Done, Clickable, Reset, Off, Up, Runners, Processes, Steps, Jobs, TypeOK
<1>q. QED
  BY <1>1, <1>2, <1>3, <1>4, <1>5, <1>6, <1>7, <1>8, <1>9, <1>10, <1>11, <1>12, <1>13, <1>14, <1>15, <1>16, <1>17, <1>18 DEF Next, Slots

\* Closing leaves one Runner after the other without a process of ours.
LEMMA SweptStep == ASSUME TypeOK, Swept, [Next]_vars PROVE Swept'
<1> USE DEF Swept, Closing
<1>1. CASE Deploy
  <2>1. CASE RefuseDeploy
    BY <1>1, <2>1 DEF Deploy, RefuseDeploy, Message, window, waits, history, Done, Clickable, Reset, Off, Up, Runners, Processes, After, TypeOK
  <2>2. CASE BeginDeploy
    BY <1>1, <2>2 DEF Deploy, BeginDeploy, window, waits, history, Done, Clickable, Reset, Off, Up, Runners, Processes, After, TypeOK
  <2>q. QED
    BY <1>1, <2>1, <2>2, Zenon DEF Deploy
<1>2. CASE Dismiss
  BY <1>2 DEF Dismiss, RefreshPs, window, waits, history, Done, Clickable, Reset, Off, Up, Runners, Processes, After, TypeOK
<1>3. CASE Close
  BY <1>3 DEF Close, Leave, window, waits, history, Done, Clickable, Reset, Off, Up, Runners, Processes, After, TypeOK
<1>4. CASE AnswerClose
  <2>1. CASE Leave
    BY <1>4, <2>1 DEF AnswerClose, Leave, window, waits, history, Done, Clickable, Reset, Off, Up, Runners, Processes, After, TypeOK
  <2>2. CASE Stay
    BY <1>4, <2>2 DEF AnswerClose, Stay, window, waits, history, Done, Clickable, Reset, Off, Up, Runners, Processes, After, TypeOK
  <2>q. QED
    BY <1>4, <2>1, <2>2, Zenon DEF AnswerClose
<1>5. CASE PollStatus
  BY <1>5 DEF PollStatus, RefreshPs, window, waits, history, Done, Clickable, Reset, Off, Up, Runners, Processes, After, TypeOK
<1>6. CASE PollTailscale
  BY <1>6 DEF PollTailscale, window, waits, history, Done, Clickable, Reset, Off, Up, Runners, Processes, After, TypeOK
<1>7. CASE Output
  BY <1>7 DEF Output, Read, window, waits, history, Done, Clickable, Reset, Off, Up, Runners, Processes, After, TypeOK
<1>8. CASE StatusDone
  <2>1. CASE again /\ PsAgain
    BY <1>8, <2>1 DEF StatusDone, PsAgain, window, waits, history, Done, Clickable, Reset, Off, Up, Runners, Processes, After, TypeOK
  <2>2. CASE PsForDeploy /\ RefuseChecked(Reset("status"))
    BY <1>8, <2>2 DEF StatusDone, PsForDeploy, RefuseChecked, Message, window, waits, history, Done, Clickable, Reset, Off, Up, Runners, Processes, After, TypeOK
  <2>3. CASE PsForDeploy /\ GoAhead(Reset("status"))
    BY <1>8, <2>3 DEF StatusDone, PsForDeploy, GoAhead, RunJob, window, waits, history, Done, Clickable, Reset, Off, Up, Runners, Processes, After, TypeOK
  <2>4. CASE PsShown
    BY <1>8, <2>4 DEF StatusDone, PsShown, window, waits, history, Done, Clickable, Reset, Off, Up, Runners, Processes, After, TypeOK
  <2>q. QED
    BY <1>8, <2>1, <2>2, <2>3, <2>4, Zenon DEF StatusDone, DeployChecked, PsForDeploy
<1>9. CASE TailscaleDone
  <2>1. CASE IpShown
    BY <1>9, <2>1 DEF TailscaleDone, IpShown, window, waits, history, Done, Clickable, Reset, Off, Up, Runners, Processes, After, TypeOK
  <2>2. CASE NoIp
    BY <1>9, <2>2 DEF TailscaleDone, NoIp, Message, window, waits, history, Done, Clickable, Reset, Off, Up, Runners, Processes, After, TypeOK
  <2>3. CASE AskPs
    BY <1>9, <2>3 DEF TailscaleDone, AskPs, window, waits, history, Done, Clickable, Reset, Off, Up, Runners, Processes, After, TypeOK
  <2>4. CASE NoDocker
    BY <1>9, <2>4 DEF TailscaleDone, NoDocker, Message, window, waits, history, Done, Clickable, Reset, Off, Up, Runners, Processes, After, TypeOK
  <2>q. QED
    BY <1>9, <2>1, <2>2, <2>3, <2>4, Zenon DEF TailscaleDone
<1>10. CASE JobDone
  <2>1. CASE job = "pkexec" /\ Failed(rootStep)
    BY <1>10, <2>1 DEF JobDone, Failed, Message, window, waits, history, Done, Clickable, Reset, Off, Up, Runners, Processes, After, TypeOK
  <2>2. CASE job = "pkexec" /\ Good("job") /\ Goes("install", TRUE)
    BY <1>10, <2>2 DEF JobDone, Goes, RunJob, window, waits, history, Done, Clickable, Reset, Off, Up, Runners, Processes, After, TypeOK
  <2>3. CASE job = "pkexec" /\ Good("job") /\ Succeeded(rootStep)
    BY <1>10, <2>3 DEF JobDone, Succeeded, RefreshPs, window, waits, history, Done, Clickable, Reset, Off, Up, Runners, Processes, After, TypeOK
  <2>4. CASE job # "pkexec" /\ Failed(Read(pipe))
    BY <1>10, <2>4 DEF JobDone, Failed, Message, Read, window, waits, history, Done, Clickable, Reset, Off, Up, Runners, Processes, After, TypeOK
  <2>5. CASE job = "import" /\ Goes("install", FALSE)
    BY <1>10, <2>5 DEF JobDone, Goes, RunJob, window, waits, history, Done, Clickable, Reset, Off, Up, Runners, Processes, After, TypeOK
  <2>6. CASE job \notin {"import", "pkexec"} /\ Read(pipe) # "none" /\ ~afterCert /\ AskRoot(Read(pipe))
    BY <1>10, <2>6 DEF JobDone, AskRoot, Read, window, waits, history, Done, Clickable, Reset, Off, Up, Runners, Processes, After, TypeOK
  <2>7. CASE job \notin {"import", "pkexec"} /\ Read(pipe) = "none" /\ Succeeded(Read(pipe))
    BY <1>10, <2>7 DEF JobDone, Succeeded, RefreshPs, Read, window, waits, history, Done, Clickable, Reset, Off, Up, Runners, Processes, After, TypeOK
  <2>q. QED
    BY <1>10, <2>1, <2>2, <2>3, <2>4, <2>5, <2>6, <2>7, Zenon DEF JobDone, RootDone, InstallerDone
<1>11. CASE Authorised
  BY <1>11 DEF Authorised, window, waits, history, Done, Clickable, Reset, Off, Up, Runners, Processes, After, TypeOK
<1>12. ASSUME NEW c \in {"start", "stop"}, Command(c)
      PROVE  Swept'
  <2>1. CASE RunCommand(c)
    BY <1>12, <2>1 DEF Command, RunCommand, window, waits, history, Done, Clickable, Reset, Off, Up, Runners, Processes, After, TypeOK
  <2>2. CASE Message("nothing") /\ UNCHANGED <<proc, rootStep, afterCert, history>>
    BY <1>12, <2>2 DEF Command, Message, window, waits, history, Done, Clickable, Reset, Off, Up, Runners, Processes, After, TypeOK
  <2>q. QED
    BY <1>12, <2>1, <2>2, Zenon DEF Command
<1>13. ASSUME NEW r \in Runners, Timeout(r)
      PROVE  Swept'
  BY <1>13 DEF Timeout, window, waits, history, Done, Clickable, Reset, Off, Up, Runners, Processes, After, TypeOK
<1>14. ASSUME NEW r \in Runners, Kill(r)
      PROVE  Swept'
  BY <1>14 DEF Kill, window, waits, history, Done, Clickable, Reset, Off, Up, Runners, Processes, After, TypeOK
<1>15. ASSUME NEW r \in Runners, Terminate(r)
      PROVE  Swept'
  <2>0. proc \in [Runners -> Processes]
    BY Zenon DEF TypeOK
  <2>1. PICK p \in Processes : p = proc[r]
    BY <2>0
  <2>2. proc' = proc \/ proc' = [proc EXCEPT ![r] = Off] \/ proc' = [proc EXCEPT ![r] = [p EXCEPT !.sig = "kill"]]
        \/ \E g \in {"none", "term", "kill"} : proc' = [proc EXCEPT ![r] = [p EXCEPT !.why = "cancel", !.sig = g]]
    BY <1>15, <2>1, Values DEF Terminate, Reset
  <2>3. proc' = proc \/ proc' = [proc EXCEPT ![r] = Off] \/ \E x \in Processes : x.at = p.at /\ proc' = [proc EXCEPT ![r] = x]
    BY <2>2, Values, Signalled
  <2>4. \A q \in Runners : proc'[q].at = "up" => proc[q].at = "up"
    BY ONLY <2>1, <2>3, <2>0, OffIsOff
  <2>5. leaving = r /\ (leaving' = r \/ (leaving' = After(r) /\ proc'[r].at # "up"))
    <3>1. leaving' = r \/ (leaving' = After(r) /\ (proc' = Reset(r)
                                       \/ (proc' = proc /\ proc[r].at \in {"off", "root"})))
      BY <1>15, Zenon DEF Terminate
    <3>2. Reset(r)[r].at = "off"
      BY <2>0, OffIsOff DEF Reset
    <3>3. leaving = r
      BY <1>15 DEF Terminate
    <3>q. QED
      BY <3>1, <3>2, <3>3, Zenon
  <2>q. QED
    BY <2>4, <2>5 DEF After, Runners
<1>16. ASSUME NEW s \in Steps \ {"none"}, Prints(s)
      PROVE  Swept'
  BY <1>16 DEF Prints, window, waits, history, Done, Clickable, Reset, Off, Up, Runners, Processes, After, TypeOK
<1>17. ASSUME NEW r \in Runners, NEW ok \in BOOLEAN, Exits(r, ok)
      PROVE  Swept'
  BY <1>17 DEF Exits, window, waits, history, Done, Clickable, Reset, Off, Up, Runners, Processes, After, TypeOK
<1>18. CASE UNCHANGED vars
  BY <1>18 DEF vars, window, waits, history, Done, Clickable, Reset, Off, Up, Runners, Processes, After, TypeOK
<1>q. QED
  BY <1>1, <1>2, <1>3, <1>4, <1>5, <1>6, <1>7, <1>8, <1>9, <1>10, <1>11, <1>12, <1>13, <1>14, <1>15, <1>16, <1>17, <1>18 DEF Next, Slots

\* A chain starts only from a fresh answer.
LEMMA FreshStep ==
  ASSUME TypeOK, Flow, [Next]_vars, job = "", job' \in {"import", "install"}
  PROVE  fresh
<1> USE DEF Flow
<1>1. CASE Deploy
  <2>1. CASE RefuseDeploy
    BY <1>1, <2>1 DEF Deploy, RefuseDeploy, Message, window, waits, history, Closing, Done, Running, Jobs
  <2>2. CASE BeginDeploy
    BY <1>1, <2>2 DEF Deploy, BeginDeploy, window, waits, history, Closing, Done, Running, Jobs
  <2>q. QED
    BY <1>1, <2>1, <2>2, Zenon DEF Deploy
<1>2. CASE Dismiss
  BY <1>2 DEF Dismiss, RefreshPs, window, waits, history, Closing, Done, Running, Jobs
<1>3. CASE Close
  BY <1>3 DEF Close, Leave, window, waits, history, Closing, Done, Running, Jobs
<1>4. CASE AnswerClose
  <2>1. CASE Leave
    BY <1>4, <2>1 DEF AnswerClose, Leave, window, waits, history, Closing, Done, Running, Jobs
  <2>2. CASE Stay
    BY <1>4, <2>2 DEF AnswerClose, Stay, window, waits, history, Closing, Done, Running, Jobs
  <2>q. QED
    BY <1>4, <2>1, <2>2, Zenon DEF AnswerClose
<1>5. CASE PollStatus
  BY <1>5 DEF PollStatus, RefreshPs, window, waits, history, Closing, Done, Running, Jobs
<1>6. CASE PollTailscale
  BY <1>6 DEF PollTailscale, window, waits, history, Closing, Done, Running, Jobs
<1>7. CASE Output
  BY <1>7 DEF Output, Read, window, waits, history, Closing, Done, Running, Jobs
<1>8. CASE StatusDone
  <2>1. CASE again /\ PsAgain
    BY <1>8, <2>1 DEF StatusDone, PsAgain, window, waits, history, Closing, Done, Running, Jobs
  <2>2. CASE PsForDeploy /\ RefuseChecked(Reset("status"))
    BY <1>8, <2>2 DEF StatusDone, PsForDeploy, RefuseChecked, Message, window, waits, history, Closing, Done, Running, Jobs
  <2>3. CASE PsForDeploy /\ GoAhead(Reset("status"))
    <3>1. CASE ~again
      BY <1>8, <2>3, <3>1, Zenon DEF StatusDone, Done, PsForDeploy
    <3>2. CASE docker' = FALSE
      BY <2>3, <3>2, Zenon DEF PsForDeploy, GoAhead
    <3>3. CASE PsAgain
      BY <3>3 DEF PsAgain, window
    <3>q. QED
      BY <1>8, <3>1, <3>2, <3>3, Zenon DEF StatusDone
  <2>4. CASE PsShown
    BY <1>8, <2>4 DEF StatusDone, PsShown, window, waits, history, Closing, Done, Running, Jobs
  <2>q. QED
    BY <1>8, <2>1, <2>2, <2>3, <2>4, Zenon DEF StatusDone, DeployChecked, PsForDeploy
<1>9. CASE TailscaleDone
  <2>1. CASE IpShown
    BY <1>9, <2>1 DEF TailscaleDone, IpShown, window, waits, history, Closing, Done, Running, Jobs
  <2>2. CASE NoIp
    BY <1>9, <2>2 DEF TailscaleDone, NoIp, Message, window, waits, history, Closing, Done, Running, Jobs
  <2>3. CASE AskPs
    BY <1>9, <2>3 DEF TailscaleDone, AskPs, window, waits, history, Closing, Done, Running, Jobs
  <2>4. CASE NoDocker
    BY <1>9, <2>4 DEF TailscaleDone, NoDocker, Message, window, waits, history, Closing, Done, Running, Jobs
  <2>q. QED
    BY <1>9, <2>1, <2>2, <2>3, <2>4, Zenon DEF TailscaleDone
<1>10. CASE JobDone
  <2>1. CASE job = "pkexec" /\ Failed(rootStep)
    BY <1>10, <2>1 DEF JobDone, Failed, Message, window, waits, history, Closing, Done, Running, Jobs
  <2>2. CASE job = "pkexec" /\ Good("job") /\ Goes("install", TRUE)
    BY <1>10, <2>2 DEF JobDone, Goes, RunJob, window, waits, history, Closing, Done, Running, Jobs
  <2>3. CASE job = "pkexec" /\ Good("job") /\ Succeeded(rootStep)
    BY <1>10, <2>3 DEF JobDone, Succeeded, RefreshPs, window, waits, history, Closing, Done, Running, Jobs
  <2>4. CASE job # "pkexec" /\ Failed(Read(pipe))
    BY <1>10, <2>4 DEF JobDone, Failed, Message, Read, window, waits, history, Closing, Done, Running, Jobs
  <2>5. CASE job = "import" /\ Goes("install", FALSE)
    BY <1>10, <2>5 DEF JobDone, Goes, RunJob, window, waits, history, Closing, Done, Running, Jobs
  <2>6. CASE job \notin {"import", "pkexec"} /\ Read(pipe) # "none" /\ ~afterCert /\ AskRoot(Read(pipe))
    BY <1>10, <2>6 DEF JobDone, AskRoot, Read, window, waits, history, Closing, Done, Running, Jobs
  <2>7. CASE job \notin {"import", "pkexec"} /\ Read(pipe) = "none" /\ Succeeded(Read(pipe))
    BY <1>10, <2>7 DEF JobDone, Succeeded, RefreshPs, Read, window, waits, history, Closing, Done, Running, Jobs
  <2>q. QED
    BY <1>10, <2>1, <2>2, <2>3, <2>4, <2>5, <2>6, <2>7, Zenon DEF JobDone, RootDone, InstallerDone
<1>11. CASE Authorised
  BY <1>11 DEF Authorised, window, waits, history, Closing, Done, Running, Jobs
<1>12. ASSUME NEW c \in {"start", "stop"}, Command(c)
      PROVE  fresh
  <2>1. CASE RunCommand(c)
    BY <1>12, <2>1 DEF Command, RunCommand, window, waits, history, Closing, Done, Running, Jobs
  <2>2. CASE Message("nothing") /\ UNCHANGED <<proc, rootStep, afterCert, history>>
    BY <1>12, <2>2 DEF Command, Message, window, waits, history, Closing, Done, Running, Jobs
  <2>q. QED
    BY <1>12, <2>1, <2>2, Zenon DEF Command
<1>13. ASSUME NEW r \in Runners, Timeout(r)
      PROVE  fresh
  BY <1>13 DEF Timeout, window, waits, history, Closing, Done, Running, Jobs
<1>14. ASSUME NEW r \in Runners, Kill(r)
      PROVE  fresh
  BY <1>14 DEF Kill, window, waits, history, Closing, Done, Running, Jobs
<1>15. ASSUME NEW r \in Runners, Terminate(r)
      PROVE  fresh
  BY <1>15 DEF Terminate, window, waits, history, Closing, Done, Running, Jobs
<1>16. ASSUME NEW s \in Steps \ {"none"}, Prints(s)
      PROVE  fresh
  BY <1>16 DEF Prints, window, waits, history, Closing, Done, Running, Jobs
<1>17. ASSUME NEW r \in Runners, NEW ok \in BOOLEAN, Exits(r, ok)
      PROVE  fresh
  BY <1>17 DEF Exits, window, waits, history, Closing, Done, Running, Jobs
<1>18. CASE UNCHANGED vars
  BY <1>18 DEF vars, window, waits, history, Closing, Done, Running, Jobs
<1>q. QED
  BY <1>1, <1>2, <1>3, <1>4, <1>5, <1>6, <1>7, <1>8, <1>9, <1>10, <1>11, <1>12, <1>13, <1>14, <1>15, <1>16, <1>17, <1>18 DEF Next, Slots

\* All of it together: who keeps Counted needs Flow, who keeps SuccessIsComplete needs Noted.
IInv == TypeOK /\ Flow /\ Counted /\ OnePrompt /\ Noted /\ SuccessIsComplete /\ Swept

\* The inductive invariant, for any number of clicks, probes and message boxes.
THEOREM Inductive == Spec => []IInv
<1>1. Init => IInv
  <2> SUFFICES ASSUME Init PROVE IInv
    OBVIOUS
  <2>1. \A r \in Runners : proc[r] \in Processes /\ proc["job"] = Off /\ Off.at = "off"
    BY Values, OffIsOff DEF Init
  <2>2. TypeOK
    <3>1. proc \in [Runners -> Processes]
      BY Values DEF Init
    <3>2. dialogs \in Seq(Boxes)
      <4>1. <<>> \in Seq(Boxes)
        BY ONLY TRUE
      <4>2. dialogs = <<>>
        BY Zenon DEF Init
      <4>q. QED
        BY ONLY <4>1, <4>2
    <3>3. prompts \in Nat /\ installs \in Nat
      BY DEF Init
    <3>4. Kinds
      BY DEF Init, Kinds, Steps, Jobs
    <3>5. Flags
      BY Zenon DEF Init, Flags
    <3>q. QED
      BY <3>1, <3>2, <3>3, <3>4, <3>5, Zenon DEF TypeOK, Kinds, Flags, Boxes
  <2>3. Flow
    BY <2>1, Zenon DEF Init, Flow, Running, Runners
  <2>4. Counted /\ OnePrompt /\ Noted /\ SuccessIsComplete /\ Swept
    BY Zenon DEF Init, Counted, OnePrompt, Noted, SuccessIsComplete, Swept, Installer
  <2>q. QED
    BY <2>2, <2>3, <2>4 DEF IInv
<1>2. IInv /\ [Next]_vars => IInv'
  BY TypeStep, FlowStep, CountedStep, NotedStep, SweptStep DEF IInv
<1>q. QED
  BY <1>1, <1>2, PTL DEF Spec

\* The window's state keeps its types.
THEOREM TypeCorrect == Spec => []TypeOK
<1>1. IInv => TypeOK
  BY DEF IInv
<1>q. QED
  BY <1>1, Inductive, PTL

\* Busy means that exactly one thing is under way that will call back: a Tailscale probe,
\* a `compose ps` newer than the deploy's question, or the job (builder.py:1194-1281).
THEOREM BusyMeansWork == Spec => []Flow
<1>1. IInv => Flow
  BY DEF IInv
<1>q. QED
  BY <1>1, Inductive, PTL

\* One click asks for root once and runs the installer twice at most (builder.py:1333-1380).
THEOREM AsksOnce == Spec => []OnePrompt
<1>1. IInv => OnePrompt
  BY DEF IInv
<1>q. QED
  BY <1>1, Inductive, PTL

\* Success is told only when the root step asked for was applied (builder.py:277-297, 1414-1428).
THEOREM SuccessComplete == Spec => []SuccessIsComplete
<1>1. IInv => SuccessIsComplete
  BY DEF IInv
<1>q. QED
  BY <1>1, Inductive, PTL

\* No child of ours outlives the window (builder.py:202-213, 1468-1473).
THEOREM NothingLeft == Spec => []NoOrphan
<1>1. IInv => NoOrphan
  BY DEF IInv, Swept, NoOrphan, Runners
<1>q. QED
  BY <1>1, Inductive, PTL

\* Ports are checked against a `compose ps` started for this deploy (builder.py:1106-1156).
THEOREM PortsFresh == Spec => UsesFreshPs
<1>1. IInv /\ [Next]_vars => [job = "" /\ job' \in {"import", "install"} => fresh]_vars
  BY FreshStep DEF IInv
<1>q. QED
  BY <1>1, Inductive, PTL DEF Spec, UsesFreshPs
=============================================================================
