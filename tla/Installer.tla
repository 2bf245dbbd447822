----------------------------- MODULE Installer -----------------------------
(***************************************************************************)
(* setup-jupyterlab-tailscale.sh: deploy (install, update), start, stop,   *)
(* restart and uninstall.  What a command leaves behind when it dies is    *)
(* what the next one starts from: the settings and the host it reads, the  *)
(* secret files and the runtime .env it wrote, and the containers, each    *)
(* with the image, the address and the secrets it was started with.        *)
(* acquire_lock allows one command at a time.                              *)
(***************************************************************************)
EXTENDS Integers, FiniteSets

CONSTANTS
    Addresses,      \* Tailscale IPv4 addresses
    NoAddress,      \* of a container that publishes nothing, of a missing .env
    MaxPasswords,   \* passwords the settings file may name
    Wishes,         \* the settings the user may choose from
    Hosts,          \* the states of the host
    Reverts,        \* TRUE: the user may go back to an earlier password
    MaxCommands,    \* commands given
    MaxChanges,     \* edits of the settings, changes of the host, lost secrets
    MaxFaults       \* commands that die or are killed, and removals that fail

ASSUME AddressAssumption == NoAddress \notin Addresses /\ Addresses # {}
ASSUME BoundAssumption ==
    MaxPasswords \in Nat \ {0} /\ MaxCommands \in Nat /\ MaxChanges \in Nat /\ MaxFaults \in Nat
Services  == {"jupyterlab", "stats", "deps"}
Secrets   == {"hash", "password", "token"}
Modes     == {"auto", "off"}
Webs      == {"ip", "name", "tls"}       \* http://<ip>, http://<name>, https://<name>
Passwords == 1 .. MaxPasswords
Tokens    == 1 .. 4                      \* two old ones in use, one in the file, a new one

Settings  == [password : Passwords, stats : BOOLEAN, https : Modes]
Host      == [ip : Addresses, name : BOOLEAN, cert : {"none", "due", "good"}]
RuntimeEnv == [ip : Addresses, stats : BOOLEAN, mode : Modes, web : Webs]
NoEnv     == [ip |-> NoAddress, stats |-> FALSE, mode |-> "off", web |-> "ip"]
Where     == [ip : Addresses \cup {NoAddress}, web : Webs]
Mounts    == [Secrets -> Nat]            \* 0: not mounted, no such file
Commands  == {"none", "deploy", "start", "stop", "restart", "uninstall"}
Steps     == {"sync", "token", "early", "build", "check", "root", "recheck", "env", "secrets",
              "second", "remove", "up", "packages", "stop", "address", "down", "delete",
              "done", "failed"}
\* of the checks of the name and the certificate: "again" is the second one without an answer
Answers   == {"definite", "noName", "noCert", "again"}

ASSUME ChoiceAssumption == Wishes \subseteq Settings /\ Hosts \subseteq Host /\ Reverts \in BOOLEAN

VARIABLES
    settings,   \* the settings file
    host,       \* what Tailscale answers, and the certificate in TLS_DIR
    stack,      \* whether the app directory holds compose.yaml
    env,        \* the runtime .env
    files,      \* secrets: the password the hash was made from, the password, the token
    box,        \* the containers
    run,        \* the command that runs, or how the last one ended
    cut,        \* a command died after it replaced a secret and before it recreated the containers
    commands, changes, faults

vars == <<settings, host, stack, env, files, box, run, cut, commands, changes, faults>>
counters == <<commands, changes, faults>>

Uses(s) == CASE s = "jupyterlab" -> {"hash"}
             [] s = "stats"      -> {"password", "token"}
             [] s = "deps"       -> {"token"}

Mounted(s)  == [f \in Secrets |-> IF f \in Uses(s) THEN files[f] ELSE 0]
\* what of the .env a container is made with: only the dashboard has the public name
Slice(s, e) == [ip  |-> IF s = "deps" THEN NoAddress ELSE e.ip,
                web |-> IF s = "stats" \/ (s = "jupyterlab" /\ e.web = "tls") THEN e.web ELSE "ip"]
Wanted(e)   == {"jupyterlab"} \cup (IF e.stats THEN {"stats", "deps"} ELSE {})
NotMounted  == [f \in Secrets |-> 0]
Gone == [state |-> "gone", current |-> FALSE, where |-> [ip |-> NoAddress, web |-> "ip"],
         secrets |-> NotMounted]
Runs(s) == [state |-> "running", current |-> TRUE, where |-> Slice(s, env), secrets |-> Mounted(s)]

NoWish == [password |-> 1, stats |-> FALSE, https |-> "off"]
Idle == [name |-> "none", step |-> "done", want |-> NoWish, ip |-> NoAddress, kept |-> NoEnv,
         web |-> "ip", needed |-> FALSE, answer |-> "definite", fresh |-> FALSE, todo |-> {}]
Ended       == run.step \in {"done", "failed"}
At(step)    == run.step = step
Goes(step)  == run' = [run EXCEPT !.step = step]
Ends(step)  == run' = [Idle EXCEPT !.step = step]
Deploying   == run.name = "deploy"

Init ==
    /\ settings \in Wishes /\ host \in Hosts
    /\ stack = FALSE /\ env = NoEnv /\ files = NotMounted
    /\ box = [s \in Services |-> Gone]
    /\ run = Idle /\ cut = FALSE
    /\ commands = 0 /\ changes = 0 /\ faults = 0

(***************************************************************************)
(* Commands.  deploy() loads the settings first; start needs a deployment. *)
(***************************************************************************)
Begin(name, first) ==
    /\ Ended /\ commands < MaxCommands
    /\ commands' = commands + 1
    /\ run' = [Idle EXCEPT !.name = name, !.step = first,
                           !.want = IF name = "deploy" THEN settings ELSE NoWish,
                           !.todo = IF first \in {"stop", "down"} THEN Services ELSE {}]
    /\ UNCHANGED <<settings, host, stack, env, files, box, cut, changes, faults>>

Installed == stack /\ env # NoEnv

Deploy    == Begin("deploy", "sync")
Start     == Installed /\ Begin("start", "address")
Stop      == Installed /\ Begin("stop", "stop")
Restart   == Installed /\ Begin("restart", "stop")
Uninstall == Begin("uninstall", "down")

\* sync_stack, after wait_for_tailscale.
Sync ==
    /\ At("sync")
    /\ stack' = TRUE
    /\ run' = [run EXCEPT !.step = "token", !.ip = host.ip]
    /\ UNCHANGED <<settings, host, env, files, box, cut, counters>>

\* ensure_runner_token: created once and then kept.
NewToken == CHOOSE token \in Tokens : \A s \in Services : box[s].secrets["token"] # token

EnsureToken ==
    LET token == IF files["token"] # 0 THEN files["token"] ELSE NewToken IN
    /\ At("token")
    /\ files' = [files EXCEPT !["token"] = token]
    /\ run' = [run EXCEPT !.step = "early", !.fresh = token # files["token"]]
    /\ UNCHANGED <<settings, host, stack, env, box, cut, counters>>

\* The first write of the runtime .env: with the HTTPS values deployed for this address
\* (read_kept_https_state, apply_kept_https_state), else plain HTTP on the address.
MutantEarly(old) == [ip |-> run.ip, stats |-> run.want.stats, mode |-> run.want.https, web |-> "ip"]
Early(old) ==
    [ip    |-> run.ip, stats |-> run.want.stats,
     mode  |-> IF old = NoEnv THEN run.want.https ELSE old.mode,
     web   |-> old.web]

EarlyEnv ==
    LET old == IF env.ip = run.ip THEN env ELSE NoEnv IN
    /\ At("early")
    /\ env' = Early(old)
    /\ run' = [run EXCEPT !.step = "build", !.kept = old]
    /\ UNCHANGED <<settings, host, stack, files, box, cut, counters>>

\* compose build: the dashboard's image, if it is wanted, and the one of the other two may
\* be new.
Build ==
    /\ At("build")
    /\ \E built \in {{}, {"stats"}, {"jupyterlab", "deps"}, Services} :
          /\ "stats" \in built => env.stats
          /\ box' = [s \in Services |->
                        IF s \in built THEN [box[s] EXCEPT !.current = FALSE] ELSE box[s]]
    /\ Goes("check")
    /\ UNCHANGED <<settings, host, stack, env, files, cut, counters>>

(***************************************************************************)
(* HTTPS: what the address, the name and the certificate allow, or no      *)
(* answer ("noName": tailscale status, "noCert": the certificate check).   *)
(***************************************************************************)
Mode == IF Deploying THEN run.want.https ELSE env.mode

Resolved(answer) ==
    CASE answer = "noName" \/ ~host.name -> "ip"
      [] answer = "definite" /\ host.name /\ Mode = "auto" /\ host.cert # "none" -> "tls"
      [] OTHER -> "name"

\* resolve_https_state, then keep_https_state_on_check_error.
Keep(answer) ==
    IF answer # "definite" /\ run.kept # NoEnv /\ run.kept.mode = Mode
    THEN run.kept.web ELSE Resolved(answer)

Check ==
    /\ At("check")
    /\ \E answer \in {"definite", "noName", "noCert"} :
          /\ answer = "noCert" => Mode = "auto" /\ host.name
          /\ run' = [run EXCEPT !.step = "root", !.answer = answer, !.web = Keep(answer),
                        !.needed = /\ answer = "definite" /\ Mode = "auto"
                                   /\ host.name /\ host.cert # "good"]
    /\ UNCHANGED <<settings, host, stack, env, files, box, cut, counters>>

\* early_root_step: not run here, or run, with a new certificate or without one.
RootStep ==
    /\ At("root")
    /\ \/ Goes("env") /\ UNCHANGED host
       \/ /\ run.needed /\ Goes("recheck")
          /\ \E cert \in {host.cert, "good"} : host' = [host EXCEPT !.cert = cert]
    /\ UNCHANGED <<settings, stack, env, files, box, cut, counters>>

\* ... after which the certificate is checked again (refresh_certificate_state): the name is
\* the one found before, and a check that cannot answer leaves plain HTTP.
Recheck ==
    /\ At("recheck")
    /\ \E answer \in {"definite", "again"} :
          run' = [run EXCEPT !.step = "env", !.answer = answer,
                     !.web = IF answer = "definite" /\ host.cert # "none" THEN "tls" ELSE "name"]
    /\ UNCHANGED <<settings, host, stack, env, files, box, cut, counters>>

\* The second write of the runtime .env; start rewrites what differs (start_follow_https).
Written  == [ip |-> run.ip, stats |-> run.want.stats, mode |-> run.want.https, web |-> run.web]
Followed == [env EXCEPT !.web = run.web]

WriteEnv ==
    /\ At("env")
    /\ env' = IF Deploying THEN Written ELSE Followed
    /\ run' = [run EXCEPT !.step = IF Deploying THEN "secrets" ELSE "up",
                          !.todo = IF Deploying THEN {} ELSE Wanted(env)]
    /\ UNCHANGED <<settings, host, stack, files, box, cut, counters>>

(***************************************************************************)
(* ensure_secrets: hash first, then the password; an unchanged password    *)
(* keeps its hash.                                                         *)
(***************************************************************************)
PasswordKept == files["hash"] # 0 /\ files["password"] = run.want.password

KeepSecrets ==
    /\ At("secrets") /\ PasswordKept
    /\ Goes("remove")
    /\ UNCHANGED <<settings, host, stack, env, files, box, cut, counters>>

MutantFirst == "password"                                    \* the password first
First       == "hash"
Second      == IF First = "hash" THEN "password" ELSE "hash"

WriteHash ==
    /\ At("secrets") /\ ~PasswordKept
    /\ files' = [files EXCEPT ![First] = run.want.password]
    /\ Goes("second")
    /\ UNCHANGED <<settings, host, stack, env, box, cut, counters>>

MutantChanged == run.fresh                                   \* HASH_CHANGED is not set
Changed       == TRUE

WritePassword ==
    /\ At("second")
    /\ files' = [files EXCEPT ![Second] = run.want.password]
    /\ run' = [run EXCEPT !.step = "remove", !.fresh = Changed]
    /\ UNCHANGED <<settings, host, stack, env, box, cut, counters>>

\* Statistics off: compose rm of stats and deps, which only warns when it fails.
RemoveStats ==
    /\ At("remove")
    /\ \E left \in SUBSET (Services \ Wanted(env)) :
          /\ left # {} => faults < MaxFaults
          /\ faults' = IF left = {} THEN faults ELSE faults + 1
          /\ box' = [s \in Services |-> IF s \in Wanted(env) \cup left THEN box[s] ELSE Gone]
    /\ run' = [run EXCEPT !.step = "up", !.todo = Wanted(env)]
    /\ UNCHANGED <<settings, host, stack, env, files, cut, commands, changes>>

\* compose up: one container after the other, stats last (depends_on).  A container is made
\* anew when its image or its configuration changed or when that is forced; a stopped one is
\* started; a running one is left alone.  It mounts the secrets as they are at that moment.
UpOne(s) ==
    /\ At("up") /\ s \in run.todo /\ (s = "stats" => run.todo = {"stats"})
    /\ IF run.fresh \/ [box[s] EXCEPT !.secrets = NotMounted] # [Runs(s) EXCEPT !.secrets = NotMounted]
       THEN /\ \A f \in Uses(s) : files[f] # 0
            /\ box' = [box EXCEPT ![s] = Runs(s)]
       ELSE UNCHANGED box
    /\ run' = [run EXCEPT !.todo = @ \ {s}]
    /\ UNCHANGED <<settings, host, stack, env, files, cut, counters>>

\* A container that should be gone and still runs keeps its old secrets.
UpDone ==
    /\ At("up") /\ run.todo = {}
    /\ cut' = IF run.fresh THEN \E s \in Services \ Wanted(env) : box[s].state = "running" ELSE cut
    /\ IF Deploying THEN run' = [run EXCEPT !.step = "packages", !.fresh = FALSE] ELSE Ends("done")
    /\ UNCHANGED <<settings, host, stack, env, files, box, counters>>

\* apply_requirements is the package runner's business: see JobRunner.
Packages ==
    /\ At("packages") /\ Ends("done")
    /\ UNCHANGED <<settings, host, stack, env, files, box, cut, counters>>

(***************************************************************************)
(* stop, start, uninstall.                                                 *)
(***************************************************************************)
StopOne(s) ==
    /\ At("stop") /\ s \in run.todo
    /\ box' = [box EXCEPT ![s].state = IF @ = "running" THEN "stopped" ELSE @]
    /\ run' = [run EXCEPT !.todo = @ \ {s}]
    /\ UNCHANGED <<settings, host, stack, env, files, cut, counters>>

\* restart goes on with start.
StopDone ==
    /\ At("stop") /\ run.todo = {}
    /\ cut' = FALSE
    /\ IF run.name = "restart" THEN Goes("address") ELSE Ends("done")
    /\ UNCHANGED <<settings, host, stack, env, files, box, counters>>

\* cmd_start follows a changed address, before it reads what it may have to keep.
Address ==
    /\ At("address")
    /\ env' = [env EXCEPT !.ip = host.ip]
    /\ run' = [run EXCEPT !.step = "check", !.ip = host.ip, !.kept = env']
    /\ UNCHANGED <<settings, host, stack, files, box, cut, counters>>

\* remove_project_resources: compose down, by name when that fails, and a warning when that
\* fails too.
Down ==
    /\ At("down")
    /\ \E left \in SUBSET Services :
          /\ left # {} => faults < MaxFaults
          /\ faults' = IF left = {} THEN faults ELSE faults + 1
          /\ box' = [s \in Services |-> IF s \in left THEN box[s] ELSE Gone]
    /\ Goes("delete")
    /\ UNCHANGED <<settings, host, stack, env, files, cut, commands, changes>>

\* rm -rf of the app directory, all of it or, when killed, any part of it.
Delete ==
    /\ At("delete")
    /\ stack' = FALSE /\ env' = NoEnv /\ files' = NotMounted
    /\ Ends("done")
    /\ UNCHANGED <<settings, host, box, cut, counters>>

DeleteSome ==
    /\ At("delete") /\ faults < MaxFaults
    /\ faults' = faults + 1
    /\ stack' \in {stack, FALSE} /\ env' \in {env, NoEnv}
    /\ \E lost \in SUBSET Secrets : files' = [f \in Secrets |-> IF f \in lost THEN 0 ELSE files[f]]
    /\ Ends("failed")
    /\ UNCHANGED <<settings, host, box, cut, commands, changes>>

\* die, set -e, Ctrl-C, SIGKILL: the command ends after any step.
Dies ==
    /\ ~Ended /\ faults < MaxFaults
    /\ faults' = faults + 1
    /\ cut' = (cut \/ run.fresh)
    /\ Ends("failed")
    /\ UNCHANGED <<settings, host, stack, env, files, box, commands, changes>>

(***************************************************************************)
(* The user, the host, Docker.                                             *)
(***************************************************************************)
Edit ==
    /\ changes < MaxChanges /\ changes' = changes + 1
    /\ \E new \in Wishes :
          /\ new # settings /\ (Reverts \/ new.password >= settings.password)
          /\ settings' = new
    /\ UNCHANGED <<host, stack, env, files, box, run, cut, commands, faults>>

HostChanges ==
    /\ changes < MaxChanges /\ changes' = changes + 1
    /\ \E new \in Hosts : new # host /\ host' = new
    /\ UNCHANGED <<settings, stack, env, files, box, run, cut, commands, faults>>

\* A secret is damaged or removed, between two commands.
SecretLost ==
    /\ Ended /\ changes < MaxChanges /\ changes' = changes + 1
    /\ \E f \in Secrets : files[f] # 0 /\ files' = [files EXCEPT ![f] = 0]
    /\ UNCHANGED <<settings, host, stack, env, box, run, cut, commands, faults>>

\* Docker starts a container again (restart: unless-stopped), which needs its secrets.
Restarts(s) ==
    /\ box[s].state = "running"
    /\ IF \A f \in Uses(s) : files[f] # 0
       THEN box' = [box EXCEPT ![s].secrets = Mounted(s)]
       ELSE box' = [box EXCEPT ![s].state = "stopped"]
    /\ UNCHANGED <<settings, host, stack, env, files, run, cut, counters>>

Next ==
    \/ Deploy \/ Start \/ Stop \/ Restart \/ Uninstall
    \/ Sync \/ EnsureToken \/ EarlyEnv \/ Build \/ Check \/ RootStep \/ Recheck \/ WriteEnv
    \/ KeepSecrets \/ WriteHash \/ WritePassword \/ RemoveStats
    \/ \E s \in Services : UpOne(s) \/ StopOne(s) \/ Restarts(s)
    \/ UpDone \/ Packages \/ StopDone \/ Address \/ Down \/ Delete \/ DeleteSome \/ Dies
    \/ Edit \/ HostChanges \/ SecretLost

Spec == Init /\ [][Next]_vars

----------------------------------------------------------------------------
(* Properties                                                              *)

Container == [state : {"gone", "stopped", "running"}, current : BOOLEAN, where : Where,
              secrets : Mounts]
RunState  == [name : Commands, step : Steps, want : Settings, ip : Addresses \cup {NoAddress},
              kept : RuntimeEnv \cup {NoEnv}, web : Webs, needed : BOOLEAN, answer : Answers,
              fresh : BOOLEAN, todo : SUBSET Services]

\* The shape of every variable.
TypeOK ==
    /\ settings \in Settings /\ host \in Host /\ stack \in BOOLEAN
    /\ env \in RuntimeEnv \cup {NoEnv}
    /\ files \in Mounts
    /\ box \in [Services -> Container]
    /\ run \in RunState
    /\ cut \in BOOLEAN /\ commands \in Nat /\ changes \in Nat /\ faults \in Nat

\* ensure_secrets never leaves the hash of another password next to the password, wherever
\* an earlier deploy was interrupted (setup-jupyterlab-tailscale.sh, the comment at 1335):
\* from then on both are the deployed settings' password.
HashOfPassword ==
    Deploying /\ run.step \in {"remove", "up", "packages"} =>
        files["hash"] = run.want.password /\ files["password"] = run.want.password

\* A deploy or restart that reports success leaves every wanted container running with the
\* newest image, the address and scheme of the runtime .env, and the secrets in the files: the
\* dashboard can log in to JupyterLab and to the package runner.  Only after a deploy that died
\* between replacing a secret and recreating the containers (`cut`) may a deploy leave old ones.
Delivered ==
    [][run.name \in {"deploy", "restart"} /\ ~Ended /\ run'.step = "done" =>
          \A s \in Wanted(env) :
              /\ [box'[s] EXCEPT !.secrets = NotMounted] = [Runs(s) EXCEPT !.secrets = NotMounted]
              /\ cut \/ box'[s].secrets = Mounted(s)]_vars

\* ... and in particular JupyterLab and the dashboard have the password of the settings.
ServesSettings ==
    [][Deploying /\ ~Ended /\ run'.step = "done" =>
          /\ box["jupyterlab"].secrets["hash"] = run.want.password
          /\ env.stats => box["stats"].secrets["password"] = run.want.password]_vars

\* The published scheme and host of a deployment change, for one address and one HTTPS mode,
\* only when the name and the certificate could be checked: neither a failed build nor a check
\* without an answer switches them, which would end JupyterLab's kernels.
SwitchNeeds(answers) ==
    env # NoEnv /\ env'.ip = env.ip /\ env'.mode = env.mode /\ env'.web # env.web =>
        run'.kept = NoEnv \/ (At("env") /\ run.answer \in answers)

SwitchOnlyOnAnswer == [][SwitchNeeds({"definite", "again"})]_vars
=============================================================================
