---------------------------- MODULE CommandLine ----------------------------
(***************************************************************************)
(* The programs that share config.yaml and the installer's .env: ./run.sh  *)
(* (thebe/cli.py main) and the builder's Deploy, with users who edit the   *)
(* files and the form meanwhile, and interruptions at any step.  A file is *)
(* replaced by a rename, so others see the old or the new one; what a      *)
(* program writes it has computed from an earlier read.                    *)
(***************************************************************************)
EXTENDS SettingsFile

CONSTANTS
    UserEnvs,      \* .env files people write
    UserConfigs,   \* config.yaml files people write
    FormEdits,     \* settings people enter in the builder: <<key, value>>
    MaxEdits,      \* bound: edits
    MaxCommands    \* bound: commands and deploys

ASSUME CommandAssumption == MaxEdits \in Nat /\ MaxCommands \in Nat

Envs    == [state : {"missing", "unreadable", "latin1", "utf8"}, lines : Seq(Line)]
Configs == [state : {"none", "broken", "yaml"}, nodes : [Known -> Nodes],
            imports : {"none", "ok", "unplannable", "unparsable"}]

\* The form's switch is a check box.
ASSUME FilesAssumption ==
    /\ UserEnvs \subseteq Envs /\ UserConfigs \subseteq Configs
    /\ \A f \in FormEdits :
          /\ f \in Known \X AnyText
          /\ f[1] = "STATS_ENABLED" => f[2] \in {"0", "1"}

VARIABLES
    config,     \* config.yaml
    env,        \* the settings file: its state and its lines
    reqs,       \* requirements.txt: "none", "good", "bad"
    at,         \* where each program is
    cmd,        \* the command of run.sh
    using,      \* the settings and imports each program works with
    text,       \* the lines each program is about to write
    code,       \* the last exit code of run.sh
    edits, commands,
    did,        \* (history) what the command of run.sh has changed
    listOk,     \* (history) requirements.txt was acceptable at some time since it began
    saved,      \* (history) the settings last written to the .env
    wrote,      \* (history) what a program last wrote to config.yaml, until a user edits it
    chosen      \* (history) the passwords a user has written, or left out, somewhere

files   == <<config, env, reqs>>
history == <<did, saved, wrote, chosen>>
vars    == <<files, at, cmd, using, text, code, edits, commands, history, listOk>>

Programs  == {"run", "builder"}
Applying  == {"install", "start"}     \* update as install, restart as start
Passing   == {"stop"}                 \* and status, logs, uninstall
Commands  == Applying \cup Passing \cup {"init", "check", "import"}
Nothing   == [settings |-> DEFAULTS, imports |-> "none", usable |-> TRUE]
Missing   == [state |-> "missing", lines |-> <<>>]
NoConfig  == [state |-> "none", nodes |-> [k \in Known |-> Null], imports |-> "none"]

\* The password a file holds, by its reader's rules.
PasswordsOf(c) == IF c.state # "yaml" THEN {} ELSE {ConfigSettings(c).JUPYTER_PASSWORD}
PasswordIn(e)  == {ParseSettings(e.lines, DEFAULTS).JUPYTER_PASSWORD}

Init ==
    /\ env \in UserEnvs /\ config \in UserConfigs /\ reqs \in {"none", "bad"}
    /\ at = [run |-> "idle", builder |-> "closed"] /\ cmd = "check"
    /\ using = [p \in Programs |-> Nothing] /\ text = [p \in Programs |-> <<>>]
    /\ code = 0 /\ edits = 0 /\ commands = 0
    /\ did = {} /\ listOk = (reqs # "bad") /\ saved = DEFAULTS /\ wrote = {}
    /\ chosen = PasswordIn(env) \cup PasswordsOf(config)

GoTo(p, step)  == at' = [at EXCEPT ![p] = step]
Rest(p)        == IF p = "run" THEN "idle" ELSE "open"
Keep(step)     == GoTo("run", step) /\ UNCHANGED <<files, cmd, using, text, code, edits, commands, history>>
Exit(n)        == GoTo("run", "idle") /\ code' = n
ExitOnly(n)    == Exit(n) /\ UNCHANGED <<files, cmd, using, text, edits, commands, history>>

----------------------------------------------------------------------------
(* run.sh: main() of cli.py                                                *)

\* The dispatch; an unknown command, or install with arguments, ends with 2 here.
Run(c) ==
    /\ at.run = "idle" /\ commands < MaxCommands /\ commands' = commands + 1
    /\ cmd' = c /\ did' = {}
    /\ UNCHANGED <<files, using, text, edits, saved, wrote, chosen>>
    /\ IF c = "init" /\ config.state # "none" THEN Exit(0)
       ELSE /\ GoTo("run", IF c \in Applying \cup {"init"} THEN "ensure"
                           ELSE IF c \in Passing /\ config.state = "none" THEN "installer" ELSE "read")
            /\ code' = 0

\* ensure_config: a first config.yaml from the settings file.  Nobody catches an OSError
\* of its write_private_file, before the rename or after it (the chmod).
Created == LET s == LoadSettingsFile(env) IN config' = RenderConfig(s, "none") /\ wrote' = {s}
EnsureConfig ==
    LET next == IF cmd = "init" THEN "idle" ELSE "read" IN
    /\ at.run = "ensure"
    /\ \/ config.state # "none" /\ UNCHANGED <<config, wrote, code>> /\ GoTo("run", next)
       \/ config.state = "none" /\ Created /\ UNCHANGED code /\ GoTo("run", next)
       \/ config.state = "none" /\ (Created \/ UNCHANGED <<config, wrote>>) /\ Exit(1)
    /\ UNCHANGED <<env, reqs, cmd, using, text, edits, commands, did, saved, chosen>>

\* read_config: strict except for the commands that pass through.
ReadConfig ==
    /\ at.run = "read"
    /\ LET lenient == cmd \in Passing
           usable  == config.state = "yaml"
           clean   == usable /\ ConfigProblems(config) = {} /\ Valid(ConfigSettings(config))
       IN IF clean \/ (lenient /\ usable)
          THEN /\ using' = [using EXCEPT !.run = [settings |-> ConfigSettings(config),
                                                  imports |-> config.imports, usable |-> TRUE]]
               /\ GoTo("run", CASE lenient -> "installer" [] cmd = "start" -> "save"
                                [] cmd = "check" -> "packages" [] OTHER -> "plan")
               /\ UNCHANGED <<files, cmd, text, code, edits, commands, history>>
          ELSE IF lenient THEN Keep("installer") ELSE ExitOnly(2)

\* plan_config_imports and packages_ok: checked before anything is written.
PlanImports ==
    /\ at.run = "plan"
    /\ IF using.run.imports = "unplannable" THEN ExitOnly(2)
       ELSE IF cmd # "import" THEN Keep("packages")
       ELSE IF using.run.imports = "none" THEN ExitOnly(0) ELSE Keep("copy")

PackagesOk ==
    /\ at.run = "packages"
    /\ IF reqs = "bad" THEN ExitOnly(2) ELSE IF cmd = "check" THEN ExitOnly(0) ELSE Keep("save")

\* The installer, attached to the terminal; its exit code is passed on, be it 2 as well.
RunInstaller ==
    /\ at.run = "installer"
    /\ \E n \in {0, 1, 2} : ExitOnly(n)

----------------------------------------------------------------------------
(* save_settings and the import, for both programs                         *)

Refused(p) ==
    IF p = "run" THEN ExitOnly(2)
    ELSE GoTo(p, "open") /\ UNCHANGED <<files, cmd, using, text, code, edits, commands, history>>

\* save_settings up to its checks: nothing that the installer would refuse is written.
SaveChecked(p) ==
    /\ at[p] = "save"
    /\ LET lines == RenderSettings(env.lines, using[p].settings) IN
       IF \/ env.state \in {"unreadable", "latin1"}
          \/ \E k \in Known : HasControl(using[p].settings[k])
          \/ LineProblems(lines) # {}
       THEN Refused(p)
       ELSE /\ text' = [text EXCEPT ![p] = lines] /\ GoTo(p, "replace")
            /\ UNCHANGED <<files, cmd, using, code, edits, commands, history>>

\* write_private_file: the rename ...
Renamed(p) ==
    /\ env' = [state |-> "utf8", lines |-> text[p]] /\ saved' = using[p].settings
    /\ did' = IF p = "run" THEN did \cup {"env"} ELSE did
    /\ UNCHANGED <<config, reqs, cmd, using, text, edits, commands, wrote, chosen>>

\* ... or an error before it, or one after it: the chmod of the new file is outside the
\* try, and for save_settings an OSError like any other.
MutantReplace(p) ==   \* the packages are checked after the settings are written
    /\ at[p] = "replace" /\ Renamed(p)
    /\ GoTo(p, IF p = "builder" THEN "config" ELSE "packages") /\ UNCHANGED code
Replace(p) ==
    /\ at[p] = "replace"
    /\ \/ Refused(p)
       \/ Renamed(p) /\ (IF p = "run" THEN Exit(2) ELSE GoTo(p, "open") /\ UNCHANGED code)
       \/ /\ Renamed(p) /\ UNCHANGED code
          /\ GoTo(p, IF p = "builder" THEN "config"
                     ELSE IF cmd = "install" /\ using.run.imports = "ok" THEN "copy" ELSE "installer")

\* copy_imports; the import of the builder is a run.sh of its own.
CopyImports(p) ==
    /\ at[p] = "copy"
    /\ did' = IF p = "run" THEN did \cup {"copied"} ELSE did
    /\ UNCHANGED <<files, cmd, using, text, edits, commands, saved, wrote, chosen>>
    /\ \/ IF p = "run" THEN Exit(1) ELSE GoTo(p, "open") /\ UNCHANGED code
       \/ IF p = "run" /\ cmd = "import" THEN Exit(0) ELSE GoTo(p, "installer") /\ UNCHANGED code

----------------------------------------------------------------------------
(* The builder                                                             *)

Use(u) == using' = [using EXCEPT !.builder = u]

\* _load_settings: the form shows config.yaml, or the settings file until it exists.
Open ==
    /\ at.builder = "closed" /\ GoTo("builder", "open")
    /\ CASE config.state = "yaml" ->
              Use([settings |-> ConfigSettings(config), usable |-> TRUE,
                   imports |-> IF config.imports = "unparsable" THEN "none" ELSE config.imports])
         [] config.state = "none" -> Use([Nothing EXCEPT !.settings = LoadSettingsFile(env)])
         [] OTHER -> Use([Nothing EXCEPT !.usable = FALSE])
    /\ UNCHANGED <<files, cmd, text, code, edits, commands, history>>

EditForm(k, v) ==
    /\ at.builder = "open" /\ edits < MaxEdits /\ edits' = edits + 1
    /\ Use([using.builder EXCEPT !.settings[k] = v])
    /\ chosen' = IF k = "JUPYTER_PASSWORD" THEN chosen \cup {v} ELSE chosen
    /\ UNCHANGED <<files, at, cmd, text, code, commands, did, saved, wrote>>

\* deploy and _deploy_checked: refused, or on to save_settings.
Deploy ==
    /\ at.builder = "open" /\ commands < MaxCommands /\ commands' = commands + 1
    /\ Valid(using.builder.settings) /\ using.builder.imports # "unplannable"
    /\ reqs # "bad" /\ using.builder.usable
    /\ GoTo("builder", "save")
    /\ UNCHANGED <<files, cmd, using, text, code, edits, history>>

\* ... and save_config, which may fail too, before its rename or after it; then the
\* import, if any, and the installer.
SaveConfig ==
    /\ at.builder = "config"
    /\ \/ Refused("builder")
       \/ /\ config' = RenderConfig(using.builder.settings, using.builder.imports)
          /\ wrote' = {using.builder.settings}
          /\ \/ GoTo("builder", "open")
             \/ GoTo("builder", IF using.builder.imports = "ok" THEN "copy" ELSE "installer")
          /\ UNCHANGED <<env, reqs, cmd, using, text, code, edits, commands, did, saved, chosen>>

InstallerEnds == at.builder = "installer" /\ Refused("builder")

----------------------------------------------------------------------------
(* Users                                                                   *)

EditConfig(c) ==
    /\ edits < MaxEdits /\ edits' = edits + 1
    /\ config' = c /\ wrote' = {} /\ chosen' = chosen \cup PasswordsOf(c)
    /\ UNCHANGED <<env, reqs, at, cmd, using, text, code, commands, did, saved>>

\* The .env by hand, or converted to UTF-8, between two commands.
EditEnv(e) ==
    /\ edits < MaxEdits /\ edits' = edits + 1
    /\ at.run = "idle" /\ at.builder \in {"closed", "open"}
    /\ env' = e /\ chosen' = chosen \cup PasswordIn(e)
    /\ UNCHANGED <<config, reqs, at, cmd, using, text, code, commands, did, saved, wrote>>

EditRequirements(r) ==
    /\ edits < MaxEdits /\ edits' = edits + 1 /\ reqs' = r
    /\ UNCHANGED <<config, env, at, cmd, using, text, code, commands, history>>

\* Ctrl-C, a power cut, the window closed: at most an unused temporary file is left.
Stops(p) ==
    /\ at[p] \notin {"idle", "closed"}
    /\ GoTo(p, IF p = "run" THEN "idle" ELSE "closed")
    /\ code' = (IF p = "run" THEN 130 ELSE code)
    /\ UNCHANGED <<files, cmd, using, text, edits, commands, history>>

User ==
    \/ \E c \in UserConfigs : EditConfig(c)
    \/ \E e \in UserEnvs : EditEnv(e)
    \/ \E r \in {"none", "good", "bad"} : EditRequirements(r)
    \/ \E f \in FormEdits : EditForm(f[1], f[2])
    \/ \E c \in Commands : Run(c)

Program(p) == SaveChecked(p) \/ Replace(p) \/ CopyImports(p) \/ Stops(p)

Observe == listOk' = ((at.run # "idle" /\ listOk) \/ reqs' # "bad")

Next ==
    /\ \/ User
       \/ EnsureConfig \/ ReadConfig \/ PlanImports \/ PackagesOk \/ RunInstaller
       \/ Open \/ Deploy \/ SaveConfig \/ InstallerEnds
       \/ \E p \in Programs : Program(p)
    /\ Observe

Spec == Init /\ [][Next]_vars

----------------------------------------------------------------------------
(* Properties                                                              *)

Deploying(p) == at[p] = "installer" /\ (p = "run" => cmd \in Applying)

\* "the Python side never accepts what the installer refuses" (settings.py:5): whoever
\* starts the installer to deploy, it finds an .env without a line it refuses, and reads
\* from it exactly the settings that were last checked and saved, whatever duplicates,
\* broken lines and other programs' rewrites came before.  (Not so for a port with white
\* space around it, which Python strips and the installer does not.)
InstallerReadsSaved ==
    \A p \in Programs : Deploying(p) /\ (\A k \in Ports : saved[k] = Strip(saved[k])) =>
        /\ env.state = "utf8" /\ InstallerAccepts(env.lines)
        /\ InstallerValues(env.lines) = [saved EXCEPT !.STATS_ENABLED = NormalizeBool(@)]

\* What a program wrote to config.yaml is what every program will read from it, YAML's
\* ideas of numbers and switches included.  (A first config.yaml takes an unknown HTTPS
\* mode over from the .env, to be refused with a message.)
ConfigReadsBack ==
    \A s \in wrote : s.HTTPS \in HttpsModes =>
        config.state = "yaml" /\ ConfigProblems(config) = {} /\ ConfigSettings(config) = s

\* What was saved is what is read, from either file.
SavedIsRead == InstallerReadsSaved /\ ConfigReadsBack

\* "Checked before anything is written" (cli.py:259; README.md:383, "refuse an invalid
\* configuration ... before anything is written"): once a command of run.sh has replaced
\* the .env or begun to copy, what it works with has passed all it checks, whatever users
\* and the builder did to the files meanwhile; and main() never ends a command with 2 when
\* an earlier step of it has changed something.  (The write of the .env that fails in its
\* last step, the chmod, and the installer's own 2 are no refusals: README, section 4.)
InOrder ==
    /\ Valid(using.run.settings) /\ using.run.imports # "unparsable"
    /\ cmd # "start" => using.run.imports # "unplannable"
    /\ cmd = "install" => listOk
CheckedFirst ==
    /\ [](at.run # "idle" /\ did # {} => InOrder)
    /\ [][at.run \notin {"idle", "installer"} /\ at'.run = "idle" /\ code' = 2 => did = {}]_vars

\* A first config.yaml is made from the settings file and the settings file is rewritten
\* from it: what run.sh deploys is a password that somebody chose.  (Not so: README, section 4.)
PasswordKept ==
    Deploying("run") /\ at.builder = "closed" =>
        InstallerValues(env.lines).JUPYTER_PASSWORD \in chosen
=============================================================================
