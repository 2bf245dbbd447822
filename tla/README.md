# thebe: TLA+ models, checks and proofs

thebe deploys a single-user JupyterLab behind Tailscale: a set of containers,
an installer, a dashboard, a package runner and a desktop builder. This
directory holds TLA+ modules of its stateful parts, the TLC configurations that
check them on small instances, and TLAPS proofs of what holds for every
instance. `PROJECT.json` lists components, runs, hazards, theorems and, for each
definition, the source lines it stands for.

## 1. The system

| Part | Source | State it keeps | Operations | Talks to |
|---|---|---|---|---|
| Package jobs | `stack/jupyter/deps_runner.py`, `JobRunner` | per process: the job, a lock, the subprocess, the open log; on the volume: `requirements.txt`, `baseline.txt`, `job.json`, `baseline.json`, `job.log`, the venv, the flock | save lists, clear cache, start, cancel, shutdown, job thread | pip and venv subprocesses; other processes through the volume |
| Runner HTTP API, deploy client | same file: `Handler`, `_baseline_remote`, `_baseline_local`, `_Api` | offset in the log, job id waited for | state, log, lists, jobs, cancel, cache; check and install a baseline | JobRunner; the installer (`docker exec` or a one-off container) |
| Lists | same file, `validate_requirements` ...; `thebe/packages.py` | none | normalise, validate, digest | both of the above |
| Directory sizes | same file, `Sizes` | last sizes, walk in progress | refresh, snapshot | JobRunner |
| Dependencies page | `stats/static/deps.js`, `stats/depsapi.py`, `stats/app.py` proxies | job id and offset of the shown log, unsaved text | poll, save, run, cancel, clear | runner API through the dashboard |
| Dashboard data | `stats/cache.py`, `jupyterapi.py`, `gpustats.py`, `hoststats.py` | cached values, a session with JupyterLab, the GPU library, last counters | refresh, read | JupyterLab's REST API, NVML, /proc |
| Dashboard frontend | `stats.js`, `pages.py`, `theme.py`, `security.py`, `serve.py`, health checks | the page's timers | draw | dashboard data |
| Notebook import | `thebe/imports.py` | target directories and their markers | plan, claim, copy | the command line |
| Installer | `setup-jupyterlab-tailscale.sh` | settings, secrets, lock, HTTPS state, containers, firewall rules | deploy, start, stop, restart, settings, uninstall | Docker, Tailscale, the deploy client |
| Command line | `thebe/cli.py`, `config.py`, `settings.py`, `stack.py`, `theme.py` | the merged configuration | main | import, installer |
| Desktop builder | `builder.py` | the running process, the steps left | deploy chain, cancel | command line, installer |
| CUDA check | `verify_cuda.sh` | packages to restore | install, verify, clean up | pip |
| Bootstrap, container configuration, assets | `lib/venv.sh`, `run*.sh`, `stack/Dockerfile`, compose files, CSS, themes | none | | |

How the parts interact. The builder runs the command line, the command line
imports notebooks and runs the installer, the installer writes secrets and
settings, recreates containers and hands the project's `requirements.txt` to the
package runner: over HTTP inside the running `deps` container, or with
`baseline --local` in a one-off container when statistics are off. The
Dependencies page reaches the same runner through the dashboard's proxies. Server
and one-off share one Docker volume and nothing else: `flock` and atomic file
replacement are all that coordinates them.

What is hard about it, part by part, and what makes each correct:

- **Package jobs.** Handler threads, one job thread, `kill_later` threads and log
  pumps share one object; a second process shares the files; the container can be
  killed between any two steps; a build backend may outlive its job. Correct means:
  one writer of the venv; an "installed" record that is never wrong; a log that
  belongs to the job it is served for; a cancel that works; a lock that is given
  back.
- **Deploy client.** Its answers come from files other threads change while it
  reads; between "is it up to date" and "start" a page user may act. Correct
  means: a skipped install has nothing to install; a reported result is its own
  job's.
- **Dependencies page.** The log shrinks, the runner restarts, answers arrive after
  a newer job began. Correct means: the text shown is one job's log, a prefix of it.
- **Dashboard data.** Requests race for one refresh; JupyterLab restarts and changes
  its password. Correct means: one load at a time, no request waits for ever, no
  login storm, no negative rates.
- **Notebook import.** Host and JupyterLab user change both trees between any two file
  operations; a crash, a full disk, a second import at the same time. Correct means: only the
  directory marked for a source is written to, nothing in it is deleted, no file is
  half-written, and success means copied.
- **Installer.** Steps fail one by one while old containers run; the next command starts from what
  the last one left. Correct means: after a later successful deploy all parts use the same secrets; the
  published scheme does not change without a reason; two installers never work at once;
  uninstall removes what was installed and nothing else.
- **Builder, CUDA check.** Late signals of a cancelled process; restoring what an
  interrupted run changed.

## 2. Modules

| Module | What it is |
|---|---|
| `JobRunner` | `JobRunner` of `deps_runner.py` in any number of server and one-off processes, the volume they share, their subprocesses, crashes |
| `MCJobRunner` | small instances for TLC, used by all `JobRunner_*.cfg` |
| `VenvService` | abstract specification: what the runner promises about the environment |
| `JobRunnerService` | the refinement mapping from `JobRunner` to `VenvService` |
| `JobRunnerProofs` | inductive invariants and theorems about `JobRunner` and `BaselineDeploy`: the simulation of `VenvService`, the composition as a `JobRunner`, what a deploy's answers are worth |
| `RunnerLog` | the job and its log as an HTTP client sees them (`GET /state`, `GET /log`) |
| `DepsPage` | `deps.js` on top of `RunnerLog`: polling and buttons, requests in flight |
| `DepsPageProofs` | types, and the order of the pieces the pane shows |
| `ListRunner` | the requirements list and its jobs as clients of the runner see them: one method, one step |
| `ListEditor` | `deps.js`: the editor, typed text, saves and the state answers that overtake them, on top of `ListRunner` |
| `CudaCheck` | `verify_cuda.sh` on top of `ListRunner`: install, try, restore; interrupted anywhere |
| `PageClients`, `MCPageClients` | the editor and the script, one followed per behaviour; a small instance |
| `PageClientsProofs` | inductive invariants and theorems about both |
| `Imports` | `imports.py`: claim, marker, copy, with edits on both sides, failures, crashes, several importers |
| `MCImports` | small instances for TLC, used by all `Imports_*.cfg` |
| `ImportsProofs` | invariants and theorems about `Imports` |
| `Installer` | the setup script: deploy, start, stop, restart, uninstall, dying at any step, over changing settings and hosts |
| `MCInstaller` | small instances for TLC, used by all `Installer_*.cfg` |
| `InstallerProofs` | invariants and theorems about `Installer` |
| `BaselineDeploy` | `deps_runner.py baseline`: the deploy's client, composed with the `JobRunner`s it talks to or is |
| `MCBaselineDeploy` | small instances for TLC |
| `Dashboard` | `cache.py`, `app.py`'s gathering, `jupyterapi.py`: requests, one loader per source, the session with JupyterLab |
| `HostStats` | the `Sampler` of `hoststats.py`: rates and percentages from counters |
| `GpuReader` | `gpustats.py`: NVML opened, retried, let go of |
| `Sizes` | `Sizes` of `deps_runner.py` |
| `Figures`, `MCFigures` | the four sources above, one followed per behaviour; a small instance |
| `FiguresProofs` | inductive invariants and theorems about `Dashboard`, `HostStats` and `Sizes`, and `Figures` as a `Dashboard` |
| `Builder` | `builder.py`: `Runner` and the `MainWindow` chains |
| `BuilderProofs` | its inductive invariant and theorems |
| `SettingsFile` | what the settings mean in `.env` (`settings.py`, the installer's reader) and in `config.yaml` (`config.py`) |
| `CommandLine` | `main()` of `cli.py` and the builder's saves over the shared files |
| `Requirements` | `validate_requirements` and `requirement_count`, beside pip's reading |
| `ProjectFiles`, `MCProjectFiles` | `CommandLine` and `Requirements` together; files people write |
| `ProjectFilesProofs` | inductive invariants and theorems about `CommandLine`, for any files, and about `Requirements`, for texts of any length |

### JobRunner

One action is what the code does between two points where another thread, another
process or a crash can be noticed:

- `BootRead`, `BootPersist` are `__init__`/`_load_job`. Rewriting a job found
  "running" as "interrupted" is a step of its own, with no lock across processes.
- `start()` is `StartFlock`, `StartMark`, `StartTruncate`, `StartPublish`, with
  `StartFails` for its `except BaseException`. It holds `self._lock` throughout:
  `Locked(p)` is "start() is somewhere inside", and every other method, which holds the
  lock for one step, tests `~Locked(p)`. Separate steps are needed because another
  process or a crash can come between them.
- `SaveRequirements`, `SaveBaseline`, `ClearCache`/`ClearCacheDone`, `Cancel`,
  `Shutdown` are the methods of these names. A request that is in flight when SIGTERM
  comes goes on (`Serving`).
- The job thread is `worker`, a program counter: `Begin`, `RemoveTree`,
  `CheckCancelled`, `Check`, `MakeVenv`, `Pip`, `CommandDone`, then `_run`'s finally block as
  `Finish`, `CloseLog`, `Record`, `Release`. The exception path of `_run` is
  `Returns(p, "failed")`.
- `ChildEnds` is the subprocess. When pip fails or is killed the venv has any subset
  of what it had and what was asked for; when it succeeds it has all that was asked
  for and any subset of the rest (pip may have moved a version).
- `GraceExpires`, `KillFires` are `kill_later`, one pending thread per subprocess and any
  number of late ones; `OrphanWrites`, `OrphanEnds` a log-pump thread `_command` gave up
  waiting for.
- `Crash` is the end of the container at any step, `Exit` the ordinary end of a process.
  Memory, threads, subprocess and flock go, files stay. An atomically replaced file
  (`write_atomic`) is one step; a directory being removed is not (`Torn`).

Data is abstract. A requirements text is a model value, and `NoPkgs` stands for every
text without packages and for "digest of nothing". The venv is "absent", "broken" (no
working Python) or "ok" with the set of texts it satisfies. The log is the set of jobs
whose output it holds. A digest is the text itself: SHA-256 is taken as injective.
A history begins on a volume that earlier deploys have left: `Volume(t)` for a `t` in `Earlier`, either new (`NoPkgs`) or with the
environment of `t`, the records of its install, and a `baseline.txt` that may have been emptied since.

Two switches name what the environment may do: `WritesFail`, whether a write that the
code only logs on `OSError` may fail, and `Daemonises`, whether a build backend may
leave its process group and keep the pipe. Bounds: `MaxJobs` jobs and `MaxStops`
crashes and SIGTERMs over all processes, and nothing else.

### VenvService and JobRunnerService

`VenvService` is the runner without threads, handlers, lists, logs and job records: an owner, a
record, an environment. A process acquires the environment, withdraws the record, changes the
environment, commits a new record, releases; a death in between leaves any environment and no
record. `JobRunnerService` maps `flock` to the owner, `baseline.json` to the record and the venv to
itself. `KeepsPromise` is the abstract specification under that mapping. Whether a committed
record must be true (`Truthful`) depends on being the only process: see the end of section 4.

### RunnerLog and DepsPage

`RunnerLog` keeps of the runner what decides a reader's view: `start()` truncates the log before it
publishes the job, the terminal status is visible before the last line is written and the log closed,
and `GET /log` copies the job first and opens the file later. A log is its length, a
piece stands for any whole characters (`utf8_safe_end` never returns part of one).

`DepsPage` has the page's variables (`known`, `logJobId`, `logOffset`, `shown` ...) and its two coroutines,
`tick()` and the one a button starts. Each `await` is a point where the other coroutine, the runner,
another client, a restart or a lost request may act: a request is sent, looked at by the
runner in one or two steps, and answered or lost. `Fresh`, `ChunkAppends` and `resetLog` are the
lines that decide what is shown; `Renders` is `refreshState`, `PollEnds` the
`Promise.all` of `tick()`.

### ListRunner, ListEditor, CudaCheck

`ListRunner` is what two more clients of the runner rely on: `Saves`, `Starts`, `OtherClears` are `PUT /requirements`,
`POST /jobs`, the cache clean-up, with the conditions under which the code answers 400 or 409. A new job is refused also after the last one's
terminal status is seen, until its worker has closed the log and released the flock (`closing`, `Held`, `JobCloses`); a save is not. A text is the set of its lines and
whether it ends in a line break, because `validate_requirements` adds one and the editor then takes the stored text over.

`ListEditor` has the coroutine of `tick()` and that of a button in flight at once. `StateReadsList` and `StateCopiesJob` are
`Handler.state`, which reads the file before it copies the job; `PutStores`, `PostStarts`, `Refuses` the other handlers; `Loses` a
time-out or a proxy's 503, after which the request may still be handled (`OtherSaves`, `OtherStarts`). On the page, `Render` is
`renderState`, `Saved` and `NotSaved` the two ends of `save()`, `PressesInstall` and `Started` are `startJob`, `Refreshed` is the state
it asks for after a refusal. `unsaved`, `pressed`, `overtaken` are history: what was typed and never stored, the text when Install
was pressed, whether an answer was taken over that a save had made old.

`CudaCheck` has one action per call of the script: `KernelRuns` (the notebook kernel, before and after), `Waits`, `Summary`, `Confirms`,
`Puts`, `Installs`, `Follows` and `Asks` (the log says whether a job runs, the state how it ended), `Verdict`, `Restores`, `Resets`, `Clears`.
A call is handled and answered, refused, lost, or handled and its answer lost. `Interrupt` is the trap, at any step; the call that was on its way
goes on in the container (`Late`). `Left` says which packages a job leaves. `code` is the exit code, `report` what the kernel said of torch.

### Imports

A path is the sequence of its names, so a deleted directory takes with it what is below. A file's
contents are the set of edits its bytes stem from: `{3}` is what edit 3 wrote, `{1, 3}` a copy made
while edit 3 rewrote edit 1's file, `{}` a file whose writer died, and `{p}` one importer `p`
still writes to. An edit is its own modification time and size: two edits never agree on both.

- `Start`, `Leave` are the loop of `run_imports`; `Claim`, `OpenDest`, `Mark`, `Claimed`, `Refuse` are `_claim`.
  `mkdir`, `open` and the marker are separate steps.
- `frames` is the stack of `_copy_dir` calls. Each frame holds the entries `scandir` listed and is read
  later; `src` and `dst` say whether the open descriptors still lead to where the path leads.
- `Skip`, `Unchanged`, `Look`, `Fill`, `Rename` are `_copy_file` and `_write_file_at`: `fstat`/`lstat` and the
  temporary file; the bytes and `utime`; `os.replace`. `Fill` writes to whatever the open descriptor
  leads to, also a file another importer has renamed meanwhile. `Enter` is `_copy_subdir`.
- `Fails` is `ImportFailed` at any step with what the except and finally blocks do, because of a failing
  disk (`WritesFail`) or because something vanished (`Stuck`). `Crash` is the killed process.
- `HostEdits`, `UserEdits` write, make or remove any entry at any moment.

Some system calls are one step where nothing in between is told apart: `fstat`, `lstat`, `unlink`
and `open(O_EXCL)` of the temporary file (a second importer between the last two makes the open
fail, as `Fails` does at the next step), `mkdir` and `open` of a subdirectory, `open` of the source and its
`scandir`.

### Installer

One command runs at a time (`acquire_lock`); `run` is how far it is, with the shell variables that live as
long as it does: the settings loaded (`want`), the address, the HTTPS state kept and found, `fresh` for
`HASH_CHANGED` or `TOKEN_CHANGED`. What outlives it: `stack` and `env` (`.env`), `files` (the secrets),
`box` (the containers). A step of `deploy()` that writes, or that another can come after, is an action:

- `Sync`, `EnsureToken`, `EarlyEnv` (first write of `.env`, with the kept HTTPS values), `Build`, `Check`
  (`resolve_https_state`, `keep_https_state_on_check_error`), `RootStep`, `Recheck` (`early_root_step`),
  `WriteEnv`, `KeepSecrets` or `WriteHash` and `WritePassword` (`ensure_secrets`), `RemoveStats`, `UpOne` per
  container and `UpDone`, `Packages`.
- `Address` is what `cmd_start` does before it joins deploy's steps at `Check`; restart is stop and
  then start. `Down`, `Delete`, `DeleteSome` are uninstall.
- `Dies` ends a command after any step: `die`, `set -e`, a signal. `Edit`, `HostChanges`, `SecretLost` happen
  between or during commands; `Restarts` is Docker's restart policy.

`compose up` leaves a running container alone unless its image or its configuration changed
or `--force-recreate` is given: `UpOne` compares everything but the secrets, which are not part of
Compose's configuration hash. A secret file is mounted as it is when a container is started.

Data is abstract. A password is a number that grows with each new one (`Reverts` allows going back), 0 is
"no such file", the hash is the password it was made from. The scheme and host are one of "ip", "name",
"tls"; a certificate is "none", "due" for renewal or "good". `cut` is a history variable: a command died while
`fresh`, and the containers have not been started anew since.

### BaselineDeploy

Extends `JobRunner`; its own variables are the client's. `Put`, `Recorded`, `Probe`, `DryRun` are `PUT /baseline`,
whose second half, `baseline_check`, runs without the lock, so every look is a step. `Post` and `PostAnswered` are
`POST /jobs` (`start()` in the runner is `JobRunner`'s own actions in between). `Follow` and `Ask` are the log loop and the last
`GET /state`, `Refused` is `call_when_free`, `Interrupt` Ctrl-C while following, `GivesUp` every other way to lose the
connection. A client that has no server is itself a one-off process (`target \in OneOffs`), its `Follow` waits for the
thread, and `Ends` keeps that process alive as long as it asks. `Page` is what page users do meanwhile: the handlers
of `JobRunner`. The dry run of pip and the probe of Python may fail for reasons of their own; an image whose digest differs
from the recorded one is the second alternative of `Recorded`. `met` and `overtaken` are history variables: the environment had the deployed
list's packages at some state of this deploy; another process was inside `start()`, with `baseline.txt` read and no mark made yet, when the deploy stored its own text.

### Dashboard, HostStats, GpuReader, Sizes, Figures

- `Dashboard`: `Request` is what one HTTP request does before its first wait (`get()` of every source of the
  endpoint), `Answer` the end of its waits, `Refreshed` the end of `_refresh`. What the answer is `Gathered` from may include `"local"`,
the request's own thread for /proc, /sys and `statvfs` (`LocalRead`); no time limit applies to that one (app.py:241). The blocking loader is a thread: the
  `JupyterClient` step by step (`List`, `Login`, `LoginPage`, `LoginPost`, `ListAgain`, one HTTP call each), any other source
  by its result. Times are countdowns. A session is the secret it was signed with; JupyterLab's restart (`LabTurns`) may change
  it. `since` is history.
- `HostStats`: counters and rates are numbers up to `MaxCount`; a rate keeps the bytes it is made
  of. An interface goes away, comes back at zero, grows past its old count. CPU lines may be anything the
  kernel could print, also smaller than before. `meminfo` and `statvfs` have no memory and are operators.
- `GpuReader`: a read holds the lock over `EnsureInitialized` and `Query`; `ReleaseIfIdle` is `release_if_idle`, which
  only acts when it gets the lock at once.
- `Sizes`: a directory's size is the number of the change it reflects; a walk measures two directories in two steps, and
  `found` is what it has seen.
- `Figures` puts them into one run. They share no state, so a behaviour follows one of them (`part`).

### Builder

A slot of the event loop is one action. `start()` of a missing program emits `done()` at once, and
nobody does anything after `start()`, so that slot is part of the same step. `proc` is the three `Runner`s: their processes and
flags; `pipe` is what the installer has printed of a root step and nobody has read. `StatusDone`, `TailscaleDone`,
`JobDone` are the three done slots, the last one through `InstallerDone` and `RootDone`; `dialogs` is the stack of
nested event loops of the message boxes, each with what follows its `exec()`. `Terminate` is `terminate_and_wait` of each Runner
in turn; a process that runs as root (`Authorised`) takes no signal of ours. The two ways to restart, and start, are one
command to this model. What it knows of the installer: it may ask for a root step once per run and end in any way. A step of
pkexec that was not authorised does not end well. `printed`, `applied`, `prompts`, `installs`, `fresh` are history.

### SettingsFile, CommandLine, Requirements, ProjectFiles

`SettingsFile` has both formats as data: a line of `.env` is a comment, an assignment, an assignment with an open quote, or junk;
a value of `config.yaml` is a node with its YAML type. `ParseSettings`, `RenderSettings`, `LoadSettingsFile`, `Convert`,
`ConfigSettings`, `RenderConfig` are the functions of these names; `InstallerValues`, `InstallerAccepts` are
`read_env_file` and `load_settings` of the setup script. Spellings are a few which the conversions treat
differently (`"8888 "`, `"12345678"`, `"off"`, a bare `0`). The five settings that show every kind of conversion are in; `STATS_USER`,
`THEME`, the NVIDIA settings and the workspace are converted like these.

`CommandLine` runs `main()` and the builder's Deploy over the same files. Each check that may refuse, each read and each rename is a
step, what a program writes it computed at an earlier one, and users edit and interrupt anywhere. A write fails before its rename, or after it, when
`chmod` does; the installer ends with 0, 1 or 2. `did`, `saved`, `wrote`, `chosen`, `listOk` are history.

`Requirements` types a text piece by piece: a piece is a character the two readings tell apart (`"blank"`, `"quote"`, ... by name). `r` and `C` stand for
`-r` (forbidden) and `-C` (allowed, with a value), `--pre` for an option that is fine on a line of its own. A loop over a text is a function of how far the text
has been read (`read[n]`), so that it can be reasoned about. pip's side (`Runs`, `Joined`, `PipLines`; `Put`, `End`, `Read`, `Shlex`; `Take`, `Optparse`;
`PipWords`, `PipOptions`) is external: pip's `req_file.py`, `shlex` and `optparse` as the comments of `deps_runner.py` describe them.

## 3. Runs

| Run | Instance | Question |
|---|---|---|
| `runner_server` | 1 server, lists {none, b1, b2}, page {none, r1}, 2 jobs, 1 stop, `Daemonises` | Do the records tell the truth? `OkMeansInstalled`, `SuccessMeansInstalled`; the cache? `CacheClearAlone`; under fairness `CancelEnds`, `EndedFreesVenv` |
| `runner_shared` | server and one-off, lists {none, b1, b2}, 2 jobs, 1 stop | What holds across processes? `OneVenvWriter`, `LogKept`, `KeepsPromise` (`VenvService`), `OutcomeKept` (who may replace a job's outcome in `job.json`) |
| `baseline` | server and one-off, lists {none, b1}, a volume that is new or that a deploy of b1 has left, 2 jobs, 1 deploy of either list, 1 wait for a busy runner | What is a deploy's exit code worth? `OkIsEarned`, `ShownIsDeployed`; under fairness `DeployEnds` |
| `page_follow` | page, a second client, 2 jobs, logs of 2 pieces, 1 per answer, 2 answers per poll, 1 restart, 1 lost request | `ShownInOrder`; under fairness `CatchesUp`, and `FullLogIfWatching`: a page that starts no job itself ends up with the whole log |
| `page_clients` | lines {a, bad, torch}, of which bad is refused; lists {none, a}; another client saves once and starts one job; 4 texts, typed twice; 1 lost call, 1 restart of the runner, which may still hold the flock after a job | `KeepsUnsavedIfFresh`, `InstallsEdits`, under fairness `EditorSettles`; `ListSafe` of the script: no line of the user's list is lost, "restored" is true |
| `figures` | 2 requests, sources kernels and gpu and each request's own reading of /proc, `Ttl` 2, `Wait` 1, `LoginRetry` 3; 2 interfaces, 1 core, counters to 2; `InitRetry` and `IdleLimit` 2; 3 changes of the disk | `LoginsSpaced`, `FiguresMakeSense` (rates and percentages), `ShownSizesCurrent`; under fairness `AnswersInTime`, `Recovers`, `IdleReleased` |
| `builder_window` | the window, 2 message boxes over each other | `OnePrompt`, `SuccessIsComplete`, `NoOrphan`, `UsesFreshPs`; under fairness `NeverStuckBusy` |
| `files_deploy` | 7 `.env` files, 11 `config.yaml` files, 1 edit, 2 commands; texts of up to 5 pieces | `SavedIsRead` (`InstallerReadsSaved`, `ConfigReadsBack`), `CheckedFirst`, `ReadAsPipDoes` |
| `imports_one` | 1 importer, a file and a directory with a file, 2 edits, 2 runs, 1 crash, failing writes | `NothingHalfWritten`, `NothingDeleted`, `OkMeansCopied` |
| `imports_sources` | 2 importers, 2 sources, 2 names, plans that give one name to two sources, 2 edits | `ForeignUntouched` |
| `installer_deploy` | 3 commands, 2 passwords, statistics and HTTPS on or off, 2 hosts, 2 changes, 1 fault | `HashOfPassword`, `Delivered`, `SwitchOnlyOnAnswer` |
| `installer_secrets` | 3 commands, 2 passwords, 1 change, 1 fault | `ServesSettings`, the finding of section 4 |

Why the bounds suffice. Properties of the runner relate a job to the one before it or to one
other process, so two jobs and two processes already show every pair. A crash that hits the recovery
of another one is beyond `MaxStops = 1`; the theorems cover it. Two deployed lists tell "the text
the record names" from "the text pip read". `baseline` needs one job of the page and one of the deploy, in either order
and under either id, and one list beside "none", because an older list can already be there, installed or about to be (`Earlier`): a job of
the other process then reads it while the deploy stores none, or the other way round; crashes are out of this instance (`MaxStops = 0`, the state space
would not fit) and are covered by `SuccessIsEarned`.

For the page, two jobs give a late answer a job to be late for; logs of two pieces with one
piece per answer make the page read a log in several requests, and an answer for another job uses
up one of the two requests of a poll; one restart and one lost
request hit each point. For the imports, two edits let one make a race and the other
remove or hide its trace; a directory inside the source makes the stack of
calls two deep; the second run meets what the first left behind. For the installer, three commands are a first deploy,
one that dies, and the one that has to put things right; two changes let the password and the host both
change in between; two deaths in a row are beyond it, and covered by the theorems.

For the editor, two texts let the user type one while the other is being saved, or undo what was saved; a refused line, an
unended one and the empty text are among the four. One save and one job of somebody else fall before, between or after the page's
own. For the script, one lost call, one restart and one interruption hit each of its steps; a list that has the torch line
already would differ only in having nothing to add.

For the figures, two requests are one that gives up and one that comes after; two refused logins fit between two ticks of
nothing else if the code lets them; counters to 2 can shrink and grow past the old count; the third change of the disk falls into
the walk the second one asked for. In the builder nothing is bounded but the stack of message boxes: a third box changes
nothing but who waits for whom. Of the files, the ones listed hold every kind of line and node the conversions tell apart, duplicates included; one edit
falls between any two steps of two programs. Texts of five pieces hold two continuation lines or a quoted option behind
a package, and an option behind a comment, a quote or an abbreviation. They do not hold everything: an option hidden by a quoted value takes ten or eleven (section 4),
and was found by the proof of `ReadAsPipDoesHolds`, which covers every length.

Deadlock is checked where the system goes on for ever: in the runs of `JobRunner`, `DepsPage` and `Figures`. Those of imports, installer,
deploy, files and page clients say `CHECK_DEADLOCK FALSE`: these are commands that end, and bounds say how often they are given; the
builder's window stops when it is closed.

Fairness. `runner_server` assumes weak fairness of the job thread,
of the steps inside `start()`, of the timeout of `kill_later` and of each `kill_later`
thread: these are threads the operating system schedules and a timeout that elapses, and
SIGKILL cannot be ignored. Nothing is assumed of users, of crashes, of failing writes, or
of a subprocess nobody cancelled, which may run for ever; so neither "every job ends" nor
"every process restarts" is claimed. `baseline` adds the client, whose requests get the runner's lock in the end however often
others take it (strong fairness: the handlers are threads of one server), a container that was told to stop and stops, and the end of a cache
clean-up; `DeployEnds` itself assumes that no subprocess runs for ever.

The run of `DepsPage` assumes weak fairness of the page's timer and coroutines, of the runner's
request handlers (answered in 30 s or given up: a lost request is bounded, not excluded), of
the page's state growing old, and of a `start()` that has truncated the log going on to publish. It
does not assume that jobs end or that anybody presses a button. `ListEditor`: the tick asks again and again, its request is answered or given up; `Settles` speaks of
behaviours in which no button is pressed any more. `Figures`: time passes however many requests come
(strong, because a request that arrives disables the tick for the moment), the event loop answers what is ready, every HTTP call of the client has a time-out,
the GPU's idle check is repeated. Other loaders may hang for ever. That a request's own reading of /proc, /sys and `statvfs` comes to an end is assumed too: the
code awaits it without a limit, so `AnswersInTime` says nothing of a file system that hangs. `Builder`: the event loop reaches every slot and every probe's
timer, a killed process ends, a job ends by itself. `Imports`, `Installer`, `CommandLine` and `CudaCheck` state no liveness: nothing in
them waits for others or retries.

## 4. Findings

*Old password, reported as new* (`installer_secrets`, `ServesSettings`). A deploy with a new password dies after
`ensure_secrets` and before `compose up`. The next deploy finds hash and password as it wants them, does not
force a recreation (1509), and ends with success while the containers still have the old password.
The same holds for the runner's token. README.md:117 and 237 promise otherwise.

Departures from the documentation without a run of their own. The definitions named are in the modules, and TLC finds them violated on the
instance given.

- *Log of another job.* A log-pump thread that was given up (deps_runner.py:822-825) keeps writing through
  `self._log_handle`, by then the next job's log, although the comment at 711-712 promises that a reader never gets the
  previous job's output. `LogUnderItsId` on the instance of `runner_server`.
- *Unwritten mark.* "A job killed with its container never counts as installed" (707-708) rests on `_record_baseline(False)`, whose
  failure is only logged: with a full disk, the old `ok` stays next to a venv that was removed. `KilledNeverCounts` with
  `WritesFail = TRUE`.
- *An outcome that is lost.* A process that comes up takes a job it finds "running" for one that was killed: "the container stopped or crashed while pip ran"
  (deps_runner.py:567), and rewrites `job.json` (573) without asking the flock. The job may be another process's, and may have ended between the reading and the rewriting. `OutcomeFinal` on the instance of
  `runner_shared`: job 1 runs in the server; the one-off reads "running"; the job ends and the server writes "cancelled"; the one-off writes "interrupted" over it. In the same way it can replace the
  record of a newer job. The server goes on from memory; the next start of a container shows what the file says. `OutcomeKept` is claimed: nobody but a process that
  comes up, the next job, and the job's own worker after such a rewriting replaces an outcome.
- *Default password for a Latin-1 `.env`.* `load_settings_file` answers with the defaults and a note for a file
  that is not UTF-8; `config_from_settings` (config.py:275) makes the first `config.yaml` of them. The command is refused, the user converts the
  `.env` as the note says, and the next `start` writes `config.yaml`'s settings, default password included, over the
  password. settings.py:206-207 and 227-228 say the file is kept for that very reason. `PasswordKept` on the instance of `files_deploy` with one
  password in Latin-1 or UTF-8 and no `config.yaml`.
- *An undo that is lost.* "Keep the user's unsaved edits" (deps.js:344) is decided by comparing editor and last known text. The user saves a text and types the
  earlier one again; a state answer from before the save makes the earlier text the known one, so the editor no longer counts as dirty, and the next answer
  replaces it by what was saved. Nor is the editor dirty, in the meantime, when a stale answer shows the older text: what is typed on that one and saved replaces the saved list. No
property covers these behaviours: `KeepsUnsavedIfFresh` stops at an overtaken answer, `EditorSettles` speaks of where the editor ends up. `KeepsUnsaved` on the instance of `page_clients`; `KeepsUnsavedIfFresh` is claimed.
- *A failed verification is not cleaned up.* "install, verify, then restore the previous package list" (verify_cuda.sh:7, README.md:711): when no code can be run in
  a kernel after the install, `run_kernel_check` exits (249-253) and the torch lines stay in the list. `CleansUp` of `CudaCheck` on the instance of `page_clients`.
- *A lost summary.* The second `summary` of `verify_cuda.sh` stands in a condition: an empty answer reads as an empty list and no free space. Only the check of
  free space keeps the script from saving the torch lines alone, and with `MIN_FREE_GB=0` it does not. `NothingLost` with `MinFree = 0`.
- *Missing beginning of a log.* `pollLog` compares an answer's job id but not its offset (deps.js:431). When `startJob` resets the log while `tick()`'s
  request for "from piece k on" is in flight, the page shows the new job's log from piece k on. `FullLog` on the instance of `page_follow`.
- *Half-written file in place.* Two imports at once use the same temporary name; the second unlinks and re-creates it, the
  first renames what the second is still writing (imports.py:274-286). `NothingHalfWritten` with two importers.
- *Refused for ever.* Between `mkdir` (imports.py:299) and the marker (322) a crash or a full disk leaves a
  directory every later run takes for somebody else's, contrary to the comment at 320. `RefusesOnlyForeign` on the instance of
  `imports_one`.
- *Closing does not wait.* "closing waits for it to finish" (builder.py:1458, of a host step that runs as root): `terminate_and_wait` gives up after
  the grace period (202-213). `ClosingWaits` on the instance of `builder_window`.
- *A port with white space.* `check_port` strips it (settings.py:337), the installer's `is_valid_port` does not: the Python
  side accepts and saves what the installer then refuses, contrary to settings.py:4-5. `InstallerReadsSaved` is claimed for ports
  without.
- *An unknown HTTPS mode* in `.env` is taken over into a first `config.yaml`, which the next read then refuses; `ConfigReadsBack` is claimed without.
- *"the install job was cancelled"* (deps_runner.py:1476) is said after `POST /cancel` whatever it did: by then another client's job may run,
  which is cancelled, or none. `POST /cancel` names no job (1265). See `Interrupt`.
- *A login that times out* sets no waiting time (jupyterapi.py:200-222), although lines 4-7 say a login never happens once per poll. `LoginsSpaced`
  speaks of refused logins.
- *Two files, one save.* The builder saves `.env` and then `config.yaml`; when the second write fails the deploy is refused with the first one
  changed. `CheckedFirst` speaks of `run.sh`.
- *Exit code 2 with a new `.env`.* "Refuse an invalid configuration with a list of problems (exit code 2) before anything is written" (README.md:383-384). `write_private_file` calls `os.chmod` (settings.py:204) after
  `os.replace` (197) and outside the `try`; its `OSError` becomes a `SettingsError`, and `run.sh` ends with 2 (cli.py:265-267) although `.env` is replaced. Code 2 is also what the installer's own 2 is passed on as (271),
  after the save. The same `chmod` under `ensure_config` ends uncaught, with 1 and a `config.yaml`. So code 2 does not mean that nothing was written. `CheckedFirst`
  claims what the sentence is for: whatever was written or copied had passed every check, and no step ends with 2 after an earlier one has changed something.
- *An option hidden by quotes.* "An option cannot be hidden from them by a ... continuation, quotes or an abbreviation" (deps_runner.py:117-119). In
  `p -C "a -C" --pre` the runner splits at blanks, takes `-C"` for another `-C` and `--pre` for its value; for pip the quoted `a -C` is one word, `--pre` is an
  option, and beside a package it is silently ignored, which the check exists to refuse. The same with a backslash: `p -C \ -C --pre`. Forbidden options cannot be hidden this
  way. `NoneHidden` is false of the text with the backslash (11 pieces, too long to be typed in a run). `ReadAsPipDoes` claims this half for `Plain`
  lines, in which no word that pip gets holds a blank, a quote or a backslash.
- `save_baseline` asks its own process for a running job, not the flock. `baseline --local` beside a live
  server (the installer only warns when it cannot remove the `deps` container) replaces `baseline.txt`
  between digest and install, and the record names a text that was not installed (docstring,
  365). `OkMeansInstalled` on the instance of `runner_shared` is violated. For a deploy this means: `start()` of the server has read the old `baseline.txt` and has the
  flock, but has not yet withdrawn the record; a one-off deploy saves the new text, finds `baseline.json` saying "ok" for just that text and reports that all is
  installed; then the server's job installs and records the old one. `ShownIsDeployed` without `~overtaken` on the instance of `baseline`.
- A file the user added to a copy is replaced once the host has one of that name (imports.py:349),
  although README.md:457 says new files are kept.
- `_claim` trusts the directory it opens (304) to be the one it made (299): if the user removes it in between
  and another import makes it anew for another source, both write into it. `ForeignUntouched` is therefore
  claimed under `~UserQuick`; with `UserQuick = TRUE` the instance of `imports_sources` violates it.
- A deploy interrupted between hash and password, followed by a deploy with the *earlier* password,
  keeps the stale hash, which the comment at 1335 of the setup script excludes. `HashOfPassword` is
  therefore claimed under `~Reverts`; with `Reverts = TRUE` the instance of `installer_deploy` violates it.
- After a certificate step the certificate is checked again (1768) without
  `keep_https_state_on_check_error`: no answer then switches to plain HTTP, although the comment before that
  function says this is no reason to. `SwitchOnlyOnAnswer` allows it (answer "again").

## 5. Proofs

`JobRunnerProofs` proves the safety properties of the passing runs for all sets of processes,
all texts, and all bounds. The argument:

- `LockInv`: whoever is inside `start()` or has a job thread holds the flock; a subprocess
  belongs to a waiting job thread. With `TypeOK` it is inductive (`TypeCorrect`) and gives
  `OneVenvWriter` (`VenvExclusion`). Without it neither is inductive: nothing in a
  process's own state says that another one is not in its job.
- `MarkInv` adds that the record says "not ok" from the mark on, until the job's own `Record`:
  only the flock holder writes it. Gives `UnfinishedNotOk` (`UnfinishedNeverTrusted`), assuming
  `WritesFail = FALSE`, which the unwritten mark of section 4 shows is needed.
- `SharedInv` ties log handle, log content and `maintenance` to the job thread's place:
  `LogKept`, `LogOpenForJob`, `CacheClearAlone`.
- `OkInv` and `FileInv` follow a job from digest to record: the digest is the stored text while the
  job runs, the running pip was asked for the stored lists, a subprocess that ended "ok" left
  them in the venv, and `job.json` is behind the job by no more than the step that writes it. They give
  `OkMeansInstalled`, `OkOnlyAfterSuccess` and `SuccessMeansInstalled`, assuming one
  process on the volume (section 4 says why) and `WritesFail = FALSE`.
- `OrderInv` ties each process's job to `job.json`: no id has reached `nextId`, a job thread works on the newest id, and what the file says under the id of a job whose
  end is not yet recorded is "running" or "interrupted". It gives `OutcomeKept` (`OutcomesStay`) for any number of processes, assuming `WritesFail = FALSE`.

`ImplementsService` proves `Spec => KeepsPromise` from the same invariants, action by action: each step
maps to one step of `VenvService` or a stutter, for any number of processes (records truthful when
there is one), assuming `WritesFail = FALSE`.

`ImportsProofs` proves, for all trees, plans, numbers of importers, edits, runs and crashes:

- `TypesHold`: `TypeOK`, by one step per action; the flags in `frames` and the sequence operations need
  lemmas of their own.
- `NothingDeletedHolds`, from `WriterInv`: who writes to a file is in `Fill`'s place, and what is written to is a
  file. `EntryStep` is the heart: a step of an importer leaves an entry alone, makes a directory where
  nothing was, renames a file over something that is no directory, or adds bytes to a file it writes.
- `ForeignUntouchedHolds`, for `~UserQuick`, from `ClaimInv`: an importer that still has its destination open is its
  maker, alone and not yet marked, or finds its source in the marker. Without the part about makers the
  invariant is not inductive: `Mark` would overwrite another's marker.
- `WholeWhenAlone`: `NothingHalfWritten` if no two importers exist, from `AloneInv`: the temporary file is its
  writer's own during `Fill` and whole at `Rename`, and no file of a copy has a writer. The half-written file of
  section 4 shows why the assumption is needed.
- `OkMeansCopiedHolds`: `OkMeansCopied` if no two importers exist, from `CopyInv`: a file of the plan that did not change since the
  run began is settled (copied, newer in the copy, or below something skipped) or pending: under an entry some frame has still to do, under a
  directory still to claim, or the file in hand. What "pending" is worth needs three more parts. `TreeInv`: sources are trees and nothing is younger than
  the clock. `MarkInv`: what an importer has open carries its own marker. `FaithInv`: a copy with the time of its original has its bytes, and so
  does the temporary file before its rename, which is why `Unchanged` may pass a file over.

`InstallerProofs` proves, for all settings, hosts, numbers of commands, changes and faults:

- `TypeCorrect`: `TypeOK`, with `StepInv`: which command is at which step, and that address and `.env` are there
  when a step needs them. Without it `TypeOK` is not inductive.
- `HashHolds`: `HashOfPassword`, for `~Reverts`, from `PasswordInv`: a hash that is there is never older than
  the password next to it, and neither is newer than what the running deploy was given. So a
  password found equal to the wanted one has the wanted hash.
- `SwitchHolds`: `SwitchOnlyOnAnswer`, from `KeptInv`: what is kept is what `.env` still says, and what was found without
  an answer is what was kept.
- `DeliveredHolds`: `Delivered`, for `~Reverts`, from `BoxInv`: unless `cut` or `fresh`, a running container knows every secret it uses, but for one that was
  lost and a hash that is still without its password, which the next deploy replaces. `UpInv` follows the containers a deploy or a restart is done with,
  `StoppedInv` says that a restart has stopped what it will start, `TokenInv` that a deploy has a token from its second step on.

For the composition with the deploy, `JobRunnerProofs` proves, for any number of processes, jobs, deploys, crashes and failing writes:

- `DeployRefinesRunners`: `DeploySpec => Spec`. A step of the composition is a step of the runners or leaves them alone, so every theorem about
  `JobRunner` holds of a runner that is deployed to. `DeployTypeCorrect` carries the types over.
- `SuccessIsEarned`: `OkIsEarned`, from `EarnedInv`. `Mine` says that the job the client waits for is still the target's job and its pip was
  asked for the deployed list, or that the list has been met; a success is only read from a job that is still
  the client's own. Without it "succeeded" might be the status of anybody's job.
- `ShownHolds`: `ShownIsDeployed`, for `WritesFail = FALSE` and any number of servers and one-offs, from `ShownInv`: unless `overtaken`, from the
  `PUT` on `baseline.txt` is the deployed text, and from the check on every job at work and every record saying "ok" is of that text. A process that was
  already in `start()` when the text was stored, and had not made its mark, is just what `overtaken` notes (section 4).

`FiguresProofs`, for all sources, requests, times, interfaces, cores and counters: `SingleFlight` (`OneLoader`, proved only) from `LoadInv` (a task is set exactly while one thread runs, and the client's
thread is its source's), `RefusedLoginsSpaced` from `SpacedInv` (the time since a refusal and the time still to wait add up to `LoginRetry` at
least, and past the check nothing is recent): the second is not inductive without the first, which keeps a second
thread from logging in. `SizesShownCurrent` is `ShownSizesCurrent`: a walk nobody has told to repeat has measured each directory after the last
`refresh()`. `HostFiguresReal` is `FiguresMakeSense`, from `HostInv`: an interface's counter is at most the last reading and what came since, or it started anew. That the
total is no more than what came in needs the value of a fold of the community modules. The fold is a function that satisfies a recursion, chosen by `CHOOSE`; that one exists is
shown by induction over the interfaces (`Least`: a set of numbers that is not empty has a smallest, from the library's well-founded minimum), then `SumSplits` and `SumBound` the
same way. `FiguresRefinesDashboard` carries the first two theorems over to the composition.

`BuilderProofs`, for any clicks, answers and signals, and any number of message boxes: `IInv` is `TypeOK` with four parts. `Flow`: busy
means that a job runs or that exactly one callback waits, for a probe that runs and for `compose ps` also for a fresh one
(`BusyMeansWork`; it gives `PortsFresh`). `Counted`: where in the chain click, import, install, root step, install the job stands, in prompts and
installer runs (`AsksOnce`). `Noted`: a printed root step is in the pipe or noted (`SuccessComplete`). `Swept`: which Runner closing has
dealt with (`NothingLeft`). `OnePrompt` alone is not inductive: that a second prompt cannot follow depends on
`afterCert`, and that on the number of installer runs.

`PageClientsProofs`, for any lines, texts and bounds: `EditorTypes`; `EditsKept` (`KeepsUnsavedIfFresh`) and `InstallsWhatIsShown` (`InstallsEdits`), from
`IInv`: `AnswerInv`, an answer is a text the runner stored and the text of a save that is answered is one it accepts; `EditorInv`, a text that is unsaved
stands in the editor and differs from the last known text and from the list; `InstallInv`, once Install is pressed, the list is what the editor held unless
another client saved. All of it is claimed until an overtaken answer is taken over. `KeepsUnsaved` alone is not inductive: it does not say that the
text counts as dirty, which is what keeps `renderState` off it. `ListStaysSafe` is `ListSafe` of the script, for `MinFree > 0` (section 4 shows why),
from `CheckInv`: as long as no other client saves, list and remembered list both have every line found at first (`LostInv`); as long as none does anything, the list is the one
of before until the script writes it and again from its restoration on, and the job waited for then is the reset (`RestoreInv`).

`ProjectFilesProofs`, for any `.env` and `config.yaml` a user may write, any number of edits and commands: `FilesRefineCommandLine`, the texts typed beside idle programs are
a stutter of the programs. `CheckedFirstHolds` (`CheckedFirst`), from `FirstInv`: what each place of `main()` has passed on the way to it, and that up to the save nothing is done. The first is needed because
config.yaml and the list may change behind the checks: what counts is what `main()` holds in memory.
`SavedIsReadHolds` (`SavedIsRead`), from `SavedInv`: what a program writes it has checked (`Checked`), and while one is on its way to the installer the `.env` says what was last saved, since only another checked save may
replace it (`Past => EnvSays`); a `config.yaml` a program wrote is read back as it was. It rests on what the two readers of `SettingsFile` make of a file: `ParseTyped`, `AppendedSays` and `SaysReads` (the last assignment to a key is what the installer
reads; that there is a last one is `Greatest`).

The same module proves `ReadAsPipDoesHolds` (`ReadAsPipDoes`), for a list of any length. Nothing is inductive here: the property speaks of one text, and its proof is about
the two readings of it.

- The loops. Each is a function `read[n]` of how far it has come; that it satisfies its recursion is `Recursion`, and what holds of `read[n]` for every `n` follows from
  `Induct` (the library's well-founded minimum: no first `n` fails). `Agree` says that two such loops with the same step are the same.
- Lines. The parts `LogicalLines` has pending are the `Joined` lines of the run that is open (`Logical`); a run ends where a physical line does not go on (`RunsEnd`). So the
  logical lines are the joined ones that are not blank, in order, and the counts agree (`Counts`).
- Forbidden options. `LexInv` compares a state of `Shlex` with the runner's token, as far as both have been read: a word begins with `-r` only if a token without its quotes
  and backslashes begins so too, since what starts a word starts a token or is inside one (`LexStep`). That token is one the runner forbids (`HiddenR`).
- Ignored options. As long as no word holds a blank, a quote or a backslash, every token is a word (`PlainStep`). `CloseStep` keeps the runner's "the next one is a value" in
  step with `Optparse`'s, so where `Optparse` finds `--pre` the runner finds an option that would be ignored (`HiddenPre`). `OptionTokens` carries what is known of
  the tokens of a line over to those of its options.

`DepsPageProofs`, for any numbers of jobs, restarts, lost requests and pieces: `PageTypesHold`, `TypeOK` with `RunInv` (who is inside
`start()` has an empty log and an id left, a log that is open has room for its last line); and `ShownStaysInOrder`, from
`OrderInv`: the pane is in order and ends at `logOffset` at the latest, and whatever answer is on its way to `tick()` starts
behind the pane or says `reset`. `ShownInOrder` is not inductive: it says nothing of an answer in flight, which another
coroutine may overtake by emptying the pane.

The assumptions on constants of `Installer`: `NoAddress` is no address, there is a password, wishes and hosts are
settings and hosts. Those on constants of `Imports`: paths are closed under parents, plans name each
destination once (`plan_imports`, 212-217), importers are no numbers. Those of `RunnerLog` and `DepsPage` are
bounds. The assumptions on constants of `JobRunner`: servers and one-offs are different
processes, `NoProc` is none of them, `NoPkgs` is a text, what was installed earlier are texts, bounds are natural numbers, switches
are Booleans. Those of `BaselineDeploy`, `Builder` are
bounds; of `ListRunner` and `ListEditor`, that refused lines are lines, lines are finitely many, the lists of others are lists the runner stores, and what is typed is a text; of `Dashboard`, that the client's source is a source and times are numbers, that "local" is no source, and that endpoints consist of sources and "local"; of `HostStats`, that interfaces are finitely many and
physical or virtual.

Those of `Imports` and `CommandLine` say more: in `Imports` (`PathAssumption`) also that a path is a sequence of strings and that nothing lies below a file of the initial tree; in `CommandLine`
(`FilesAssumption`) that the files are files of the format, and that what the builder's form offers is a spelling of its kind: the switch for statistics is a check box
(builder.py:811), so it can be no third value.

Only model-checked:

- `CancelEnds`, `EndedFreesVenv`, `DeployEnds`, `CatchesUp`, `FullLogIfWatching`, `AnswersInTime`, `Recovers`, `IdleReleased`,
  `NeverStuckBusy`, `EditorSettles`: liveness under fairness is out of the prover's reach.
- The finding, and the exceptions. By counterexample some of it is false, where a theorem has a hypothesis: `~Reverts`, `~UserQuick`, one importer, one server, `WritesFail = FALSE`, `MinFree > 0`.

## 6. Not modelled

In `JobRunner`: the 20 MB cap of the log (what is written after it), messages and times of a job,
the image's constraints digest and Python version in `baseline.json`, the cache of installed
packages (display only), `Thread.start()` failing, process-id reuse after `killpg`.

In `DepsPage` and `ListEditor`: the 500,000-character limit of the pane, a
hidden tab, sign-in, the read-only list of the host, error texts; the buttons for cancel, reset and cache are in `DepsPage` or the doing of other clients. `ShownInOrder` allows the pane to hold pieces of two jobs for the moment between
two polls: the next answer clears it.

In `Imports`: `plan_imports` itself, a missing or linked `imported/` root (it fails before anything
is touched), bind mounts of the workspace inside a source (`avoid`), permission bits, moving an open
directory elsewhere, edits that keep size and time, a marker edited by the user, the
reserved names in a source, the 255-character cut of the temporary name.

In `Installer`: `host-setup` and `host-teardown` (firewall rules, sysctl, certificate files) but for the
certificate a root step may bring; the GPU hand-off and its second write of `.env`; ports and their
conflicts; names, of which a host has one or none; dates of certificates; a deployment from before the HTTPS
setting; the migration of old ones; running without `flock`; the contents of the stack and the image
labels; user, theme and workspace settings, which `.env` carries like the others.

In `BaselineDeploy`: what the client prints, the summary of pip's errors, the token, sizes of a response. In `Dashboard`, `HostStats` and `GpuReader`:
the other figures (temperatures, names, processes), the shape of the answers, a client whose base URL changes. In `Sizes`: errors of
`disk_usage`, the age at which `snapshot()` asks for a walk. In `Builder`: widgets, validation while typing, the table of imports, browser and log pane,
the destructor of a `QProcess` that outlives its window, an installer that prints two different root steps in one
run. In `CommandLine`: `copy_requirements`, `make_private`, `occupied_port_errors`, `show_config`, `theme.py`, `stack.py`. In `CudaCheck`: options and their errors, what is printed, what the kernel
reports of the GPU beside torch. In
`Requirements`: control characters, size limits, `PEP 263` declarations, environment variables, line ends, digests.

Not modelled at all: the frontend of the dashboard, the bootstrap, the container's configuration, image build, HTML and
CSS; rendering and layout stay out for good.

## 7. Plan

Done: `JobRunner` with `VenvService` and its simulation; `BaselineDeploy`; `RunnerLog` and `DepsPage` for the log and the buttons; `ListRunner` with `ListEditor` and
`CudaCheck`; `Imports`;
`Installer` for the life of a deployment; `Dashboard`, `HostStats`, `GpuReader`, `Sizes`; `Builder`; settings, command line and
requirements.

Left, in this order:

1. `HostSetup`: the root step of the installer, with the state it records after its rules.
2. `plan_imports` and `utf8_safe_end` as operators, next to `Requirements`.
