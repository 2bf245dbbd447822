------------------------------ MODULE Imports ------------------------------
(***************************************************************************)
(* Copying host directories into the workspace (src/thebe/imports.py:      *)
(* run_imports, copy_import, _claim, _copy_dir, _copy_subdir, _copy_file,  *)
(* _write_file_at).  Every step is a file operation: the host and the      *)
(* JupyterLab user change files between any two of them, the disk may be   *)
(* full, the process may be killed, and nothing keeps a second process     *)
(* ("./run.sh import" beside the builder's Deploy) out.                    *)
(*                                                                         *)
(* A path is the sequence of its names; <<>> is the directory itself.      *)
(* Contents are named by the edit that wrote them, which is also the       *)
(* modification time: edits never share one.  `data` is the set of edits a *)
(* file's bytes stem from; {} is a half-written file, {p} one that p still *)
(* writes to.                                                              *)
(***************************************************************************)
EXTENDS Integers, FiniteSets, Sequences, SequencesExt

CONSTANTS
    Importers,   \* processes that run run_imports
    Sources,     \* host directories
    Names,       \* names under <workspace>/imported
    Paths,       \* paths below a source or a destination
    HostTree,    \* kind of each path of a source before the first run
    Plans,       \* the plans a run may be given (plan_imports accepted them)
    NoSource,    \* a destination without marker
    WritesFail,  \* may a file operation fail (disk full, I/O error)?
    UserQuick,   \* may the user remove a destination between its mkdir and its open?
    MaxEdits,    \* bound: changes by the host and by JupyterLab's user
    MaxRuns,     \* bound: runs of each importer
    MaxCrashes   \* bound: processes killed

Kinds == {"none", "file", "dir", "other"}   \* other: link, device, socket, unreadable
Top   == <<>>

ASSUME PathAssumption ==
    /\ Paths \subseteq Seq(STRING) /\ Top \in Paths /\ HostTree \in [Paths -> Kinds] /\ HostTree[Top] = "dir"
    /\ \A x \in Paths : \A i \in 0..Len(x) : SubSeq(x, 1, i) \in Paths
    /\ \A x, y \in Paths : IsStrictPrefix(x, y) /\ HostTree[y] # "none" => HostTree[x] = "dir"
ASSUME PlanAssumption ==
    \A plan \in Plans :
        /\ plan \in Seq([source : Sources, name : Names]) /\ plan # <<>>
        /\ \A i, j \in DOMAIN plan : i # j => plan[i].name # plan[j].name
ASSUME BoundAssumption ==
    /\ MaxEdits \in Nat /\ MaxRuns \in Nat /\ MaxCrashes \in Nat /\ WritesFail \in BOOLEAN /\ UserQuick \in BOOLEAN
    /\ NoSource \notin Sources /\ Importers \cap (0..MaxEdits) = {}

VARIABLES
    host,      \* the source directories
    copy,      \* <workspace>/imported: the entries of each destination
    tmp,       \* ... its ".<name>.thebe-tmp" files
    marker,    \* ... and the source its .thebe-import names
    clock,     \* edits so far
    pc,        \* where each importer is
    plans,     \* its plans
    at,        \* the plan it works on
    frames,    \* its stack of _copy_dir calls
    file,      \* the file it copies, as fstat saw it
    skipped,   \* what its run reported as skipped
    began,     \* clock when its run began
    runs, crashes

vars == <<host, copy, tmp, marker, clock, pc, plans, at, frames, file, skipped, began, runs, crashes>>
disk == <<host, copy, tmp, marker, clock>>
run  == <<plans, at, began, runs>>

----------------------------------------------------------------------------
Times == 0..MaxEdits
Entry == [kind : Kinds, data : SUBSET (Times \cup Importers), time : Times]
Item  == [path : Paths \ {Top}, kind : Kinds \ {"none"}]
Frame == [path : Paths, todo : SUBSET Item,
          src : BOOLEAN, dst : BOOLEAN]   \* is the open directory still where it was?

Missing(t) == [kind |-> "none", data |-> {}, time |-> t]
NewDir     == [kind |-> "dir", data |-> {}, time |-> 0]
NoFile     == [path |-> Top, data |-> {}, time |-> 0]

Below(x)         == {y \in Paths : IsPrefix(x, y)}
Children(tree, x) ==
    {[path |-> y, kind |-> tree[y].kind] : y \in {z \in Paths \ {Top} : Front(z) = x /\ tree[z].kind # "none"}}

Plan(p) == plans[p][at[p]]
Here(p) == frames[p][Len(frames[p])]

\* What the open directories of the current _copy_dir call show at a path.
Source(p, x) == IF Here(p).src THEN host[Plan(p).source][x] ELSE Missing(0)
Dest(p, x)   == IF Here(p).dst THEN copy[Plan(p).name][x] ELSE Missing(0)

Idle    == {"idle", "ok", "failed", "refused"}
Busy(p) == pc[p] \notin Idle

Init ==
    /\ host = [s \in Sources |-> [x \in Paths |->
                 [kind |-> HostTree[x], data |-> {0}, time |-> 0]]]
    /\ copy = [n \in Names |-> [x \in Paths |-> Missing(0)]]
    /\ tmp = [n \in Names |-> [x \in Paths |-> Missing(0)]]
    /\ marker = [n \in Names |-> NoSource]
    /\ clock = 0
    /\ pc = [p \in Importers |-> "idle"]
    /\ plans = [p \in Importers |-> <<>>] /\ at = [p \in Importers |-> 1]
    /\ frames = [p \in Importers |-> <<>>]
    /\ file = [p \in Importers |-> NoFile]
    /\ skipped = [p \in Importers |-> {}]
    /\ began = [p \in Importers |-> 0]
    /\ runs = [p \in Importers |-> 0] /\ crashes = 0

----------------------------------------------------------------------------
(* The host and JupyterLab's user                                          *)

\* An entry is written, made or removed; what was below it goes with it.
Changed(tree, x, kind) ==
    [y \in Paths |->
        IF y \notin Below(x) THEN tree[y]
        ELSE IF y # x \/ kind = "none" THEN Missing(clock')
        ELSE [kind |-> kind, data |-> {clock'}, time |-> clock']]

Editable(tree, x, kind) ==
    /\ x = Top \/ tree[Front(x)].kind = "dir"
    /\ kind = "none" => tree[x].kind # "none"

HostEdits(s, x, kind) ==
    /\ x # Top /\ Editable(host[s], x, kind)
    /\ clock < MaxEdits /\ clock' = clock + 1
    /\ host' = [host EXCEPT ![s] = Changed(@, x, kind)]
    /\ frames' = [p \in Importers |-> [i \in DOMAIN frames[p] |->
          IF Plan(p).source = s /\ frames[p][i].path \in Below(x)
          THEN [frames[p][i] EXCEPT !.src = FALSE] ELSE frames[p][i]]]
    /\ UNCHANGED <<copy, tmp, marker, pc, run, file, skipped, crashes>>

UserEdits(n, x, kind) ==
    /\ Editable(copy[n], x, kind)
    /\ ~(x = Top /\ ~UserQuick /\ \E p \in Importers : pc[p] = "open" /\ Plan(p).name = n)
    /\ clock < MaxEdits /\ clock' = clock + 1
    /\ copy' = [copy EXCEPT ![n] = Changed(@, x, kind)]
    /\ tmp' = [tmp EXCEPT ![n] = [y \in Paths |-> IF y \in Below(x) \ {x} THEN Missing(0) ELSE @[y]]]
    /\ marker' = [marker EXCEPT ![n] = IF x = Top THEN NoSource ELSE @]
    /\ frames' = [p \in Importers |-> [i \in DOMAIN frames[p] |->
          IF Plan(p).name = n /\ frames[p][i].path \in Below(x)
          THEN [frames[p][i] EXCEPT !.dst = FALSE] ELSE frames[p][i]]]
    /\ UNCHANGED <<host, pc, run, file, skipped, crashes>>

----------------------------------------------------------------------------
(* run_imports and copy_import                                             *)

Goes(p, place) == pc' = [pc EXCEPT ![p] = place]

\* The run ends; its finally blocks close what is open.
Ends(p, how) ==
    /\ Goes(p, how)
    /\ frames' = [frames EXCEPT ![p] = <<>>] /\ file' = [file EXCEPT ![p] = NoFile]

Start(p) ==
    /\ ~Busy(p) /\ runs[p] < MaxRuns /\ runs' = [runs EXCEPT ![p] = @ + 1]
    /\ \E plan \in Plans : plans' = [plans EXCEPT ![p] = plan]
    /\ at' = [at EXCEPT ![p] = 1] /\ began' = [began EXCEPT ![p] = clock]
    /\ skipped' = [skipped EXCEPT ![p] = {}]
    /\ Goes(p, "claim")
    /\ UNCHANGED <<disk, frames, file, crashes>>

Opens(p, x, todo) ==
    frames' = [frames EXCEPT ![p] = Append(@, [path |-> x, todo |-> todo, src |-> TRUE, dst |-> TRUE])]

\* _claim: mkdir, open, then the marker ...
Claim(p) ==
    LET n == Plan(p).name IN
    /\ pc[p] = "claim" /\ copy[n][Top].kind = "none"
    /\ copy' = [copy EXCEPT ![n][Top] = NewDir]
    /\ Goes(p, "open")
    /\ UNCHANGED <<host, tmp, marker, clock, run, frames, file, skipped, crashes>>

OpenDest(p) ==
    /\ pc[p] = "open" /\ copy[Plan(p).name][Top].kind = "dir"
    /\ Opens(p, Top, {}) /\ Goes(p, "mark")
    /\ UNCHANGED <<disk, run, file, skipped, crashes>>

Mark(p) ==
    LET plan == Plan(p) IN
    /\ pc[p] = "mark" /\ Here(p).dst
    /\ marker' = [marker EXCEPT ![plan.name] = plan.source]
    /\ frames' = [frames EXCEPT ![p][1].todo = Children(host[plan.source], Top)]
    /\ Goes(p, "walk")
    /\ UNCHANGED <<host, copy, tmp, clock, run, file, skipped, crashes>>

\* ... or a directory whose marker names this source ...
MutantOurs(p) == copy[Plan(p).name][Top].kind = "dir"   \* the marker is not compared
Ours(p) ==
    /\ copy[Plan(p).name][Top].kind = "dir"
    /\ marker[Plan(p).name] = Plan(p).source

Claimed(p) ==
    /\ pc[p] = "claim" /\ Ours(p)
    /\ Opens(p, Top, Children(host[Plan(p).source], Top)) /\ Goes(p, "walk")
    /\ UNCHANGED <<disk, run, file, skipped, crashes>>

\* ... and everything else is refused, also a file put in the place of the new directory.
Refuse(p) ==
    /\ pc[p] \in {"claim", "open"} /\ copy[Plan(p).name][Top].kind # "none"
    /\ ~(IF pc[p] = "claim" THEN Ours(p) ELSE copy[Plan(p).name][Top].kind = "dir")
    /\ Ends(p, "refused")
    /\ UNCHANGED <<disk, run, skipped, crashes>>

----------------------------------------------------------------------------
(* _copy_dir, _copy_subdir, _copy_file                                     *)

Walking(p, item) == pc[p] = "walk" /\ item \in Here(p).todo

Done(p, item) == frames' = [frames EXCEPT ![p][Len(frames[p])].todo = @ \ {item}]

\* Is the entry still what scandir saw?
Found(p, item) == Source(p, item.path).kind = item.kind

InTheWay(p, item) ==
    \/ item.kind = "file" /\ Dest(p, item.path).kind = "dir"
    \/ item.kind = "dir" /\ Dest(p, item.path).kind \in {"file", "other"}

Skip(p, item) ==
    /\ Walking(p, item)
    /\ \/ item.kind = "other"
       \/ ~Found(p, item) /\ Source(p, item.path).kind # "none"
       \/ Found(p, item) /\ InTheWay(p, item)
    /\ Done(p, item)
    /\ skipped' = [skipped EXCEPT ![p] = @ \cup {[name |-> Plan(p).name, path |-> item.path]}]
    /\ UNCHANGED <<disk, pc, run, file, crashes>>

\* The same modification time (and size, which goes with it).
Same(p, item) ==
    LET old == Dest(p, item.path) IN old.kind = "file" /\ old.time = Source(p, item.path).time

Unchanged(p, item) ==
    /\ Walking(p, item) /\ item.kind = "file" /\ Found(p, item) /\ Same(p, item)
    /\ Done(p, item)
    /\ UNCHANGED <<disk, pc, run, file, skipped, crashes>>

\* fstat, lstat, and the temporary file, a left-over one removed.
MutantOpenTmp(p, x) ==   \* the file is written in place
    /\ tmp' = [tmp EXCEPT ![Plan(p).name][x] = [Missing(0) EXCEPT !.kind = "file", !.data = {p}]]
    /\ copy' = [copy EXCEPT ![Plan(p).name][x] = tmp'[Plan(p).name][x]]
OpenTmp(p, x) ==
    /\ tmp' = [tmp EXCEPT ![Plan(p).name][x] = [Missing(0) EXCEPT !.kind = "file", !.data = {p}]]
    /\ UNCHANGED copy

Look(p, item) ==
    LET seen == Source(p, item.path) IN
    /\ Walking(p, item) /\ item.kind = "file" /\ Found(p, item)
    /\ ~InTheWay(p, item) /\ ~Same(p, item) /\ Here(p).dst
    /\ OpenTmp(p, item.path)
    /\ file' = [file EXCEPT ![p] = [path |-> item.path, data |-> seen.data, time |-> seen.time]]
    /\ Done(p, item) /\ Goes(p, "fill")
    /\ UNCHANGED <<host, marker, clock, run, skipped, crashes>>

\* The bytes come from the file fstat saw: as it was, rewritten since, or some of each.
\* utime sets the time fstat saw.
MutantStamp(p) == host[Plan(p).source][file[p].path].time   \* the time after the copy
Stamp(p)       == file[p].time

Written(p, entry, data) ==
    IF p \in entry.data THEN [entry EXCEPT !.data = data, !.time = Stamp(p)] ELSE entry

Fill(p) ==
    LET now  == host[Plan(p).source][file[p].path]
        seen == file[p].data IN
    /\ pc[p] = "fill"
    /\ \E data \in {seen} \cup (IF now.kind = "file" THEN {now.data, seen \cup now.data} ELSE {}) :
          /\ copy' = [n \in Names |-> [x \in Paths |-> Written(p, copy[n][x], data)]]
          /\ tmp' = [n \in Names |-> [x \in Paths |-> Written(p, tmp[n][x], data)]]
    /\ Goes(p, "rename")
    /\ UNCHANGED <<host, marker, clock, run, frames, file, skipped, crashes>>

\* os.replace: over a file or a link, never over a directory.
MutantReplaceable(p, x) == tmp[Plan(p).name][x].kind = "file" /\ Here(p).dst   \* a directory is moved away
Replaceable(p, x) ==
    /\ tmp[Plan(p).name][x].kind = "file" /\ Here(p).dst
    /\ copy[Plan(p).name][x].kind # "dir"

Rename(p) ==
    LET n == Plan(p).name
        x == file[p].path IN
    /\ pc[p] = "rename" /\ Replaceable(p, x)
    /\ copy' = [copy EXCEPT ![n][x] = tmp[n][x]]
    /\ tmp' = [tmp EXCEPT ![n][x] = Missing(0)]
    /\ file' = [file EXCEPT ![p] = NoFile] /\ Goes(p, "walk")
    /\ UNCHANGED <<host, marker, clock, run, frames, skipped, crashes>>

Enter(p, item) ==
    LET n == Plan(p).name
        x == item.path IN
    /\ Walking(p, item) /\ item.kind = "dir" /\ Found(p, item) /\ ~InTheWay(p, item) /\ Here(p).dst
    /\ copy' = IF copy[n][x].kind = "none" THEN [copy EXCEPT ![n][x] = NewDir] ELSE copy
    /\ LET rest == [frames[p] EXCEPT ![Len(frames[p])].todo = @ \ {item}] IN
       frames' = [frames EXCEPT ![p] = Append(rest,
          [path |-> x, todo |-> Children(host[Plan(p).source], x), src |-> TRUE, dst |-> TRUE])]
    /\ UNCHANGED <<host, tmp, marker, clock, pc, run, file, skipped, crashes>>

\* The end of a directory, of a plan, of the run.
More(p) == at[p] < Len(plans[p])

Leave(p) ==
    /\ pc[p] = "walk" /\ Here(p).todo = {}
    /\ frames' = [frames EXCEPT ![p] = Front(@)]
    /\ IF Len(frames[p]) > 1 THEN UNCHANGED <<pc, at>>
       ELSE IF More(p) THEN Goes(p, "claim") /\ at' = [at EXCEPT ![p] = @ + 1]
       ELSE Goes(p, "ok") /\ UNCHANGED at
    /\ UNCHANGED <<disk, plans, began, runs, file, skipped, crashes>>

----------------------------------------------------------------------------
(* Failures                                                                *)

\* Without a failing disk: the directory in the copy was deleted, the entry to copy
\* vanished, or os.replace finds no temporary file or finds a directory.
Stuck(p) ==
    \/ pc[p] = "open" /\ copy[Plan(p).name][Top].kind = "none"
    \/ pc[p] = "mark" /\ ~Here(p).dst
    \/ pc[p] = "walk" /\ \E item \in Here(p).todo :
          \/ Source(p, item.path).kind = "none"
          \/ item.kind # "other" /\ Found(p, item) /\ ~Here(p).dst
    \/ pc[p] = "rename" /\ ~Replaceable(p, file[p].path)

\* p writes no more: what it wrote to stays half-written.
Abandoned(p, tree) == [n \in Names |-> [x \in Paths |-> [tree[n][x] EXCEPT !.data = @ \ {p}]]]

\* ImportFailed.  _write_file_at's except block removes the temporary file, whoever made it.
Fails(p) ==
    LET left == Abandoned(p, tmp) IN
    /\ Busy(p) /\ (WritesFail \/ Stuck(p))
    /\ copy' = Abandoned(p, copy)
    /\ tmp' = IF pc[p] \in {"fill", "rename"} /\ Here(p).dst
              THEN [left EXCEPT ![Plan(p).name][file[p].path] = Missing(0)] ELSE left
    /\ Ends(p, "failed")
    /\ UNCHANGED <<host, marker, clock, run, skipped, crashes>>

\* Killed.
Crash(p) ==
    /\ Busy(p) /\ crashes < MaxCrashes /\ crashes' = crashes + 1
    /\ copy' = Abandoned(p, copy) /\ tmp' = Abandoned(p, tmp)
    /\ Ends(p, "idle")
    /\ UNCHANGED <<host, marker, clock, run, skipped>>

----------------------------------------------------------------------------
Step(p) ==
    \/ Start(p) \/ Claim(p) \/ OpenDest(p) \/ Mark(p) \/ Claimed(p) \/ Refuse(p)
    \/ \E item \in Item :
          Skip(p, item) \/ Unchanged(p, item) \/ Look(p, item) \/ Enter(p, item)
    \/ Fill(p) \/ Rename(p) \/ Leave(p)
    \/ Fails(p) \/ Crash(p)

Next ==
    \/ \E p \in Importers : Step(p)
    \/ \E s \in Sources, x \in Paths, kind \in Kinds : HostEdits(s, x, kind)
    \/ \E n \in Names, x \in Paths, kind \in Kinds : UserEdits(n, x, kind)

Spec == Init /\ [][Next]_vars

----------------------------------------------------------------------------
(* Properties                                                              *)

\* Types and ranges of every variable.
TypeOK ==
    /\ host \in [Sources -> [Paths -> Entry]]
    /\ copy \in [Names -> [Paths -> Entry]] /\ tmp \in [Names -> [Paths -> Entry]]
    /\ marker \in [Names -> Sources \cup {NoSource}]
    /\ clock \in Times
    /\ pc \in [Importers -> Idle \cup {"claim", "open", "mark", "walk", "fill", "rename"}]
    /\ plans \in [Importers -> Plans \cup {<<>>}] /\ at \in [Importers -> Nat]
    /\ frames \in [Importers -> Seq(Frame)]
    /\ \A p \in Importers :
          /\ Busy(p) => at[p] \in DOMAIN plans[p]
          /\ frames[p] # <<>> <=> pc[p] \in {"mark", "walk", "fill", "rename"}
    /\ file \in [Importers -> [path : Paths, data : SUBSET (Times \cup Importers), time : Times]]
    /\ skipped \in [Importers -> SUBSET [name : Names, path : Paths]]
    /\ began \in [Importers -> Times]
    /\ runs \in [Importers -> 0..MaxRuns] /\ crashes \in 0..MaxCrashes

\* "Changed files are replaced atomically" (imports.py, line 14): whatever is killed or
\* fails, no file of a copy is half-written.
NothingHalfWritten ==
    \A n \in Names, x \in Paths :
        LET entry == copy[n][x] IN entry.kind = "file" => entry.data # {} /\ entry.data \subseteq Times

\* What an importer may change: its steps are those at which no edit happens.
ImporterStep == clock' = clock

\* An importer changes a destination only while it copies the source the marker names,
\* or to create it, although the user may delete it and put something else in its
\* place, another importer may want the same name, and the next plan may give the name
\* to another source ("Each destination belongs to one source", imports.py, line 13).
ForeignUntouched ==
    [][ImporterStep =>
        \A n \in Names : copy'[n] # copy[n] =>
            \/ copy[n][Top].kind = "none"
            \/ \E p \in Importers : Busy(p) /\ Plan(p) = [source |-> marker[n], name |-> n]]_vars

\* "Nothing is ever deleted" (imports.py, line 15): no importer step removes an entry or
\* puts something else in the place of a directory, also when the user makes one
\* after the importer looked, and also when the importer is killed there.
NothingDeleted ==
    [][ImporterStep =>
        \A n \in Names, x \in Paths :
            /\ copy[n][x].kind # "none" => copy'[n][x].kind # "none"
            /\ copy[n][x].kind = "dir" => copy'[n][x] = copy[n][x]]_vars

\* A run that reports success has copied every file that did not change since it began,
\* unless it reported the file (or a directory above it) as skipped or the user
\* changed the copy since.  So a file copied while the host rewrote it, or left by an
\* interrupted run, is never taken for up to date.
OkMeansCopied ==
    \A p \in Importers : pc[p] = "ok" =>
        \A i \in DOMAIN plans[p], x \in Paths :
            LET original == host[plans[p][i].source][x]
                copied   == copy[plans[p][i].name][x]
            IN  original.kind = "file" /\ original.time <= began[p] =>
                    \/ copied.kind = "file" /\ copied.data = original.data
                    \/ copied.time > began[p]
                    \/ \E y \in Paths : /\ [name |-> plans[p][i].name, path |-> y] \in skipped[p]
                                         /\ x \in Below(y)

\* "Marked first, so an interrupted first copy is simply continued by the next Deploy"
\* (imports.py, line 320): a directory an import has made is not refused for want of a marker.
\* (Not so: README, section 4.)
RefusesOnlyForeign ==
    [][\A p \in Importers :
        pc[p] = "claim" /\ pc'[p] = "refused" /\ copy[Plan(p).name][Top] = NewDir => marker[Plan(p).name] # NoSource]_vars
=============================================================================
