-------------------------------- MODULE Sizes --------------------------------
(***************************************************************************)
(* class Sizes of deps_runner.py: a background thread measures the venv    *)
(* and pip's cache; refresh() is called when a job or a cleared cache has  *)
(* changed them, by snapshot() when the numbers are old, and never waits.  *)
(* A directory's size is the number of the change it reflects.             *)
(***************************************************************************)
EXTENDS Naturals

CONSTANT MaxChanges   \* bound: changes of the directories

VARIABLES
    disk,      \* the directories as they are
    found,     \* what the walk in progress has measured: venv and cache
    walk,      \* where the thread is: "none", "venv", "cache", "done"
    running,   \* self._running
    again,     \* self._again
    values,    \* self._values: venv and cache
    owed       \* (history) the changes refresh() was called for

sizesVars == <<disk, found, walk, running, again, values, owed>>

SizesInit ==
    /\ disk = 0 /\ found = <<0, 0>> /\ walk = "none" /\ running = FALSE /\ again = FALSE
    /\ values = <<0, 0>> /\ owed = 0

\* Something is installed, removed or cleared; refresh() follows in a later step.
DiskChanges ==
    /\ disk < MaxChanges /\ disk' = disk + 1
    /\ UNCHANGED <<found, walk, running, again, values, owed>>

\* refresh(): a walk in progress may have passed the change, so it is told to repeat.
MutantRefresh ==
    /\ owed' = disk /\ UNCHANGED <<disk, found, values, again>>
    /\ IF running THEN UNCHANGED <<running, walk>> ELSE running' = TRUE /\ walk' = "venv"
Refresh ==
    /\ owed' = disk /\ UNCHANGED <<disk, found, values>>
    /\ IF running
       THEN again' = TRUE /\ UNCHANGED <<running, walk>>
       ELSE running' = TRUE /\ walk' = "venv" /\ UNCHANGED again

\* disk_usage of the one, then of the other.  (An error, shown as no sizes, is left out.)
WalkVenv ==
    /\ walk = "venv" /\ walk' = "cache" /\ found' = [found EXCEPT ![1] = disk]
    /\ UNCHANGED <<disk, running, again, values, owed>>
WalkCache ==
    /\ walk = "cache" /\ walk' = "done" /\ found' = [found EXCEPT ![2] = disk]
    /\ UNCHANGED <<disk, running, again, values, owed>>

\* Under the lock: publish, and end unless told to repeat.
WalkEnds ==
    /\ walk = "done" /\ values' = found /\ again' = FALSE
    /\ IF again THEN walk' = "venv" /\ UNCHANGED running ELSE walk' = "none" /\ running' = FALSE
    /\ UNCHANGED <<disk, found, owed>>

SizesNext == DiskChanges \/ Refresh \/ WalkVenv \/ WalkCache \/ WalkEnds

\* No refresh is lost: when no walk is in progress the numbers are at least as new as
\* the last change refresh() was called for, although it may have come between the
\* measurement of the venv and the end of a walk.
ShownSizesCurrent == ~running => values[1] >= owed /\ values[2] >= owed
=============================================================================
