---------------------------- MODULE VenvService ----------------------------
(***************************************************************************)
(* What deps_runner.py promises about the shared environment, without its  *)
(* threads, handlers, logs and files: a process owns the environment while *)
(* it changes it; it withdraws the record before the first change and      *)
(* gives it again only afterwards.  Whoever dies in between leaves the     *)
(* environment as it happens to be, without a record.                      *)
(***************************************************************************)
CONSTANTS
    Proc,       \* processes that may change the environment
    NoProc,     \* nobody owns it
    Venvs,      \* the states it can be in
    Names,      \* what a record may name
    Satisfies(_, _),  \* does an environment have what the record names?
    Truthful    \* must a new record name what is installed?

VARIABLES owner, record, venv

vars == <<owner, record, venv>>

Init ==
    /\ owner = NoProc
    /\ record \in [sha : Names, ok : BOOLEAN]
    /\ venv \in Venvs
    /\ Truthful /\ record.ok => Satisfies(venv, record.sha)

Acquire(p) ==
    /\ owner = NoProc /\ owner' = p
    /\ UNCHANGED <<record, venv>>

Withdraw(p) ==
    /\ owner = p
    /\ record' \in [sha : Names, ok : {FALSE}]
    /\ UNCHANGED <<owner, venv>>

Change(p) ==
    /\ owner = p /\ ~record.ok
    /\ venv' \in Venvs
    /\ UNCHANGED <<owner, record>>

Commit(p) ==
    /\ owner = p /\ ~record.ok
    /\ record' \in [sha : Names, ok : {TRUE}]
    /\ Truthful => Satisfies(venv, record'.sha)
    /\ UNCHANGED <<owner, venv>>

Release(p) ==
    /\ owner = p /\ owner' = NoProc
    /\ UNCHANGED <<record, venv>>

\* Death and release are one step: the kernel gives the flock back.
Die(p) ==
    /\ owner = p /\ owner' = NoProc
    /\ ~record.ok /\ venv' \in Venvs
    /\ UNCHANGED record

Next ==
    \E p \in Proc :
        Acquire(p) \/ Withdraw(p) \/ Change(p) \/ Commit(p) \/ Release(p) \/ Die(p)

Spec == Init /\ [][Next]_vars
=============================================================================
