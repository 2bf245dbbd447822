----------------------------- MODULE ListRunner -----------------------------
(***************************************************************************)
(* The requirements list of the Dependencies page and the jobs that        *)
(* install it, as the clients of deps_runner.py see them.  A method of     *)
(* JobRunner is one step here; its own steps are in module JobRunner.      *)
(* A text is the set of its lines, and whether it ends in a line break.    *)
(***************************************************************************)
EXTENDS Integers, FiniteSets

CONSTANTS
    Lines,       \* what a line can be
    Refused,     \* ... and validate_requirements refuses
    Lists,       \* bound: lists there may be before, and other clients save
    MaxSaves,    \* bound: lists other clients save
    MaxJobs      \* bound: jobs other clients start, and caches they clear

ASSUME LinesAssumption == Refused \subseteq Lines /\ IsFiniteSet(Lines)
ASSUME BoundsAssumption == MaxSaves \in Nat /\ MaxJobs \in Nat

VARIABLES
    list,         \* requirements.txt
    job,          \* the action of the job that runs, or "none"
    closing,      \* the worker of the last job still closes its log and holds the flock
    maintenance,  \* self._maintenance
    others        \* how much other clients have done

runnerVars == <<list, job, closing, maintenance, others>>

----------------------------------------------------------------------------
Texts    == {text \in [lines : SUBSET Lines, ended : BOOLEAN] : text.lines = {} => text.ended}
Empty    == [lines |-> {}, ended |-> TRUE]

Normalised(text) == [text EXCEPT !.ended = TRUE]
Accepted(text)   == text.lines \cap Refused = {}
Stored           == {text \in Texts : text.ended /\ Accepted(text)}

Running == job # "none"
Busy    == Running \/ maintenance
Held    == Busy \/ closing   \* no job can start

ASSUME ListsAssumption == Lists \subseteq Stored

RunnerInit ==
    /\ list \in Lists
    /\ job = "none" /\ closing = FALSE /\ maintenance = FALSE
    /\ others = [saves |-> 0, jobs |-> 0]

\* PUT /requirements that is not refused (400, 409).
Saves(text) ==
    /\ Accepted(text) /\ ~Busy
    /\ list' = Normalised(text)
    /\ UNCHANGED <<job, closing, maintenance>>

\* POST /jobs that is not refused (409).
Starts(action) == ~Held /\ job' = action /\ UNCHANGED <<list, closing, maintenance>>

\* The end of a job is seen before its worker has closed the log and released the flock.
JobEnds   == Running /\ job' = "none" /\ closing' = TRUE /\ UNCHANGED <<list, maintenance, others>>
JobCloses == closing /\ closing' = FALSE /\ UNCHANGED <<list, job, maintenance, others>>

----------------------------------------------------------------------------
(* Other clients: another tablet, or a request its sender has given up     *)

OtherSaves ==
    /\ others.saves < MaxSaves /\ others' = [others EXCEPT !.saves = @ + 1]
    /\ \E text \in Lists \ {list} : Saves(text)

OtherStarts ==
    /\ others.jobs < MaxJobs /\ others' = [others EXCEPT !.jobs = @ + 1]
    /\ \E action \in {"install", "reset"} : Starts(action)

OtherClears ==
    /\ ~Busy /\ maintenance' = TRUE
    /\ others.jobs < MaxJobs /\ others' = [others EXCEPT !.jobs = @ + 1]
    /\ UNCHANGED <<list, job, closing>>

ClearEnds ==
    /\ maintenance /\ maintenance' = FALSE
    /\ UNCHANGED <<list, job, closing, others>>

=============================================================================
