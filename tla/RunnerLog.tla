----------------------------- MODULE RunnerLog -----------------------------
(***************************************************************************)
(* The job log as clients of deps_runner.py see it: the current job, the   *)
(* file job.log that start() truncates and the job thread writes, and the  *)
(* two moments at which GET /log looks (job first, file second).  What     *)
(* JobRunner does between these steps is in module JobRunner.              *)
(* A log is its length: piece i of the log of job j is the pair of them.   *)
(***************************************************************************)
EXTENDS Integers, FiniteSets, Sequences

CONSTANTS
    Clients,     \* who may start a job
    MaxJobs,     \* bound: jobs
    MaxLen,      \* bound: pieces of one log
    MaxChunk,    \* MAX_LOG_CHUNK, in pieces
    MaxStops     \* bound: restarts of the runner

ASSUME LogAssumption ==
    /\ MaxJobs \in Nat /\ MaxLen \in Nat \ {0} /\ MaxChunk \in Nat \ {0} /\ MaxStops \in Nat
    /\ "free" \notin Clients

VARIABLES
    job,         \* self.job: its number, and whether its status is "running"
    starting,    \* the client whose start() holds self._lock, or "free"
    open,        \* the log is open and the flock is held
    log,         \* job.log: the job that writes it and its length
    stops        \* restarts so far

runnerVars == <<job, starting, open, log, stops>>

RunnerInit ==
    /\ job = [id |-> 0, running |-> FALSE]
    /\ starting = "free" /\ open = FALSE
    /\ log = [of |-> 0, len |-> 0]
    /\ stops = 0

Busy == job.running \/ open

\* start(): the log is truncated before the new id is visible ...
StartTruncates(client) ==
    /\ starting = "free" /\ ~Busy
    /\ job.id < MaxJobs
    /\ starting' = client /\ open' = TRUE
    /\ log' = [of |-> job.id + 1, len |-> 0]
    /\ UNCHANGED <<job, stops>>

StartPublishes(client) ==
    /\ starting = client /\ starting' = "free"
    /\ job' = [id |-> job.id + 1, running |-> TRUE]
    /\ UNCHANGED <<open, log, stops>>

JobPrints ==
    /\ job.running /\ log.len < MaxLen - 1
    /\ log' = [log EXCEPT !.len = @ + 1]
    /\ UNCHANGED <<job, starting, open, stops>>

\* ... and the last line is written after the end is visible.
JobEnds ==
    /\ job.running
    /\ job' = [job EXCEPT !.running = FALSE]
    /\ UNCHANGED <<starting, open, log, stops>>

LogCloses ==
    /\ open /\ ~job.running /\ starting = "free"
    /\ log' = [log EXCEPT !.len = @ + 1]
    /\ open' = FALSE
    /\ UNCHANGED <<job, starting, stops>>

\* The container is killed and comes back: a running job is "interrupted".
RunnerRestarts ==
    /\ stops < MaxStops /\ stops' = stops + 1
    /\ job' = [job EXCEPT !.running = FALSE]
    /\ starting' = "free" /\ open' = FALSE
    /\ UNCHANGED log

RunnerNext == JobPrints \/ JobEnds \/ LogCloses

----------------------------------------------------------------------------
\* log_chunk, after job_copy(): what it answers to `offset`.
ChunkFrom(from, reset, left) ==
    [offset |-> from, reset |-> reset, of |-> log.of,
     next |-> from + (IF left > MaxChunk THEN MaxChunk ELSE left)]

MutantLogChunk(offset) == ChunkFrom(offset, FALSE, log.len + 1 - offset)   \* one piece too many
LogChunk(offset) ==
    IF offset > log.len THEN ChunkFrom(0, TRUE, log.len)
    ELSE ChunkFrom(offset, FALSE, log.len - offset)

Piece == [of : 0..MaxJobs, at : 1..MaxLen]

\* The text of an answer, and the whole log.
Pieces(of, from, to) == [i \in 1..(to - from) |-> [of |-> of, at |-> from + i]]
WholeLog             == Pieces(log.of, 0, log.len)

RunnerTypeOK ==
    /\ job \in [id : 0..MaxJobs, running : BOOLEAN]
    /\ starting \in Clients \cup {"free"}
    /\ open \in BOOLEAN
    /\ log \in [of : 0..MaxJobs, len : 0..MaxLen]
    /\ stops \in 0..MaxStops
=============================================================================
