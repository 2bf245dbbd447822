------------------------------ MODULE GpuReader ------------------------------
(***************************************************************************)
(* GpuReader of gpustats.py: a worker thread reads through NVML under a    *)
(* lock, the event loop closes NVML when nobody has looked for a while     *)
(* (an open session keeps a laptop's GPU awake), and never waits for the   *)
(* lock.  Times are countdowns, as in Dashboard.                           *)
(***************************************************************************)
EXTENDS Naturals

CONSTANTS
    InitRetry,   \* INIT_RETRY_SECONDS, in ticks
    IdleLimit    \* IDLE_SHUTDOWN_SECONDS, in ticks

ASSUME GpuAssumption == InitRetry \in Nat /\ IdleLimit \in Nat

VARIABLES
    nvml,      \* self._initialized
    reader,    \* the thread in read(): "idle", "init", "query"; it holds the lock unless idle
    mayInit,   \* time left until self._init_retry_at
    unread     \* time since self._last_read, up to IdleLimit + 1

gpuVars == <<nvml, reader, mayInit, unread>>

GpuInit == nvml = FALSE /\ reader = "idle" /\ mayInit = 0 /\ unread = 0

\* read() gets the lock (its RefreshingValue starts one at a time).
ReadBegins ==
    /\ reader = "idle" /\ reader' = "init" /\ unread' = 0
    /\ UNCHANGED <<nvml, mayInit>>

\* _ensure_initialized: open, not yet to be tried again, or nvmlInit() with its result.
EnsureInitialized ==
    /\ reader = "init" /\ UNCHANGED unread
    /\ \/ nvml /\ reader' = "query" /\ UNCHANGED <<nvml, mayInit>>
       \/ ~nvml /\ mayInit > 0 /\ reader' = "idle" /\ UNCHANGED <<nvml, mayInit>>
       \/ ~nvml /\ mayInit = 0 /\ nvml' = TRUE /\ reader' = "query" /\ UNCHANGED mayInit
       \/ ~nvml /\ mayInit = 0 /\ mayInit' = InitRetry /\ reader' = "idle" /\ UNCHANGED nvml

\* The devices answer, or NVML does not work any more and is closed.
Query ==
    /\ reader = "query" /\ reader' = "idle"
    /\ nvml' \in {nvml, FALSE}
    /\ UNCHANGED <<mayInit, unread>>

\* release_if_idle, every 30 s on the event loop: not behind a read in progress.
MutantNever ==
    /\ reader = "idle" /\ nvml /\ unread' = 0   \* the check counts as a look
    /\ nvml' = (unread <= IdleLimit)
    /\ UNCHANGED <<reader, mayInit>>
ReleaseIfIdle ==
    /\ reader = "idle" /\ nvml /\ unread > IdleLimit
    /\ nvml' = FALSE
    /\ UNCHANGED <<reader, mayInit, unread>>

GpuTick ==
    /\ mayInit' = IF mayInit = 0 THEN 0 ELSE mayInit - 1
    /\ unread' = IF unread > IdleLimit THEN unread ELSE unread + 1
    /\ UNCHANGED <<nvml, reader>>

GpuNext == ReadBegins \/ EnsureInitialized \/ Query \/ ReleaseIfIdle \/ GpuTick

\* Without viewers the GPU is let go of in the end, although every single check may
\* have found the lock taken.
IdleReleased == <>[](reader = "idle") => <>[](~nvml)
=============================================================================
