------------------------------- MODULE Figures -------------------------------
(***************************************************************************)
(* The sources of the dashboard's figures, which share nothing: the cache  *)
(* with the JupyterClient, the host sampler, the GPU reader, and the       *)
(* runner's directory sizes, each with its own threads and state.  A       *)
(* behaviour follows one of them instead of all their interleavings.       *)
(***************************************************************************)
EXTENDS Dashboard, HostStats, GpuReader, Sizes

VARIABLE part   \* which of them

figVars == <<part, vars, hostVars, gpuVars, sizesVars>>

FiguresInit ==
    /\ part \in {"polls", "network", "cpu", "gpu", "sizes"}
    /\ Init /\ HostInit /\ GpuInit /\ SizesInit
    /\ part # "polls" => lab = [mode |-> "down", secret |-> "s0"]
    /\ part \notin {"network", "cpu"} => \A i \in Ifaces : counters[i] = 0

PollsStep(A) == part = "polls" /\ A /\ UNCHANGED <<part, hostVars, gpuVars, sizesVars>>
HostStep ==
    /\ (part = "network" /\ NetworkNext) \/ (part = "cpu" /\ CpuNext)
    /\ UNCHANGED <<part, vars, gpuVars, sizesVars>>
GpuStep(A) == part = "gpu" /\ A /\ UNCHANGED <<part, vars, hostVars, sizesVars>>
SizesStep  == part = "sizes" /\ SizesNext /\ UNCHANGED <<part, vars, hostVars, gpuVars>>

FiguresNext == PollsStep(Next) \/ HostStep \/ GpuStep(GpuNext) \/ SizesStep

\* As in Dashboard: time passes however many requests come, the event loop runs, the kernel
\* answers _local_stats, every HTTP call has a timeout; and the idle check of the GPU is repeated for ever.
FiguresSpec ==
    /\ FiguresInit /\ [][FiguresNext]_figVars
    /\ SF_figVars(PollsStep(Tick)) /\ WF_figVars(PollsStep(Client))
    /\ \A r \in Requests : WF_figVars(PollsStep(Answer(r))) /\ WF_figVars(PollsStep(LocalRead(r)))
    /\ WF_figVars(GpuStep(GpuTick)) /\ WF_figVars(GpuStep(ReleaseIfIdle))
=============================================================================
