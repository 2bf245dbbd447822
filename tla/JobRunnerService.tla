-------------------------- MODULE JobRunnerService --------------------------
(* JobRunner as an implementation of VenvService: the owner is the holder  *)
(* of the flock, the record is baseline.json, and everything a caller      *)
(* cannot see (threads, handlers, job.json, lists, log) is forgotten.      *)
EXTENDS JobRunner

\* Is this the only process on the volume?
Alone == \A p, q \in Proc : p = q

Satisfies(v, text) == v.state = "ok" /\ text \in v.sat \cup {NoPkgs}

Service ==
    INSTANCE VenvService WITH
        owner <- flock, record <- baselineState, Names <- Baselines, Truthful <- Alone

\* The runner keeps the promise, each of its steps being one of the service's or
\* none: start(), the job thread, kill_later, crashes, over all processes.  A new
\* record names what is installed if no second process can replace baseline.txt.
KeepsPromise == Service!Spec
=============================================================================
