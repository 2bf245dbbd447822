------------------------------ MODULE Dashboard ------------------------------
(***************************************************************************)
(* What GET /api/stats waits for (src/stack/stats): one RefreshingValue    *)
(* per data source (cache.py, app.py) between any number of requests and a *)
(* blocking loader in a worker thread, and each request's own thread for   *)
(* what is read from /proc; and the loader that is a protocol of its own,  *)
(* the JupyterClient (jupyterapi.py), with a JupyterLab that stops,        *)
(* answers oddly, or restarts with other secrets or another password.      *)
(* Absolute times count down: "fresh until" is how many ticks are left.    *)
(***************************************************************************)
EXTENDS Naturals

CONSTANTS
    Sources,     \* the RefreshingValues; "kernels" is the one of the JupyterClient
    Endpoints,   \* the sets a request gathers (/api/stats, /health): sources, and "local",
                 \* a thread of its own for _local_stats
    Requests,    \* bound: requests in progress at once
    Ttl, Wait,   \* RefreshingValue(ttl=..., wait=...), in ticks
    LoginRetry   \* LOGIN_RETRY_SECONDS, in ticks

ASSUME SourceAssumption == "kernels" \in Sources /\ "local" \notin Sources
ASSUME EndpointAssumption == Endpoints \subseteq SUBSET (Sources \cup {"local"})
ASSUME TimeAssumption == Ttl \in Nat \ {0} /\ Wait \in Nat /\ LoginRetry \in Nat \ {0}

VARIABLES
    task,      \* per source: self._task is not None
    loaders,   \* per source: worker threads inside self._fn
    fresh,     \* per source: time left until self._fresh_until
    value,     \* per source: self._value
    ask,       \* per request: what it still waits for
    left,      \* per request: time left of its wait for the sources
    asking,    \* requests being served
    pc,        \* where the thread in kernel_stats() is
    jar,       \* the client's cookies: none, _xsrf alone, or a session
    retry,     \* time left until self._login_retry_at
    lab,       \* JupyterLab: how it answers, and the secret its sessions are signed with
    since      \* (history) time since JupyterLab refused a login, up to LoginRetry

cache   == <<task, loaders, fresh, value>>
callers == <<ask, left, asking>>
session == <<jar, retry>>
vars    == <<cache, callers, session, pc, lab, since>>

Secrets == {"s0", "s1"}
Labs    == [mode : {"down", "wrong", "odd", "fine"}, secret : Secrets]
Values  == {"placeholder", "ok", "error"}
Steps   == {"idle", "list", "login", "page", "post", "again"}

\* The session cookie is "username-...": _xsrf alone is not a session.
HasSession == jar \in Secrets

Init ==
    /\ task = [s \in Sources |-> FALSE] /\ loaders = [s \in Sources |-> 0]
    /\ fresh = [s \in Sources |-> 0] /\ value = [s \in Sources |-> "placeholder"]
    /\ ask = [r \in Requests |-> {}] /\ left = [r \in Requests |-> 0] /\ asking = {}
    /\ pc = "idle" /\ jar = "none" /\ retry = 0 /\ since = LoginRetry
    /\ lab \in Labs

----------------------------------------------------------------------------
(* RefreshingValue, on the event loop                                      *)

\* get() of every source of an endpoint: stale values without a task get one, and the
\* request waits for whatever task there is.
Stale(S) == {s \in S \cap Sources : ~task[s] /\ fresh[s] = 0}

\* All tasks ended, or wait_for gave up; _local_stats is waited for without a limit.
Gathered(r) == r \in asking /\ (ask[r] = {} \/ (left[r] = 0 /\ "local" \notin ask[r]))
Ready       == \E r \in Requests : Gathered(r)   \* the event loop has work

Request(r, S) ==
    /\ ~Ready
    /\ r \notin asking /\ asking' = asking \cup {r}
    /\ task' = [s \in Sources |-> task[s] \/ s \in Stale(S)]
    /\ loaders' = [s \in Sources |-> loaders[s] + (IF s \in Stale(S) THEN 1 ELSE 0)]
    /\ ask' = [ask EXCEPT ![r] = {s \in S : s = "local" \/ task'[s]}]
    /\ left' = [left EXCEPT ![r] = Wait]
    /\ pc' = IF "kernels" \in Stale(S) THEN (IF HasSession THEN "list" ELSE "login") ELSE pc
    /\ UNCHANGED <<fresh, value, session, lab, since>>

\* The answer.  The shield keeps the tasks.
MutantPatient(r) ==
    /\ r \in asking /\ ask[r] = {}
    /\ asking' = asking \ {r}
    /\ UNCHANGED <<cache, ask, left, session, pc, lab, since>>
Answer(r) ==
    /\ Gathered(r)
    /\ asking' = asking \ {r} /\ ask' = [ask EXCEPT ![r] = {}]
    /\ UNCHANGED <<cache, left, session, pc, lab, since>>

\* _local_stats returns: figures from /proc, /sys and statvfs.
LocalRead(r) ==
    /\ "local" \in ask[r] /\ ask' = [ask EXCEPT ![r] = @ \ {"local"}]
    /\ UNCHANGED <<cache, left, asking, session, pc, lab, since>>

\* _refresh after its thread: the value (an exception's too), its time, no task.
Refreshed(s, v) ==
    /\ loaders' = [loaders EXCEPT ![s] = @ - 1]
    /\ value' = [value EXCEPT ![s] = v] /\ fresh' = [fresh EXCEPT ![s] = Ttl]
    /\ task' = [task EXCEPT ![s] = FALSE]
    /\ ask' = [r \in Requests |-> ask[r] \ {s}]
    /\ UNCHANGED <<left, asking>>

\* Another source's loader ends when it likes; nothing says it must.
OtherLoads(s, v) ==
    /\ s # "kernels" /\ loaders[s] > 0
    /\ Refreshed(s, v)
    /\ UNCHANGED <<session, pc, lab, since>>

----------------------------------------------------------------------------
(* JupyterClient.kernel_stats, in a worker thread                          *)

Down == lab.mode = "down"

\* A JupyterError, or the list: the thread's result becomes the value.
Ends(v) == pc' = "idle" /\ Refreshed("kernels", v)

GoesTo(step) == pc' = step /\ UNCHANGED <<cache, callers>>

MutantBlock == retry' = retry /\ since' = 0
Block       == retry' = LoginRetry /\ since' = 0

\* GET /api/kernels with a session; 403 when the secret is another one by now.
MutantList ==   \* a 403 is reported like any other error
    /\ pc = "list"
    /\ IF ~Down /\ jar = lab.secret THEN Ends("ok") ELSE Ends("error")
    /\ UNCHANGED <<session, lab, since>>
List ==
    /\ pc = "list"
    /\ \/ Down /\ Ends("error")
       \/ ~Down /\ jar = lab.secret /\ Ends("ok")
       \/ lab.mode = "odd" /\ Ends("error")
       \/ ~Down /\ jar # lab.secret /\ GoesTo("login")
    /\ UNCHANGED <<session, lab, since>>

\* _login: not before the retry time; the old cookies go.
Login ==
    /\ pc = "login"
    /\ \/ retry > 0 /\ Ends("error") /\ UNCHANGED jar
       \/ retry = 0 /\ GoesTo("page") /\ jar' = "none"
    /\ UNCHANGED <<retry, lab, since>>

\* GET /login for the _xsrf cookie.
LoginPage ==
    /\ pc = "page" /\ UNCHANGED lab
    /\ \/ (Down \/ lab.mode = "odd") /\ Ends("error") /\ UNCHANGED <<session, since>>
       \/ lab.mode = "odd" /\ Ends("error") /\ retry' = LoginRetry /\ UNCHANGED <<jar, since>>
       \/ ~Down /\ GoesTo("post") /\ jar' = "xsrf" /\ UNCHANGED <<retry, since>>

\* POST /login with the password: refused in some way, not answered (no wait then),
\* or a session.
LoginPost ==
    /\ pc = "post" /\ UNCHANGED lab
    /\ \/ (Down \/ lab.mode = "odd") /\ Ends("error") /\ UNCHANGED <<session, since>>
       \/ lab.mode \in {"wrong", "odd"} /\ Ends("error") /\ Block /\ UNCHANGED jar
       \/ lab.mode \in {"fine", "odd"} /\ GoesTo("again")
             /\ jar' = lab.secret /\ retry' = 0 /\ UNCHANGED since

\* GET /api/kernels again; a 403 now is not answered by yet another login.
ListAgain ==
    /\ pc = "again" /\ UNCHANGED lab
    /\ \/ (Down \/ lab.mode = "odd") /\ Ends("error") /\ UNCHANGED <<session, since>>
       \/ ~Down /\ jar = lab.secret /\ Ends("ok") /\ UNCHANGED <<session, since>>
       \/ ~Down /\ jar # lab.secret /\ Ends("error") /\ Block /\ jar' = "none"

Client == List \/ Login \/ LoginPage \/ LoginPost \/ ListAgain

----------------------------------------------------------------------------
(* JupyterLab and time                                                     *)

\* It stops, restarts (old sessions may be void then), gets another password.
LabTurns(new) ==
    /\ new # lab /\ lab' = new
    /\ UNCHANGED <<cache, callers, session, pc, since>>

Less(n) == IF n = 0 THEN 0 ELSE n - 1

\* Time passes once the event loop has nothing left to do.
Tick ==
    /\ ~Ready
    /\ fresh' = [s \in Sources |-> Less(fresh[s])]
    /\ left' = [r \in Requests |-> Less(left[r])]
    /\ retry' = Less(retry)
    /\ since' = IF since = LoginRetry THEN since ELSE since + 1
    /\ UNCHANGED <<task, loaders, value, ask, asking, pc, jar, lab>>

Next ==
    \/ \E r \in Requests : Answer(r) \/ LocalRead(r) \/ \E S \in Endpoints : Request(r, S)
    \/ \E s \in Sources, v \in {"ok", "error"} : OtherLoads(s, v)
    \/ Client
    \/ \E new \in Labs : LabTurns(new)
    \/ Tick

Spec == Init /\ [][Next]_vars

\* Time passes however many requests come, the event loop runs, the kernel answers
\* _local_stats, and every HTTP call of the client has a timeout.
FairSpec ==
    /\ Spec /\ SF_vars(Tick) /\ WF_vars(Client)
    /\ \A r \in Requests : WF_vars(Answer(r)) /\ WF_vars(LocalRead(r))

----------------------------------------------------------------------------
(* Properties                                                              *)

\* Types and ranges.
TypeOK ==
    /\ task \in [Sources -> BOOLEAN] /\ loaders \in [Sources -> Nat]
    /\ fresh \in [Sources -> 0..Ttl] /\ value \in [Sources -> Values]
    /\ ask \in [Requests -> SUBSET (Sources \cup {"local"})] /\ left \in [Requests -> 0..Wait]
    /\ asking \subseteq Requests
    /\ pc \in Steps /\ jar \in {"none", "xsrf"} \cup Secrets /\ retry \in 0..LoginRetry
    /\ lab \in Labs /\ since \in 0..LoginRetry

\* "At most one refresh runs at a time" (cache.py:15), which is what makes it safe that
\* JupyterClient is "not thread-safe: use it from one thread at a time"
\* (jupyterapi.py:85): whoever asks, gives up and asks again.
OneLoader == \A s \in Sources : loaders[s] <= 1

\* "After a rejected login, wait this long before costing JupyterLab another argon2
\* check" (jupyterapi.py:27), whatever restarts and expired sessions come between.
LoginsSpaced == [][LoginPost => since = LoginRetry]_vars

\* "Without ever blocking": every request is answered although a loader of a
\* source may hang.  (_local_stats is waited for without a limit: it has to return.)
AnswersInTime == \A r \in Requests : r \in asking ~> r \notin asking

\* No state is a trap: once JupyterLab stays up with the password the dashboard knows,
\* whatever went wrong before, somebody who keeps asking sees the kernels.
Recovers ==
    \A good \in Labs :
        good.mode = "fine" =>
            (<>[](lab = good) /\ []<>(asking # {}) => []<>(value["kernels"] = "ok"))
=============================================================================
