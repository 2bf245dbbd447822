------------------------------ MODULE DepsPage ------------------------------
(***************************************************************************)
(* The Dependencies page (src/stack/stats/static/deps.js): how it follows  *)
(* the job and its log by polling.  Two coroutines of the page are in      *)
(* flight at once and share its variables: tick() (one at a time) and the  *)
(* one started by a button (one at a time, `pending`).  Between a request  *)
(* and its answer everything else may happen.                              *)
(***************************************************************************)
EXTENDS RunnerLog

CONSTANTS
    ChunksPerPoll,  \* LOG_CHUNKS_PER_POLL
    MaxLost         \* bound: requests that time out or find no runner

ASSUME PageAssumption ==
    /\ ChunksPerPoll \in Nat \ {0} /\ MaxLost \in Nat
    /\ Clients = {"page", "other"}

VARIABLES
    known,       \* state.job as last rendered
    aged,        \* Date.now() - stateLoadedAt >= STATE_POLL_MS
    connection,  \* "connecting", "ok" or "unavailable"
    logJobId,    \* whose log is shown
    logOffset,   \* where the next poll reads
    shown,       \* the log pane
    tick,        \* where tick() waits; "idle": the timer runs
    chunks,      \* pollLog's loop: requests left
    running,     \* pollLog's result so far: "null", "yes", "no"
    button,      \* where the button's coroutine waits
    request,     \* the request of each coroutine
    lost

pageVars == <<known, aged, connection, logJobId, logOffset, shown, tick, chunks, running, button>>
vars     == <<runnerVars, pageVars, request, lost>>

----------------------------------------------------------------------------
Coroutines == {"tick", "button"}
Stages     == {"none", "sent", "copied", "answered", "refused", "failed"}

NoRequest    == [stage |-> "none", offset |-> 0, next |-> 0, reset |-> FALSE, of |-> 0,
                 id |-> 0, running |-> FALSE]
Sent(offset) == [NoRequest EXCEPT !.stage = "sent", !.offset = offset]

\* What the request of a coroutine asks for.
Asks(c) ==
    IF c = "tick" THEN (IF tick \in {"watch", "poll"} THEN "log" ELSE "state")
    ELSE IF button = "refresh" THEN "state" ELSE button

Init ==
    /\ RunnerInit
    /\ known = [id |-> 0, running |-> FALSE] /\ aged = TRUE /\ connection = "connecting"
    /\ logJobId = 0 /\ logOffset = 0 /\ shown = <<>>
    /\ tick = "idle" /\ chunks = 0 /\ running = "null" /\ button = "none"
    /\ request = [c \in Coroutines |-> NoRequest]
    /\ lost = 0

----------------------------------------------------------------------------
(* The runner answers                                                      *)

Answer(c, fields) == request' = [request EXCEPT ![c] = fields]

\* job_copy() waits for self._lock, which start() holds.
StateAnswers(c) ==
    /\ Asks(c) = "state" /\ request[c].stage = "sent" /\ starting = "free"
    /\ Answer(c, [request[c] EXCEPT !.stage = "answered", !.id = job.id, !.running = job.running])
    /\ UNCHANGED <<runnerVars, pageVars, lost>>

LogCopiesJob(c) ==
    /\ Asks(c) = "log" /\ request[c].stage = "sent" /\ starting = "free"
    /\ Answer(c, [request[c] EXCEPT !.stage = "copied", !.id = job.id, !.running = job.running])
    /\ UNCHANGED <<runnerVars, pageVars, lost>>

LogReadsFile(c) ==
    /\ request[c].stage = "copied"
    /\ LET chunk == LogChunk(request[c].offset) IN
       Answer(c, [request[c] EXCEPT !.stage = "answered", !.offset = chunk.offset,
                                    !.next = chunk.next, !.reset = chunk.reset, !.of = chunk.of])
    /\ UNCHANGED <<runnerVars, pageVars, lost>>

PostTruncates ==
    /\ button = "post" /\ request["button"].stage = "sent"
    /\ StartTruncates("page")
    /\ UNCHANGED <<pageVars, request, lost>>

PostPublishes ==
    /\ StartPublishes("page")
    /\ Answer("button", [request["button"] EXCEPT !.stage = "answered", !.id = job'.id, !.running = TRUE])
    /\ UNCHANGED <<pageVars, lost>>

\* 409: a job is running (POST /jobs), no job is running (POST /cancel).
Refuses ==
    /\ request["button"].stage = "sent" /\ starting = "free"
    /\ \/ button = "post" /\ Busy
       \/ button = "cancel" /\ ~job.running
    /\ Answer("button", [request["button"] EXCEPT !.stage = "refused"])
    /\ UNCHANGED <<runnerVars, pageVars, lost>>

\* cancel() only asks the job thread; JobEnds is its answer.
CancelAnswers ==
    /\ button = "cancel" /\ request["button"].stage = "sent" /\ starting = "free" /\ job.running
    /\ Answer("button", [request["button"] EXCEPT !.stage = "answered", !.id = job.id, !.running = TRUE])
    /\ UNCHANGED <<runnerVars, pageVars, lost>>

\* Another tablet, a deploy, or a POST this page has given up.
OtherStarts    == StartTruncates("other") /\ UNCHANGED <<pageVars, request, lost>>
OtherPublishes == StartPublishes("other") /\ UNCHANGED <<pageVars, request, lost>>

Restarts ==
    /\ RunnerRestarts
    /\ request' = [c \in Coroutines |->
          IF request[c].stage = "copied" \/ (c = "button" /\ starting = "page")
          THEN [request[c] EXCEPT !.stage = "failed"] ELSE request[c]]
    /\ UNCHANGED <<pageVars, lost>>

\* A timeout (15 s), a proxy's 503, an unreachable runner.  What a POST that is
\* given up may still do in the runner is OtherStarts.
Loses(c) ==
    /\ request[c].stage \in {"sent", "copied"} /\ ~(c = "button" /\ starting = "page")
    /\ lost < MaxLost /\ lost' = lost + 1
    /\ Answer(c, [request[c] EXCEPT !.stage = "failed"])
    /\ UNCHANGED <<runnerVars, pageVars>>

----------------------------------------------------------------------------
(* The page                                                                *)

MutantReset(id) == logJobId' = id /\ logOffset' = 0 /\ UNCHANGED shown   \* the pane is not cleared
resetLog(id)    == logJobId' = id /\ logOffset' = 0 /\ shown' = <<>>

\* tick() goes on at `place` with a request, or waits for its timer.
TickAsks(place, offset) ==
    /\ tick' = place /\ request' = [request EXCEPT !["tick"] = Sent(offset)]
    /\ chunks' = ChunksPerPoll /\ running' = "null"
TickEnds ==
    /\ tick' = "idle" /\ request' = [request EXCEPT !["tick"] = NoRequest]
    /\ chunks' = 0 /\ running' = "null"

TickBegins ==
    /\ tick = "idle"
    /\ IF connection = "ok" /\ known.running THEN TickAsks("watch", logOffset) ELSE TickAsks("refresh", 0)
    /\ UNCHANGED <<runnerVars, known, aged, connection, logJobId, logOffset, shown, button, lost>>

StateAges ==
    /\ ~aged /\ aged' = TRUE
    /\ UNCHANGED <<runnerVars, known, connection, logJobId, logOffset, shown, tick, chunks, running,
                   button, request, lost>>

\* After pollLog: a watched job that ended is looked at once more, state and log; the
\* state of a running one is fetched every STATE_POLL_MS.
MutantPollEnds(result) == TickEnds   \* the end of the job is not looked at
PollEnds(result) ==
    \/ tick = "watch" /\ result = "no" /\ TickAsks("lastState", 0)
    \/ tick = "watch" /\ result = "yes" /\ aged /\ TickAsks("state", 0)
    \/ tick = "watch" /\ result = "yes" /\ ~aged /\ TickEnds
    \/ (tick = "poll" \/ result = "null") /\ TickEnds

\* pollLog's loop body with an answer of another job that does not start at 0.
ChunkOfOtherJob ==
    LET answer == request["tick"] IN
    /\ tick \in {"watch", "poll"} /\ answer.stage = "answered"
    /\ answer.id # logJobId /\ answer.offset # 0
    /\ resetLog(answer.id)
    /\ IF chunks > 1
       THEN /\ request' = [request EXCEPT !["tick"] = Sent(0)] /\ chunks' = chunks - 1
            /\ UNCHANGED <<tick, running>>
       ELSE PollEnds(running)
    /\ UNCHANGED <<runnerVars, known, aged, connection, button, lost>>

\* ... and with any other answer: append it, go on while there is more.
Fresh(answer)       == answer.id # logJobId \/ answer.reset

ChunkAppends ==
    LET answer == request["tick"]
        fresh  == Fresh(answer)
        more   == answer.next > (IF fresh THEN 0 ELSE logOffset) /\ answer.next > answer.offset
        result == IF answer.running THEN "yes" ELSE "no"
    IN
    /\ tick \in {"watch", "poll"} /\ answer.stage = "answered"
    /\ answer.id = logJobId \/ answer.offset = 0
    /\ logJobId' = answer.id /\ logOffset' = answer.next
    /\ shown' = (IF fresh THEN <<>> ELSE shown) \o Pieces(answer.of, answer.offset, answer.next)
    /\ IF more /\ chunks > 1
       THEN /\ request' = [request EXCEPT !["tick"] = Sent(answer.next)] /\ chunks' = chunks - 1
            /\ running' = result /\ UNCHANGED tick
       ELSE PollEnds(result)
    /\ UNCHANGED <<runnerVars, known, aged, connection, button, lost>>

\* refreshState with an answer, in either coroutine.
Renders(answer) ==
    /\ known' = [id |-> answer.id, running |-> answer.running]
    /\ aged' = FALSE /\ connection' = "ok"
    /\ IF answer.id # logJobId THEN resetLog(answer.id) ELSE UNCHANGED <<logJobId, logOffset, shown>>

StateArrives ==
    /\ tick \in {"refresh", "lastState", "state"} /\ request["tick"].stage = "answered"
    /\ Renders(request["tick"])
    /\ IF tick = "state" THEN TickEnds ELSE TickAsks("poll", logOffset')
    /\ UNCHANGED <<runnerVars, button, lost>>

\* A request of tick() failed.  Only after "lastState" the log is polled all the same.
TickFails ==
    /\ request["tick"].stage = "failed" /\ connection' = "unavailable"
    /\ IF tick = "lastState" THEN TickAsks("poll", logOffset) ELSE TickEnds
    /\ UNCHANGED <<runnerVars, known, aged, logJobId, logOffset, shown, button, lost>>

\* startJob and cancelJob, for the controls updateControls enables.  A save before the
\* job changes nothing modelled here.
Presses ==
    /\ button = "none" /\ connection = "ok"
    /\ button' = IF known.running THEN "cancel" ELSE "post"
    /\ request' = [request EXCEPT !["button"] = Sent(0)]
    /\ UNCHANGED <<runnerVars, known, aged, connection, logJobId, logOffset, shown, tick, chunks, running, lost>>

ButtonDone == button' = "none" /\ request' = [request EXCEPT !["button"] = NoRequest]

ButtonAnswered ==
    LET answer == request["button"] IN
    /\ answer.stage = "answered"
    /\ \/ /\ button = "post" /\ resetLog(answer.id)
          /\ known' = [id |-> answer.id, running |-> TRUE] /\ UNCHANGED <<aged, connection>>
       \/ /\ button = "cancel" /\ UNCHANGED <<logJobId, logOffset, shown, aged, connection>>
          /\ known' = [id |-> answer.id, running |-> TRUE]
       \/ button = "refresh" /\ Renders(answer)
    /\ ButtonDone
    /\ UNCHANGED <<runnerVars, tick, chunks, running, lost>>

\* startJob answers a 409 with refreshState; cancelJob only shows a message.
ButtonRefused ==
    /\ request["button"].stage = "refused"
    /\ \/ /\ button = "post" /\ button' = "refresh"
          /\ request' = [request EXCEPT !["button"] = Sent(0)]
       \/ button = "cancel" /\ ButtonDone
    /\ UNCHANGED <<runnerVars, known, aged, connection, logJobId, logOffset, shown, tick, chunks, running, lost>>

ButtonFails ==
    /\ request["button"].stage = "failed" /\ connection' = "unavailable"
    /\ ButtonDone
    /\ UNCHANGED <<runnerVars, known, aged, logJobId, logOffset, shown, tick, chunks, running, lost>>

----------------------------------------------------------------------------
Job == RunnerNext /\ UNCHANGED <<pageVars, request, lost>>

Answers ==
    \/ \E c \in Coroutines : StateAnswers(c) \/ LogCopiesJob(c) \/ LogReadsFile(c)
    \/ PostTruncates \/ PostPublishes \/ Refuses \/ CancelAnswers

PageTicks   == TickBegins \/ ChunkOfOtherJob \/ ChunkAppends \/ StateArrives \/ TickFails
PageButtons == ButtonAnswered \/ ButtonRefused \/ ButtonFails

Next ==
    \/ Job \/ Answers \/ OtherStarts \/ OtherPublishes \/ Restarts
    \/ \E c \in Coroutines : Loses(c)
    \/ PageTicks \/ StateAges \/ PageButtons \/ Presses

\* The tab is visible, so its timers fire; a request is answered or given up; start() goes
\* on once it has the lock.  Nothing is assumed of the job, its output, or of users.
Fairness ==
    /\ WF_vars(PageTicks) /\ WF_vars(PageButtons) /\ WF_vars(StateAges)
    /\ \A c \in Coroutines : WF_vars(StateAnswers(c) \/ LogCopiesJob(c) \/ LogReadsFile(c))
    /\ WF_vars(PostTruncates \/ PostPublishes \/ Refuses \/ CancelAnswers)
    /\ WF_vars(OtherPublishes)

Spec     == Init /\ [][Next]_vars
FairSpec == Spec /\ Fairness

----------------------------------------------------------------------------
(* Properties                                                              *)

\* Types and ranges of every variable.
TypeOK ==
    /\ RunnerTypeOK
    /\ known \in [id : 0..MaxJobs, running : BOOLEAN]
    /\ aged \in BOOLEAN /\ connection \in {"connecting", "ok", "unavailable"}
    /\ logJobId \in 0..MaxJobs /\ logOffset \in 0..MaxLen
    /\ shown \in Seq(Piece)
    /\ tick \in {"idle", "watch", "lastState", "state", "refresh", "poll"}
    /\ chunks \in 0..ChunksPerPoll /\ running \in {"null", "yes", "no"}
    /\ button \in {"none", "post", "cancel", "refresh"}
    /\ request \in [Coroutines -> [stage : Stages, offset : 0..MaxLen, next : 0..MaxLen,
                                   reset : BOOLEAN, of : 0..MaxJobs, id : 0..MaxJobs, running : BOOLEAN]]
    /\ lost \in 0..MaxLost

\* The pane never shows a piece of a log twice or out of order, whatever answers
\* arrive late, for another job, or after the log was truncated.
ShownInOrder ==
    \A i, j \in 1..Len(shown) :
        i < j /\ shown[i].of = shown[j].of => shown[i].at < shown[j].at

\* The page ends up with the runner's job and its status, in spite of lost requests,
\* restarts, stale answers and the two coroutines overwriting each other's state.
CatchesUp == <>[](known = job /\ logJobId = job.id /\ connection = "ok")

\* "The Dependencies page shows the full log" (README.md, line 872): from some time on
\* the pane shows the log of the current job from its first piece to its last.  (Not so for
\* a page that starts a job itself: README, section 4.)
FullLog == <>[](shown = WholeLog)

\* ... which holds while this page starts no job itself, whatever others start.
FullLogIfWatching == [](button # "post") => FullLog
=============================================================================
