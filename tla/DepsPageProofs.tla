--------------------------- MODULE DepsPageProofs ---------------------------
(***************************************************************************)
(* For any numbers of jobs, restarts, lost requests and pieces: the types, *)
(* and that the log pane never shows a piece twice or out of order.        *)
(***************************************************************************)
EXTENDS DepsPage, SequenceTheorems, TLAPS

USE LogAssumption, PageAssumption

Requests == [stage : Stages, offset : 0..MaxLen, next : 0..MaxLen, reset : BOOLEAN,
             of : 0..MaxJobs, id : 0..MaxJobs, running : BOOLEAN]

\* Who is inside start() has an empty log and an id left; a log that is open has room
\* for its last line.
RunInv ==
    /\ starting # "free" => job.id < MaxJobs /\ ~job.running /\ open /\ log.len = 0
    /\ job.running => open
    /\ open => log.len <= MaxLen - 1

\* The pane is in order and ends where the next poll begins; so does what is asked for
\* already, unless the pane will be emptied with the answer.
InOrder(pieces)      == \A i, j \in 1..Len(pieces) : i < j => pieces[i].at < pieces[j].at
UpTo(pieces, offset) == \A i \in 1..Len(pieces) : pieces[i].at <= offset

OrderInv ==
    /\ InOrder(shown) /\ UpTo(shown, logOffset)
    /\ request["tick"].reset => request["tick"].stage = "answered"
    /\ tick \in {"watch", "poll"} =>
          /\ request["tick"].stage = "answered" => request["tick"].offset <= request["tick"].next
          /\ request["tick"].reset \/ UpTo(shown, request["tick"].offset)

----------------------------------------------------------------------------
\* What an answer to GET /log says, wherever the log was truncated since it was asked.
LEMMA ChunkInLog ==
  ASSUME log \in [of : 0..MaxJobs, len : 0..MaxLen], NEW offset \in 0..MaxLen
  PROVE  /\ LogChunk(offset).offset \in 0..MaxLen /\ LogChunk(offset).next \in 0..MaxLen
         /\ LogChunk(offset).reset \in BOOLEAN /\ LogChunk(offset).of \in 0..MaxJobs
         /\ LogChunk(offset).offset <= LogChunk(offset).next
         /\ ~LogChunk(offset).reset => LogChunk(offset).offset = offset
BY DEF LogChunk, ChunkFrom

\* The text of an answer: as long as it says, in order, between its ends.
LEMMA PiecesInOrder ==
  ASSUME NEW of \in 0..MaxJobs, NEW from \in 0..MaxLen, NEW to \in 0..MaxLen
  PROVE  /\ Pieces(of, from, to) \in Seq(Piece)
         /\ from <= to => Len(Pieces(of, from, to)) = to - from
         /\ \A i \in 1..Len(Pieces(of, from, to)) : Pieces(of, from, to)[i].at = from + i
<1>1. CASE from <= to
  BY <1>1 DEF Pieces, Piece
<1>2. CASE from > to
  <2>1. 1..(to - from) = {} /\ 1..(to - from) = 1..0
    BY <1>2
  <2>2. Pieces(of, from, to) = [i \in 1..0 |-> [of |-> of, at |-> from + i]]
    BY <2>1 DEF Pieces
  <2>3. QED
    BY <2>2, <1>2 DEF Piece
<1>3. QED
  BY <1>1, <1>2

\* The requests the page sends are requests.
LEMMA RequestShapes ==
  /\ NoRequest \in Requests
  /\ \A k \in 0..MaxLen : Sent(k) \in Requests /\ Sent(k).offset = k /\ ~Sent(k).reset /\ Sent(k).stage = "sent"
<1>1. NoRequest \in Requests
  BY DEF NoRequest, Requests, Stages
<1>2. ASSUME NEW r \in Requests, NEW k \in 0..MaxLen
      PROVE  LET x == [r EXCEPT !.stage = "sent", !.offset = k]
             IN  x \in Requests /\ x.offset = k /\ x.reset = r.reset /\ x.stage = "sent"
  BY DEF Requests, Stages
<1>3. NoRequest.reset = FALSE
  BY DEF NoRequest
<1>4. QED
  BY <1>1, <1>2, <1>3 DEF Sent

\* What the runner fills in stays a request.
LEMMA AnswerShapes ==
  ASSUME NEW r \in Requests
  PROVE  /\ \A s \in Stages : [r EXCEPT !.stage = s] \in Requests
         /\ \A s \in Stages, n \in 0..MaxJobs, b \in BOOLEAN :
               [r EXCEPT !.stage = s, !.id = n, !.running = b] \in Requests
         /\ \A s \in Stages, k \in 0..MaxLen, m \in 0..MaxLen, b \in BOOLEAN, n \in 0..MaxJobs :
               [r EXCEPT !.stage = s, !.offset = k, !.next = m, !.reset = b, !.of = n] \in Requests
BY DEF Requests

----------------------------------------------------------------------------
(* Types                                                                   *)

\* What the runner does by itself, or somebody asks of it, keeps its part.
LEMMA RunnerStep ==
  ASSUME RunnerTypeOK, RunInv,
         \/ RunnerNext \/ RunnerRestarts \/ UNCHANGED runnerVars
         \/ \E client \in Clients : StartTruncates(client) \/ StartPublishes(client)
  PROVE  RunnerTypeOK' /\ RunInv'
<1> USE DEF RunnerTypeOK, RunInv
<1>1. CASE JobPrints
  BY <1>1 DEF JobPrints
<1>2. CASE JobEnds
  BY <1>2 DEF JobEnds
<1>3. CASE LogCloses
  <2>1. log.len + 1 <= MaxLen /\ log' \in [of : 0..MaxJobs, len : 0..MaxLen]
    BY <1>3 DEF LogCloses
  <2>2. QED
    BY <1>3, <2>1 DEF LogCloses
<1>4. CASE RunnerRestarts
  <2>1. job' \in [id : 0..MaxJobs, running : BOOLEAN] /\ ~job'.running
    BY <1>4 DEF RunnerRestarts
  <2>2. starting' = "free" /\ open' = FALSE /\ log' = log /\ stops' \in 0..MaxStops
    BY <1>4 DEF RunnerRestarts
  <2>3. QED
    BY <2>1, <2>2
<1>5. CASE UNCHANGED runnerVars
  BY <1>5 DEF runnerVars
<1>6. ASSUME NEW client \in Clients, StartTruncates(client)
      PROVE  RunnerTypeOK' /\ RunInv'
  BY <1>6 DEF StartTruncates, Busy
<1>7. ASSUME NEW client \in Clients, StartPublishes(client)
      PROVE  RunnerTypeOK' /\ RunInv'
  BY <1>7 DEF StartPublishes
<1>8. QED
  BY <1>1, <1>2, <1>3, <1>4, <1>5, <1>6, <1>7 DEF RunnerNext

\* What TypeOK says of the page alone.
PageTypeOK ==
    /\ known \in [id : 0..MaxJobs, running : BOOLEAN]
    /\ aged \in BOOLEAN /\ connection \in {"connecting", "ok", "unavailable"}
    /\ logJobId \in 0..MaxJobs /\ logOffset \in 0..MaxLen
    /\ shown \in Seq(Piece)
    /\ tick \in {"idle", "watch", "lastState", "state", "refresh", "poll"}
    /\ chunks \in 0..ChunksPerPoll /\ running \in {"null", "yes", "no"}
    /\ button \in {"none", "post", "cancel", "refresh"}
    /\ lost \in 0..MaxLost

\* The runner's handlers and its other clients: a request is filled in or lost.
LEMMA AnswersTypes ==
  ASSUME TypeOK, RunInv,
         \/ Job \/ Answers \/ OtherStarts \/ OtherPublishes \/ Restarts
         \/ \E c \in Coroutines : Loses(c)
  PROVE  TypeOK' /\ RunInv'
<1> USE DEF Coroutines
<1>0. RunnerTypeOK /\ PageTypeOK /\ request \in [Coroutines -> Requests]
  BY DEF TypeOK, PageTypeOK, Requests
<1>1. SUFFICES /\ \/ RunnerNext \/ RunnerRestarts \/ UNCHANGED runnerVars
                  \/ \E client \in Clients : StartTruncates(client) \/ StartPublishes(client)
               /\ UNCHANGED pageVars
               /\ lost' \in 0..MaxLost
               /\ request' \in [Coroutines -> Requests]
  <2>1. UNCHANGED pageVars /\ lost' \in 0..MaxLost => PageTypeOK'
    BY <1>0 DEF PageTypeOK, pageVars
  <2>2. RunnerTypeOK' /\ PageTypeOK' /\ request' \in [Coroutines -> Requests] => TypeOK'
    BY DEF TypeOK, PageTypeOK, Requests
  <2>3. QED
    BY <1>0, <2>1, <2>2, RunnerStep
<1>2. \A c \in Coroutines, x \in Requests :
         Answer(c, x) => request' \in [Coroutines -> Requests]
  BY <1>0 DEF Answer
<1>3. lost \in 0..MaxLost /\ job \in [id : 0..MaxJobs, running : BOOLEAN]
      /\ log \in [of : 0..MaxJobs, len : 0..MaxLen] /\ request \in [Coroutines -> Requests]
  BY <1>0 DEF PageTypeOK, RunnerTypeOK
<1>4. CASE Job \/ OtherStarts \/ OtherPublishes
  BY <1>3, <1>4 DEF Job, OtherStarts, OtherPublishes
<1>5. ASSUME NEW c \in Coroutines, StateAnswers(c) \/ LogCopiesJob(c) \/ LogReadsFile(c)
      PROVE  UNCHANGED <<runnerVars, pageVars, lost>> /\ request' \in [Coroutines -> Requests]
  <2>1. UNCHANGED <<runnerVars, pageVars, lost>>
    BY <1>5 DEF StateAnswers, LogCopiesJob, LogReadsFile
  <2>2. \E x \in Requests : Answer(c, x)
    <3>1. request[c] \in Requests /\ request[c].offset \in 0..MaxLen
      BY <1>3 DEF Requests
    <3>2. CASE StateAnswers(c)
      BY <3>1, <3>2, <1>3, AnswerShapes DEF StateAnswers, Stages
    <3>3. CASE LogCopiesJob(c)
      BY <3>1, <3>3, <1>3, AnswerShapes DEF LogCopiesJob, Stages
    <3>4. CASE LogReadsFile(c)
      BY <3>1, <3>4, <1>3, AnswerShapes, ChunkInLog DEF LogReadsFile, Stages
    <3>5. QED
      BY <1>5, <3>2, <3>3, <3>4
  <2>3. QED
    BY <2>1, <2>2, <1>2
<1>6. CASE PostTruncates
  BY <1>3, <1>6 DEF PostTruncates
<1>7. CASE PostPublishes
  <2>1. job'.id \in 0..MaxJobs
    <3>1. job'.id = job.id + 1 /\ job.id < MaxJobs
      BY <1>7, <1>3 DEF PostPublishes, StartPublishes, RunInv
    <3>2. QED
      BY <3>1, <1>3
  <2>2. request["button"] \in Requests
    BY <1>3
  <2>3. [request["button"] EXCEPT !.stage = "answered", !.id = job'.id, !.running = TRUE] \in Requests
    BY <2>1, <2>2, AnswerShapes DEF Stages
  <2>4. QED
    BY <1>2, <1>3, <1>7, <2>3 DEF PostPublishes
<1>8. CASE Refuses \/ CancelAnswers
  <2>1. request["button"] \in Requests
    BY <1>3
  <2>2. [request["button"] EXCEPT !.stage = "refused"] \in Requests
        /\ [request["button"] EXCEPT !.stage = "answered", !.id = job.id, !.running = TRUE] \in Requests
    BY <2>1, <1>3, AnswerShapes DEF Stages
  <2>3. QED
    BY <1>2, <1>3, <1>8, <2>2 DEF Refuses, CancelAnswers
<1>9. CASE Restarts
  <2>1. \A c \in Coroutines : request[c] \in Requests /\ [request[c] EXCEPT !.stage = "failed"] \in Requests
    BY <1>3, AnswerShapes DEF Stages
  <2>2. QED
    BY <1>3, <1>9, <2>1 DEF Restarts
<1>10. ASSUME NEW c \in Coroutines, Loses(c)
       PROVE  /\ UNCHANGED <<runnerVars, pageVars>>
              /\ lost' \in 0..MaxLost /\ request' \in [Coroutines -> Requests]
  <2>1. [request[c] EXCEPT !.stage = "failed"] \in Requests
    BY <1>3, AnswerShapes DEF Stages
  <2>2. QED
    BY <1>2, <1>3, <1>10, <2>1 DEF Loses
<1>11. QED
  BY <1>3, <1>4, <1>5, <1>6, <1>7, <1>8, <1>9, <1>10 DEF Answers

\* What tick() does next is one of its places with a request, or its timer.
LEMMA TickTypes ==
  ASSUME request \in [Coroutines -> Requests], NEW k \in 0..MaxLen,
         NEW place \in {"idle", "watch", "lastState", "state", "refresh", "poll"}
  PROVE  /\ TickAsks(place, k) => /\ request' \in [Coroutines -> Requests] /\ tick' = place
                                  /\ chunks' \in 0..ChunksPerPoll /\ running' \in {"null", "yes", "no"}
         /\ TickEnds => /\ request' \in [Coroutines -> Requests] /\ tick' = "idle"
                        /\ chunks' \in 0..ChunksPerPoll /\ running' \in {"null", "yes", "no"}
BY RequestShapes DEF TickAsks, TickEnds, Coroutines

\* ... and so is what it does after pollLog.
LEMMA PollTypes ==
  ASSUME request \in [Coroutines -> Requests], NEW result, PollEnds(result)
  PROVE  /\ request' \in [Coroutines -> Requests] /\ tick' \in {"idle", "lastState", "state"}
         /\ chunks' \in 0..ChunksPerPoll /\ running' \in {"null", "yes", "no"}
<1>1. TickAsks("lastState", 0) \/ TickAsks("state", 0) \/ TickEnds
  BY DEF PollEnds
<1>2. 0 \in 0..MaxLen
  OBVIOUS
<1>3. QED
  BY <1>1, <1>2, TickTypes

\* The page's coroutines: what is shown and asked for stays within the log.
LEMMA PageTypes ==
  ASSUME TypeOK, PageTicks \/ StateAges \/ PageButtons \/ Presses
  PROVE  TypeOK' /\ UNCHANGED runnerVars
<1>0. /\ RunnerTypeOK /\ PageTypeOK /\ request \in [Coroutines -> Requests]
      /\ request["tick"] \in Requests /\ request["button"] \in Requests
  BY DEF TypeOK, PageTypeOK, Requests, Coroutines
<1>1. SUFFICES PageTypeOK' /\ request' \in [Coroutines -> Requests] /\ UNCHANGED runnerVars
  <2>1. UNCHANGED runnerVars => RunnerTypeOK'
    BY <1>0 DEF runnerVars, RunnerTypeOK
  <2>2. RunnerTypeOK' /\ PageTypeOK' /\ request' \in [Coroutines -> Requests] => TypeOK'
    BY DEF TypeOK, PageTypeOK, Requests
  <2>3. QED
    BY <2>1, <2>2
<1>2. \A id : id \in 0..MaxJobs /\ resetLog(id) =>
          logJobId' \in 0..MaxJobs /\ logOffset' \in 0..MaxLen /\ shown' \in Seq(Piece)
  BY DEF resetLog
<1>3. ASSUME NEW answer \in Requests, Renders(answer)
      PROVE  /\ known' \in [id : 0..MaxJobs, running : BOOLEAN] /\ aged' \in BOOLEAN
             /\ connection' \in {"connecting", "ok", "unavailable"}
             /\ logJobId' \in 0..MaxJobs /\ logOffset' \in 0..MaxLen /\ shown' \in Seq(Piece)
  BY <1>0, <1>2, <1>3 DEF Renders, Requests, PageTypeOK
<1>4. CASE TickBegins
  <2>1. logOffset \in 0..MaxLen /\ 0 \in 0..MaxLen
    BY <1>0 DEF PageTypeOK
  <2>2. TickAsks("watch", logOffset) \/ TickAsks("refresh", 0)
    BY <1>4 DEF TickBegins
  <2>3. QED
    BY <1>0, <1>4, <2>1, <2>2, TickTypes DEF TickBegins, PageTypeOK
<1>5. CASE ChunkOfOtherJob
  <2>1. request["tick"].id \in 0..MaxJobs
    BY <1>0 DEF Requests
  <2>2. CASE chunks > 1
    BY <1>0, <1>2, <1>5, <2>1, <2>2, RequestShapes DEF ChunkOfOtherJob, PageTypeOK, Coroutines
  <2>3. CASE ~(chunks > 1)
    BY <1>0, <1>2, <1>5, <2>1, <2>3, PollTypes DEF ChunkOfOtherJob, PageTypeOK
  <2>4. QED
    BY <2>2, <2>3
<1>6. CASE ChunkAppends
  <2>1. /\ request["tick"].id \in 0..MaxJobs /\ request["tick"].next \in 0..MaxLen
        /\ request["tick"].offset \in 0..MaxLen /\ request["tick"].of \in 0..MaxJobs
    BY <1>0 DEF Requests
  <2>2. shown' \in Seq(Piece) /\ logJobId' \in 0..MaxJobs /\ logOffset' \in 0..MaxLen
    <3>1. Pieces(request["tick"].of, request["tick"].offset, request["tick"].next) \in Seq(Piece)
      BY <2>1, PiecesInOrder
    <3>2. shown \in Seq(Piece) /\ <<>> \in Seq(Piece)
      BY <1>0 DEF PageTypeOK
    <3>3. QED
      BY <1>6, <2>1, <3>1, <3>2 DEF ChunkAppends
  <2>3. CASE tick' = tick /\ chunks > 1 /\ chunks' = chunks - 1
             /\ request' = [request EXCEPT !["tick"] = Sent(request["tick"].next)]
             /\ running' \in {"yes", "no"}
    BY <1>0, <1>6, <2>1, <2>2, <2>3, RequestShapes DEF ChunkAppends, PageTypeOK, Coroutines
  <2>4. CASE \E result : PollEnds(result)
    BY <1>0, <1>6, <2>2, <2>4, PollTypes DEF ChunkAppends, PageTypeOK
  <2>5. QED
    BY <1>6, <2>3, <2>4 DEF ChunkAppends
<1>7. CASE StateArrives
  <2>1. Renders(request["tick"]) /\ UNCHANGED <<runnerVars, button, lost>>
    BY <1>7 DEF StateArrives
  <2>2. TickEnds \/ TickAsks("poll", logOffset')
    BY <1>7 DEF StateArrives
  <2>3. logOffset' \in 0..MaxLen
    BY <1>0, <1>3, <2>1
  <2>4. QED
    BY <1>0, <1>3, <2>1, <2>2, <2>3, TickTypes DEF PageTypeOK
<1>8. CASE TickFails
  <2>1. logOffset \in 0..MaxLen
    BY <1>0 DEF PageTypeOK
  <2>2. TickEnds \/ TickAsks("poll", logOffset)
    BY <1>8 DEF TickFails
  <2>3. QED
    BY <1>0, <1>8, <2>1, <2>2, TickTypes DEF TickFails, PageTypeOK
<1>9. CASE StateAges
  BY <1>0, <1>9 DEF StateAges, PageTypeOK
<1>10. CASE Presses
  BY <1>0, <1>10, RequestShapes DEF Presses, PageTypeOK, Coroutines
<1>11. CASE ButtonAnswered
  <2>1. request["button"].id \in 0..MaxJobs
    BY <1>0 DEF Requests
  <2>2. request' \in [Coroutines -> Requests] /\ button' = "none"
        /\ UNCHANGED <<runnerVars, tick, chunks, running, lost>>
    BY <1>0, <1>11, RequestShapes DEF ButtonAnswered, ButtonDone, Coroutines
  <2>3. /\ known' \in [id : 0..MaxJobs, running : BOOLEAN] /\ aged' \in BOOLEAN
        /\ connection' \in {"connecting", "ok", "unavailable"}
        /\ logJobId' \in 0..MaxJobs /\ logOffset' \in 0..MaxLen /\ shown' \in Seq(Piece)
    <3>1. CASE button = "post"
      <4>1. /\ resetLog(request["button"].id) /\ UNCHANGED <<aged, connection>>
            /\ known' = [id |-> request["button"].id, running |-> TRUE]
        BY <1>11, <3>1 DEF ButtonAnswered
      <4>2. QED
        BY <1>0, <1>2, <2>1, <4>1 DEF PageTypeOK
    <3>2. CASE button = "cancel"
      <4>1. /\ known' = [id |-> request["button"].id, running |-> TRUE]
            /\ UNCHANGED <<logJobId, logOffset, shown, aged, connection>>
        BY <1>11, <3>2 DEF ButtonAnswered
      <4>2. QED
        BY <1>0, <2>1, <4>1 DEF PageTypeOK
    <3>3. CASE button = "refresh"
      <4>1. Renders(request["button"])
        BY <1>11, <3>3 DEF ButtonAnswered
      <4>2. QED
        BY <1>0, <1>3, <4>1
    <3>4. QED
      BY <1>11, <3>1, <3>2, <3>3 DEF ButtonAnswered
  <2>4. QED
    BY <1>0, <2>2, <2>3 DEF PageTypeOK
<1>12. CASE ButtonRefused \/ ButtonFails
  BY <1>0, <1>12, RequestShapes DEF ButtonRefused, ButtonFails, ButtonDone, PageTypeOK, Coroutines
<1>13. QED
  BY <1>4, <1>5, <1>6, <1>7, <1>8, <1>9, <1>10, <1>11, <1>12 DEF PageTicks, PageButtons


----------------------------------------------------------------------------
(* Order                                                                   *)

\* Pieces behind those in the pane.
LEMMA AppendInOrder ==
  ASSUME NEW pieces \in Seq(Piece), NEW of \in 0..MaxJobs, NEW from \in 0..MaxLen, NEW to \in 0..MaxLen,
         from <= to, InOrder(pieces), UpTo(pieces, from)
  PROVE  InOrder(pieces \o Pieces(of, from, to)) /\ UpTo(pieces \o Pieces(of, from, to), to)
<1> DEFINE new == Pieces(of, from, to)
           n   == Len(pieces)
<1>1. new \in Seq(Piece) /\ Len(new) = to - from /\ \A i \in 1..Len(new) : new[i].at = from + i
  BY PiecesInOrder
<1> HIDE DEF new
<1>2. Len(pieces \o new) = n + Len(new) /\ n \in Nat /\ Len(new) \in Nat
  <2>1. new \in Seq(Piece) /\ pieces \in Seq(Piece)
    BY <1>1
  <2>2. QED
    BY <2>1, ConcatProperties, LenProperties
<1>3. ASSUME NEW i \in 1..n
      PROVE  (pieces \o new)[i] = pieces[i] /\ pieces[i].at \in Int /\ pieces[i].at <= from
  <2>1. pieces[i] \in Piece /\ (pieces \o new)[i] = pieces[i]
    BY <1>1
  <2>2. \A x \in Piece : x.at \in Int
    BY DEF Piece
  <2>3. QED
    BY <2>1, <2>2 DEF UpTo
<1>4. ASSUME NEW i \in (n + 1)..Len(pieces \o new)
      PROVE  (pieces \o new)[i].at = from + (i - n)
  <2>1. i - n \in 1..Len(new) /\ i \in 1..Len(pieces \o new)
    BY <1>1, <1>2
  <2>2. (pieces \o new)[i] = new[i - n]
    BY <1>1, <1>2, <2>1
  <2>3. QED
    BY <1>1, <2>1, <2>2
<1>5. ASSUME NEW i \in 1..Len(pieces \o new), NEW j \in 1..Len(pieces \o new), i < j
      PROVE  (pieces \o new)[i].at < (pieces \o new)[j].at
  <2>1. CASE j <= n
    BY <1>2, <1>3, <1>5, <2>1 DEF InOrder
  <2>2. CASE i <= n /\ n < j
    BY <1>2, <1>3, <1>4, <1>5, <2>2
  <2>3. CASE n < i
    BY <1>2, <1>4, <1>5, <2>3
  <2>4. QED
    BY <1>2, <2>1, <2>2, <2>3
<1>6. ASSUME NEW i \in 1..Len(pieces \o new)
      PROVE  (pieces \o new)[i].at <= to
  <2>1. CASE i <= n
    BY <1>2, <1>3, <2>1
  <2>2. CASE n < i
    BY <1>1, <1>2, <1>4, <2>2
  <2>3. QED
    BY <1>2, <2>1, <2>2
<1>7. QED
  BY <1>5, <1>6 DEF InOrder, UpTo, new

\* An answer that is on its way to tick() starts where it was asked to, or says reset.
LEMMA OrderAnswers ==
  ASSUME TypeOK, OrderInv,
         \/ Job \/ Answers \/ OtherStarts \/ OtherPublishes \/ Restarts
         \/ \E c \in Coroutines : Loses(c)
  PROVE  OrderInv'
<1>1. /\ "tick" \in Coroutines /\ "button" \in Coroutines /\ request \in [Coroutines -> Requests]
      /\ request["tick"].offset \in 0..MaxLen /\ log \in [of : 0..MaxJobs, len : 0..MaxLen]
  BY DEF TypeOK, RunnerTypeOK, Requests, Coroutines
<1>2. CASE UNCHANGED <<pageVars, request["tick"]>>
  BY <1>2 DEF OrderInv, InOrder, UpTo, pageVars
<1>3. \A x : Answer("button", x) => request'["tick"] = request["tick"]
  BY <1>1 DEF Answer
<1>4. ASSUME NEW x \in Requests, Answer("tick", x)
      PROVE  request'["tick"] = x
  BY <1>1, <1>4 DEF Answer
<1>5. ASSUME NEW c \in Coroutines, StateAnswers(c) \/ LogCopiesJob(c) \/ LogReadsFile(c) \/ Loses(c)
      PROVE  OrderInv'
  <2>1. UNCHANGED pageVars
    BY <1>5 DEF StateAnswers, LogCopiesJob, LogReadsFile, Loses
  <2>2. CASE c = "button"
    BY <1>2, <1>3, <1>5, <2>1, <2>2 DEF StateAnswers, LogCopiesJob, LogReadsFile, Loses
  <2>3. CASE c = "tick"
    <3>1. request["tick"] \in Requests
      BY <1>1
    <3>2. CASE StateAnswers("tick")
      <4>1. tick \notin {"watch", "poll"}
        BY <3>2 DEF StateAnswers, Asks
      <4>2. [request["tick"] EXCEPT !.stage = "answered", !.id = job.id, !.running = job.running] \in Requests
        BY <3>1, AnswerShapes DEF TypeOK, RunnerTypeOK, Stages
      <4>3. request'["tick"].stage = "answered"
        BY <1>4, <3>1, <3>2, <4>2 DEF StateAnswers, Requests
      <4>4. QED
        BY <2>1, <4>1, <4>3 DEF OrderInv, pageVars
    <3>3. CASE LogCopiesJob("tick")
      <4>1. [request["tick"] EXCEPT !.stage = "copied", !.id = job.id, !.running = job.running] \in Requests
        BY <3>1, AnswerShapes DEF TypeOK, RunnerTypeOK, Stages
      <4>2. /\ request'["tick"].offset = request["tick"].offset /\ request'["tick"].stage = "copied"
            /\ request'["tick"].reset = request["tick"].reset /\ ~request["tick"].reset
        BY <1>4, <3>1, <3>3, <4>1 DEF LogCopiesJob, Requests, OrderInv
      <4>3. QED
        BY <2>1, <4>2 DEF OrderInv, UpTo, InOrder, pageVars
    <3>4. CASE LogReadsFile("tick")
      <4> DEFINE chunk == LogChunk(request["tick"].offset)
      <4>1. /\ chunk.offset \in 0..MaxLen /\ chunk.next \in 0..MaxLen /\ chunk.reset \in BOOLEAN
            /\ chunk.of \in 0..MaxJobs /\ chunk.offset <= chunk.next
            /\ ~chunk.reset => chunk.offset = request["tick"].offset
        BY <1>1, ChunkInLog
      <4> HIDE DEF chunk
      <4>2. [request["tick"] EXCEPT !.stage = "answered", !.offset = chunk.offset, !.next = chunk.next,
                                    !.reset = chunk.reset, !.of = chunk.of] \in Requests
        BY <3>1, <4>1, AnswerShapes DEF Stages
      <4>3. Answer("tick", [request["tick"] EXCEPT !.stage = "answered", !.offset = chunk.offset,
                                     !.next = chunk.next, !.reset = chunk.reset, !.of = chunk.of])
            /\ request["tick"].stage = "copied"
        BY <3>4 DEF LogReadsFile, chunk
      <4>4. /\ request'["tick"].offset = chunk.offset /\ request'["tick"].next = chunk.next
            /\ request'["tick"].reset = chunk.reset /\ request'["tick"].stage = "answered"
        BY <1>4, <3>1, <4>2, <4>3 DEF Requests
      <4>5. ~request["tick"].reset
        BY <4>3 DEF OrderInv
      <4>6. QED
        BY <2>1, <4>1, <4>4, <4>5 DEF OrderInv, UpTo, InOrder, pageVars
    <3>5. CASE Loses("tick")
      <4>1. [request["tick"] EXCEPT !.stage = "failed"] \in Requests
        BY <3>1, AnswerShapes DEF Stages
      <4>2. /\ request'["tick"].offset = request["tick"].offset /\ request'["tick"].stage = "failed"
            /\ request'["tick"].reset = request["tick"].reset /\ ~request["tick"].reset
        BY <1>4, <3>1, <3>5, <4>1 DEF Loses, Requests, OrderInv
      <4>3. QED
        BY <2>1, <4>2 DEF OrderInv, UpTo, InOrder, pageVars
    <3>6. QED
      BY <1>5, <2>3, <3>2, <3>3, <3>4, <3>5
  <2>4. QED
    BY <2>2, <2>3 DEF Coroutines
<1>6. CASE Refuses \/ CancelAnswers \/ PostPublishes
  BY <1>2, <1>3, <1>6 DEF Refuses, CancelAnswers, PostPublishes
<1>7. CASE Restarts
  <2>1. CASE request["tick"].stage = "copied"
    <3>1. request["tick"] \in Requests
      BY <1>1
    <3>2. request'["tick"] = [request["tick"] EXCEPT !.stage = "failed"]
      BY <1>1, <1>7, <2>1 DEF Restarts
    <3>3. /\ request'["tick"].offset = request["tick"].offset /\ request'["tick"].stage = "failed"
          /\ request'["tick"].reset = request["tick"].reset /\ ~request["tick"].reset
      BY <2>1, <3>1, <3>2 DEF Requests, OrderInv
    <3>4. QED
      BY <1>7, <3>3 DEF Restarts, OrderInv, UpTo, InOrder, pageVars
  <2>2. CASE request["tick"].stage # "copied"
    <3>1. request'["tick"] = request["tick"]
      BY <1>1, <1>7, <2>2 DEF Restarts
    <3>2. QED
      BY <1>2, <1>7, <3>1 DEF Restarts
  <2>3. QED
    BY <2>1, <2>2
<1>8. CASE Job \/ OtherStarts \/ OtherPublishes \/ PostTruncates
  BY <1>2, <1>8 DEF Job, OtherStarts, OtherPublishes, PostTruncates
<1>9. QED
  BY <1>5, <1>6, <1>7, <1>8 DEF Answers

\* What tick() asks for next starts where the pane ends.
LEMMA OrderAsks ==
  ASSUME request \in [Coroutines -> Requests], InOrder(shown'), UpTo(shown', logOffset'),
         \/ TickEnds \/ \E place : TickAsks(place, 0) /\ place \notin {"watch", "poll"}
         \/ \E place : TickAsks(place, logOffset') /\ logOffset' \in 0..MaxLen
         \/ tick' = tick /\ logOffset' \in 0..MaxLen /\ request' = [request EXCEPT !["tick"] = Sent(logOffset')]
  PROVE  OrderInv'
<1>1. ASSUME NEW x \in Requests, request' = [request EXCEPT !["tick"] = x]
      PROVE  request'["tick"] = x
  BY <1>1 DEF Coroutines
<1>2. CASE TickEnds
  <2>1. request'["tick"] = NoRequest /\ tick' = "idle"
    BY <1>1, <1>2, RequestShapes DEF TickEnds
  <2>2. QED
    BY <2>1 DEF OrderInv, NoRequest
<1>3. CASE \E place : TickAsks(place, 0) /\ place \notin {"watch", "poll"}
  <2>1. 0 \in 0..MaxLen
    OBVIOUS
  <2>2. Sent(0) \in Requests
    BY <2>1, RequestShapes
  <2>3. request'["tick"] = Sent(0) /\ tick' \notin {"watch", "poll"}
    BY <1>1, <1>3, <2>2 DEF TickAsks
  <2>4. QED
    BY <2>1, <2>3, RequestShapes DEF OrderInv
<1>4. CASE logOffset' \in 0..MaxLen /\ request' = [request EXCEPT !["tick"] = Sent(logOffset')]
  <2>1. request'["tick"] = Sent(logOffset')
    BY <1>1, <1>4, RequestShapes
  <2>2. QED
    BY <1>4, <2>1, RequestShapes DEF OrderInv
<1>5. QED
  BY <1>2, <1>3, <1>4 DEF TickAsks

\* ... after pollLog too.
LEMMA OrderPollEnds ==
  ASSUME request \in [Coroutines -> Requests], InOrder(shown'), UpTo(shown', logOffset'),
         NEW result, PollEnds(result)
  PROVE  OrderInv'
BY OrderAsks DEF PollEnds

\* The page's coroutines: the pane is emptied, or goes on where it ended.
LEMMA OrderPage ==
  ASSUME TypeOK, OrderInv, PageTicks \/ StateAges \/ PageButtons \/ Presses
  PROVE  OrderInv'
<1>0. /\ PageTypeOK /\ request \in [Coroutines -> Requests]
      /\ request["tick"] \in Requests /\ request["button"] \in Requests
  BY DEF TypeOK, PageTypeOK, Requests, Coroutines
<1>1. /\ InOrder(shown) /\ UpTo(shown, logOffset) /\ logOffset \in 0..MaxLen
      /\ InOrder(<<>>) /\ \A k : UpTo(<<>>, k)
  BY <1>0 DEF OrderInv, PageTypeOK, InOrder, UpTo
<1>2. ASSUME resetLog(request["tick"].id) \/ resetLog(request["button"].id) \/ UNCHANGED <<shown, logOffset>>
      PROVE  InOrder(shown') /\ UpTo(shown', logOffset') /\ logOffset' \in 0..MaxLen
             /\ (shown' = shown \/ shown' = <<>>)
  BY <1>1, <1>2 DEF resetLog
<1>3. \A answer : Renders(answer) => resetLog(answer.id) \/ UNCHANGED <<shown, logOffset>>
  BY DEF Renders
<1>4. ASSUME UNCHANGED <<tick, request["tick"]>>, shown' = shown \/ shown' = <<>>,
             InOrder(shown'), UpTo(shown', logOffset')
      PROVE  OrderInv'
  BY <1>1, <1>4 DEF OrderInv
<1>5. CASE TickBegins
  <2>1. TickAsks("watch", logOffset) \/ TickAsks("refresh", 0)
    BY <1>5 DEF TickBegins
  <2>2. UNCHANGED <<shown, logOffset>>
    BY <1>5 DEF TickBegins
  <2>3. QED
    BY <1>0, <1>1, <2>1, <2>2, OrderAsks
<1>6. CASE ChunkOfOtherJob
  <2>1. shown' = <<>> /\ logOffset' = 0
    BY <1>6 DEF ChunkOfOtherJob, resetLog
  <2>2. \/ tick' = tick /\ request' = [request EXCEPT !["tick"] = Sent(0)]
        \/ PollEnds(running)
    BY <1>6 DEF ChunkOfOtherJob
  <2>3. QED
    BY <1>0, <1>1, <2>1, <2>2, OrderAsks, OrderPollEnds
<1>7. CASE ChunkAppends
  <2> DEFINE answer == request["tick"]
             base   == IF Fresh(answer) THEN <<>> ELSE shown
  <2>1. /\ shown' = base \o Pieces(answer.of, answer.offset, answer.next) /\ logOffset' = answer.next
        /\ tick \in {"watch", "poll"} /\ answer.stage = "answered"
    BY <1>7 DEF ChunkAppends
  <2>2. /\ answer.of \in 0..MaxJobs /\ answer.offset \in 0..MaxLen /\ answer.next \in 0..MaxLen
        /\ answer.offset <= answer.next
    BY <1>0, <2>1 DEF Requests, OrderInv
  <2>3. base \in Seq(Piece) /\ InOrder(base) /\ UpTo(base, answer.offset)
    <3>1. CASE Fresh(answer)
      BY <1>1, <3>1
    <3>2. CASE ~Fresh(answer)
      BY <1>0, <1>1, <2>1, <3>2 DEF Fresh, OrderInv, PageTypeOK
    <3>3. QED
      BY <3>1, <3>2
  <2>4. InOrder(shown') /\ UpTo(shown', logOffset')
    BY <2>1, <2>2, <2>3, AppendInOrder
  <2>5. \/ tick' = tick /\ request' = [request EXCEPT !["tick"] = Sent(answer.next)]
        \/ \E result : PollEnds(result)
    BY <1>7 DEF ChunkAppends
  <2>6. QED
    BY <1>0, <2>1, <2>2, <2>4, <2>5, OrderAsks, OrderPollEnds
<1>8. CASE StateArrives
  <2>1. Renders(request["tick"]) /\ (TickEnds \/ TickAsks("poll", logOffset'))
    BY <1>8 DEF StateArrives
  <2>2. QED
    BY <1>0, <1>2, <1>3, <2>1, OrderAsks
<1>9. CASE TickFails
  <2>1. UNCHANGED <<shown, logOffset>> /\ (TickEnds \/ TickAsks("poll", logOffset))
    BY <1>9 DEF TickFails
  <2>2. QED
    BY <1>0, <1>1, <2>1, OrderAsks
<1>10. CASE StateAges
  BY <1>1, <1>4, <1>10 DEF StateAges
<1>11. CASE Presses \/ ButtonRefused \/ ButtonFails
  <2>1. UNCHANGED <<shown, logOffset, tick>>
    BY <1>11 DEF Presses, ButtonRefused, ButtonFails
  <2>2. request'["tick"] = request["tick"]
    BY <1>0, <1>11 DEF Presses, ButtonRefused, ButtonFails, ButtonDone, Coroutines
  <2>3. QED
    BY <1>1, <1>4, <2>1, <2>2
<1>12. CASE ButtonAnswered
  <2>1. resetLog(request["button"].id) \/ UNCHANGED <<shown, logOffset>>
    BY <1>3, <1>12 DEF ButtonAnswered
  <2>2. UNCHANGED <<tick, request["tick"]>>
    BY <1>0, <1>12 DEF ButtonAnswered, ButtonDone, Coroutines
  <2>3. QED
    BY <1>2, <1>4, <2>1, <2>2
<1>13. QED
  BY <1>5, <1>6, <1>7, <1>8, <1>9, <1>10, <1>11, <1>12 DEF PageTicks, PageButtons

----------------------------------------------------------------------------
\* Every variable keeps its type, and the runner's lock, job and log go together.
THEOREM PageTypesHold == Spec => [](TypeOK /\ RunInv)
<1>1. Init => TypeOK /\ RunInv
  <2>1. Init => RunnerTypeOK /\ RunInv
    <3>1. RunnerInit => RunnerTypeOK
      <4>1. 0 \in 0..MaxJobs /\ 0 \in 0..MaxLen /\ 0 \in 0..MaxStops
        OBVIOUS
      <4>2. /\ [id |-> 0, running |-> FALSE] \in [id : 0..MaxJobs, running : BOOLEAN]
            /\ [of |-> 0, len |-> 0] \in [of : 0..MaxJobs, len : 0..MaxLen]
        BY <4>1
      <4>3. QED
        BY <4>1, <4>2 DEF RunnerInit, RunnerTypeOK
    <3>2. RunnerInit => RunInv
      BY DEF RunnerInit, RunInv
    <3>3. QED
      BY <3>1, <3>2 DEF Init
  <2>2. Init => request \in [Coroutines -> Requests]
    BY RequestShapes DEF Init
  <2>3. QED
    BY <2>1, <2>2 DEF Init, TypeOK, Requests
<1>2. TypeOK /\ RunInv /\ [Next]_vars => (TypeOK /\ RunInv)'
  <2> SUFFICES ASSUME TypeOK, RunInv, [Next]_vars
               PROVE  TypeOK' /\ RunInv'
    OBVIOUS
  <2>1. CASE UNCHANGED vars
    BY <2>1 DEF vars, pageVars, runnerVars, TypeOK, RunnerTypeOK, RunInv
  <2>2. CASE \/ Job \/ Answers \/ OtherStarts \/ OtherPublishes \/ Restarts
             \/ \E c \in Coroutines : Loses(c)
    BY <2>2, AnswersTypes
  <2>3. CASE PageTicks \/ StateAges \/ PageButtons \/ Presses
    <3>1. TypeOK' /\ UNCHANGED runnerVars
      BY <2>3, PageTypes
    <3>2. QED
      BY <3>1 DEF RunInv, runnerVars
  <2>4. QED
    BY <2>1, <2>2, <2>3 DEF Next
<1>3. QED
  BY <1>1, <1>2, PTL DEF Spec

\* The log pane never shows a piece twice or out of order, for any number of jobs and
\* restarts, however often the log is truncated and whichever answers are late or lost.
THEOREM ShownStaysInOrder == Spec => []ShownInOrder
<1>1. Init => OrderInv
  BY DEF Init, OrderInv, InOrder, UpTo, NoRequest, Coroutines
<1>2. TypeOK /\ OrderInv /\ [Next]_vars => OrderInv'
  <2> SUFFICES ASSUME TypeOK, OrderInv, [Next]_vars
               PROVE  OrderInv'
    OBVIOUS
  <2>1. CASE UNCHANGED vars
    BY <2>1 DEF vars, pageVars, OrderInv, InOrder, UpTo
  <2>2. QED
    BY <2>1, OrderAnswers, OrderPage DEF Next
<1>3. OrderInv => ShownInOrder
  BY DEF OrderInv, InOrder, ShownInOrder
<1>4. QED
  BY <1>1, <1>2, <1>3, PageTypesHold, PTL DEF Spec
=============================================================================
