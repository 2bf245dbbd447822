------------------------- MODULE PageClientsProofs -------------------------
(***************************************************************************)
(* The editor, for any lines, texts, edits, jobs and lost requests: while  *)
(* no answer is taken that a save has overtaken, it keeps what the user    *)
(* typed, and Install installs it.  The check of CUDA, for any lines,      *)
(* lists, failing calls, restarts and interruptions, and whatever others   *)
(* start: it loses no line of the user's list, and what it says it has     *)
(* restored is restored.                                                   *)
(***************************************************************************)
EXTENDS PageClients, TLAPS

USE LinesAssumption, ListsAssumption, BoundsAssumption, EditorAssumption

Requests == [stage : {"none", "sent", "read", "answered", "refused", "failed"},
             text : Texts \cup {NoText}, running : BOOLEAN]

\* What a request of coroutine c can be while the button is at `place`: a state that was
\* read has a list the runner stored, a text that is saved was typed, and accepted.
AnswerOK(c, place, r) ==
    /\ r \in Requests
    /\ r.stage = "read" => c = "tick" \/ place = "refresh"
    /\ (c = "tick" \/ place = "refresh") /\ r.stage \in {"read", "answered"} => r.text \in Stored
    /\ c = "button" /\ place \in {"save", "saveFirst"} =>
          /\ r.stage \in {"sent", "answered"} => r.text \in Texts
          /\ r.stage = "answered" => Accepted(r.text)

AnswerInv ==
    /\ request \in [Coroutines -> Requests]
    /\ \A c \in Coroutines : AnswerOK(c, button, request[c])

\* What is unsaved is in the editor, and neither what the page takes for saved nor stored.
EditorInv ==
    ~overtaken /\ unsaved # NoText =>
        Loaded /\ editor = unsaved /\ unsaved # savedText /\ Normalised(unsaved) # list

\* While only this page saves: what it takes for saved is stored, but for the moment
\* between a PUT and its answer, or after a lost answer, when the page knows that it knows
\* nothing; and what it is about to install is what was in the editor.
Saving(stages) == button \in {"save", "saveFirst"} /\ request["button"].stage \in stages

InstallInv ==
    ~overtaken /\ others.saves = 0 =>
          /\ connection /\ Loaded /\ ~Saving({"answered", "failed"}) => savedText = list
          /\ Saving({"answered"}) => list = Normalised(request["button"].text)
          /\ Saving({"sent", "answered"}) /\ button = "saveFirst" => request["button"].text = pressed
          /\ button = "start" => list = Normalised(pressed)

----------------------------------------------------------------------------
\* Normalising once is enough; what is stored is normalised.
LEMMA NormalisedText ==
  /\ \A text \in Texts \cup {NoText} : Normalised(text) \in Texts /\ Normalised(text).lines = text.lines
                                       /\ Normalised(text).ended
  /\ \A text \in Stored : Normalised(text) = text /\ text \in Texts /\ text # NoText
  /\ \A text \in Texts : text # NoText /\ (Accepted(text) => Normalised(text) \in Stored)
  /\ Empty \in Texts
<1>1. \A text \in Texts \cup {NoText} : text \in [lines : SUBSET Lines, ended : BOOLEAN]
  <2>1. NoText \in [lines : SUBSET Lines, ended : BOOLEAN]
    BY DEF NoText
  <2>2. QED
    BY <2>1 DEF Texts
<1>2. \A text \in [lines : SUBSET Lines, ended : BOOLEAN] :
         /\ Normalised(text) \in [lines : SUBSET Lines, ended : BOOLEAN]
         /\ Normalised(text).lines = text.lines /\ Normalised(text).ended = TRUE
         /\ text.ended = TRUE => Normalised(text) = text
  BY DEF Normalised
<1>3. \A text \in Texts : text # NoText
  <2>1. NoText.lines = {} /\ ~NoText.ended
    BY DEF NoText
  <2>2. \A text \in Texts : text.lines = {} => text.ended
    BY DEF Texts
  <2>3. QED
    BY <2>1, <2>2
<1>4. \A text \in Stored : text \in Texts /\ text.ended = TRUE
  BY DEF Stored, Texts
<1>5. Empty \in Texts
  BY DEF Texts, Empty
<1>6. QED
  BY <1>1, <1>2, <1>3, <1>4, <1>5 DEF Texts, Stored, Accepted

\* What the runner and the page make of requests are requests.
LEMMA RequestShapes ==
  /\ NoRequest \in Requests
  /\ \A text \in Texts \cup {NoText} : Sent(text) \in Requests
  /\ [NoRequest EXCEPT !.stage = "failed"] \in Requests
  /\ \A r \in Requests : r.text \in Texts \cup {NoText} /\ r.running \in BOOLEAN
  /\ \A r \in Requests, text \in Texts, b \in BOOLEAN :
        /\ [r EXCEPT !.stage = "read", !.text = text] \in Requests
        /\ [r EXCEPT !.stage = "answered", !.running = b] \in Requests
  /\ \A r \in Requests, stage \in {"answered", "refused"} :
        /\ [r EXCEPT !.stage = stage] \in Requests
        /\ [r EXCEPT !.stage = stage].stage = stage /\ [r EXCEPT !.stage = stage].text = r.text
<1>1. NoRequest \in Requests /\ \A text \in Texts \cup {NoText} : Sent(text) \in Requests
  BY DEF NoRequest, Sent, Requests
<1>2. QED
  BY <1>1 DEF Requests

\* The list and the job keep their types, whoever acts.
LEMMA RunnerTypes ==
  ASSUME TypeOK,
         \/ UNCHANGED runnerVars
         \/ JobEnds \/ JobCloses \/ OtherStarts \/ OtherClears \/ ClearEnds \/ OtherSaves
         \/ (\E text \in Texts : Saves(text)) /\ UNCHANGED others
         \/ Starts("install") /\ UNCHANGED others
  PROVE  /\ list' \in Stored /\ job' \in {"none", "install", "reset"} /\ closing' \in BOOLEAN /\ maintenance' \in BOOLEAN
         /\ others' \in [saves : 0..MaxSaves, jobs : 0..MaxJobs]
<1>0. /\ list \in Stored /\ job \in {"none", "install", "reset"} /\ closing \in BOOLEAN /\ maintenance \in BOOLEAN
      /\ others \in [saves : 0..MaxSaves, jobs : 0..MaxJobs]
  BY DEF TypeOK
<1>1. \A text \in Texts : Saves(text) => list' \in Stored /\ UNCHANGED <<job, closing, maintenance>>
  BY NormalisedText DEF Saves
<1>2. CASE UNCHANGED runnerVars
  BY <1>0, <1>2 DEF runnerVars
<1>3. CASE JobEnds \/ JobCloses \/ ClearEnds
  BY <1>0, <1>3 DEF JobEnds, JobCloses, ClearEnds
<1>4. CASE OtherStarts \/ OtherClears
  <2>1. others' \in [saves : 0..MaxSaves, jobs : 0..MaxJobs]
    BY <1>0, <1>4 DEF OtherStarts, OtherClears
  <2>2. QED
    BY <1>0, <1>4, <2>1 DEF OtherStarts, OtherClears, Starts
<1>5. CASE OtherSaves
  <2>1. others' \in [saves : 0..MaxSaves, jobs : 0..MaxJobs]
    BY <1>0, <1>5 DEF OtherSaves
  <2>2. \E text \in Texts : Saves(text)
    BY <1>5, NormalisedText DEF OtherSaves
  <2>3. QED
    BY <1>0, <1>1, <2>1, <2>2
<1>6. CASE (\E text \in Texts : Saves(text)) /\ UNCHANGED others
  BY <1>0, <1>1, <1>6
<1>7. CASE Starts("install") /\ UNCHANGED others
  BY <1>0, <1>7 DEF Starts
<1>8. QED
  BY <1>2, <1>3, <1>4, <1>5, <1>6, <1>7

\* Who sends a request, or gets its answer, changes its own and no other.
LEMMA Answering ==
  ASSUME AnswerInv, NEW c \in Coroutines, NEW r, Answer(c, r),
         c = "tick" => button' = button, AnswerOK(c, button', r)
  PROVE  /\ AnswerInv'
         /\ request'[c] = r
         /\ \A d \in Coroutines \ {c} : request'[d] = request[d]
<1>1. /\ request' \in [Coroutines -> Requests] /\ request'[c] = r
      /\ \A d \in Coroutines \ {c} : request'[d] = request[d]
  BY DEF Answer, AnswerInv, AnswerOK
<1>2. ASSUME NEW d \in Coroutines \ {c} PROVE AnswerOK(d, button', request'[d])
  <2>1. AnswerOK(d, button, request[d]) /\ request'[d] = request[d]
    BY <1>1 DEF AnswerInv
  <2>2. d = "tick" \/ button' = button
    BY DEF Coroutines
  <2>3. QED
    BY <2>1, <2>2 DEF AnswerOK
<1>3. QED
  BY <1>1, <1>2 DEF AnswerInv

----------------------------------------------------------------------------
\* Every step leaves requests that can be.
LEMMA AnswersHold ==
  ASSUME TypeOK, AnswerInv, [Next]_vars
  PROVE  AnswerInv'
<1>0. /\ list \in Stored /\ list \in Texts /\ editor \in Texts /\ Running \in BOOLEAN
      /\ "button" \in Coroutines /\ "tick" \in Coroutines
      /\ \A c \in Coroutines : request[c] \in Requests /\ AnswerOK(c, button, request[c])
  BY NormalisedText DEF TypeOK, Requests, Coroutines, Running, AnswerInv
<1>1. ASSUME NEW c \in Coroutines, StateReadsList(c) PROVE AnswerInv'
  <2> DEFINE r == [request[c] EXCEPT !.stage = "read", !.text = list]
  <2>1. r \in Requests /\ r.stage = "read" /\ r.text = list
    BY <1>0, RequestShapes DEF Requests
  <2>2. AnswerOK(c, button, r)
    BY <1>0, <1>1, <2>1 DEF AnswerOK, StateReadsList, AsksState, Coroutines
  <2>3. Answer(c, r) /\ button' = button
    BY <1>1 DEF StateReadsList
  <2>4. QED
    BY <2>2, <2>3, Answering
<1>2. ASSUME NEW c \in Coroutines, StateCopiesJob(c) PROVE AnswerInv'
  <2> DEFINE r == [request[c] EXCEPT !.stage = "answered", !.running = Running]
  <2>1. r \in Requests /\ r.stage = "answered" /\ r.text = request[c].text
    <3>1. \A q \in Requests, b \in BOOLEAN : [q EXCEPT !.stage = "answered", !.running = b].text = q.text
                              /\ [q EXCEPT !.stage = "answered", !.running = b].stage = "answered"
      BY DEF Requests
    <3>2. \A q \in Requests, b \in BOOLEAN : [q EXCEPT !.stage = "answered", !.running = b] \in Requests
      BY DEF Requests
    <3>3. QED
      BY <1>0, <3>1, <3>2
  <2>2. AnswerOK(c, button, r)
    BY <1>0, <1>2, <2>1 DEF AnswerOK, StateCopiesJob, Coroutines
  <2>3. Answer(c, r) /\ button' = button
    BY <1>2 DEF StateCopiesJob
  <2>4. QED
    BY <2>2, <2>3, Answering
<1>3. CASE PutStores \/ PostStarts \/ Refuses
  <2>1. PICK stage \in {"answered", "refused"} :
          /\ Staged("button", stage) /\ button' = button /\ button # "refresh"
          /\ stage = "answered" /\ button \in {"save", "saveFirst"} =>
                request["button"].stage = "sent" /\ Accepted(request["button"].text)
    BY <1>3 DEF PutStores, PostStarts, Refuses, Saves
  <2> DEFINE r == [request["button"] EXCEPT !.stage = stage]
  <2>2. r \in Requests /\ r.stage = stage /\ r.text = request["button"].text
    <3>1. \A q \in Requests : [q EXCEPT !.stage = stage] \in Requests
                              /\ [q EXCEPT !.stage = stage].stage = stage
                              /\ [q EXCEPT !.stage = stage].text = q.text
      BY <2>1 DEF Requests
    <3>2. request["button"] \in Requests
      BY <1>0
    <3>3. QED
      BY <3>1, <3>2
  <2>3. AnswerOK("button", button, r)
    BY <1>0, <2>1, <2>2 DEF AnswerOK
  <2>4. QED
    BY <1>0, <2>1, <2>3, Answering DEF Staged
<1>4. ASSUME NEW c \in Coroutines, Loses(c) PROVE AnswerInv'
  <2> DEFINE r == [NoRequest EXCEPT !.stage = "failed"]
  <2>1. r \in Requests /\ r.stage = "failed"
    BY RequestShapes DEF NoRequest
  <2>2. AnswerOK(c, button, r)
    BY <2>1 DEF AnswerOK
  <2>3. QED
    BY <1>4, <2>2, Answering DEF Loses
<1>5. CASE Others \/ Types \/ UNCHANGED vars
  BY <1>5 DEF Others, Types, vars, AnswerInv
<1>6. CASE TickAsks
  <2>1. AnswerOK("tick", button, Sent(NoText))
    <3>1. Sent(NoText) \in Requests /\ Sent(NoText).stage = "sent"
      BY RequestShapes DEF Sent
    <3>2. QED
      BY <3>1 DEF AnswerOK
  <2>2. QED
    BY <1>0, <1>6, <2>1, Answering DEF TickAsks
<1>7. \A c \in Coroutines, place \in {"none", button} : AnswerOK(c, place, NoRequest)
  <2>1. NoRequest \in Requests /\ NoRequest.stage = "none"
    BY RequestShapes DEF NoRequest
  <2>2. QED
    BY <2>1 DEF AnswerOK
<1>8. CASE TickEnds
  BY <1>0, <1>7, <1>8, Answering DEF TickEnds
<1>9. \A place : place \notin {"save", "saveFirst"} => AnswerOK("button", place, Sent(NoText))
  <2>1. Sent(NoText) \in Requests /\ Sent(NoText).stage = "sent"
    BY RequestShapes DEF Sent
  <2>2. QED
    BY <2>1 DEF AnswerOK
<1>10. CASE ButtonGoesOn
  <2>1. Done => AnswerInv'
    BY <1>0, <1>7, Answering DEF Done
  <2>2. ASSUME NEW place \in {"start", "refresh"}, Goes(place) PROVE AnswerInv'
    BY <1>0, <1>9, <2>2, Answering DEF Goes
  <2>3. Done \/ Goes("start") \/ Goes("refresh")
    BY <1>10 DEF ButtonGoesOn, Saved, SaveRefused, NotSaved, Started, Refreshed, ButtonFails
  <2>4. QED
    BY <2>1, <2>2, <2>3
<1>11. CASE PressesSave \/ PressesInstall
  <2>1. \A place : AnswerOK("button", place, Sent(editor))
    <3>1. Sent(editor) \in Requests /\ Sent(editor).stage = "sent" /\ Sent(editor).text = editor
      BY <1>0, RequestShapes DEF Sent
    <3>2. QED
      BY <1>0, <3>1 DEF AnswerOK
  <2>2. Answer("button", Sent(editor))
    BY <1>11 DEF PressesSave, PressesInstall
  <2>3. QED
    BY <1>0, <2>1, <2>2, Answering
<1>12. QED
  BY <1>1, <1>2, <1>3, <1>4, <1>5, <1>6, <1>8, <1>10, <1>11 DEF Next, StateAnswers

\* Types: what is not a request.
LEMMA TypesHold ==
  ASSUME TypeOK, AnswerInv, [Next]_vars
  PROVE  TypeOK'
<1>0. /\ request' \in [Coroutines -> Requests] /\ Running \in BOOLEAN
      /\ \A c \in Coroutines : request[c] \in Requests /\ AnswerOK(c, button, request[c])
      /\ "button" \in Coroutines /\ "tick" \in Coroutines
  BY AnswersHold DEF AnswerInv, Running, Coroutines
<1>1. /\ list \in Stored /\ list \in Texts /\ editor \in Texts /\ savedText \in Stored \cup {NoText}
      /\ unsaved \in Texts \cup {NoText} /\ pressed \in Texts \cup {NoText} /\ overtaken \in BOOLEAN
      /\ known \in BOOLEAN /\ connection \in BOOLEAN
      /\ button \in {"none", "save", "saveFirst", "start", "refresh"}
  BY NormalisedText DEF TypeOK
<1>2. /\ list' \in Stored /\ job' \in {"none", "install", "reset"} /\ closing' \in BOOLEAN /\ maintenance' \in BOOLEAN
      /\ others' \in [saves : 0..MaxSaves, jobs : 0..MaxJobs]
  <2>1. PutStores => \E text \in Texts : Saves(text)
    BY <1>0 DEF PutStores, AnswerOK
  <2>2. QED
    BY <1>1, <2>1, RunnerTypes
    DEF Next, vars, StateAnswers, StateReadsList, StateCopiesJob, PutStores, PostStarts, Refuses, Others, Loses,
        TickAsks, TickEnds, ButtonGoesOn, Saved, SaveRefused, Started, Refreshed, ButtonFails, Types,
        PressesSave, PressesInstall
<1>3. button' \in {"none", "save", "saveFirst", "start", "refresh"}
  BY <1>1
  DEF Next, vars, StateAnswers, StateReadsList, StateCopiesJob, PutStores, PostStarts, Refuses, Others, Loses,
      TickAsks, TickEnds, ButtonGoesOn, Saved, SaveRefused, NotSaved, Started, Refreshed, ButtonFails, Done,
      Goes, Types, PressesSave, PressesInstall
<1>4. edits' \in 0..MaxEdits /\ lost' \in 0..MaxLost
  <2>1. edits \in 0..MaxEdits /\ lost \in 0..MaxLost
    BY DEF TypeOK
  <2>2. \/ UNCHANGED bounds
        \/ edits < MaxEdits /\ edits' = edits + 1 /\ lost' = lost
        \/ lost < MaxLost /\ lost' = lost + 1 /\ edits' = edits
    BY DEF Next, vars, StateAnswers, StateReadsList, StateCopiesJob, PutStores, PostStarts, Refuses, Others,
           Loses, TickAsks, TickEnds, ButtonGoesOn, Saved, SaveRefused, Started, Refreshed, ButtonFails, Types,
           PressesSave, PressesInstall
  <2>3. QED
    BY <2>1, <2>2 DEF bounds
<1>5. editor' \in Texts /\ savedText' \in Stored \cup {NoText} /\ known' \in BOOLEAN /\ connection' \in BOOLEAN
      /\ overtaken' \in BOOLEAN
  <2>1. ASSUME NEW c \in Coroutines, request[c].stage = "answered", c = "tick" \/ button = "refresh",
               Renders(request[c])
        PROVE  /\ editor' \in Texts /\ savedText' \in Stored /\ known' \in BOOLEAN /\ connection' \in BOOLEAN
               /\ overtaken' \in BOOLEAN
    <3>1. request[c].text \in Stored /\ request[c].text \in Texts /\ request[c].running \in BOOLEAN
      BY <1>0, <2>1, NormalisedText, RequestShapes DEF AnswerOK
    <3>2. QED
      BY <1>1, <2>1, <3>1 DEF Renders, Render, Adopts
  <2>2. CASE TickEnds
    BY <1>0, <1>1, <2>1, <2>2 DEF TickEnds
  <2>3. CASE Refreshed
    BY <1>0, <1>1, <2>1, <2>3 DEF Refreshed
  <2>4. CASE Saved
    <3>1. Normalised(request["button"].text) \in Stored /\ Normalised(request["button"].text) \in Texts
      BY <1>0, <2>4, NormalisedText DEF Saved, AnswerOK
    <3>2. QED
      BY <1>1, <2>4, <3>1 DEF Saved, AdoptsSaved, Adopts
  <2>5. CASE Types
    BY <1>1, <2>5 DEF Types
  <2>6. CASE ~(TickEnds \/ Refreshed \/ Saved \/ Types)
    BY <1>1, <2>6
    DEF Next, vars, page, history, StateAnswers, StateReadsList, StateCopiesJob, PutStores, PostStarts, Refuses,
        Others, Loses, TickAsks, ButtonGoesOn, SaveRefused, Started, ButtonFails, PressesSave, PressesInstall
  <2>7. QED
    BY <2>2, <2>3, <2>4, <2>5, <2>6
<1>6. unsaved' \in Texts \cup {NoText} /\ pressed' \in Texts \cup {NoText}
  BY <1>1
  DEF Next, vars, history, StateAnswers, StateReadsList, StateCopiesJob, PutStores, PostStarts, Refuses, Others,
      Noted, Loses, TickAsks, TickEnds, ButtonGoesOn, Saved, SaveRefused, Started, Refreshed, ButtonFails,
      Types, PressesSave, PressesInstall
<1>7. QED
  BY <1>0, <1>2, <1>3, <1>4, <1>5, <1>6 DEF TypeOK, Requests

----------------------------------------------------------------------------
\* What is unsaved stays in the editor.
LEMMA EditorHolds ==
  ASSUME TypeOK, AnswerInv, EditorInv, [Next]_vars
  PROVE  EditorInv'
<1>0. Normalised(list) = list /\ list # NoText
  BY NormalisedText DEF TypeOK
<1> DEFINE Same == UNCHANGED <<list, editor, savedText, unsaved, overtaken>>
<1>1. CASE Same
  BY <1>1 DEF EditorInv, Loaded
<1>2. CASE Noted /\ UNCHANGED <<editor, savedText, overtaken>>
  BY <1>2 DEF EditorInv, Loaded, Noted
<1>3. ASSUME NEW c \in Coroutines, Renders(request[c]), UNCHANGED <<list, unsaved>>
      PROVE  EditorInv'
  <2>1. SUFFICES ASSUME ~overtaken', unsaved # NoText
                 PROVE  Loaded' /\ editor' = unsaved /\ unsaved # savedText' /\ Normalised(unsaved) # list
    BY <1>3 DEF EditorInv
  <2>2. ~overtaken /\ savedText' = list
    BY <1>3, <2>1 DEF Renders, Adopts, TypeOK
  <2>3. Loaded /\ editor = unsaved /\ unsaved # savedText /\ Normalised(unsaved) # list
    BY <2>1, <2>2 DEF EditorInv
  <2>4. isDirty /\ editor' = editor
    BY <1>3, <2>3 DEF isDirty, Renders, Render
  <2>5. QED
    BY <1>0, <2>2, <2>3, <2>4 DEF Loaded
<1>4. CASE TickEnds \/ Refreshed
  <2>1. \/ \E c \in Coroutines : Renders(request[c]) /\ UNCHANGED <<list, unsaved>>
        \/ Same
    BY <1>4 DEF TickEnds, Refreshed, Coroutines, runnerVars
  <2>2. QED
    BY <1>1, <1>3, <2>1
<1>5. CASE Saved
  <2>1. SUFFICES ASSUME ~overtaken', unsaved # NoText
                 PROVE  Loaded' /\ editor' = unsaved /\ unsaved # savedText' /\ Normalised(unsaved) # list
    BY <1>5 DEF EditorInv, Saved, runnerVars
  <2>2. ~overtaken /\ savedText' = list /\ list = Normalised(request["button"].text)
    BY <1>5, <2>1 DEF Saved, Adopts, TypeOK
  <2>3. Loaded /\ editor = unsaved /\ unsaved # savedText /\ Normalised(unsaved) # list
    BY <2>1, <2>2 DEF EditorInv
  <2>4. editor' = editor
    BY <1>5, <2>2, <2>3 DEF Saved, AdoptsSaved
  <2>5. QED
    BY <1>0, <2>2, <2>3, <2>4 DEF Loaded
<1>6. CASE Types
  <2>1. PICK text \in Typed \ {editor} :
           /\ editor' = text
           /\ unsaved' = IF text = savedText \/ Normalised(text) = list THEN NoText ELSE text
    BY <1>6 DEF Types
  <2>2. Loaded /\ UNCHANGED <<list, savedText, overtaken>>
    BY <1>6 DEF Types, runnerVars
  <2>3. QED
    BY <2>1, <2>2 DEF EditorInv, Loaded
<1>7. CASE ~(PutStores \/ Others \/ TickEnds \/ Refreshed \/ Saved \/ Types)
  <2>1. Same
    BY <1>7
    DEF Next, vars, runnerVars, page, history, StateAnswers, StateReadsList, StateCopiesJob, PostStarts, Refuses,
        Starts, Loses, TickAsks, ButtonGoesOn, SaveRefused, Started, ButtonFails, PressesSave, PressesInstall
  <2>2. QED
    BY <1>1, <2>1
<1>8. CASE PutStores \/ Others
  <2>1. Same \/ (Noted /\ UNCHANGED <<editor, savedText, overtaken>>)
    BY <1>8 DEF PutStores, Others, page, JobEnds, JobCloses, OtherStarts, OtherClears, ClearEnds, Starts
  <2>2. QED
    BY <1>1, <1>2, <2>1
<1>9. QED
  BY <1>4, <1>5, <1>6, <1>7, <1>8

\* While nobody else saves, the page knows the list, and installs what it shows.
LEMMA InstallHolds ==
  ASSUME TypeOK, AnswerInv, InstallInv, [Next]_vars
  PROVE  InstallInv'
<1> DEFINE r == request["button"]
<1> USE DEF Saving
<1>0. /\ Normalised(list) = list /\ list # NoText /\ "button" \in Coroutines /\ r \in Requests
      /\ AnswerOK("button", button, r)
  BY NormalisedText DEF TypeOK, AnswerInv, Coroutines
<1>1. SUFFICES ASSUME ~overtaken', others'.saves = 0 PROVE InstallInv'
  BY DEF InstallInv
<1>2. ~overtaken /\ others.saves = 0 /\ ~OtherSaves
  <2>1. ~overtaken
    BY <1>1
    DEF Next, vars, history, StateAnswers, StateReadsList, StateCopiesJob, PutStores, PostStarts, Refuses, Others,
        Loses, TickAsks, TickEnds, ButtonGoesOn, Saved, SaveRefused, Started, Refreshed, ButtonFails, Renders,
        Adopts, Types, PressesSave, PressesInstall, TypeOK
  <2>2. others.saves \in Nat /\ others \in [saves : 0..MaxSaves, jobs : 0..MaxJobs]
    BY DEF TypeOK
  <2>3. OtherSaves => others'.saves = others.saves + 1
    BY <2>2 DEF OtherSaves
  <2>4. others'.saves = others.saves \/ OtherSaves
    <3>1. UNCHANGED others \/ OtherStarts \/ OtherClears \/ OtherSaves
      BY DEF Next, vars, runnerVars, StateAnswers, StateReadsList, StateCopiesJob, PutStores, PostStarts, Refuses,
             Others, JobEnds, JobCloses, ClearEnds, Loses, TickAsks, TickEnds, ButtonGoesOn, Saved, SaveRefused, Started,
             Refreshed, ButtonFails, Types, PressesSave, PressesInstall
    <3>2. OtherStarts \/ OtherClears => others'.saves = others.saves
      BY <2>2 DEF OtherStarts, OtherClears
    <3>3. QED
      BY <3>1, <3>2
  <2>5. QED
    BY <1>1, <2>1, <2>2, <2>3, <2>4
<1>3. /\ connection /\ Loaded /\ ~Saving({"answered", "failed"}) => savedText = list
      /\ Saving({"answered"}) => list = Normalised(r.text)
      /\ Saving({"sent", "answered"}) /\ button = "saveFirst" => r.text = pressed
      /\ button = "start" => list = Normalised(pressed)
  BY <1>2 DEF InstallInv
<1> DEFINE PageSame == UNCHANGED <<savedText, connection>>
<1>4. CASE UNCHANGED <<list, savedText, connection, button, pressed, request>>
  BY <1>3, <1>4 DEF InstallInv, Loaded
<1>5. CASE TickEnds
  <2>1. request'["button"] = r /\ UNCHANGED <<list, button, pressed>>
    BY <1>5 DEF TickEnds, Answer, Coroutines, AnswerInv, runnerVars
  <2>2. connection' = FALSE \/ savedText' = list
    BY <1>1, <1>2, <1>5 DEF TickEnds, Renders, Adopts
  <2>3. QED
    BY <1>3, <2>1, <2>2 DEF InstallInv
<1>6. CASE TickAsks \/ (\E c \in Coroutines : StateReadsList(c) \/ StateCopiesJob(c) \/ Loses(c))
  <2>1. PICK c \in Coroutines :
           /\ Answer(c, request'[c]) /\ UNCHANGED <<list, savedText, connection, button, pressed>>
           /\ c = "button" => request'[c].stage \in {"read", "answered", "failed"}
           /\ c = "button" /\ request'[c].stage # "failed" => button \notin {"save", "saveFirst"}
    <3>1. ASSUME NEW c \in Coroutines, NEW s \in Requests, Answer(c, s) PROVE request'[c] = s
      BY <3>1 DEF Answer, AnswerInv
    <3>2. CASE TickAsks
      BY <3>1, <3>2, RequestShapes DEF TickAsks, Coroutines, runnerVars, page, history
    <3>3. ASSUME NEW c \in Coroutines, StateReadsList(c)
          PROVE  /\ Answer(c, request'[c]) /\ UNCHANGED <<list, savedText, connection, button, pressed>>
                 /\ request'[c].stage = "read" /\ (c = "button" => button = "refresh")
      <4> DEFINE s == [request[c] EXCEPT !.stage = "read", !.text = list]
      <4>1. s \in Requests /\ s.stage = "read"
        BY NormalisedText DEF Requests, AnswerInv, TypeOK
      <4>2. Answer(c, s) /\ request'[c] = s
        BY <3>1, <3>3, <4>1 DEF StateReadsList
      <4>3. QED
        BY <3>3, <4>1, <4>2 DEF StateReadsList, AsksState, runnerVars, page, history
    <3>4. ASSUME NEW c \in Coroutines, StateCopiesJob(c)
          PROVE  /\ Answer(c, request'[c]) /\ UNCHANGED <<list, savedText, connection, button, pressed>>
                 /\ request'[c].stage = "answered" /\ (c = "button" => button = "refresh")
      <4> DEFINE s == [request[c] EXCEPT !.stage = "answered", !.running = Running]
      <4>1. s \in Requests /\ s.stage = "answered"
        BY DEF Requests, AnswerInv, Running
      <4>2. Answer(c, s) /\ request'[c] = s
        BY <3>1, <3>4, <4>1 DEF StateCopiesJob
      <4>3. QED
        BY <1>0, <3>4, <4>1, <4>2 DEF StateCopiesJob, AnswerOK, runnerVars, page, history
    <3>5. ASSUME NEW c \in Coroutines, Loses(c)
          PROVE  /\ Answer(c, request'[c]) /\ UNCHANGED <<list, savedText, connection, button, pressed>>
                 /\ request'[c].stage = "failed"
      <4> DEFINE s == [NoRequest EXCEPT !.stage = "failed"]
      <4>1. s \in Requests /\ s.stage = "failed"
        BY RequestShapes DEF NoRequest
      <4>2. Answer(c, s) /\ request'[c] = s
        BY <3>1, <3>5, <4>1 DEF Loses
      <4>3. QED
        BY <3>5, <4>1, <4>2 DEF Loses, runnerVars, page, history
    <3>6. QED
      BY <1>6, <3>2, <3>3, <3>4, <3>5
  <2>2. CASE c = "tick"
    <3>1. request'["button"] = r
      BY <1>0, <2>1, <2>2 DEF Answer, AnswerInv
    <3>2. QED
      BY <1>3, <2>1, <3>1 DEF InstallInv, Loaded
  <2>3. CASE c = "button"
    BY <1>3, <2>1, <2>3 DEF InstallInv, Loaded
  <2>4. QED
    BY <2>2, <2>3 DEF Coroutines
<1>7. CASE PutStores \/ PostStarts \/ Refuses
  <2>1. PICK stage \in {"answered", "refused"} :
          /\ Staged("button", stage) /\ UNCHANGED <<savedText, connection, button, pressed>>
          /\ r.stage = "sent"
          /\ \/ stage = "answered" /\ button \in {"save", "saveFirst"} /\ list' = Normalised(r.text)
             \/ UNCHANGED list /\ (stage = "answered" => button = "start")
    BY <1>7 DEF PutStores, PostStarts, Refuses, Saves, Starts, page, history, runnerVars
  <2>2. request'["button"].stage = stage /\ request'["button"].text = r.text
    <3>1. \A q \in Requests : [q EXCEPT !.stage = stage].stage = stage /\ [q EXCEPT !.stage = stage].text = q.text
      BY <2>1 DEF Requests
    <3>2. request'["button"] = [r EXCEPT !.stage = stage]
      BY <1>0, <2>1 DEF Staged, Answer, AnswerInv
    <3>3. QED
      BY <1>0, <3>1, <3>2
  <2>3. QED
    BY <1>3, <2>1, <2>2 DEF InstallInv, Loaded
<1>8. CASE Others
  BY <1>2, <1>4, <1>8 DEF Others, page, JobEnds, JobCloses, OtherStarts, OtherClears, ClearEnds, Starts
<1>9. CASE Types \/ UNCHANGED vars
  BY <1>3, <1>9 DEF Types, vars, page, history, runnerVars, InstallInv, Loaded
<1>10. CASE Saved
  <2>1. savedText' = list /\ r.stage = "answered" /\ list = Normalised(r.text)
    BY <1>1, <1>3, <1>10 DEF Saved, Adopts
  <2>2. /\ UNCHANGED <<list, connection, pressed>>
        /\ button' = "none" \/ (button' = "start" /\ button = "saveFirst")
    <3>1. UNCHANGED <<list, connection, pressed>>
      BY <1>10 DEF Saved, runnerVars
    <3>2. button \in {"save", "saveFirst"} /\ (IF button = "save" THEN Done ELSE Goes("start"))
      BY <1>10 DEF Saved
    <3>3. (Done => button' = "none") /\ (Goes("start") => button' = "start")
      BY DEF Done, Goes
    <3>4. QED
      BY <3>1, <3>2, <3>3
  <2>3. QED
    BY <1>3, <1>10, <2>1, <2>2 DEF InstallInv, Saved
<1>11. CASE SaveRefused \/ Started
  <2>1. /\ UNCHANGED <<list, savedText, connection, pressed>> /\ button' \in {"none", "refresh"}
        /\ ~Saving({"answered", "failed"})
    BY <1>11 DEF SaveRefused, NotSaved, Started, Done, Goes, runnerVars, page, history
  <2>2. QED
    BY <1>3, <2>1 DEF InstallInv, Loaded
<1>12. CASE Refreshed \/ ButtonFails
  <2>1. (connection' = FALSE \/ savedText' = list) /\ button' = "none" /\ UNCHANGED list
    BY <1>1, <1>12 DEF Refreshed, ButtonFails, Renders, Adopts, Done, runnerVars
  <2>2. QED
    BY <2>1 DEF InstallInv
<1>13. CASE PressesSave \/ PressesInstall
  <2>1. /\ request'["button"] = Sent(editor) /\ UNCHANGED <<list, savedText, connection>>
        /\ Ready /\ savedText = list
    BY <1>0, <1>3, <1>13 DEF PressesSave, PressesInstall, Answer, AnswerInv, Ready, runnerVars, page
  <2>2. Sent(editor).stage = "sent" /\ Sent(editor).text = editor
    BY DEF Sent
  <2>3. \/ button' = "save"
        \/ button' = "saveFirst" /\ pressed' = editor
        \/ button' = "start" /\ pressed' = editor /\ editor = savedText
    BY <1>13 DEF PressesSave, PressesInstall, isDirty, Ready
  <2>4. QED
    BY <1>0, <2>1, <2>2, <2>3 DEF InstallInv
<1>14. QED
  BY <1>5, <1>6, <1>7, <1>8, <1>9, <1>10, <1>11, <1>12, <1>13 DEF Next, StateAnswers, ButtonGoesOn

----------------------------------------------------------------------------
IInv == TypeOK /\ AnswerInv /\ EditorInv /\ InstallInv

\* The invariant holds at the start, and every step keeps it.
LEMMA Invariant == Spec => []IInv
<1>1. Init => IInv
  <2>1. SUFFICES ASSUME Init PROVE IInv
    OBVIOUS
  <2>2. list \in Stored /\ job = "none" /\ closing = FALSE /\ maintenance = FALSE /\ others = [saves |-> 0, jobs |-> 0]
    BY <2>1 DEF Init, RunnerInit
  <2>3. request = [c \in Coroutines |-> NoRequest] /\ NoRequest \in Requests /\ NoRequest.stage = "none"
    BY <2>1, RequestShapes DEF Init, EditorInit, NoRequest
  <2>4. others \in [saves : 0..MaxSaves, jobs : 0..MaxJobs]
    BY <2>2
  <2>5. TypeOK
    <3>1. editor \in Texts /\ savedText = NoText /\ unsaved = NoText /\ pressed = NoText
      BY <2>1, NormalisedText DEF Init, EditorInit
    <3>2. /\ known = FALSE /\ connection = FALSE /\ button = "none" /\ overtaken = FALSE
          /\ edits \in 0..MaxEdits /\ lost \in 0..MaxLost
      BY <2>1 DEF Init, EditorInit
    <3>3. request \in [Coroutines -> Requests]
      BY <2>3
    <3>4. QED
      BY <2>2, <2>4, <3>1, <3>2, <3>3 DEF TypeOK, Requests
  <2>6. AnswerInv
    BY <2>3 DEF AnswerInv, AnswerOK
  <2>7. EditorInv /\ InstallInv
    BY <2>1 DEF Init, EditorInit, EditorInv, InstallInv, Saving, Loaded
  <2>8. QED
    BY <2>5, <2>6, <2>7 DEF IInv
<1>2. IInv /\ [Next]_vars => IInv'
  BY AnswersHold, TypesHold, EditorHolds, InstallHolds DEF IInv
<1>3. QED
  BY <1>1, <1>2, PTL DEF Spec

\* Every variable keeps its type.
THEOREM EditorTypes == Spec => []TypeOK
<1>1. IInv => TypeOK
  BY DEF IInv
<1>2. QED
  BY Invariant, <1>1, PTL

\* "Keep the user's unsaved edits" (deps.js:344), while no answer is taken that a save has overtaken.
THEOREM EditsKept == Spec => []KeepsUnsavedIfFresh
<1>1. IInv => KeepsUnsavedIfFresh
  BY DEF IInv, EditorInv, KeepsUnsavedIfFresh, KeepsUnsaved, TypeOK
<1>2. QED
  BY Invariant, <1>1, PTL

\* Install installs the text that was in the editor when it was pressed.
THEOREM InstallsWhatIsShown == Spec => InstallsEdits
<1>1. IInv => (PostStarts => list = Normalised(pressed) \/ others.saves > 0 \/ overtaken)
  <2>1. SUFFICES ASSUME IInv, PostStarts, ~overtaken, others.saves = 0 PROVE list = Normalised(pressed)
    BY DEF IInv, TypeOK
  <2>2. QED
    BY <2>1 DEF IInv, InstallInv, PostStarts
<1>2. QED
  BY Invariant, <1>1, PTL DEF InstallsEdits

----------------------------------------------------------------------------
(* The check of CUDA                                                       *)

\* Where the script has the list of before in ORIGINAL_REQUIREMENTS_B64, or a call that
\* is still on its way has.
Known ==
    \/ pc \in {"confirm", "put", "post", "follow", "ask", "again", "restore", "reset", "followReset",
               "askReset", "clear"}
    \/ installed # "0" \/ late \in {"put", "restore"}

ShapeInv ==
    /\ list \in Check!Stored /\ original \in Check!Stored /\ found \in Check!Stored
    /\ others.saves \in Nat /\ others = [saves |-> others.saves, jobs |-> others.jobs]
    /\ Check!Running <=> status = "running"
    /\ late # "none" => pc = "done"
    /\ pc \in {"kernel", "wait", "summary", "confirm", "put"} => installed = "0"

\* As long as no other client saves, the list has the lines it had, and so has what it
\* will be replaced by.
LostInv ==
    others.saves = 0 =>
        /\ found.lines \subseteq list.lines
        /\ Known => found.lines \subseteq original.lines

\* As long as no other client does anything: the list is the one of before until the
\* script writes it and again from its restoration on, and the job that is waited for
\* then is the reset.
RestoreInv ==
    /\ restored => pc \in {"clear", "done"} /\ late = "none"
    /\ ~meddled =>
          /\ Known => original = found
          /\ pc \in {"kernel", "wait", "summary", "reset", "followReset", "askReset"} => list = found
          /\ pc \in {"followReset", "askReset"} =>
                job \in {"none", "reset"} /\ (status = "succeeded" => env = list.lines)
          /\ restored => ~Check!Running /\ list = found /\ env = found.lines

CheckInv == ShapeInv /\ LostInv /\ RestoreInv

----------------------------------------------------------------------------
\* What is stored is normalised; a list of the script has the lines it was made of.
LEMMA StoredNormal ==
  \A text \in Check!Stored : Check!Normalised(text) = text
  BY DEF Check!Stored, Check!Texts, Check!Normalised

LEMMA StoredTexts ==
  ASSUME Torch \subseteq Lines
  PROVE  /\ \A text \in Check!Stored : Check!Normalised(text) = text
         /\ \A text \in Check!Stored : Check!Accepted(Check!Added(text)) =>
               Check!Normalised(Check!Added(text)) \in Check!Stored /\ text.lines \subseteq Check!Normalised(Check!Added(text)).lines
         /\ Check!Empty \in Check!Stored
<1>1. \A text \in Check!Stored : text = [lines |-> text.lines, ended |-> TRUE] /\ text.lines \subseteq Lines
  BY DEF Check!Stored, Check!Texts
<1>2. \A text \in Check!Stored : Check!Normalised(text) = text
  BY <1>1 DEF Check!Normalised
<1>3. ASSUME NEW text \in Check!Stored, Check!Accepted(Check!Added(text))
      PROVE  Check!Normalised(Check!Added(text)) \in Check!Stored /\ text.lines \subseteq Check!Normalised(Check!Added(text)).lines
  <2>1. Check!Normalised(Check!Added(text)) = [lines |-> text.lines \cup Torch, ended |-> TRUE]
    <3>1. Check!Added(text) = [lines |-> text.lines \cup Torch, ended |-> TRUE]
      BY DEF Check!Added
    <3>2. Check!Added(text) \in [lines : SUBSET Lines, ended : BOOLEAN]
      BY <1>1, <3>1
    <3>3. \A t \in [lines : SUBSET Lines, ended : BOOLEAN] :
             /\ Check!Normalised(t) \in [lines : SUBSET Lines, ended : BOOLEAN]
             /\ Check!Normalised(t).lines = t.lines /\ Check!Normalised(t).ended = TRUE
      BY DEF Check!Normalised
    <3>4. \A r \in [lines : SUBSET Lines, ended : BOOLEAN] : r = [lines |-> r.lines, ended |-> r.ended]
      OBVIOUS
    <3>5. QED
      BY <3>1, <3>2, <3>3, <3>4
  <2>2. (text.lines \cup Torch) \cap Refused = {}
    BY <1>3 DEF Check!Accepted, Check!Added
  <2>3. [lines |-> text.lines \cup Torch, ended |-> TRUE] \in Check!Texts
    BY <1>1 DEF Check!Texts
  <2>4. QED
    BY <2>1, <2>2, <2>3 DEF Check!Stored, Check!Accepted
<1>4. Check!Empty \in Check!Stored
  BY DEF Check!Stored, Check!Texts, Check!Empty, Check!Accepted
<1>5. QED
  BY <1>2, <1>3, <1>4

\* The runner and the other clients.
LEMMA CheckRunnerStep ==
  ASSUME CheckInv, Check!Ends \/ Check!Restarts \/ Check!Others \/ Check!GoesOn
  PROVE  CheckInv'
<1> USE DEF CheckInv, ShapeInv, LostInv, RestoreInv, Known, Check!Running, Check!script, Check!jobVars, Check!history
<1>1. CASE Check!Ends
  <2>1. status' # "running" /\ job' = "none" /\ UNCHANGED <<list, others, pc, original, installed, late, found, restored, meddled>>
    BY <1>1 DEF Check!Ends, Check!JobEnds
  <2>2. job = "reset" /\ status' = "succeeded" => env' = list.lines
    BY <1>1 DEF Check!Ends, Check!Left
  <2>3. job # "none"
    BY <1>1 DEF Check!Ends, Check!JobEnds
  <2>4. QED
    BY <2>1, <2>2, <2>3
<1>2. CASE Check!Restarts
  BY <1>2 DEF Check!Restarts
<1>3. CASE Check!Others
  <2>1. meddled' = TRUE /\ UNCHANGED <<pc, original, installed, late, found, restored>>
    BY <1>3 DEF Check!Others
  <2>2. CASE Check!OtherSaves /\ UNCHANGED Check!jobVars
    <3>1. others'.saves = others.saves + 1 /\ others'.saves \in Nat /\ others' = [saves |-> others'.saves, jobs |-> others'.jobs]
      BY <2>2 DEF Check!OtherSaves
    <3>2. \A text \in Lists : Check!Normalised(text) \in Check!Stored
      <4>1. Lists \subseteq Check!Stored
        BY DEF Stored, Check!Stored, Texts, Check!Texts, Accepted, Check!Accepted
      <4>2. QED
        BY <4>1, StoredNormal
    <3>3. list' \in Check!Stored /\ UNCHANGED job
      BY <2>2, <3>2 DEF Check!OtherSaves, Check!Saves
    <3>4. QED
      BY <2>1, <2>2, <3>1, <3>3
  <2>3. CASE Check!OtherClears /\ UNCHANGED Check!jobVars
    BY <2>1, <2>3 DEF Check!OtherClears
  <2>4. CASE Check!Running /\ ~cancelling /\ Check!Cancels /\ UNCHANGED others
    BY <2>1, <2>4 DEF Check!Cancels
  <2>5. CASE Check!OtherStarts /\ status' = "running" /\ cancelling' = FALSE /\ UNCHANGED <<env, stops>>
    BY <2>1, <2>5 DEF Check!OtherStarts, Check!Starts
  <2>6. QED
    BY <1>3, <2>2, <2>3, <2>4, <2>5 DEF Check!Others
<1>4. CASE Check!GoesOn
  BY <1>4 DEF Check!GoesOn, Check!JobCloses, Check!ClearEnds
<1>5. QED
  BY <1>1, <1>2, <1>3, <1>4

\* The script and its interruption.
LEMMA ScriptStep ==
  ASSUME CheckInv, MinFree \in Nat \ {0}, Torch \subseteq Lines, Check!Script \/ Check!Interrupt \/ Check!Late
  PROVE  CheckInv'
<1> USE StoredTexts DEF CheckInv, ShapeInv, LostInv, RestoreInv, Known, Check!Running, Check!Busy, Check!Held, Check!script, Check!jobVars, Check!history, Check!runnerVars,
        Check!Goes, Check!Dies, Check!Works, Check!Fails, Check!Unanswered, Check!Takes, Check!Saves, Check!Begins, Check!Starts
<1>1. CASE Check!KernelRuns \/ Check!KernelFails
  BY <1>1 DEF Check!KernelRuns, Check!KernelFails
<1>2. CASE Check!Waits
  BY <1>2 DEF Check!Waits
<1>3. CASE Check!Summary
  <2>1. PICK free \in 0..MaxFree :
           /\ \/ original' = list /\ Check!Works
              \/ original' = Check!Empty /\ free = 0 /\ Check!Fails
           /\ pc' = IF Check!Enough(free) THEN "confirm" ELSE "done"
    BY <1>3 DEF Check!Summary
  <2>2. /\ pc = "summary" /\ UNCHANGED <<list, job, status, others, env, installed, late, found, restored, meddled>>
        /\ original' \in Check!Stored
    BY <1>3, <2>1 DEF Check!Summary
  <2>3. pc' = "done" \/ (pc' = "confirm" /\ original' = list)
    BY <2>1 DEF Check!Enough
  <2>4. QED
    BY <2>2, <2>3
<1>4. CASE Check!Confirms
  BY <1>4 DEF Check!Confirms
<1>5. CASE Check!Puts
  BY <1>5 DEF Check!Puts
<1>6. CASE Check!Installs
  BY <1>6 DEF Check!Installs, Check!Posts, Check!InstallEnds
<1>7. CASE Check!Follows
  BY <1>7 DEF Check!Follows, Check!InstallEnds
<1>8. CASE Check!Asks
  <2>1. CASE pc = "askReset" /\ status # "running" /\ Check!Works /\ pc' = "clear" /\ restored' = (status = "succeeded")
                 /\ UNCHANGED <<Check!script, late, found, meddled>>
    <3>1. restored' <=> status = "succeeded"
      BY <2>1
    <3>2. UNCHANGED <<list, job, status, others, env, original, installed, late, found, meddled>>
      BY <2>1
    <3>3. QED
      BY <2>1, <3>1, <3>2
  <2>2. CASE \/ pc = "ask" /\ Check!Works /\ Check!InstallEnds(IF status = "succeeded" THEN "again" ELSE "verdict")
             \/ pc = "ask" /\ Check!Works /\ Check!Goes("follow")
             \/ pc = "askReset" /\ Check!Works /\ Check!Goes("followReset")
    BY <2>2 DEF Check!InstallEnds
  <2>3. QED
    BY <1>8, <2>1, <2>2 DEF Check!Asks, Check!Ended
<1>9. CASE Check!Verdict
  BY <1>9 DEF Check!Verdict
<1>10. CASE Check!Restores
  BY <1>10 DEF Check!Restores
<1>11. CASE Check!Resets
  BY <1>11 DEF Check!Resets, Check!Posts, Check!RestoreBy
<1>12. CASE Check!Clears
  BY <1>12 DEF Check!Clears
<1>13. CASE Check!Interrupt
  BY <1>13 DEF Check!Interrupt, Check!Cancels
<1>14. CASE Check!Late
  <2>1. UNCHANGED <<pc, original, installed, found, restored, meddled>> /\ late # "none" /\ late' = "none" /\ pc = "done" /\ ~restored
    BY <1>14 DEF Check!Late
  <2>2. CASE late = "put" /\ Check!Takes(Check!Added(original))
    BY <2>1, <2>2
  <2>3. CASE late = "restore" /\ Check!Takes(original)
    BY <2>1, <2>3
  <2>4. CASE Check!Begins("install") \/ Check!Begins(Check!RestoreBy)
    BY <2>1, <2>4 DEF Check!RestoreBy
  <2>5. CASE UNCHANGED <<Check!runnerVars, Check!jobVars>>
    BY <2>1, <2>5
  <2>6. QED
    BY <1>14, <2>2, <2>3, <2>4, <2>5 DEF Check!Late
<1>15. QED
  BY <1>1, <1>2, <1>3, <1>4, <1>5, <1>6, <1>7, <1>8, <1>9, <1>10, <1>11, <1>12, <1>13, <1>14 DEF Check!Script

\* verify_cuda.sh: no line of the user's list is lost unless another client saves one,
\* and "previous package list reinstalled" means list and environment are as before
\* unless another client has used the page; if some free space is asked for at all.
THEOREM ListStaysSafe ==
  ASSUME MinFree \in Nat \ {0}, Torch \subseteq Lines
  PROVE  ClientsSpec => []ListSafe
<1> DEFINE Inv == part = "check" => CheckInv
<1>1. ClientsInit => Inv
  <2>1. SUFFICES ASSUME ClientsInit PROVE CheckInv
    OBVIOUS
  <2>2. RunnerInit /\ Check!CheckInit
    BY <2>1 DEF ClientsInit
  <2>3. list \in Check!Stored
    BY <2>2 DEF RunnerInit, Stored, Check!Stored, Texts, Check!Texts, Accepted, Check!Accepted
  <2>4. QED
    BY <2>2, <2>3, StoredTexts DEF RunnerInit, Check!CheckInit, CheckInv, ShapeInv, LostInv, RestoreInv, Known,
       Check!Running
<1>2. Inv /\ [ClientsNext]_clientVars => Inv'
  <2>1. SUFFICES ASSUME Inv, [ClientsNext]_clientVars, part' = "check" PROVE CheckInv'
    OBVIOUS
  <2>2. CASE UNCHANGED clientVars
    BY <2>1, <2>2 DEF clientVars, onlyCheck, vars, runnerVars, CheckInv, ShapeInv, LostInv, RestoreInv, Known,
       Check!Running
  <2>3. CASE EditorStep(Next)
    BY <2>1, <2>3 DEF EditorStep
  <2>4. CASE CheckStep
    BY <2>1, <2>4, CheckRunnerStep, ScriptStep DEF CheckStep, Check!Next
  <2>5. QED
    BY <2>1, <2>2, <2>3, <2>4 DEF ClientsNext
<1>3. Inv => ListSafe
  BY DEF CheckInv, ShapeInv, LostInv, RestoreInv, ListSafe, Check!ListSafe, Check!NothingLost, Check!RestoredAll
<1>4. QED
  BY <1>1, <1>2, <1>3, PTL DEF ClientsSpec
=============================================================================
