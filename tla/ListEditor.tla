----------------------------- MODULE ListEditor -----------------------------
(***************************************************************************)
(* The editor of the Dependencies page (src/stack/stats/static/deps.js):   *)
(* what is typed, what is saved, and the state answers that overtake both. *)
(* tick() and the coroutine of a button are in flight at once; how they    *)
(* follow job and log is in module DepsPage.                               *)
(***************************************************************************)
EXTENDS ListRunner

CONSTANTS
    Typed,     \* the texts a user types
    MaxEdits,  \* bound: times the user types
    MaxLost    \* bound: requests that time out or find no runner

ASSUME EditorAssumption == Typed \subseteq Texts /\ MaxEdits \in Nat /\ MaxLost \in Nat

VARIABLES
    editor,      \* editor.value
    savedText,   \* NoText: null
    known,       \* isRunning(): what the page believes
    connection,  \* connection === "ok"
    button,      \* where the coroutine of a button waits; "none": ~pending
    request,     \* the request of each coroutine
    edits, lost,
    \* history: what the user typed and the runner has not had since; the text in the editor
    \* when Install was pressed; was an answer taken that was older than the list?
    unsaved, pressed, overtaken

bounds  == <<edits, lost>>
history == <<unsaved, pressed, overtaken>>
page    == <<editor, savedText, known, connection>>
vars    == <<runnerVars, page, button, request, bounds, history>>

----------------------------------------------------------------------------
Coroutines == {"tick", "button"}
NoText     == [lines |-> {}, ended |-> FALSE]
NoRequest  == [stage |-> "none", text |-> NoText, running |-> FALSE]
Sent(text) == [stage |-> "sent", text |-> text, running |-> FALSE]

Loaded  == savedText # NoText
isDirty == Loaded /\ editor # savedText

EditorInit ==
    /\ editor = Empty /\ savedText = NoText /\ known = FALSE /\ connection = FALSE
    /\ button = "none" /\ request = [c \in Coroutines |-> NoRequest]
    /\ edits = 0 /\ lost = 0
    /\ unsaved = NoText /\ pressed = NoText /\ overtaken = FALSE

Init == RunnerInit /\ EditorInit

----------------------------------------------------------------------------
(* The runner answers                                                      *)

Answer(c, fields) == request' = [request EXCEPT ![c] = fields]
Staged(c, stage)  == Answer(c, [request[c] EXCEPT !.stage = stage])

\* A list that is stored is not unsaved any more.
Noted == unsaved' = (IF Normalised(unsaved) = list' THEN NoText ELSE unsaved)

AsksState(c) == c = "tick" \/ button = "refresh"

\* Handler.state reads requirements.txt first, without the lock, the job later.
StateReadsList(c) ==
    /\ AsksState(c) /\ request[c].stage = "sent"
    /\ Answer(c, [request[c] EXCEPT !.stage = "read", !.text = list])
    /\ UNCHANGED <<runnerVars, page, button, bounds, history>>

StateCopiesJob(c) ==
    /\ request[c].stage = "read"
    /\ Answer(c, [request[c] EXCEPT !.stage = "answered", !.running = Running])
    /\ UNCHANGED <<runnerVars, page, button, bounds, history>>

PutStores ==
    /\ button \in {"save", "saveFirst"} /\ request["button"].stage = "sent"
    /\ Saves(request["button"].text) /\ Noted /\ Staged("button", "answered")
    /\ UNCHANGED <<others, page, button, bounds, pressed, overtaken>>

PostStarts ==
    /\ button = "start" /\ request["button"].stage = "sent"
    /\ Starts("install")
    /\ Staged("button", "answered")
    /\ UNCHANGED <<others, page, button, bounds, history>>

\* 400: a line is not accepted; 409: a job runs, or has not let go of the flock yet.
Refuses ==
    /\ request["button"].stage = "sent"
    /\ \/ button \in {"save", "saveFirst"} /\ ~(Accepted(request["button"].text) /\ ~Busy)
       \/ button = "start" /\ Held
    /\ Staged("button", "refused")
    /\ UNCHANGED <<runnerVars, page, button, bounds, history>>

\* A timeout, a proxy's 503, a runner that restarts (its job ends); the request may have been handled
\* all the same, and may be handled later (OtherSaves, OtherStarts).
Loses(c) ==
    /\ request[c].stage \notin {"none", "failed"}
    /\ lost < MaxLost /\ lost' = lost + 1
    /\ Answer(c, [NoRequest EXCEPT !.stage = "failed"])
    /\ UNCHANGED <<runnerVars, page, button, edits, history>>

Others ==
    /\ \/ (JobEnds \/ JobCloses \/ OtherStarts \/ OtherClears \/ ClearEnds) /\ UNCHANGED unsaved
       \/ OtherSaves /\ Noted
    /\ UNCHANGED <<page, button, request, bounds, pressed, overtaken>>

----------------------------------------------------------------------------
(* The page                                                                *)

Adopts == overtaken' = (overtaken \/ savedText' # list)

\* renderState
MutantRender(text) ==   \* edits are kept by not rendering
    IF isDirty THEN UNCHANGED <<editor, savedText>> ELSE editor' = text /\ savedText' = text
Render(text)       == savedText' = text /\ editor' = IF isDirty THEN editor ELSE text

\* refreshState with an answer.
Renders(answer) ==
    /\ Render(answer.text) /\ known' = answer.running /\ connection' = TRUE
    /\ Adopts

TickAsks ==
    /\ request["tick"].stage = "none"
    /\ Answer("tick", Sent(NoText))
    /\ UNCHANGED <<runnerVars, page, button, bounds, history>>

TickEnds ==
    /\ \/ request["tick"].stage = "answered" /\ Renders(request["tick"])
       \/ /\ request["tick"].stage = "failed" /\ connection' = FALSE
          /\ UNCHANGED <<editor, savedText, known, overtaken>>
    /\ Answer("tick", NoRequest)
    /\ UNCHANGED <<runnerVars, button, bounds, unsaved, pressed>>

Types ==
    /\ Loaded
    /\ edits < MaxEdits /\ edits' = edits + 1
    /\ \E text \in Typed \ {editor} :
          /\ editor' = text
          /\ unsaved' = (IF text = savedText \/ Normalised(text) = list THEN NoText ELSE text)
    /\ UNCHANGED <<runnerVars, savedText, known, connection, button, request, lost, pressed, overtaken>>

Ready == connection /\ Loaded /\ ~known /\ button = "none"

PressesSave ==
    /\ Ready /\ isDirty
    /\ button' = "save" /\ Answer("button", Sent(editor))
    /\ UNCHANGED <<runnerVars, page, bounds, history>>

\* startJob: `if (isDirty() && !(await save())) return`
PressesInstall ==
    /\ Ready /\ pressed' = editor
    /\ button' = IF isDirty THEN "saveFirst" ELSE "start"
    /\ Answer("button", Sent(editor))
    /\ UNCHANGED <<runnerVars, page, bounds, unsaved, overtaken>>

Done         == button' = "none" /\ Answer("button", NoRequest)
Goes(place)  == button' = place /\ Answer("button", Sent(NoText))

MutantAdoptsSaved(text) == editor' = Normalised(text)   \* over what was typed meanwhile
AdoptsSaved(text)       == editor' = IF editor = text THEN Normalised(text) ELSE editor

Saved ==
    /\ button \in {"save", "saveFirst"} /\ request["button"].stage = "answered"
    /\ savedText' = Normalised(request["button"].text) /\ AdoptsSaved(request["button"].text)
    /\ IF button = "save" THEN Done ELSE Goes("start")
    /\ Adopts
    /\ UNCHANGED <<runnerVars, known, connection, bounds, unsaved, pressed>>

MutantNotSaved == IF button = "saveFirst" THEN Goes("start") ELSE Done   \* the answer is not looked at
NotSaved       == Done

SaveRefused ==
    /\ button \in {"save", "saveFirst"} /\ request["button"].stage = "refused"
    /\ NotSaved
    /\ UNCHANGED <<runnerVars, page, bounds, history>>

\* The job is the page's; after a refusal the state is looked at.
Started ==
    /\ button = "start"
    /\ \/ request["button"].stage = "answered" /\ known' = TRUE /\ Done
       \/ request["button"].stage = "refused" /\ UNCHANGED known /\ Goes("refresh")
    /\ UNCHANGED <<runnerVars, editor, savedText, connection, bounds, history>>

Refreshed ==
    /\ button = "refresh" /\ request["button"].stage = "answered"
    /\ Renders(request["button"]) /\ Done
    /\ UNCHANGED <<runnerVars, bounds, unsaved, pressed>>

ButtonFails ==
    /\ request["button"].stage = "failed" /\ connection' = FALSE
    /\ Done
    /\ UNCHANGED <<runnerVars, editor, savedText, known, bounds, history>>

----------------------------------------------------------------------------
StateAnswers == \E c \in Coroutines : StateReadsList(c) \/ StateCopiesJob(c)
ButtonGoesOn == Saved \/ SaveRefused \/ Started \/ Refreshed \/ ButtonFails

Next ==
    \/ StateAnswers \/ PutStores \/ PostStarts \/ Refuses
    \/ Others \/ \E c \in Coroutines : Loses(c)
    \/ TickAsks \/ TickEnds \/ ButtonGoesOn
    \/ Types \/ PressesSave \/ PressesInstall

\* The tab is visible; requests are answered or given up.
Fairness ==
    /\ WF_vars(TickAsks) /\ WF_vars(TickEnds)
    /\ WF_vars(StateReadsList("tick") \/ StateCopiesJob("tick"))

Spec     == Init /\ [][Next]_vars
FairSpec == Spec /\ Fairness

----------------------------------------------------------------------------
(* Properties                                                              *)

\* Types and ranges of every variable.
TypeOK ==
    /\ list \in Stored /\ job \in {"none", "install", "reset"} /\ closing \in BOOLEAN /\ maintenance \in BOOLEAN
    /\ others \in [saves : 0..MaxSaves, jobs : 0..MaxJobs]
    /\ editor \in Texts /\ savedText \in Stored \cup {NoText}
    /\ known \in BOOLEAN /\ connection \in BOOLEAN
    /\ button \in {"none", "save", "saveFirst", "start", "refresh"}
    /\ request \in [Coroutines ->
          [stage : {"none", "sent", "read", "answered", "refused", "failed"},
           text : Texts \cup {NoText}, running : BOOLEAN]]
    /\ edits \in 0..MaxEdits /\ lost \in 0..MaxLost
    /\ unsaved \in Texts \cup {NoText} /\ pressed \in Texts \cup {NoText} /\ overtaken \in BOOLEAN

\* "Keep the user's unsaved edits" (deps.js:344): what the user typed stays in the editor
\* until the runner has it.
KeepsUnsaved == unsaved # NoText => editor = unsaved

\* ... which holds as long as no answer is taken that a save has overtaken.
KeepsUnsavedIfFresh == overtaken \/ KeepsUnsaved

\* Install / update installs the text that was in the editor when it was pressed ("Saves
\* unsaved edits", README.md:531), unless another client saved, or an answer was overtaken.
InstallsEdits ==
    [][PostStarts => list = Normalised(pressed) \/ others.saves > 0 \/ overtaken]_vars

\* The page ends up knowing the list the runner has, whatever it keeps in the editor and
\* whatever was overtaken, once the user presses no button any more.
Settles == <>[](button = "none") => <>[](savedText = list)
=============================================================================
