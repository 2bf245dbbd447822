----------------------------- MODULE PageClients -----------------------------
(***************************************************************************)
(* The clients of the requirements list which a check explores: the page's *)
(* editor (ListEditor) and verify_cuda.sh (CudaCheck), each beside other   *)
(* clients, whose saves and jobs stand for one another's.  A behaviour     *)
(* follows one of them.                                                    *)
(***************************************************************************)
EXTENDS ListEditor

CONSTANTS Torch, MinFree, MaxFree, MaxStops   \* as in CudaCheck

VARIABLES
    part,   \* "editor" or "check"
    status, cancelling, env, stops, pc, options, report, original, installed, code, late,
    found, restored, meddled

Check == INSTANCE CudaCheck

onlyEditor == <<page, button, request, edits, history>>
onlyCheck  == <<status, cancelling, env, stops, pc, options, report, original, installed, code, late,
                found, restored, meddled>>
clientVars == <<part, vars, onlyCheck>>

ClientsInit ==
    /\ part \in {"editor", "check"}
    /\ RunnerInit /\ EditorInit /\ Check!CheckInit
    /\ part = "editor" => options = "check" /\ env = {}

EditorStep(A) == part = "editor" /\ A /\ UNCHANGED <<part, onlyCheck>>
CheckStep     == part = "check" /\ Check!Next /\ UNCHANGED <<part, onlyEditor>>

ClientsNext == EditorStep(Next) \/ CheckStep

\* As in ListEditor.
ClientsSpec ==
    /\ ClientsInit /\ [][ClientsNext]_clientVars
    /\ WF_clientVars(EditorStep(TickAsks)) /\ WF_clientVars(EditorStep(TickEnds))
    /\ WF_clientVars(EditorStep(StateReadsList("tick") \/ StateCopiesJob("tick")))

\* Settles of ListEditor, of the behaviours that follow the editor.
EditorSettles == part = "editor" => Settles

\* As in CudaCheck, of the behaviours that follow the script: no line of the user's list is
\* lost, and "previous package list reinstalled" means that list and environment are as before.
ListSafe == part = "check" => Check!ListSafe
=============================================================================
