---------------------------- MODULE ProjectFiles ----------------------------
(***************************************************************************)
(* The files of a checkout that run.sh and the builder check before they   *)
(* deploy: config.yaml and the .env (CommandLine), and requirements.txt,   *)
(* whose text is typed here.  What CommandLine needs to know of it is      *)
(* whether it is accepted, so texts are explored beside idle programs      *)
(* only, from the state in which no file exists.                           *)
(***************************************************************************)
EXTENDS CommandLine, Requirements

fileVars == <<vars, list>>

FilesInit == Init /\ ListInit

Untouched == env = Missing /\ config = NoConfig /\ reqs = "none" /\ commands = 0 /\ edits = 0
             /\ at = [run |-> "idle", builder |-> "closed"]

FilesNext ==
    \/ Next /\ list = <<>> /\ UNCHANGED list
    \/ Untouched /\ ListNext /\ UNCHANGED vars

FilesSpec == FilesInit /\ [][FilesNext]_fileVars
=============================================================================
