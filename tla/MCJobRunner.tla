---------------------------- MODULE MCJobRunner ----------------------------
(* Small instances of JobRunner for TLC; the .cfg files pick the values.   *)
EXTENDS JobRunnerService, TLC

CONSTANTS web, oneoff, b1, b2, r1

MCOneServer == {web}
MCOneOff == {oneoff}
MCNone == {}
MCNothing == {NoPkgs}
MCTwoBaselines == {NoPkgs, b1, b2}
MCPageLists == {NoPkgs, r1}
MCNoPage == {NoPkgs}
=============================================================================
