-------------------------- MODULE MCBaselineDeploy --------------------------
(* Small instances of BaselineDeploy for TLC.                              *)
EXTENDS BaselineDeploy, TLC

CONSTANTS web, oneoff, b1

MCServers == {web}
MCOneOffs == {oneoff}
MCBaselines == {NoPkgs, b1}
MCNoPage == {NoPkgs}
=============================================================================
