------------------------------ MODULE MCFigures ------------------------------
(* A small instance of Figures for TLC.                                    *)
EXTENDS Figures, TLC

CONSTANTS r1, r2

MCSources == {"kernels", "gpu"}
MCEndpoints == {{"kernels", "gpu", "local"}}
MCRequests == {r1, r2}
=============================================================================
