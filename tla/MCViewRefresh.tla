---------------------------- MODULE MCViewRefresh ----------------------------
(***************************************************************************)
(* Instances of ViewRefresh for TLC.                                       *)
(***************************************************************************)
EXTENDS ViewRefresh

CONSTANTS today, week, last7, last30, picked
=============================================================================
