-------------------------- MODULE MCLockedCampaign --------------------------
(***************************************************************************)
(* Jobs that alternate between two solver binaries, as the abba order of   *)
(* one instance does.                                                      *)
(***************************************************************************)
EXTENDS LockedCampaign, TLC

CONSTANTS solver1, solver2

ThreeJobs == (0 :> {solver1}) @@ (1 :> {solver2}) @@ (2 :> {solver1})
=============================================================================
