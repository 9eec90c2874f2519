----------------------------- MODULE MCGraphBuild -----------------------------
(***************************************************************************)
(* Small instances: two sources, one restored document that shares an      *)
(* amenity with one of them, two builds in turn.                           *)
(***************************************************************************)
EXTENDS GraphBuild, TLC

CONSTANTS paris, cairo, rome

SharedPool == paris :> {"pool"} @@ cairo :> {"spa"} @@ rome :> {"pool"}

AdditiveOnce == <<"additive">>
AdditiveTwice == <<"additive", "additive">>
RebuildThenResume == <<"rebuild", "resume">>
================================================================================
