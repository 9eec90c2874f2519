--------------------------- MODULE MCOwnAccountDeploy --------------------------
(***************************************************************************)
(* Small instance: a class of up to two, two subnets in two zones, two     *)
(* editions of the template, room for two stacks and a little more.        *)
(***************************************************************************)
EXTENDS OwnAccountDeploy, TLC

SameEditions == Permutations(Editions)

TwoZones == [s \in Subnets |-> IF s = CHOOSE t \in Subnets : TRUE THEN 1 ELSE 2]
================================================================================
