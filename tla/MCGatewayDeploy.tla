---------------------------- MODULE MCGatewayDeploy ----------------------------
(***************************************************************************)
(* Small instance: both tools, two candidate names, two passwords.         *)
(***************************************************************************)
EXTENDS GatewayDeploy
================================================================================
