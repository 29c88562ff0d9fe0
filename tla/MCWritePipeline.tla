---------------------------- MODULE MCWritePipeline ----------------------------
(***************************************************************************)
(* WritePipeline for two accounts on a device.                             *)
(***************************************************************************)
EXTENDS WritePipeline

CONSTANTS u1, u2

MCClients == {u1, u2}
================================================================================
