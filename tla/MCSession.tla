------------------------------- MODULE MCSession -------------------------------
(***************************************************************************)
(* Session for two people who share a device.                              *)
(***************************************************************************)
EXTENDS Session, TLC

CONSTANTS u1, u2

MCUsers == {u1, u2}
MCTests == [n : 1..MaxTests, by : MCUsers \cup {NoUser}, sure : BOOLEAN,
            kept : MCUsers \cup {NoUser}]
MCSymmetry == Permutations(MCUsers)
================================================================================
