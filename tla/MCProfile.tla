------------------------------- MODULE MCProfile -------------------------------
(***************************************************************************)
(* Profile for two people.  A user's document is as the app writes it,     *)
(* where the entry of the registration has no answers, or without that     *)
(* entry; All_Test_Score, which the app does not create, has only tests.   *)
(***************************************************************************)
EXTENDS Profile

MCTest == <<1, 2, 3, 4, 5, 1, 2, 3, 4, 5, 5, 4, 3, 2, 1>>

MCDocuments == {<<<<>>, MCTest>>, <<MCTest>>}
MCAllDocuments == {<<MCTest>>}
================================================================================
