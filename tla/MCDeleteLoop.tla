----------------------------- MODULE MCDeleteLoop -----------------------------
(***************************************************************************)
(* DeleteLoop for every call with at most four entries.                    *)
(***************************************************************************)
EXTENDS DeleteLoop

CONSTANTS e1, e2, e3, e4

MCEntries == {e1, e2, e3, e4}
===============================================================================
