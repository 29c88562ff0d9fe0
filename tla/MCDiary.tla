-------------------------------- MODULE MCDiary --------------------------------
(***************************************************************************)
(* Diary on a small instance: four entries, two of them written on days    *)
(* with the same date text.                                                *)
(***************************************************************************)
EXTENDS Diary

CONSTANTS e1, e2, e3, e4

MCEntries == {e1, e2, e3, e4}
MCDateOf == [e \in MCEntries |-> CASE e = e1 -> 1 [] e = e2 -> 1 [] e = e3 -> 2 [] e = e4 -> 3]
===============================================================================
