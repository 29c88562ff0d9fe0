------------------------------ MODULE DurableSet ------------------------------
(***************************************************************************)
(* What a set kept through a Core Data context promises.                   *)
(*                                                                         *)
(* The program works on view, the disk holds saved.  Each change of view   *)
(* is followed by one attempt to save, which puts the whole view on disk   *)
(* (the change and every earlier one that is still pending) or nothing;    *)
(* when the process ends the view falls back to what is on disk.           *)
(***************************************************************************)
CONSTANT Elements

VARIABLES view,  \* the elements as the running program sees them
          saved  \* the elements on disk

durableVars == <<view, saved>>

DurableInit == view = {} /\ saved = {}

\* One change and the one save that follows it, which succeeds or fails.
Change(new) == view' = new /\ saved' \in {saved, new}

\* A new element is one that neither the view nor the disk holds.
Add(e) == e \notin view \cup saved /\ Change(view \cup {e})

\* Some elements of the view are removed together.
Remove(S) == S # {} /\ Change(view \ S)

\* The process ends: what was not saved is lost.
Lose == view' = saved /\ saved' = saved

DurableNext == \/ \E e \in Elements : Add(e)
               \/ \E S \in SUBSET view : Remove(S)
               \/ Lose

DurableSpec == DurableInit /\ [][DurableNext]_durableVars
===============================================================================
