---------------------------- MODULE StickerStationMC ----------------------------
(* Photos of the same unit, drives of which d1 is preferred. *)
EXTENDS StickerStation

McLabel == [p \in Photos |-> CHOOSE l \in Labels : TRUE]

McBest(ds) == IF "d1" \in ds THEN "d1" ELSE CHOOSE d \in ds : TRUE
=================================================================================
