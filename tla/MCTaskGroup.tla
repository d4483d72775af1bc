---------------------------- MODULE MCTaskGroup ----------------------------
(* Small instances of TaskGroup for TLC: a phase of World::tick() whose    *)
(* read systems are tasks of the main thread's group; one of them, like    *)
(* render_prep_2d, opens groups of its own.                                *)
EXTENDS TaskGroup

CONSTANTS prep, read, rect1, rect2, text1, phase, rects, texts

MCLaneOf == [t \in Tasks |-> "Engine"]

(* Two read systems; the first splits its rectangles and its texts. *)
TickTasks   == {prep, read, rect1, rect2, text1}
TickGroups  == {phase, rects, texts}
TickGroupOf == [t \in TickTasks |-> CASE t \in {prep, read}   -> phase
                                      [] t \in {rect1, rect2} -> rects
                                      [] t = text1            -> texts]
TickOwnerOf == [g \in TickGroups |-> IF g = phase THEN Main ELSE prep]

(* A single read system with a single chunk. *)
PrepTasks   == {prep, rect1}
PrepGroups  == {phase, rects}
PrepGroupOf == [t \in PrepTasks |-> IF t = prep THEN phase ELSE rects]
PrepOwnerOf == [g \in PrepGroups |-> IF g = phase THEN Main ELSE prep]

(* Two groups of the main thread, one after the other, as in the smoke     *)
(* example: the second may occupy the memory of the first.                 *)
FlatTasks   == {rect1, rect2, text1}
FlatGroups  == {rects, texts}
FlatGroupOf == [t \in FlatTasks |-> IF t = text1 THEN texts ELSE rects]
FlatOwnerOf == [g \in FlatGroups |-> Main]
=============================================================================
