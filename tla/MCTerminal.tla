----------------------------- MODULE MCTerminal -----------------------------
(* A small instance of Terminal for TLC.                                   *)
EXTENDS Terminal, TLC

KeySymmetry == Permutations(Keys)

(* Two sizes with as many cells and different shapes.                      *)
MCSizes == {[rows |-> 1, cols |-> 2], [rows |-> 2, cols |-> 1]}

(* A red, and opaque white, the value m_prev uses for unknown.             *)
Red == <<200, 40, 0, 255>>
MCPixels == {Red, <<255, 255, 255, 255>>}

(* Invalid frames, and frames of one row of two pixels.                    *)
MCFrames == {<< >>} \cup [[y : {0}, x : {0, 1}] -> MCPixels]
=============================================================================
