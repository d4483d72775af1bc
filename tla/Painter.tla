------------------------------- MODULE Painter -------------------------------
(***************************************************************************)
(* What a frame promises to show, with no word about threads, chunks, the  *)
(* queue or tiles: the commands are painted on the whole canvas one after  *)
(* the other, smaller sort keys first.                                     *)
(***************************************************************************)
EXTENDS Raster, SequencesExt

CONSTANT Capacity     \* RenderQueue::kMax

VARIABLES
  commands,   \* what is to be drawn, in any order
  joined,     \* has nothing been recorded by several threads at a time since
              \* the threads were joined last?
  picture,    \* a function from the pixels of the canvas to colours
  shown       \* is the picture that of this frame?

Init == shown = FALSE

(* Smaller keys first; equal keys in any order (std::sort). *)
InKeyOrder(cmds, s) == \A i \in 1 .. Len(s) - 1 : cmds[s[i]].key <= cmds[s[i + 1]].key

(* The largest number of commands there can be in the queue. *)
Room(cmds) == IF Len(cmds) < Capacity THEN Len(cmds) ELSE Capacity

(* A queue that is full, or pushes of several threads that are not made up *)
(* for by a later one, cost commands.                                      *)
Enough(cmds) == IF joined THEN {Room(cmds)}
                ELSE {n \in 0 .. Room(cmds) : Room(cmds) > 0 => n > 0}

(* The canvas pic after the first i of the commands s are painted on it.   *)
Paintings(s, pic) ==
  LET p[i \in 0 .. Len(s)] == IF i = 0 THEN pic ELSE Draw(s[i], DOMAIN pic, p[i - 1])
  IN  p

Paint ==
  /\ ~shown
  /\ shown' = TRUE
  /\ LET cmds == commands
     IN  \E n \in Enough(cmds) : \E kept \in kSubset(n, DOMAIN cmds) :
           \E s \in {t \in SetToSeqs(kept) : InKeyOrder(cmds, t)} :
             picture' = Paintings([i \in DOMAIN s |-> cmds[s[i]]], picture)[Len(s)]
  /\ UNCHANGED <<commands, joined>>

Spec == Init /\ [][Paint]_<<commands, joined, picture, shown>>
=============================================================================
