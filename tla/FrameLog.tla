------------------------------ MODULE FrameLog ------------------------------
(***************************************************************************)
(* What the consumer of a RenderQueue may rely on, with no word about      *)
(* slots, counters or memory: within a frame the visible commands form a   *)
(* log of bounded length that only ever grows at its end, and a new frame  *)
(* starts from the empty log.                                              *)
(***************************************************************************)
EXTENDS Naturals, Sequences

CONSTANTS Cmds,      \* what one entry of the log may be
          Capacity   \* RenderQueue::kMax

VARIABLE visible     \* the commands the consumer may read, oldest first

Init == visible = << >>

Publish == /\ Len(visible) < Capacity
           /\ \E c \in Cmds : visible' = Append(visible, c)

NewFrame == visible' = << >>

Next == Publish \/ NewFrame

Spec == Init /\ [][Next]_visible
=============================================================================
