------------------------------ MODULE Terminal ------------------------------
(***************************************************************************)
(* The terminal platform in the loop: in each frame its input source reads *)
(* all there is, and its surface presents a picture.  The two meet in      *)
(* getch(): a change of the terminal's size is a key to the source, which  *)
(* ignores it, and only by reading it does the surface learn of it.        *)
(***************************************************************************)
EXTENDS Naturals, Sequences

CONSTANTS Keys, Capacity, Policies, Sources, MaxEvents,
          Sizes, Pixels, Frames

VARIABLES policy, source, held, pending, pumping, down, justPressed,
          justReleased, anyInput, events, dropped, downBefore, arrived,
          colors, size, drawn, prev, cells, shown, lost,
          stage   \* the stage of the frame that comes next

In == INSTANCE Input WITH Unmapped <- Sizes
Out == INSTANCE TerminalSurface

ASSUME TerminalAssumption == In!InputAssumption /\ Out!SurfaceAssumption

inputVars == <<policy, source, held, pending, pumping, down, justPressed,
               justReleased, anyInput, events, dropped, downBefore, arrived>>
surfaceVars == <<colors, size, drawn, prev, cells, shown, lost>>
vars == <<inputVars, surfaceVars, stage>>

TypeOK == In!TypeOK /\ Out!TypeOK /\ stage \in {"input", "pump", "present"}

Init == In!Init /\ Out!Init /\ stage = "input"

UserActs == In!UserActs /\ UNCHANGED <<surfaceVars, stage>>

StartInput ==
  /\ stage = "input"
  /\ In!BeginInput
  /\ stage' = "pump"
  /\ UNCHANGED surfaceVars

(* KEY_RESIZE carries the size the terminal has when it is read.           *)
ReadKey ==
  /\ stage = "pump"
  /\ In!PollKey
  /\ IF Head(pending) \in Sizes THEN Out!Resize(Head(pending)) ELSE UNCHANGED surfaceVars
  /\ UNCHANGED stage

EndInput ==
  /\ stage = "pump"
  /\ In!EndInput
  /\ stage' = "present"
  /\ UNCHANGED surfaceVars

PresentFrame ==
  /\ stage = "present"
  /\ \E f \in Frames : Out!Present(f)
  /\ stage' = "input"
  /\ UNCHANGED inputVars

Next == UserActs \/ StartInput \/ ReadKey \/ EndInput \/ PresentFrame

Spec == Init /\ [][Next]_vars

-----------------------------------------------------------------------------
(* The properties of the two parts, in the loop.                           *)

(* The queue holds the events its policy promises, in order, and counts    *)
(* the others.                                                             *)
QueueKeepsOrder == In!QueueKeepsOrder

(* Every change of a key within the frame shows as an edge.                *)
EdgesTellChanges == In!EdgesTellChanges

(* The state agrees with the keyboard when all has been read.              *)
StateFollowsKeyboard == In!StateFollowsKeyboard

(* The terminal shows the frame presented last, with the exceptions named  *)
(* in TerminalSurface.                                                     *)
ScreenShowsFrame == Out!ScreenShowsFrame

(* The first present() after the start, or after a change of size, draws   *)
(* every cell of the frame.                                                *)
EveryCellDrawn == Out!EveryCellDrawn
=============================================================================
