-------------------------- MODULE MCFramePipeline --------------------------
(* Small instances of FramePipeline for TLC. *)
EXTENDS FramePipeline

(* Two read systems and a write system in Update; in RenderPrep, two read  *)
(* systems that record from tasks of their own, as render_prep_2d does,    *)
(* and one write system.  On one worker each of the two hangs, on two      *)
(* workers both together do, on three they do not.                         *)
MCReads   == << {}, {"move", "collide"}, {}, {"render_prep_2d", "particles"} >>
MCWrites  == << << >>, <<"apply">>, << >>, <<"overlay">> >>
MCNesting == {"render_prep_2d", "particles"}

(* A client without a world, and one that ticks it before it records.      *)
PlainClient  == [ticksFrom |-> {}, recordsFirst |-> TRUE]
TicksInPrep  == [ticksFrom |-> {"render_prep"}, recordsFirst |-> FALSE]
GoodClients  == {PlainClient, TicksInPrep}

(* One that ticks it in update(), as the smoke example does.               *)
SmokeClient  == {[ticksFrom |-> {"update"}, recordsFirst |-> FALSE]}
=============================================================================
