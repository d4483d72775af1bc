------------------------ MODULE FramePipelineProofs ------------------------
(***************************************************************************)
(* The application loop for any systems, jobs, workers, clients, numbers   *)
(* of frames and frame times: type correctness; that no read system overlaps a write *)
(* system; that the time shown is the sum of the steps; and, for clients   *)
(* that keep to the order the loop asks for, that nothing records outside  *)
(* the hooks and that the picture presented is what its frame recorded.    *)
(***************************************************************************)
EXTENDS FramePipeline, TLAPS

(* The clients for which the picture is complete: a world is ticked from   *)
(* render_prep() or not at all, and before anything else is recorded.  The *)
(* others lose what they record, as the run with SmokeClient shows.        *)
ClientsTickFirst ==
  \A c \in ClientKinds : /\ c.ticksFrom \subseteq {"render_prep"}
                         /\ c.ticksFrom # {} => ~c.recordsFirst

-----------------------------------------------------------------------------
(* Read systems and write systems.                                         *)

(* tick() hands out the read systems of a phase when none is left of the   *)
(* phase before, and goes on only when all of them have finished.          *)
LEMMA ReadsInductive ==
  /\ Init => ReadsDoNotOverlapWrites
  /\ ReadsDoNotOverlapWrites /\ [Next]_vars => ReadsDoNotOverlapWrites'
<1>1. Init => ReadsDoNotOverlapWrites
  BY DEF Init, ReadsDoNotOverlapWrites
<1>2. ASSUME ReadsDoNotOverlapWrites, [Next]_vars PROVE ReadsDoNotOverlapWrites'
  <2>1. CASE EnterPhase
    BY <1>2, <2>1 DEF EnterPhase, ReadsDoNotOverlapWrites
  <2>2. CASE JoinReads
    BY <1>2, <2>2 DEF JoinReads, ReadsDoNotOverlapWrites
  <2>3. CASE RunWrite
    BY <1>2, <2>3 DEF RunWrite, ReadsDoNotOverlapWrites
  <2>4. CASE LeavePhase
    BY <1>2, <2>4 DEF LeavePhase, ReadsDoNotOverlapWrites
  <2>5. CASE CallTick
    BY <1>2, <2>5 DEF CallTick, ReadsDoNotOverlapWrites
  <2>6. ASSUME NEW s \in Systems, FinishRead(s) PROVE ReadsDoNotOverlapWrites'
    BY <1>2, <2>6 DEF FinishRead, ReadsDoNotOverlapWrites
  <2>7. CASE UNCHANGED <<reading, wpc, phase>>
    BY <1>2, <2>7 DEF ReadsDoNotOverlapWrites
  <2>8. \/ EnterPhase \/ JoinReads \/ RunWrite \/ LeavePhase \/ CallTick
        \/ \E s \in Systems : FinishRead(s)
        \/ UNCHANGED <<reading, wpc, phase>>
    BY <1>2
    DEF Next, MainStep, StartFrame, EndUpdate, UpdateIdle, BeginFrame, EndRenderPrep, PrepIdle,
        Raster, Present, ClientRecords, ClientEnqueues, JobRuns, StartRead, SplitRead, vars, world
  <2> QED
    BY <2>1, <2>2, <2>3, <2>4, <2>5, <2>6, <2>7, <2>8
<1> QED
  BY <1>1, <1>2

(* Whatever the systems are and whichever client ticks them, no read       *)
(* system runs beside a write system or another phase.                     *)
THEOREM ReadsDoNotOverlapWritesHolds == Spec => []ReadsDoNotOverlapWrites
  BY ReadsInductive, PTL DEF Spec

-----------------------------------------------------------------------------
(* Type correctness.                                                       *)

(* The phases of World::tick() in their order; RenderPrep is the last.     *)
LEMMA FourPhases ==
  /\ Len(Phases) = 4 /\ DOMAIN Phases = 1 .. 4
  /\ \A i \in 1 .. 4 : Phases[i] = "RenderPrep" <=> i = 4
  BY DEF Phases

(* Recording adds a well-formed command of this frame, or nothing.         *)
LEMMA RecordType ==
  ASSUME TypeOK, NEW who \in Systems \cup Jobs \cup {"client"}, Record(who)
  PROVE  queue' \subseteq Cmds /\ recorded' \subseteq Cmds
<1>1. [frame |-> tick, by |-> who] \in Cmds
  BY DEF TypeOK, Cmds
<1> QED
  BY <1>1 DEF Record, TypeOK

(* A system of the RenderPrep phase records, one of another phase does not.*)
LEMMA SystemRecordsType ==
  ASSUME TypeOK, NEW s \in Systems, SystemRecords(s)
  PROVE  queue' \subseteq Cmds /\ recorded' \subseteq Cmds
<1>1. CASE Phases[phase] = "RenderPrep"
  BY <1>1, RecordType DEF SystemRecords
<1>2. CASE Phases[phase] # "RenderPrep"
  BY <1>2 DEF SystemRecords, TypeOK
<1> QED
  BY <1>1, <1>2

(* The values a clock has; TypeOK says it of the one of the run.           *)
Clocks == [fixed : BOOLEAN, prev : Nat, time : Nat, dt : Nat, shown : Nat, lived : Nat]

(* The frame context of a new frame, field by field.                       *)
LEMMA FrameClockFields ==
  ASSUME TypeOK, NEW elapsed \in FrameTimes
  PROVE  LET n == FrameClock(elapsed)
             step == IF elapsed > MaxDt THEN MaxDt ELSE elapsed
         IN  /\ n \in Clocks
             /\ n.fixed = clock.fixed
             /\ n.prev = IF clock.fixed THEN clock.prev ELSE clock.prev + elapsed
             /\ n.time = IF clock.fixed THEN clock.time ELSE clock.time + step
             /\ n.shown = n.time
             /\ n.lived = clock.lived + (IF clock.fixed THEN FixedDt ELSE step)
             /\ step \in Nat /\ step <= elapsed
<1>1. elapsed \in Nat /\ MaxDt \in Nat /\ FixedDt \in Nat
  BY PipelineAssumption
<1>2. clock \in Clocks
  BY DEF TypeOK, Clocks
<1> DEFINE step == IF elapsed > MaxDt THEN MaxDt ELSE elapsed
<1>3. step \in Nat /\ step <= elapsed
  BY <1>1
<1>4. FrameClock(elapsed) =
        [fixed |-> clock.fixed,
         prev  |-> IF clock.fixed THEN clock.prev ELSE clock.prev + elapsed,
         time  |-> IF clock.fixed THEN clock.time ELSE clock.time + step,
         dt    |-> IF clock.fixed THEN FixedDt ELSE step,
         shown |-> IF clock.fixed THEN clock.time ELSE clock.time + step,
         lived |-> clock.lived + (IF clock.fixed THEN FixedDt ELSE step)]
  <2> HIDE DEF step
  <2>1. FrameClock(elapsed) =
          [clock EXCEPT !.prev = IF clock.fixed THEN clock.prev ELSE clock.prev + elapsed,
                        !.time = IF clock.fixed THEN clock.time ELSE clock.time + step,
                        !.dt = IF clock.fixed THEN FixedDt ELSE step,
                        !.shown = IF clock.fixed THEN clock.time ELSE clock.time + step,
                        !.lived = clock.lived + (IF clock.fixed THEN FixedDt ELSE step)]
    BY DEF FrameClock, step
  <2> QED
    BY <1>2, <2>1 DEF Clocks
<1> HIDE DEF step
<1>5. FrameClock(elapsed) \in Clocks
  BY <1>1, <1>2, <1>3, <1>4 DEF Clocks
<1>6. step = IF elapsed > MaxDt THEN MaxDt ELSE elapsed
  BY DEF step
<1> QED
  BY <1>3, <1>4, <1>5, <1>6

(* The loop's clock at the end of a frame, field by field.                 *)
LEMMA PresentClockFields ==
  ASSUME TypeOK, Present
  PROVE  /\ clock' \in Clocks
         /\ clock'.fixed = clock.fixed /\ clock'.prev = clock.prev
         /\ clock'.shown = clock.shown /\ clock'.lived = clock.lived
         /\ clock'.time = IF clock.fixed THEN clock.time + FixedDt ELSE clock.time
<1>1. clock \in Clocks /\ FixedDt \in Nat
  BY PipelineAssumption DEF TypeOK, Clocks
<1>2. clock' = IF clock.fixed THEN [clock EXCEPT !.time = clock.time + FixedDt] ELSE clock
  BY DEF Present
<1> QED
  BY <1>1, <1>2 DEF Clocks

(* A frame is only worked on while there are frames left: tick stays within*)
(* its bound because of it.                                                *)
FramesLeft ==
  stage \notin {"top", "stopped"} => tick < LastTick /\ (max_frames # 0 => tick < max_frames)

(* Each step preserves the types, as long as there are frames left and     *)
(* every phase is entered when no read system is left.                     *)
LEMMA TypeInductive ==
  /\ Init => TypeOK /\ FramesLeft
  /\ TypeOK /\ FramesLeft /\ ReadsDoNotOverlapWrites /\ [Next]_vars => TypeOK' /\ FramesLeft'
<1>1. ASSUME Init PROVE TypeOK /\ FramesLeft
  <2>1. clock \in Clocks /\ LastTick \in Nat /\ max_frames \in Nat
    BY <1>1, PipelineAssumption DEF Init, Clocks
  <2>2. writing \in Seq(Systems)
    BY <1>1 DEF Init
  <2>3. 0 \in 0 .. LastTick /\ phase \in 1 .. Len(Phases)
    BY <1>1, <2>1, FourPhases DEF Init
  <2>4. max_frames # 0 => tick <= max_frames
    BY <1>1, <2>1 DEF Init
  <2>5. running \subseteq reading /\ joining \subseteq running /\ reading \subseteq Systems
    BY <1>1 DEF Init
  <2> QED
    BY <1>1, <2>1, <2>2, <2>3, <2>4, <2>5 DEF Init, TypeOK, FramesLeft, Stages, Clocks
<1>2. ASSUME TypeOK, FramesLeft, ReadsDoNotOverlapWrites, [Next]_vars PROVE TypeOK'
  <2>1. CASE StartFrame
    <3>1. clock' \in Clocks
      BY <1>2, <2>1, FrameClockFields DEF StartFrame, TypeOK, Clocks
    <3> QED
      BY <1>2, <2>1, <3>1 DEF StartFrame, TypeOK, Stages, Clocks, config
  <2>2. CASE Present
    <3>1. tick' \in 0 .. LastTick /\ (max_frames' # 0 => tick' <= max_frames')
      BY <1>2, <2>2, PipelineAssumption DEF Present, TypeOK, FramesLeft, config
    <3>2. clock' \in Clocks
      BY <1>2, <2>2, PresentClockFields
    <3> QED
      BY <1>2, <2>2, <3>1, <3>2 DEF Present, TypeOK, Stages, Clocks, config, world
  <2>3. CASE EndUpdate \/ UpdateIdle \/ BeginFrame \/ EndRenderPrep \/ PrepIdle \/ Raster
    BY <1>2, <2>3
    DEF EndUpdate, UpdateIdle, BeginFrame, EndRenderPrep, PrepIdle, Raster, TypeOK, Stages,
        config, given, world
  <2>4. CASE EnterPhase
    <3>1. Reads[phase] \subseteq Systems
      BY <1>2, FourPhases DEF TypeOK, Systems
    <3>2. running = {} /\ joining = {}
      BY <1>2, <2>4 DEF EnterPhase, TypeOK, ReadsDoNotOverlapWrites
    <3> QED
      BY <1>2, <2>4, <3>1, <3>2 DEF EnterPhase, TypeOK, config, given
  <2>5. CASE JoinReads
    <3>1. Writes[phase] \in Seq(Systems)
      BY <1>2, FourPhases, PipelineAssumption DEF TypeOK
    <3> QED
      BY <1>2, <2>5, <3>1 DEF JoinReads, TypeOK, config, given
  <2>6. CASE RunWrite
    <3>1. Head(writing) \in Systems /\ Tail(writing) \in Seq(Systems)
      BY <1>2, <2>6 DEF RunWrite, TypeOK
    <3>2. queue' \subseteq Cmds /\ recorded' \subseteq Cmds
      BY <1>2, <2>6, <3>1, SystemRecordsType DEF RunWrite
    <3> QED
      BY <1>2, <2>6, <3>1, <3>2 DEF RunWrite, TypeOK, config, given
  <2>7. CASE LeavePhase
    BY <1>2, <2>7, FourPhases DEF LeavePhase, TypeOK, config, given
  <2>8. CASE CallTick
    BY <1>2, <2>8, FourPhases DEF CallTick, TypeOK, config, given
  <2>9. CASE ClientRecords
    <3>1. queue' \subseteq Cmds /\ recorded' \subseteq Cmds
      BY <1>2, <2>9, RecordType DEF ClientRecords
    <3> QED
      BY <1>2, <2>9, <3>1 DEF ClientRecords, TypeOK, config, given, world
  <2>10. ASSUME NEW j \in Jobs, ClientEnqueues(j) PROVE TypeOK'
    BY <1>2, <2>10 DEF ClientEnqueues, TypeOK, config, given, world
  <2>11. ASSUME NEW j \in Jobs, JobRuns(j) PROVE TypeOK'
    <3>1. queue' \subseteq Cmds /\ recorded' \subseteq Cmds
      BY <1>2, <2>11, RecordType DEF JobRuns, TypeOK
    <3> QED
      BY <1>2, <2>11, <3>1 DEF JobRuns, TypeOK, config, given, world
  <2>12. ASSUME NEW s \in Systems, FinishRead(s) PROVE TypeOK'
    <3>1. queue' \subseteq Cmds /\ recorded' \subseteq Cmds
      BY <1>2, <2>12, SystemRecordsType DEF FinishRead
    <3> QED
      BY <1>2, <2>12, <3>1 DEF FinishRead, TypeOK, config, given
  <2>13. ASSUME NEW s \in Systems, StartRead(s) \/ SplitRead(s) PROVE TypeOK'
    BY <1>2, <2>13 DEF StartRead, SplitRead, TypeOK, config, given
  <2>14. CASE UNCHANGED vars
    BY <1>2, <2>14 DEF TypeOK, vars, config, given, world
  <2> QED
    BY <1>2, <2>1, <2>2, <2>3, <2>4, <2>5, <2>6, <2>7, <2>8, <2>9, <2>10, <2>11, <2>12, <2>13,
       <2>14
    DEF Next, MainStep
<1>3. ASSUME TypeOK, FramesLeft, [Next]_vars PROVE FramesLeft'
  <2>1. LastTick \in Nat /\ tick \in Nat /\ max_frames \in Nat /\ max_frames' = max_frames
    <3>1. LastTick \in Nat /\ tick \in Nat /\ max_frames \in Nat
      BY <1>3, PipelineAssumption DEF TypeOK
    <3>2. max_frames' = max_frames
      BY <1>3
      DEF Next, MainStep, StartFrame, EndUpdate, UpdateIdle, BeginFrame, EndRenderPrep, PrepIdle,
          Raster, Present, EnterPhase, JoinReads, RunWrite, LeavePhase, CallTick, ClientRecords,
          ClientEnqueues, JobRuns, StartRead, SplitRead, FinishRead, vars, given, config
    <3> QED
      BY <3>1, <3>2
  <2>2. CASE StartFrame \/ Present
    BY <1>3, <2>1, <2>2 DEF FramesLeft, StartFrame, ShouldStop, Present
  <2>3. CASE EndUpdate \/ UpdateIdle \/ BeginFrame \/ EndRenderPrep \/ PrepIdle \/ Raster
    BY <1>3, <2>1, <2>3
    DEF FramesLeft, EndUpdate, UpdateIdle, BeginFrame, EndRenderPrep, PrepIdle, Raster
  <2>4. CASE UNCHANGED <<stage, tick>>
    BY <1>3, <2>1, <2>4 DEF FramesLeft
  <2>5. StartFrame \/ Present \/ EndUpdate \/ UpdateIdle \/ BeginFrame \/ EndRenderPrep
          \/ PrepIdle \/ Raster \/ UNCHANGED <<stage, tick>>
    BY <1>3
    DEF Next, MainStep, EnterPhase, JoinReads, RunWrite, LeavePhase, CallTick,
        ClientRecords, ClientEnqueues, JobRuns, StartRead, SplitRead, FinishRead, vars
  <2> QED
    BY <2>2, <2>3, <2>4, <2>5
<1> QED
  BY <1>1, <1>2, <1>3

(* Every state has the right types, however many systems, jobs and frames  *)
(* there are.                                                              *)
THEOREM TypeCorrect == Spec => []TypeOK
<1>1. Init => TypeOK /\ FramesLeft /\ ReadsDoNotOverlapWrites
  BY TypeInductive, ReadsInductive
<1>2. (TypeOK /\ FramesLeft /\ ReadsDoNotOverlapWrites) /\ [Next]_vars
        => (TypeOK /\ FramesLeft /\ ReadsDoNotOverlapWrites)'
  BY TypeInductive, ReadsInductive
<1> QED
  BY <1>1, <1>2, PTL DEF Spec

-----------------------------------------------------------------------------
(* The time.                                                               *)

(* TimeAddsUp speaks of the frame that is being worked on.  Between two    *)
(* frames the stepper's client has lived exactly as long as the clock says,*)
(* within one a step more; the realtime loop's is never apart from it.     *)
ClockInv ==
  /\ clock.fixed =>
       /\ stage # "stopped" => clock.time = tick * FixedDt
       /\ stage = "top" => clock.lived = clock.time
       /\ stage \notin {"top", "stopped"} => /\ clock.shown = clock.time
                                             /\ clock.lived = clock.time + FixedDt
  /\ ~clock.fixed =>
       /\ clock.lived = clock.time /\ clock.time <= clock.prev
       /\ stage \notin {"top", "stopped"} => clock.shown = clock.time

(* The statements that move the clock are those that begin and end a frame.*)
LEMMA ClockStep ==
  ASSUME TypeOK, ClockInv, [Next]_vars PROVE ClockInv'
<1>1. clock \in Clocks /\ FixedDt \in Nat /\ MaxDt \in Nat /\ FrameTimes \subseteq Nat /\ tick \in Nat
  BY PipelineAssumption DEF TypeOK, Clocks
<1>2. /\ clock.prev \in Nat /\ clock.time \in Nat /\ clock.shown \in Nat /\ clock.lived \in Nat
      /\ clock.fixed \in BOOLEAN
  BY <1>1 DEF Clocks
<1>3. CASE StartFrame
  <2>1. CASE stage' = "stopped"
    BY <1>3, <2>1 DEF StartFrame, ClockInv
  <2>2. CASE stage' = "update"
    <3>1. PICK elapsed \in FrameTimes : clock' = FrameClock(elapsed)
      BY <1>3, <2>2 DEF StartFrame
    <3> DEFINE step == IF elapsed > MaxDt THEN MaxDt ELSE elapsed
    <3>2. step \in Nat /\ step <= elapsed /\ elapsed \in Nat
      BY <1>1
    <3>3. /\ clock'.fixed = clock.fixed
          /\ clock'.prev = IF clock.fixed THEN clock.prev ELSE clock.prev + elapsed
          /\ clock'.time = IF clock.fixed THEN clock.time ELSE clock.time + step
          /\ clock'.shown = clock'.time
          /\ clock'.lived = clock.lived + (IF clock.fixed THEN FixedDt ELSE step)
      BY <3>1, FrameClockFields
    <3> HIDE DEF step
    <3>4. stage = "top" /\ tick' = tick
      BY <1>3 DEF StartFrame
    <3>5. CASE clock.fixed
      BY <1>2, <2>2, <3>3, <3>4, <3>5 DEF ClockInv
    <3>6. CASE ~clock.fixed
      BY <1>2, <2>2, <3>2, <3>3, <3>4, <3>6 DEF ClockInv
    <3> QED
      BY <3>5, <3>6
  <2> QED
    BY <1>3, <2>1, <2>2 DEF StartFrame
<1>4. CASE Present
  <2>1. tick' * FixedDt = tick * FixedDt + FixedDt
    BY <1>1, <1>4 DEF Present
  <2>2. stage = "present" /\ stage' = "top"
    BY <1>4 DEF Present
  <2>3. CASE clock.fixed
    BY <1>2, <1>4, <2>1, <2>2, <2>3, PresentClockFields DEF ClockInv
  <2>4. CASE ~clock.fixed
    BY <1>2, <1>4, <2>2, <2>4, PresentClockFields DEF ClockInv
  <2> QED
    BY <2>3, <2>4
<1>5. CASE EndUpdate \/ UpdateIdle \/ BeginFrame \/ EndRenderPrep \/ PrepIdle \/ Raster
  BY <1>5
  DEF ClockInv, EndUpdate, UpdateIdle, BeginFrame, EndRenderPrep, PrepIdle, Raster, given
<1>6. CASE UNCHANGED <<clock, stage, tick>>
  BY <1>6 DEF ClockInv
<1>7. StartFrame \/ Present \/ EndUpdate \/ UpdateIdle \/ BeginFrame \/ EndRenderPrep
        \/ PrepIdle \/ Raster \/ UNCHANGED <<clock, stage, tick>>
  BY DEF Next, MainStep, EnterPhase, JoinReads, RunWrite, LeavePhase, CallTick,
         ClientRecords, ClientEnqueues, JobRuns, StartRead, SplitRead, FinishRead, vars, given
<1> QED
  BY <1>3, <1>4, <1>5, <1>6, <1>7

(* A client that adds up its steps is where the clock is, for every step   *)
(* width, every limit and every sequence of frame times.                   *)
THEOREM TimeAddsUpHolds == Spec => []TimeAddsUp
<1>1. Init => TypeOK /\ FramesLeft /\ ReadsDoNotOverlapWrites /\ ClockInv
  <2>1. ASSUME Init PROVE ClockInv
    <3>1. /\ clock.prev = 0 /\ clock.time = 0 /\ clock.shown = 0 /\ clock.lived = 0
          /\ tick = 0 /\ stage = "top"
      BY <2>1 DEF Init
    <3>2. FixedDt \in Nat
      BY PipelineAssumption
    <3> QED
      BY <3>1, <3>2 DEF ClockInv
  <2> QED
    BY <2>1, TypeInductive, ReadsInductive
<1>2. (TypeOK /\ FramesLeft /\ ReadsDoNotOverlapWrites /\ ClockInv) /\ [Next]_vars
        => (TypeOK /\ FramesLeft /\ ReadsDoNotOverlapWrites /\ ClockInv)'
  BY TypeInductive, ReadsInductive, ClockStep
<1>3. TypeOK /\ ClockInv => TimeAddsUp
  BY DEF ClockInv, TimeAddsUp
<1> QED
  BY <1>1, <1>2, <1>3, PTL DEF Spec

-----------------------------------------------------------------------------
(* What is recorded.                                                       *)

(* tick() runs inside one of the client's hooks that calls it.             *)
InsideHook == wpc # "out" => stage \in client.ticksFrom /\ ticked

(* render_prep() before its world has begun the queue's frame.             *)
BeforeRecording ==
  /\ stage = "render_prep" /\ "render_prep" \in client.ticksFrom
  /\ \/ ~ticked
     \/ wpc = "enter"
     \/ wpc # "out" /\ phase # 4

(* Jobs are left only by update() and by render_prep(), and in the latter  *)
(* not before the world is ticked.                                         *)
JobsInv ==
  jobs # {} => /\ stage \in {"update", "update_idle", "render_prep", "prep_idle"}
               /\ ~BeforeRecording

(* What this frame recorded is what the queue holds from begin_frame() on, *)
(* and nothing before: nothing is recorded that a later begin_frame()      *)
(* throws away, and the queue keeps nothing of an earlier frame.           *)
QueueInv ==
  /\ stage \in {"update", "update_idle", "begin_frame"} => recorded = {}
  /\ stage \in {"render_prep", "prep_idle", "raster"} => rqSet /\ queue = recorded
  /\ BeforeRecording => queue = {}

FrameInv ==
  /\ ReadsDoNotOverlapWrites
  /\ InsideHook
  /\ JobsInv
  /\ QueueInv
  /\ PictureIsComplete

(* With ClientsTickFirst a world is ticked in render_prep() only, and      *)
(* MayRecord is false until it has been.                                   *)
LEMMA TicksInPrepOnly ==
  ASSUME TypeOK, ClientsTickFirst
  PROVE  /\ client.ticksFrom \subseteq {"render_prep"}
         /\ MayRecord => ~BeforeRecording /\ stage = "render_prep"
<1>1. client.ticksFrom \subseteq {"render_prep"} /\ (client.ticksFrom # {} => ~client.recordsFirst)
  BY DEF TypeOK, ClientsTickFirst
<1> QED
  BY <1>1 DEF MayRecord, BeforeRecording

(* While the queue's frame is open, recording keeps queue and recorded     *)
(* equal.                                                                  *)
LEMMA RecordKeepsQueue ==
  ASSUME NEW who, Record(who), rqSet, queue = recorded
  PROVE  queue' = recorded'
  BY DEF Record

(* Only systems of the RenderPrep phase record anything.                   *)
LEMMA SystemsRecordInPrep ==
  ASSUME TypeOK, FrameInv, ClientsTickFirst, NEW s, SystemRecords(s), wpc \in {"reads", "writes"}
  PROVE  /\ stage = "render_prep" /\ ticked
         /\ queue' = recorded'
         /\ phase # 4 => queue' = queue /\ recorded' = recorded
<1>1. stage = "render_prep" /\ ticked
  BY TicksInPrepOnly DEF FrameInv, InsideHook
<1>2. rqSet /\ queue = recorded
  BY <1>1 DEF FrameInv, QueueInv
<1>3. Phases[phase] = "RenderPrep" <=> phase = 4
  BY FourPhases DEF TypeOK
<1>4. CASE phase = 4
  BY <1>1, <1>2, <1>3, <1>4, RecordKeepsQueue DEF SystemRecords
<1>5. CASE phase # 4
  BY <1>1, <1>2, <1>3, <1>5 DEF SystemRecords
<1> QED
  BY <1>4, <1>5

(* A step that records keeps the invariant when queue and recorded stay    *)
(* equal, the hook is render_prep() and the world has begun the frame.     *)
LEMMA FrameStep ==
  ASSUME TypeOK, FrameInv, ClientsTickFirst, [Next]_vars
  PROVE  FrameInv'
<1> USE DEF FrameInv
<1>1. ReadsDoNotOverlapWrites'
  BY ReadsInductive
<1>2. client.ticksFrom \subseteq {"render_prep"}
  BY TicksInPrepOnly
<1>3. phase \in 1 .. 4 /\ wpc \in {"out", "enter", "reads", "writes"}
  BY FourPhases DEF TypeOK
<1> DEFINE Rest == InsideHook' /\ JobsInv' /\ QueueInv' /\ PictureIsComplete'
<1>4. ASSUME StartFrame PROVE Rest
  <2>1. wpc = "out" /\ jobs = {}
    BY <1>2, <1>4 DEF StartFrame, config, InsideHook, JobsInv
  <2> QED
    BY <1>4, <2>1
    DEF StartFrame, config, InsideHook, JobsInv, QueueInv, PictureIsComplete, BeforeRecording
<1>5. ASSUME EndUpdate PROVE Rest
  BY <1>5
  DEF EndUpdate, InsideHook, JobsInv, QueueInv, PictureIsComplete, BeforeRecording, config, given, world
<1>6. ASSUME UpdateIdle PROVE Rest
  <2>1. wpc = "out"
    BY <1>2, <1>6 DEF UpdateIdle, InsideHook
  <2> QED
    BY <1>6, <2>1
    DEF UpdateIdle, InsideHook, JobsInv, QueueInv, PictureIsComplete, BeforeRecording, config, given, world
<1>7. ASSUME BeginFrame PROVE Rest
  <2>1. wpc = "out" /\ jobs = {} /\ recorded = {}
    BY <1>2, <1>7 DEF BeginFrame, InsideHook, JobsInv, QueueInv
  <2> QED
    BY <1>7, <2>1
    DEF BeginFrame, InsideHook, JobsInv, QueueInv, PictureIsComplete, BeforeRecording, config, given
<1>8. ASSUME EndRenderPrep PROVE Rest
  BY <1>8
  DEF EndRenderPrep, InsideHook, JobsInv, QueueInv, PictureIsComplete, BeforeRecording, config, given, world
<1>9. ASSUME PrepIdle PROVE Rest
  <2>1. wpc = "out"
    BY <1>2, <1>9 DEF PrepIdle, InsideHook
  <2> QED
    BY <1>9, <2>1
    DEF PrepIdle, InsideHook, JobsInv, QueueInv, PictureIsComplete, BeforeRecording, config, given, world
<1>10. ASSUME Raster PROVE Rest
  <2>1. wpc = "out" /\ jobs = {} /\ queue = recorded
    BY <1>2, <1>10 DEF Raster, InsideHook, JobsInv, QueueInv
  <2> QED
    BY <1>10, <2>1
    DEF Raster, InsideHook, JobsInv, QueueInv, PictureIsComplete, BeforeRecording, config, given, world
<1>11. ASSUME Present PROVE Rest
  <2>1. wpc = "out" /\ jobs = {}
    BY <1>2, <1>11 DEF Present, InsideHook, JobsInv
  <2> QED
    BY <1>11, <2>1
    DEF Present, config, InsideHook, JobsInv, QueueInv, PictureIsComplete, BeforeRecording, world
<1>12. ASSUME CallTick PROVE Rest
  <2>1. stage = "render_prep" /\ BeforeRecording
    BY <1>2, <1>12 DEF CallTick, BeforeRecording
  <2>2. queue = {} /\ jobs = {} /\ rqSet /\ queue = recorded
    BY <2>1 DEF JobsInv, QueueInv
  <2> QED
    BY <1>12, <2>1, <2>2
    DEF CallTick, InsideHook, JobsInv, QueueInv, PictureIsComplete, BeforeRecording, config, given
<1>13. ASSUME EnterPhase PROVE Rest
  <2>1. stage = "render_prep" /\ BeforeRecording /\ ticked
    BY <1>2, <1>13 DEF EnterPhase, BeforeRecording, InsideHook
  <2>2. queue = {} /\ jobs = {} /\ rqSet /\ queue = recorded
    BY <2>1 DEF JobsInv, QueueInv
  <2>3. queue' = {}
    BY <1>13, <2>2 DEF EnterPhase
  <2> QED
    BY <1>13, <2>1, <2>2, <2>3
    DEF EnterPhase, InsideHook, JobsInv, QueueInv, PictureIsComplete, BeforeRecording, config, given
<1>14. ASSUME JoinReads PROVE Rest
  BY <1>14
  DEF JoinReads, InsideHook, JobsInv, QueueInv, PictureIsComplete, BeforeRecording, config, given
<1>15. ASSUME RunWrite PROVE Rest
  <2>1. /\ stage = "render_prep" /\ ticked
        /\ queue' = recorded'
        /\ phase # 4 => queue' = queue /\ recorded' = recorded
    BY <1>15, SystemsRecordInPrep DEF RunWrite
  <2> QED
    BY <1>15, <2>1
    DEF RunWrite, InsideHook, JobsInv, QueueInv, PictureIsComplete, BeforeRecording, config, given
<1>16. ASSUME LeavePhase PROVE Rest
  <2>1. stage = "render_prep" /\ ticked /\ rqSet /\ queue = recorded /\ Len(Phases) = 4
    BY <1>2, <1>16, FourPhases DEF LeavePhase, InsideHook, QueueInv
  <2> QED
    BY <1>3, <1>16, <2>1
    DEF LeavePhase, InsideHook, JobsInv, QueueInv, PictureIsComplete, BeforeRecording, config, given
<1>17. ASSUME ClientRecords PROVE Rest
  <2>1. stage = "render_prep" /\ ~BeforeRecording /\ wpc = "out"
    BY <1>17, TicksInPrepOnly DEF ClientRecords, MayRecord
  <2>2. queue' = recorded' /\ rqSet
    BY <1>17, <2>1, RecordKeepsQueue DEF ClientRecords, QueueInv
  <2> QED
    BY <1>17, <2>1, <2>2
    DEF ClientRecords, InsideHook, JobsInv, QueueInv, PictureIsComplete, BeforeRecording, config, given, world
<1>18. ASSUME NEW j \in Jobs, ClientEnqueues(j) PROVE Rest
  <2>1. stage \in {"update", "render_prep"} /\ ~BeforeRecording
    BY <1>18, TicksInPrepOnly DEF ClientEnqueues, BeforeRecording
  <2> QED
    BY <1>18, <2>1
    DEF ClientEnqueues, InsideHook, JobsInv, QueueInv, PictureIsComplete, BeforeRecording, config, given, world
<1>19. ASSUME NEW j \in Jobs, JobRuns(j) PROVE Rest
  <2>1. stage \in {"update", "update_idle", "render_prep", "prep_idle"} /\ ~BeforeRecording
    BY <1>19 DEF JobRuns, JobsInv
  <2>2. CASE stage \in {"update", "update_idle"}
    BY <1>19, <2>2
    DEF JobRuns, InsideHook, JobsInv, QueueInv, PictureIsComplete, BeforeRecording, config, given, world
  <2>3. CASE stage \in {"render_prep", "prep_idle"}
    <3>1. queue' = recorded' /\ rqSet
      BY <1>19, <2>3, RecordKeepsQueue DEF JobRuns, QueueInv
    <3> QED
      BY <1>19, <2>1, <2>3, <3>1
      DEF JobRuns, InsideHook, JobsInv, QueueInv, PictureIsComplete, BeforeRecording, config, given, world
  <2> QED
    BY <2>1, <2>2, <2>3
<1>20. ASSUME NEW s \in Systems, FinishRead(s) PROVE Rest
  <2>1. wpc = "reads"
    BY <1>20 DEF FinishRead, ReadsDoNotOverlapWrites, TypeOK
  <2>2. /\ stage = "render_prep" /\ ticked
        /\ queue' = recorded'
        /\ phase # 4 => queue' = queue /\ recorded' = recorded
    BY <1>20, <2>1, SystemsRecordInPrep DEF FinishRead
  <2> QED
    BY <1>20, <2>1, <2>2
    DEF FinishRead, InsideHook, JobsInv, QueueInv, PictureIsComplete, BeforeRecording, config, given
<1>21. ASSUME NEW s \in Systems, StartRead(s) \/ SplitRead(s) PROVE Rest
  BY <1>21
  DEF StartRead, SplitRead, InsideHook, JobsInv, QueueInv, PictureIsComplete, BeforeRecording,
      config, given
<1>22. ASSUME UNCHANGED vars PROVE Rest
  BY <1>22
  DEF vars, InsideHook, JobsInv, QueueInv, PictureIsComplete, BeforeRecording, config, given, world
<1>23. Rest
  <2> HIDE DEF Rest
  <2> QED
    BY <1>4, <1>5, <1>6, <1>7, <1>8, <1>9, <1>10, <1>11, <1>12, <1>13, <1>14, <1>15, <1>16,
       <1>17, <1>18, <1>19, <1>20, <1>21, <1>22
    DEF Next, MainStep
<1> QED
  BY <1>1, <1>23

(* FrameInv holds in every state, for clients that tick first.             *)
LEMMA FrameInvariant ==
  ASSUME ClientsTickFirst PROVE Spec => [](TypeOK /\ FrameInv)
<1>1. Init => TypeOK /\ FramesLeft /\ FrameInv
  <2>1. Init => FrameInv
    BY ReadsInductive
    DEF Init, FrameInv, InsideHook, JobsInv, QueueInv, PictureIsComplete, BeforeRecording
  <2> QED
    BY <2>1, TypeInductive
<1>2. (TypeOK /\ FramesLeft /\ FrameInv) /\ [Next]_vars => (TypeOK /\ FramesLeft /\ FrameInv)'
  BY TypeInductive, FrameStep DEF FrameInv
<1> QED
  BY <1>1, <1>2, PTL DEF Spec

(* Whatever systems, jobs and client there are, as long as the client ticks*)
(* its world first: the picture presented was made from exactly the        *)
(* commands recorded in its frame.                                         *)
THEOREM PictureIsCompleteHolds ==
  ASSUME ClientsTickFirst PROVE Spec => []PictureIsComplete
<1>1. TypeOK /\ FrameInv => PictureIsComplete
  BY DEF FrameInv
<1> QED
  BY <1>1, FrameInvariant, PTL

(* For the same clients no job and no system is left when the queue's frame*)
(* is begun, by the loop or by the world, nor while the renderer reads the *)
(* queue, nor when the pool is destroyed.                                  *)
THEOREM QuietOutsideHooksHolds ==
  ASSUME ClientsTickFirst PROVE Spec => []QuietOutsideHooks
<1>1. ASSUME TypeOK, FrameInv PROVE QuietOutsideHooks
  <2>1. client.ticksFrom \subseteq {"render_prep"}
    BY <1>1, TicksInPrepOnly
  <2>2. ASSUME stage \in {"top", "begin_frame", "raster", "present", "stopped"}
        PROVE  jobs = {} /\ reading = {}
    BY <1>1, <2>1, <2>2 DEF FrameInv, JobsInv, InsideHook, ReadsDoNotOverlapWrites
  <2>3. ASSUME wpc = "enter" PROVE jobs = {} /\ reading = {}
    BY <1>1, <2>1, <2>3
    DEF FrameInv, JobsInv, InsideHook, ReadsDoNotOverlapWrites, BeforeRecording
  <2> QED
    BY <2>2, <2>3 DEF QuietOutsideHooks
<1> QED
  BY <1>1, FrameInvariant, PTL
=============================================================================
