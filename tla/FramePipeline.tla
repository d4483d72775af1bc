--------------------------- MODULE FramePipeline ---------------------------
(***************************************************************************)
(* One run of the application loop (src/app/run_loop.cpp) with an ECS      *)
(* world the client ticks (src/ecs/world.cpp): update, wait for the jobs,  *)
(* begin_frame, render_prep, wait for the jobs, raster, present.  The main *)
(* thread does all of it; read systems and jobs run on the workers, of     *)
(* which the pool has at least one (JobSystem!WorkerCount).                *)
(*                                                                         *)
(* A command is identified with the frame it is recorded in and with who   *)
(* recorded it; what matters is which commands are in the queue when the   *)
(* renderer reads it.  That a push reaches the queue is RenderQueue's      *)
(* matter, that a join or wait_idle() is complete TaskGroup's and          *)
(* JobSystem's.  Whether there is a worker for what is waited for is a     *)
(* matter of this module: a read system keeps its worker until it returns, *)
(* also while it waits for tasks of its own.                               *)
(***************************************************************************)
EXTENDS Naturals, Sequences, FiniteSets

CONSTANTS
  ClientKinds,       \* the clients the loop may be given: the hooks that call
                     \* World::tick(), and whether render_prep() records
                     \* before it calls it
  Reads,             \* m_read: the read systems of each phase
  Writes,            \* m_write: the write systems of each phase, in order
  Nesting,           \* the read systems that may wait for a group of their own,
                     \* as the one of install_render_prep_2d() does
  Jobs,              \* jobs render_prep() or update() may have in the pool
  WorkerCounts,      \* how many workers the pool may have
  FrameLimits,       \* the values of cfg.max_frames; 0 sets no limit
  LastTick,          \* bound: no frame begins once tick has this value
  FixedDt, MaxDt,    \* cfg.fixed_dt, cfg.max_dt, in units of time
  FrameTimes         \* how long a frame may take

Phases == <<"PreUpdate", "Update", "PostUpdate", "RenderPrep">>
Hooks == {"update", "render_prep"}

Systems == UNION {Reads[i] : i \in DOMAIN Phases}
             \cup UNION {{Writes[i][k] : k \in DOMAIN Writes[i]} : i \in DOMAIN Phases}

ASSUME PipelineAssumption ==
  /\ ClientKinds \subseteq [ticksFrom : SUBSET Hooks, recordsFirst : BOOLEAN]
  /\ \A i \in DOMAIN Phases : Writes[i] \in Seq(Systems)
  /\ Nesting \subseteq Systems
  /\ WorkerCounts \subseteq Nat \ {0}
  /\ FrameLimits \subseteq Nat /\ LastTick \in Nat
  /\ FixedDt \in Nat /\ MaxDt \in Nat /\ FrameTimes \subseteq Nat

VARIABLES
  client,    \* the client of this run
  workers,   \* worker_count()
  max_frames,\* cfg.max_frames
  clock,     \* cfg.fixed_timestep (fixed), prev, counted from the start of
             \* the loop, time_sec (time), ctx.dt_seconds (dt) and
             \* ctx.time_seconds (shown); history: the sum of all the client
             \* has been shown as dt_seconds (lived)
  tick,      \* tick
  stage,     \* which statement of the loop is next
  rqSet,     \* ctx.render_queue # nullptr
  queue,     \* what rq holds: the commands recorded since its begin_frame()
  canvas,    \* the commands that made the picture on the canvas
  screen,    \* the commands that made the picture last presented
  jobs,      \* the jobs in the pool, queued or running
  ticked,    \* has the hook that runs called World::tick()?
  wpc,       \* where the main thread is in World::tick()
  phase,     \* pi, from 1
  reading,   \* the read systems of this phase not finished
  running,   \* those of them a worker has taken
  joining,   \* those of them that wait for tasks of their own
  writing,   \* the write systems of this phase not run
  recorded   \* history: every command recorded in this frame

config == <<client, workers, max_frames>>
given == <<config, clock>>
world == <<ticked, wpc, phase, reading, running, joining, writing>>
vars == <<given, tick, stage, rqSet, queue, canvas, screen, jobs, world, recorded>>

Cmds == [frame : 0 .. LastTick, by : Systems \cup Jobs \cup {"client"}]

Stages == {"top", "update", "update_idle", "begin_frame", "render_prep",
           "prep_idle", "raster", "present", "stopped"}

TypeOK ==
  /\ client \in ClientKinds /\ workers \in WorkerCounts /\ max_frames \in FrameLimits
  /\ clock \in [fixed : BOOLEAN, prev : Nat, time : Nat, dt : Nat, shown : Nat, lived : Nat]
  /\ tick \in 0 .. LastTick
  /\ max_frames # 0 => tick <= max_frames
  /\ stage \in Stages
  /\ rqSet \in BOOLEAN /\ ticked \in BOOLEAN
  /\ queue \subseteq Cmds /\ canvas \subseteq Cmds
  /\ screen \subseteq Cmds /\ recorded \subseteq Cmds
  /\ jobs \subseteq Jobs
  /\ wpc \in {"out", "enter", "reads", "writes"}
  /\ phase \in 1 .. Len(Phases)
  /\ reading \subseteq Systems /\ running \subseteq reading /\ joining \subseteq running
  /\ writing \in Seq(Systems)

Init ==
  /\ client \in ClientKinds /\ workers \in WorkerCounts /\ max_frames \in FrameLimits
  /\ \E fixed \in BOOLEAN :
       clock = [fixed |-> fixed, prev |-> 0, time |-> 0, dt |-> 0, shown |-> 0, lived |-> 0]
  /\ tick = 0 /\ stage = "top"
  /\ rqSet = FALSE
  /\ queue = {} /\ canvas = {} /\ screen = {} /\ recorded = {}
  /\ jobs = {}
  /\ ticked = FALSE /\ wpc = "out" /\ phase = 1
  /\ reading = {} /\ running = {} /\ joining = {} /\ writing = << >>

(* ctx.render_queue is null until the first RenderPrep stage, and then     *)
(* points to rq for the rest of the run.                                   *)
Record(who) ==
  IF rqSet THEN LET c == [frame |-> tick, by |-> who]
                IN  queue' = queue \cup {c} /\ recorded' = recorded \cup {c}
  ELSE UNCHANGED <<queue, recorded>>

-----------------------------------------------------------------------------
(* run(): the loop.                                                        *)

MutFrameClock(elapsed) ==      \* time_sec += dt_s before dt_s is clamped
  LET clamped == IF elapsed > MaxDt THEN MaxDt ELSE elapsed
      dt == IF clock.fixed THEN FixedDt ELSE clamped
      now == IF clock.fixed THEN clock.time ELSE clock.time + elapsed
  IN  [clock EXCEPT !.prev = IF clock.fixed THEN @ ELSE @ + elapsed,
                    !.time = now, !.dt = dt, !.shown = now, !.lived = @ + dt]

(* The frame context of a frame that begins elapsed after the one before.  *)
(* The stepper adds the time of a frame at its end (Present), the realtime *)
(* loop here.                                                              *)
FrameClock(elapsed) ==
  LET clamped == IF elapsed > MaxDt THEN MaxDt ELSE elapsed
      dt == IF clock.fixed THEN FixedDt ELSE clamped
      now == IF clock.fixed THEN clock.time ELSE clock.time + clamped
  IN  [clock EXCEPT !.prev = IF clock.fixed THEN @ ELSE @ + elapsed,
                    !.time = now, !.dt = dt, !.shown = now, !.lived = @ + dt]

MutShouldStop == max_frames # 0 /\ tick > max_frames

ShouldStop == max_frames # 0 /\ tick >= max_frames

StartFrame ==
  /\ stage = "top"
  /\ \/ /\ ShouldStop
        /\ stage' = "stopped"
        /\ UNCHANGED clock
     \/ /\ ~ShouldStop
        /\ tick < LastTick                               \* bound
        /\ stage' = "update"
        /\ \E elapsed \in FrameTimes : clock' = FrameClock(elapsed)
  /\ recorded' = {}
  /\ ticked' = FALSE
  /\ UNCHANGED <<config, tick, rqSet, queue, canvas, screen, jobs, wpc, phase, reading, running,
                 joining, writing>>

EndUpdate ==
  /\ stage = "update" /\ wpc = "out"
  /\ stage' = "update_idle"
  /\ UNCHANGED <<given, tick, rqSet, queue, canvas, screen, jobs, world, recorded>>

(* wait_idle(); if (!keep_running) break; *)
UpdateIdle ==
  /\ stage = "update_idle"
  /\ jobs = {}
  /\ \E keep_running \in BOOLEAN :
       stage' = IF keep_running THEN "begin_frame" ELSE "stopped"
  /\ UNCHANGED <<given, tick, rqSet, queue, canvas, screen, jobs, world, recorded>>

MutBeginFrameKeeps ==          \* no rq.begin_frame()
  /\ stage = "begin_frame"
  /\ rqSet' = TRUE
  /\ ticked' = FALSE
  /\ stage' = "render_prep"
  /\ UNCHANGED <<given, tick, queue, canvas, screen, jobs, wpc, phase, reading, running,
                 joining, writing, recorded>>

BeginFrame ==
  /\ stage = "begin_frame"
  /\ queue' = {}
  /\ rqSet' = TRUE
  /\ ticked' = FALSE
  /\ stage' = "render_prep"
  /\ UNCHANGED <<given, tick, canvas, screen, jobs, wpc, phase, reading, running,
                 joining, writing, recorded>>

EndRenderPrep ==
  /\ stage = "render_prep" /\ wpc = "out"
  /\ stage' = "prep_idle"
  /\ UNCHANGED <<given, tick, rqSet, queue, canvas, screen, jobs, world, recorded>>

MutPrepNotIdle ==              \* the second wait_idle() missing
  /\ stage = "prep_idle"
  /\ stage' = "raster"
  /\ UNCHANGED <<given, tick, rqSet, queue, canvas, screen, jobs, world, recorded>>

PrepIdle ==
  /\ stage = "prep_idle"
  /\ jobs = {}
  /\ stage' = "raster"
  /\ UNCHANGED <<given, tick, rqSet, queue, canvas, screen, jobs, world, recorded>>

(* execute() returns at once when the queue is empty: the canvas keeps the *)
(* picture of the last frame that recorded anything.  A frame that does    *)
(* not clear draws over that picture; here the new commands count.         *)
Raster ==
  /\ stage = "raster"
  /\ canvas' = IF queue = {} THEN canvas ELSE queue
  /\ stage' = "present"
  /\ UNCHANGED <<given, tick, rqSet, queue, screen, jobs, world, recorded>>

Present ==
  /\ stage = "present"
  /\ screen' = canvas
  /\ tick' = tick + 1
  /\ clock' = IF clock.fixed THEN [clock EXCEPT !.time = @ + FixedDt] ELSE clock
  /\ stage' = "top"
  /\ UNCHANGED <<config, rqSet, queue, canvas, jobs, world, recorded>>

-----------------------------------------------------------------------------
(* The client's hooks.                                                     *)

MayRecord == stage = "render_prep" /\ wpc = "out"
               /\ (ticked \/ client.recordsFirst \/ "render_prep" \notin client.ticksFrom)

ClientRecords ==
  /\ MayRecord
  /\ Record("client")
  /\ UNCHANGED <<given, tick, stage, rqSet, canvas, screen, jobs, world>>

(* ctx.jobs->enqueue() or a TaskGroup left to wait_idle(). *)
ClientEnqueues(j) ==
  /\ MayRecord \/ (stage = "update" /\ wpc = "out")
  /\ j \notin jobs
  /\ [frame |-> tick, by |-> j] \notin recorded          \* bound: once a frame
  /\ jobs' = jobs \cup {j}
  /\ UNCHANGED <<given, tick, stage, rqSet, queue, canvas, screen, world, recorded>>

(* A worker that is not in a read system. *)
WorkerIsFree == Cardinality(running) < workers

(* A job that was enqueued in render_prep() records; one of update() only  *)
(* computes, and is finished before begin_frame().                         *)
JobRuns(j) ==
  /\ j \in jobs
  /\ WorkerIsFree
  /\ jobs' = jobs \ {j}
  /\ IF stage \in {"update", "update_idle"} THEN UNCHANGED <<queue, recorded>>
     ELSE Record(j)
  /\ UNCHANGED <<given, tick, stage, rqSet, canvas, screen, world>>

-----------------------------------------------------------------------------
(* World::tick().                                                          *)

CallTick ==
  /\ stage \in client.ticksFrom /\ wpc = "out" /\ ~ticked
  /\ wpc' = "enter" /\ phase' = 1 /\ ticked' = TRUE
  /\ UNCHANGED <<given, tick, stage, rqSet, queue, canvas, screen, jobs, reading,
                 running, joining, writing, recorded>>

(* The RenderPrep phase begins the queue's frame; then the read systems    *)
(* are run in a task group.                                                *)
EnterPhase ==
  /\ wpc = "enter"
  /\ queue' = IF Phases[phase] = "RenderPrep" /\ rqSet THEN {} ELSE queue
  /\ reading' = Reads[phase]
  /\ wpc' = "reads"
  /\ UNCHANGED <<given, tick, stage, rqSet, canvas, screen, jobs, ticked, phase,
                 running, joining, writing, recorded>>

SystemRecords(s) == IF Phases[phase] = "RenderPrep" THEN Record(s)
                    ELSE UNCHANGED <<queue, recorded>>

StartRead(s) ==
  /\ s \in reading \ running
  /\ WorkerIsFree
  /\ running' = running \cup {s}
  /\ UNCHANGED <<given, tick, stage, rqSet, queue, canvas, screen, jobs, ticked, wpc, phase,
                 reading, joining, writing, recorded>>

(* A system that has something to do splits it into tasks and waits.       *)
SplitRead(s) ==
  /\ s \in (running \cap Nesting) \ joining
  /\ joining' = joining \cup {s}
  /\ UNCHANGED <<given, tick, stage, rqSet, queue, canvas, screen, jobs, ticked, wpc, phase,
                 reading, running, writing, recorded>>

MutJoinWaitsIdle(s) ==         \* jobs->wait_idle() for tg.wait(): s waits for itself
  /\ s \in running \ joining
  /\ SystemRecords(s)
  /\ reading' = reading \ {s} /\ running' = running \ {s}
  /\ UNCHANGED <<given, tick, stage, rqSet, canvas, screen, jobs, ticked, wpc, phase, joining,
                 writing>>

(* One that waits occupies its worker meanwhile: its tasks need another.   *)
FinishRead(s) ==
  /\ s \in running
  /\ s \in joining => WorkerIsFree
  /\ SystemRecords(s)
  /\ reading' = reading \ {s} /\ running' = running \ {s} /\ joining' = joining \ {s}
  /\ UNCHANGED <<given, tick, stage, rqSet, canvas, screen, jobs, ticked, wpc, phase, writing>>

MutReadsNotJoined ==           \* no tg.wait(), the group outlives the phase
  /\ wpc = "reads"
  /\ writing' = Writes[phase]
  /\ wpc' = "writes"
  /\ UNCHANGED <<given, tick, stage, rqSet, queue, canvas, screen, jobs, ticked, phase,
                 reading, running, joining, recorded>>

(* tg.wait() *)
JoinReads ==
  /\ wpc = "reads" /\ reading = {}
  /\ writing' = Writes[phase]
  /\ wpc' = "writes"
  /\ UNCHANGED <<given, tick, stage, rqSet, queue, canvas, screen, jobs, ticked, phase,
                 reading, running, joining, recorded>>

RunWrite ==
  /\ wpc = "writes" /\ writing # << >>
  /\ SystemRecords(Head(writing))
  /\ writing' = Tail(writing)
  /\ UNCHANGED <<given, tick, stage, rqSet, canvas, screen, jobs, ticked, wpc, phase,
                 reading, running, joining>>

LeavePhase ==
  /\ wpc = "writes" /\ writing = << >>
  /\ IF phase < Len(Phases) THEN wpc' = "enter" /\ phase' = phase + 1
     ELSE wpc' = "out" /\ phase' = phase
  /\ UNCHANGED <<given, tick, stage, rqSet, queue, canvas, screen, jobs, ticked, reading,
                 running, joining, writing, recorded>>

-----------------------------------------------------------------------------
MainStep ==
  \/ StartFrame \/ EndUpdate \/ UpdateIdle \/ BeginFrame
  \/ EndRenderPrep \/ PrepIdle \/ Raster \/ Present
  \/ EnterPhase \/ JoinReads \/ RunWrite \/ LeavePhase

Next ==
  \/ MainStep \/ CallTick \/ ClientRecords
  \/ \E j \in Jobs : ClientEnqueues(j) \/ JobRuns(j)
  \/ \E s \in Systems : StartRead(s) \/ SplitRead(s) \/ FinishRead(s)

Spec == Init /\ [][Next]_vars

(* The hooks return; a free worker takes what is queued, and a job or a    *)
(* system that has a worker, and finds one for the tasks it waits for,     *)
(* ends.                                                                   *)
FairSpec == /\ Spec
            /\ WF_vars(MainStep)
            /\ \A j \in Jobs : WF_vars(JobRuns(j))
            /\ \A s \in Systems : WF_vars(StartRead(s)) /\ WF_vars(FinishRead(s))

-----------------------------------------------------------------------------
(* The picture that is presented was made from exactly the commands        *)
(* recorded in this frame, by the client, by the systems and by the jobs   *)
(* of render_prep(): none is left out, none comes from an earlier frame.   *)
(* A frame that recorded nothing shows the picture it had.                 *)
PictureIsComplete ==
  stage = "present" /\ recorded # {} => canvas = recorded

(* No job records while the renderer reads the queue or while the frame is *)
(* presented, and none is left when the pool is destroyed.  Nor is any     *)
(* when the queue's frame is begun, by the loop or by the world's          *)
(* RenderPrep phase: begin_frame() between the steps of a push would leave *)
(* the queue with a hole (RenderQueue!BeginFrame asks for AtRest).         *)
QuietOutsideHooks ==
  \/ stage \in {"top", "begin_frame", "raster", "present", "stopped"}
  \/ wpc = "enter" /\ Phases[phase] = "RenderPrep" /\ rqSet
  => jobs = {} /\ reading = {}

(* No read system, which other threads run, overlaps a write system or     *)
(* another phase (World.hpp: read systems in parallel, then write systems).*)
ReadsDoNotOverlapWrites ==
  reading # {} => wpc = "reads" /\ reading \subseteq Reads[phase]

(* A client that adds up the dt_seconds it is shown is where time_seconds  *)
(* says: in the realtime loop at this time exactly, which is never ahead   *)
(* of the clock; in the stepper (run_loop.cpp, "deterministic stepper") at *)
(* the end of the step that begins then, and the time is that of the tick  *)
(* alone, however long the frames take.                                    *)
TimeAddsUp ==
  stage \notin {"top", "stopped"} =>
    IF clock.fixed THEN clock.shown = tick * FixedDt /\ clock.lived = clock.shown + FixedDt
    ELSE clock.shown = clock.lived /\ clock.shown <= clock.prev

(* Every worker is in a read system that waits for tasks of its own: there *)
(* is nobody to run them, and tick() waits for the systems for ever.  It   *)
(* takes as many such systems in one phase as there are workers; on one    *)
(* worker, render_prep_2d alone (TaskGroup's run on one worker).           *)
Hung == Cardinality(joining) = workers

(* Every frame that is started is presented, or ends the loop, unless the  *)
(* workers hang: no other join or wait_idle() waits for ever.              *)
FrameIsPresented ==
  \A k \in 0 .. LastTick - 1 :
    (stage = "update" /\ tick = k) ~> (tick = k + 1 \/ stage = "stopped" \/ Hung)
=============================================================================
