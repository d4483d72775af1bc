# framedot in TLA+

Formal models of framedot, a small C++20 engine core that draws frames from
ECS systems running on a thread pool: TLA+ modules from the threads that record
commands to the pixels the terminal shows, TLC configurations that check them on
small instances, and TLAPS proofs of what each of the parts promises, for every
number of threads, jobs, items and pixels.
Paths below are relative to the repository.

## 1. The system

| Component | State it keeps | Operations | Talks to |
|---|---|---|---|
| Render command queue, `include/framedot/gfx/RenderQueue.hpp` | frame number, claim and publish counters, per-slot `m_seq`, commands, text arena | recording calls (`clear`, `put_pixel`, `rect`, `line`, `sprite`, `text`), `begin_frame`, `size`, accessors | filled by systems, jobs and the client, read by the renderer |
| Job system, `src/core/job_system.cpp` | two queues (Engine, User), `m_stop`, `m_inflight`, two mutexes and condition variables, the workers | constructor, `enqueue`, `worker_loop_`, `wait_idle`, destructor | runs whatever is enqueued; jobs enqueue jobs |
| Task groups, `include/framedot/core/Tasks.hpp` | `m_inflight`, `m_mtx`, `m_cv` of a group; a `TaskValue` per result | `run`, `run_value`, `wait`, `done_one_`, destructor | enqueue into the job system |
| ECS world, `src/ecs/world.cpp` | the registry, read and write systems per phase | `add_*_system`, `tick` | opens one task group per phase, calls `begin_frame` |
| 2D render preparation, `ecs/systems/RenderPrep2D.hpp` | snapshot arrays, for one call | one read system | opens task groups inside a task, records |
| Application loop, `src/app/run_loop.cpp` | tick count, time, `FrameContext` | `run` in two variants (fixed and variable step) | calls the client's hooks, `wait_idle`, `begin_frame`, the renderer, the surface |
| Software renderer, `src/gfx/software_renderer.cpp` | the canvas | `execute`: sort, tiles, raster | reads the queue |
| Input, `include/framedot/input/` | event queue, key state | `push`, `begin_frame`, `clear`, queries | filled by a source in the loop's input stage |
| Terminal platform, `platforms/terminal_ncurses/` | back buffer, size | `present`, `pump` | ncurses |
| Text shaping, `src/text/` | table of fonts | `load`, `shape` | HarfBuzz |
| Math types, version, build files, examples | none | none | none |

What is hard in this code, and what makes each part correct:

* *Render queue*: lock free, many producers.  Slots are claimed, written and
  published in different orders; they are never cleared, only the frame number
  in `m_seq` tells old from new; stores wait in store buffers.  What the
  consumer sees must be complete, of this frame and append-only; texts must not
  share bytes; a push must return, and must not get lost.
* *Job system*: `m_inflight` is counted outside both mutexes, `notify_one` is
  called outside them too, and the destructor races jobs that enqueue jobs.
  Every job runs once and in lane order; no worker sleeps beside work;
  `wait_idle` and the destructor neither return too early nor hang.
* *Task groups*: the same counter pattern on an object that lives on the
  stack, and tasks that open groups of their own.  `wait` must not return
  before every task has, must return, and the group must not be touched after
  it died.
* *World and loop*: the order of `begin_frame`, recording, joins, raster.  The
  picture presented shows exactly what was recorded in its frame.
* *Input and terminal*: a queue at its limit, edges of keys that change several
  times within a frame, a copy of the screen that may be stale.  The queue keeps
  what its policy promises, in order; the edges tell every change, also of
  events the queue dropped; the screen shows the frame.
* *Preparation and renderer*: items divided among workers, tiles drawn by several
  of them, an unstable sort over slots claimed in any order, raster loops that
  stop when they hit a point exactly, divisions that truncate.  The picture must
  be the one a single painter makes, and the shapes what their names say.
* *Text shaping*: forwards to HarfBuzz; see section 7.

`PROJECT.json` lists every hazard at its line, with the properties that cover it.

## 2. The modules

| Module | Models | How |
|---|---|---|
| `FrameLog` | what a consumer of the queue relies on | abstract: a log that grows at its end, or starts again |
| `RenderQueue` | `RenderQueue.hpp` | one action per atomic operation, store buffers included |
| `MendingPush` | the same | adds a history variable: when a lost push is made up for |
| `RenderQueueProofs`, `MendingPushProofs` | | the theorems about the two |
| `Color` | `blend_over`, `modulate` | operators on pixels |
| `Raster` | the recording calls, `make_sort_key`, `execute_tile_` | operators: what a command is, and what it does to the pixels |
| `RasterProofs` | | the theorems about `Color` and `Raster` |
| `Painter` | what a frame promises to show | abstract: the commands painted one after the other |
| `RenderScene` | `RenderPrep2D.hpp`, `execute` | entities to commands to pixels, on several workers; implements `Painter` |
| `RenderSceneProofs` | | the theorems about a frame, from its items to its pixels |
| `JobPool` | what a job system promises | abstract: jobs new, waiting, running; clients waiting or destroying |
| `JobSystem` | `job_system.cpp` | one action per critical section or atomic step; implements `JobPool` |
| `JobSystemProofs` | | the theorems about the pool, its refinement of `JobPool` included |
| `TaskGroup` | `Tasks.hpp` | on top of `JobPool` (`INSTANCE` without clients) |
| `TaskGroupProofs` | | the theorems about trees of tasks |
| `FramePipeline` | `run_loop.cpp`, `world.cpp` | one action per statement of the loop and of `tick` |
| `FramePipelineProofs` | | the theorems about the loop and the world |
| `Input` | `include/framedot/input/`, `TerminalInput.cpp` | the key state, the queue, the loop of `pump` |
| `TerminalSurface` | `TerminalSurface.cpp` | present and change of size |
| `Terminal` | the loop's input and present stages | composes the two |
| `TerminalProofs` | | the theorems about input and surface |
| `MC...` | | small instances of the module whose name follows `MC` |

The modules are layered: `FramePipeline` takes for granted that a join is
complete and that `wait_idle` waits, which are what `TaskGroup` and `JobSystem`
are checked for; `TaskGroup` runs on the abstract pool that `JobSystem` is
shown to implement; `FramePipeline` treats the queue as a set of recorded
commands, which is what `RenderQueue` is checked for, with the exception of
lost pushes (section 6).  `RenderScene` is the inside of what `FramePipeline`
has as one recording system and one raster step; it treats a push as one step
and keeps what pushes may get lost.  `Terminal` is the other side of the same loop: what
`FramePipeline` leaves out of a frame, with the picture an arbitrary one.
Operators named `Mut...` are altered versions of the
operator that follows them: each breaks one property, as a typical slip in the
code would, and shows that the property can fail.  No specification uses them.

### RenderQueue

`pc[p]` says where producer `p` is in `text`, `push_payload_` or `publish_`;
`myFrame`, `myIdx`, `myP`, `myText` are the locals `frame`, `idx`, `p`, and
`ofs`/`len`.  `ReserveText` and `CopyText` are `text` up to its push;
`LoadFrame`, `Claim`, `Store` are `push_payload_`; `LoadPublished`,
`CheckReady`, `Cas` are the loop of `publish_`.  The other recording calls
differ only in the payload, so one path stands for them.  A slot holds who
pushed it and, for a text, the range it names.  `begin_frame` leaves the slots
alone in the code; in the model their contents turn into `Stale`, which marks
what a reader must not see, and `m_seq` stays.

Memory: the stores of the slot and of `m_seq` enter a store buffer (`unflushed`)
and leave it in order (`Drain`); a producer sees its own; read-modify-write
instructions wait for an empty buffer.  This is x86-64's model, where a release
store is a plain `mov`; the C++ memory model allows at least as much.
`StoreFence` makes the loads of `publish_` wait for the buffer.

Every counter of the queue is 32 bits wide: the model counts modulo `Modulus`,
which stands for 2^32, and `ReserveText` casts the size of a text to 32 bits
before it adds, as `text` does.  What a wrap breaks is in section 5.  The refused
claim and the increment of `m_dropped` after it are one action, since no push
reads that counter.

`begin_frame` is called only when no push is in flight: the loop and the world
call it on the main thread after a join (`QuietOutsideHooks` of `FramePipeline`).

`MendingPush` records in `mending` who is in a push that, when it claimed its
slot, found every earlier one marked.  `MendsLostPushes` says that such a push
returns with its own slot and all earlier ones published.  It bounds the damage
of a lost push, and `RenderScene` relies on it: a thread that pushes alone loses
nothing, and the first push after a join restores what the joined threads lost.

### JobPool and JobSystem

A critical section of `m_mtx` is one action, since everything it touches is
touched only under `m_mtx`.  `m_inflight` is not, so `wait_idle` is `LockIdle`,
`CheckIdle` (the predicate), `BlockIdle`; a worker's end of a job is `Finish`
(the `fetch_sub`) and, for the last one, `NotifyIdle` under `m_idle_mtx`.
`enqueue` is a push and a separate `notify_one`, from a client or from a running
job.  Without workers the job runs in the caller, nested ones inside it; such a
pool has a single calling thread, because `wait_idle` does not see the inline
jobs of another.  Condition variables may wake spuriously.  `WorkerCount` is the
constructor's computation; `Configs` the builds, machines and arguments.

`Pool!Spec` (property `ImplementsJobPool`) is the refinement: `todo` is `new`,
the queues are `waiting`, the jobs held by workers or running inline are
`running`, and a client is in `wait_idle` or in the destructor from its first
step to its last.

### TaskGroup

The main thread and every started task are actors.  An actor opens a group,
runs tasks in it (`RunCount` increments, `RunEnqueue` hands over), waits
(`WaitFast`, `LockGroup`, `CheckGroup`, `BlockGroup`) and leaves the scope
(`Destroy`), possibly several times.  A task returns, decrements (`Decrement`)
and, if it was the last, notifies under `m_mtx`.  Doing so on a group that is
dead is undefined behaviour: the model lets nothing happen, or lets the thread
hang on the lock for good (`NotifyDeadGroup`).  The constants are the tree of
tasks and groups; the instances are the ones of `World::tick` and of
`install_render_prep_2d`.

### FramePipeline

`stage` is the statement of the loop that comes next.  The two loops of `run`
have the same stages; they differ in `clock`, the frame's time, which the
realtime loop advances at the beginning of a frame and the stepper at its end.
The input stage is in `Terminal`.  `wpc`, `phase`, `reading`, `writing` are
`World::tick`.  A command is identified by its frame and by who recorded it.
A read system is queued (`reading`), taken by a worker (`running`), may wait there
for a group of its own (`joining`, for the systems in `Nesting`), and keeps its
worker until it returns; `StartRead`, `SplitRead` and `FinishRead` are these
steps.  Its tasks need a worker that is not in a read system (`WorkerIsFree`).
When every worker is in a waiting system, nothing moves any more (`Hung`): that
is finding 3, seen from the loop.  There is at least one worker; without any, the
main thread runs each system and job where it would hand it over, which is an
order one worker may also take.  `max_frames` is the configuration's, with 0 for
an endless loop, and `LastTick` bounds what is looked at of that.  The client is
one of `ClientKinds`: from which hooks it ticks its world, and whether it records
before it does.  Jobs of
`update` compute; jobs of `render_prep` record.

### Color, Raster, Painter, RenderScene

A pixel is a record of four bytes.  `Raster` has a constructor for each recording
call and says of each operation how often it writes each pixel (`Times`), which
with `Over` gives the pixel afterwards; `Clear` and `BlitSprite` give it
directly.  `LinePoints`, `Arc`, `Pens` follow the loops of `execute_tile_` turn
by turn, as recursive functions.  `Draw` restricts a command to a tile.

`RenderScene` is one frame.  `items` is the snapshot of the registry, taken
before anything else runs; `next` says how far each chunk of the current kind
is; `queue` are the claimed slots, and `sure` how many of them are published
whatever the store buffers do: all up to a push that comes before any other
thread's since the last join.  `EmitOne` is one turn of the loop in a chunk,
`JoinChunks` the `wait` of a kind, `ClientRecords` the client's own commands.
`Sort` takes any number of published commands from `sure` on, in any order
`std::sort` may leave them in.  `DrawNext(k)` draws the next command on tile
`k`; tiles are taken in turn, no more at a time than there are workers.
Coordinates are in halves of a pixel where the code has floats, so that the cast
to `int` is seen to truncate towards zero.

`drawers` is the number of workers `execute` sees.  Both loops call it without a
context (`run_loop.cpp:101`, `run_loop.cpp:160`), and then it draws the whole
canvas serially although a pool is there: the tile-parallel path that
`software_renderer.cpp:6` announces is only taken by a caller of the other
overload.  The model has both.

`Painter` knows no threads, chunks, slots or tiles: it paints the commands on the
whole canvas, smaller keys first, all of them when the client recorded something
after the join and the queue had room, else a choice of them.  `Paintings` is
the canvas after each of the commands.  `Recorded` and `Picture` map `RenderScene`
to it.

### Input, TerminalSurface, Terminal

`down`, `justPressed`, `justReleased` are the arrays of `InputState` as sets of
keys, `events` the first `m_size` entries of the queue.  `BeginInput` is the
beginning of the input stage, `PollKey` a turn of `pump`'s loop with the whole
of `InputCollector::push` (`Apply`, then `Record`), `EndInput` its return.  The
keyboard is a user who presses, holds and releases keys at any time, also while
`pump` reads.  The `terminal` source reports presses only, and each repetition
as another one; a `full` source, which the interface and `KeyAction` provide
for, reports all three.

`prev` is `m_prev`, `cells` what the terminal shows.  `Present` is all of
`present`, `Background` and `Character` what a pixel becomes with and without
colours.  A change of size happens inside `getch`, which returns `KEY_RESIZE`:
`Terminal` makes it an event that `pump` reads and ignores, so the surface sees
the new size in the same frame.  `shown` and `lost`, like `arrived` and
`downBefore`, are history variables that only properties read.

## 3. The runs

| Run | Instance | Shows |
|---|---|---|
| `render_queue` | 2 producers, 3 slots, 4 bytes of arena, texts of 1 and 2, 2 frames, no push begun after 3 claims | what `size` covers is complete and current (`PublishedComplete`), never changes (`AppendOnlyLog`), texts keep their bytes (`TextIntact`), every call of a thread that keeps running returns, whatever the other does (`PushReturns`), a push that claims after all others were marked makes up for lost ones (`MendsLostPushes`) |
| `render_queue_lost` (violation) | 2 producers, x86-64 memory | a push is lost |
| `job_system` | 0, 1, 2 workers, 2 clients, 2 Engine jobs and 1 User job | refinement of `JobPool`, `WorkConserving`, and that jobs, `wait_idle` and the destructor end |
| `job_system_smp` (violation) | every small configuration | workers are started with SMP disabled |
| `task_group` | 0 or 2 workers, 5 tasks in 3 groups, two of them inside a task | `JoinIsComplete`, `WaitReturns` |
| `task_group_nested` (violation) | 1 worker, 1 read system, 1 chunk | the join of the read system never returns |
| `task_group_scope` (violation) | 1 worker, two groups one after the other | the last task locks a dead group's mutex |
| `frame_pipeline` | 1, 2 or 3 workers, 2 frames of an endless loop or a loop of 1 frame, 2 jobs, 2 read systems and a write system in `Update`, 2 read systems that wait for tasks of their own and a write system in `RenderPrep`; a client without a world, and one that ticks it first in `render_prep`; both loops, frames of no time, within and above `max_dt` | each picture is what its frame recorded; nothing runs outside the hooks; reads and writes do not overlap; the time shown is the sum of the steps (`TimeAddsUp`); each frame is presented, unless all workers hang (`FrameIsPresented`) |
| `frame_pipeline_tick_in_update` (violation) | the same, world ticked in `update` | what the systems record is thrown away |
| `render_scene` | a queue and snapshots of 4, tiles of 2 by 2, canvases of 5 by 3, 2 by 2 and no pixels, 0 to 3 workers with and without the parallel path, opaque and translucent paper, seven scenes of entities and one scene per shape | the picture is that of `Painter` (`ImplementsPainter`); each item is queued once (`QueueHoldsScene`); layers stack (`LayersStack`); opaque stays opaque (`CanvasStaysOpaque`); shapes are right (`LinesAreStraight`, `CirclesAreClosed`, `OutlineIsRing`, `BlendsOnce`) |
| `terminal` | 2 keys, a queue of 2 events, 3 events between two frames, each policy, both kinds of source, two sizes with as many cells, frames of 2 pixels | `QueueKeepsOrder`, `EdgesTellChanges`, `StateFollowsKeyboard`, `ScreenShowsFrame` |
| `terminal_white` (violation) | the same, without input | white cells are not drawn by the first `present` |

**Bounds and why they are enough.** Two producers give every order of claim,
write, mark and advance.  Three slots and up to four claims reach the full queue and
the refused push, and leave room for a third push after two that got lost; the arena of four bytes holds two texts of length 1, or one of
length 2 and none after it, so full, exactly full and overrun all happen.  Two frames put old
marks next to new ones.  Three jobs in two lanes on two workers reach a sleeping
worker beside a busy one, a notification that comes when the job is gone, a job
enqueued after `m_stop`, and two clients in `wait_idle` at once.  The trees of
tasks have a task that waits for two groups in turn while another runs.
Three events on a queue of two overflow it, and are enough for press, release
and press of one key within a frame; two sizes with the same number of cells are
the case in which the back buffer keeps its length but not its meaning, and two
changes of size within a frame happen too.  The keys are symmetric.
The scenes of `render_scene` have more entities than fit, entities that are not
drawn, two rectangles that are pushed at once and leave room for the client's
command after the join, shapes that begin outside the canvas and cross several tiles, equal keys
and keys wider than their bits; 5 by 3 in tiles of 2 gives six tiles, three of them cut
off, and 2 by 2 a single one, which is drawn serially.  Lines go to every
point within 6, which is every slope the loop tells apart at that length, and
circles have every radius from -1 to 12.
Of the two systems that nest, each hangs a single worker, both together hang
two, and three workers never hang: `FrameIsPresented` has something to say on
one and two workers, where one of them does not split, and on three always.
`LastFrame`, `MaxClaims`, `MaxTextOfs` and `LastTick` bound counters that grow;
`Modulus` = 9 is above what they reach.  No run checks for deadlock: a queue whose bounds
are reached, a destroyed pool, a main thread that has closed its groups and a
loop that ended are all final states.  Hangs are found by the liveness
properties instead.

## 4. Fairness

* `RenderQueue`: one thread (`Steady`) keeps running while it is inside a push,
  and its store buffer drains (weak fairness).  Nothing is assumed of the others:
  one may stop for ever between its claim and its write, and `PushReturns` says
  the steady one returns all the same.  The producers are alike, so that it is
  `p1` in the run says nothing less of `p2`.  No thread has to start a push and no
  frame has to begin.
* `JobSystem`: every thread that is not blocked runs, and jobs return (weak
  fairness per thread).  Locking `m_idle_mtx` is strongly fair: with two clients
  that call `wait_idle` again and again the mutex could otherwise be withheld
  from a third thread for ever, which `std::mutex` does not forbid and its
  implementations do not do.  No client has to call anything.
* `TaskGroup`: every thread that is not blocked runs, functions return, scopes
  end, and spurious wakeups eventually stop.  `m_mtx` is contended only by the
  waiter and one notifier, so this is the only way to starve the latter.
* `FramePipeline`: the main thread goes on where nothing stops it, so the
  client's hooks return; a free worker takes what is queued (weak fairness of
  `JobRuns` and `StartRead`), and a system ends once it has a worker and, if it
  waits for tasks of its own, another worker is free to run them.  A system that
  finds none never ends.  Both are what `JobSystem` and `TaskGroup` are checked
  for: no worker sleeps beside work, and a wait whose tasks run returns.
* `RenderScene` and `Terminal` have safety properties only.  That `RenderScene`
  ends follows from the joins, which are the matter of `TaskGroup`: its frames
  with one worker are those in which the preparation does not run on that
  worker.  `Terminal` assumes no fairness: a user who types faster than `pump`
  reads keeps it from returning, and nothing in the code prevents that.

## 5. What is proved

Type correctness and every safety property of the passing runs, refinements
included, each as a theorem of the specification for all values of the constants
that satisfy the assumption the module names.  The assumptions only say what the
constants are: sets of threads or jobs are finite, sizes are numbers, scenes hold
entities.  Coordinates have no bounds in the models; where their 32 bits matter
is among the hazards.
Every invariant listed here was checked with TLC on the run's instance first.

### The queue: `RenderQueueProofs`, `MendingPushProofs`

For any finite set of producers, any `KMax`, arena, sizes and bounds that satisfy
`QueueAssumption`:

| Theorem | Says | Assumes |
|---|---|---|
| `TypeCorrect` | `Spec => []TypeOK` | nothing more |
| `PublishedCompleteHolds` | `Spec => []PublishedComplete` | `NoWrap` |
| `Refinement` | `Spec => AppendOnlyLog`: the queue implements `FrameLog` | `NoWrap` |
| `TextIntactHolds` | `Spec => []TextIntact` | `NoTextWrap` |
| `NoLostPush` | `Spec => []AllPublishedAtRest` | `NoWrap`, `StoreFence` |
| `LostPushesAreMended` | `MSpec => MendsLostPushes`, on the memory the code really has | `NoWrap` |

`NoWrap` says that two 32-bit counters do not come back to an old value.  One is
the frame number: at 60 frames per second it takes more than two years to do so,
and then a slot last written 2^32 frames ago looks ready before it is written.
The other is `m_claimed`, which counts refused pushes too: after 2^32 pushes of one
frame the slots would be given out a second time.

`NoTextWrap` says the same of `m_text_ofs`: the texts of one frame, refused ones
included, ask for fewer than 2^32 bytes.  Without it the check of
`RenderQueue.hpp:233` passes when it must not, after a wrap or for a single text
of 2^32 - 1 bytes, whose length plus 1 is 0; TLC finds `TextIntact` violated with
`Modulus = 8`, `MaxTextOfs = 16` and texts of 1, 2, 7 and 8.

The inductive invariant `IInv` is `TypeOK` with five parts, because
`PublishedComplete` only looks at the slots below the frontier and says nothing
of the pushes that will get there:

* `MarksInv`: no mark is newer than the frame, and a mark of this frame is on a
  slot that was claimed and written in it.
* `FrameInv`: a push in flight has read the current frame number, and its store
  buffer is empty until it stores.
* `HolderInv`: a claimed slot that is not marked has exactly one owner.
* `FrontierInv`: the frontier passed only marked slots, and a producer about to
  move it has seen the mark, in memory or in its own buffer; in the second case
  the compare-exchange waits for the buffer.
* `ClaimBound`: the claims made and begun stay below the bound and the number of
  producers, which with `NoWrap` keeps `m_claimed` from wrapping.

Each action is one step of `IInvStep`.  `LogStep` shows that every step appends
one command, empties the log, or stutters.  `NoLostPush` needs `FencedInv` as
well: every claimed slot is marked or owned, a producer's copy of the frontier
is not ahead of it, and as long as the next slot is ready somebody is in
`publish_` to advance over it.  Without `StoreFence` the last part breaks: the
producer that leaves has tested a mark that was still in another buffer.

`LostPushesAreMended` says what is left without the fence.  Its invariant
`MendInv` is that a mending push sees the mark of every slot up to its own, in
memory or, for its own, in its buffer, and that no producer's copy of the
frontier is ahead of it.  Marks of a frame are never taken back within it
(`MarksStay`), so the push can only leave `publish_` when the frontier has
passed its slot.

`TextIntactHolds` rests on `TextInv`: a range of the arena in use, be it a
pusher's or a slot's of this frame, lies below `m_text_ofs`, shares no byte with
another, and holds its text from the `memcpy` on.  A slot takes the range over
from its pusher when the store drains.  It does not need `NoWrap`, since what a
new frame must not see is told by the contents of a slot and not by its mark,
and it holds also when `m_text_ofs` has run past the end of the arena; it does
need `NoTextWrap`, since ranges are disjoint because `m_text_ofs` only grows.

### The pool: `JobSystemProofs`

For any finite set of clients and of jobs, any build and machine (`PoolAssumption`):

| Theorem | Says |
|---|---|
| `TypeCorrect` | `Spec => []TypeOK` |
| `WorkConservingHolds` | `Spec => []WorkConserving`: no wakeup is lost although `notify_one` is called outside the mutex |
| `Refinement` | `Spec => ImplementsJobPool`: each job runs once and in lane order, and neither `wait_idle` nor the destructor returns too early |

`m_inflight` is counted outside both mutexes, so that it agrees with the queues
is itself the matter to prove: `CountInv` says it is the length of both queues
plus the number of workers that hold a job.  It needs `HeldInv` (a worker holds a
job from taking it until it decrements), `PlaceInv` (a job is in one place:
not enqueued, at one position of one queue, in one worker, or on the owner's
stack), `InlineInv` (only a pool without workers runs jobs on the caller) and
`StopInv` (once `m_stop` is set nobody but the owner is inside a call, and the
last worker leaves empty queues).  The refinement maps each step to one of
`JobPool` or to a stutter.

### Task groups: `TaskGroupProofs`

For any tree of tasks and groups and any number of workers (`TreeAssumption`):
`TypeCorrect`, and `JoinIsCompleteHolds` (`Spec => []JoinIsComplete`).  The
invariant counts again: `CountInv` says a group's `m_inflight` is the number of
its tasks from just before they are handed over until they decrement it, so a
count of 0 seen by `wait` means that every task given to the group has returned.
`ScopeInv` (whose group is open, and that it is alive), `TargetInv` (which task
is being handed over), `PoolInv`, `ReadyInv` (what has returned has set its
`TaskValue`), `UncountedInv` (without workers nothing is counted) and `JoinInv` (the
count stays 0 after the join) close it under every step.

### The loop: `FramePipelineProofs`

For any systems, jobs, numbers of workers, clients, frame limits, step widths and
frame times (`PipelineAssumption`):

| Theorem | Says | Assumes |
|---|---|---|
| `TypeCorrect` | `Spec => []TypeOK` | nothing more |
| `ReadsDoNotOverlapWritesHolds` | `Spec => []ReadsDoNotOverlapWrites` | nothing more |
| `TimeAddsUpHolds` | `Spec => []TimeAddsUp` | nothing more |
| `PictureIsCompleteHolds` | `Spec => []PictureIsComplete` | `ClientsTickFirst` |
| `QuietOutsideHooksHolds` | `Spec => []QuietOutsideHooks` | `ClientsTickFirst` |

`ClientsTickFirst` says a client ticks its world from `render_prep`, if it has
one, and before it records anything itself.  Both clients of the `frame_pipeline`
run do; what happens to the others is finding 5 of section 6.  `FrameInv` is the
invariant of the last two: the world's systems run only inside the hook that
ticks it, jobs are left only by `update` and `render_prep`, and from
`begin_frame` to the raster the queue holds what this frame recorded and
nothing else.

### Pixels and pictures: `RasterProofs`, `RenderSceneProofs`

`RasterProofs` is about the operators alone:

| Theorem | Says |
|---|---|
| `OverIsColor`, `OpaqueStaysOpaque`, `ModulateIsColor` | of all 2^32 pixels and colours: blending and tinting give pixels, no cast to `uint8_t` cuts anything off, opaque stays opaque |
| `LineIsStraight` | `raster_line` stops at the end point after as many points as the longer axis has, visits none twice and none further than half a pixel from the ideal line, for any two end points |
| `DrawnIsColor` | whatever the operation, a pixel becomes a pixel, and only `Clear` makes an opaque one translucent |
| `OutlineWritesRing` | an outline that fits writes the rectangle less the one inside it |
| `CircleIsClosed`, `CircleIsRound` | of every radius: each pixel of a circle touches two others, none is outside the radius and none more than a pixel and a half within it |
| `DiscFillsCircle` | `FillCircle` fills what `Circle` encloses, row by row |
| `EvenlyBlended` | no rectangle, line or text writes a pixel twice |

The colour theorems rest on one fact, `QuotientIsByte`: a weighted sum of two
bytes whose weights add up to 255 is at most 255 * 255.  They are what makes the
absence of casts in `Color` sound.  `LineIsStraight` is about a loop: its invariant
(where the point is after `i` steps, and that `err` is what the exact line says)
is carried over the steps with `LoopRuns`, an induction on the number of turns
obtained from the least number principle, because the induction theorems of the
library take the formula as a parameter, which the provers cannot instantiate.

The circle loop adds 2 more to `err` in every row than the circle would, so it is
`x * x + y * y + 2 * y - r * r` (`OnArc`); the arc still works because this stays
between `-2 * x` and 0 as long as `x >= y`.  It follows that every turn goes one row
further and at most one column back, and that the arc ends on or beside the
diagonal (`ArcIsEighth`), so the octants meet (`EighthIsClosed`; `Mirrored` carries it to
the other seven) and no pixel is further in than the distance the two bounds
allow (`EighthIsRound`).

`RenderSceneProofs` is about a frame, for any scene, canvas, tile, capacity and
number of workers (`SceneAssumption`, which includes that a sprite has the rows
it claims: the code is given a pointer without a length):

| Theorem | Says |
|---|---|
| `LayerOfKey` | `sort_layer` undoes `make_sort_key`, also for orders and ties too wide for their bits |
| `SceneInvHolds` | `Spec => []SceneInv`, the inductive invariant |
| `TilesDivideCanvas` | the tiles of a canvas of any size cover it and share no pixel |
| `RenderSceneIsPainter` | `Spec => ImplementsPainter`: the picture is that of a single painter, however the frame is divided and in whatever order its parts run |
| `TypeCorrect`, `QueueHoldsSceneHolds`, `LayersStackHolds`, `CanvasStaysOpaqueHolds`, `LinesAreStraightHolds`, `CirclesAreClosedHolds`, `OutlineIsRingHolds`, `BlendsOnceHolds` | `Spec => []` the property each is named after |

`SceneInv` says: no chunk runs over its end and chunks do not overlap, so no item
is emitted twice (`ChunkInv`); the queue holds exactly what was emitted, as far
as there is room (`QueueInv`); the order is one of the keys (`OrderInv`); and the
canvas holds pixels (`CanvasInv`).

The refinement adds three facts to it.  `SizeInv`: the canvas keeps its size.
`SureInv`: what a lost push can cost is bounded, because the first push after a
join publishes all slots before it; so nothing is lost with one worker or when
the client records last with room for all, and never everything.  `DrawnInv`:
every pixel of tile `k` is as the painter leaves it after the first `painted[k]`
commands of the order.  A step of one tile keeps this for the others because no
two tiles share a pixel, and at the join it says the whole canvas is the painter's
picture because the tiles leave no pixel out; both are `TilesDivideCanvas`, where the
rounding in `execute`'s tile counts and edges is checked for all sizes.
`PaintingsRun` is the induction over the commands, again by `LoopRuns`, and
`Positions` tells slots of the queue from each other by what they name among all
that was recorded.  `PaintStep` then maps the join of the tiles, or the sort of an
empty queue, to `Paint` and every other step to a stutter.

### Input and terminal: `TerminalProofs`

For any keys, capacity, overflow policy, source, sizes and frames:

| Theorem | Says |
|---|---|
| `PartsRunAsSpecified` | `Spec => In!Spec /\ Out!Spec`: composed, each part still behaves as its own module says |
| `TypeCorrect`, `QueueKeepsOrderHolds`, `EdgesTellChangesHolds`, `StateFollowsKeyboardHolds`, `ScreenShowsFrameHolds` | `Spec => []` the property each is named after |
| `OtherColorsAreDrawn` | when the value for "unknown" is no pixel of any frame, every cell is drawn by the first `present`: finding 6 is about that one colour and no other |

`InputInv` adds `KeyboardInv` to the properties: what the source has not read yet
leads from the key state to the keyboard, one legal event after the other.
`SurfaceInv` adds what makes a stale back buffer harmless: `m_prev` is right about
every cell that ncurses did not take off the screen (`PrevInv`), those it took
off are blank (`LostInv`), and `m_prev` holds the frame presented last (`ShownInv`).

### Only model-checked

* All liveness (`PushReturns`, the end of jobs and waits, `WaitReturns`,
  `FrameIsPresented`): ENABLED and fairness are out of the prover's reach.

## 6. Where the code does something else than it says

Each of the six has a violation run and is an entry under `findings` in
`PROJECT.json`.

1. **A push can get lost** (`render_queue_lost`): two producers mark their slots
   and each tests the other's slot while its mark is still in the store buffer;
   both return true, nothing is counted as dropped, and the last command is not
   drawn unless a later push advances the frontier over it.  Two producers on the
   real class, compiled with `-O2`, lose pushes in most frames of a loop that
   makes them collide; with a `seq_cst` store of `m_seq` they lose none.
2. **SMP disabled still starts workers** (`job_system_smp`): the 0 it sets is
   then read as "automatic".
3. **Nested join on one worker hangs** (`task_group_nested`): `tick` runs
   `render_prep_2d` on a worker, and it waits there for chunks that need one.
   More generally it hangs when as many tasks wait as there are workers; in
   `FramePipeline` these states are `Hung`, the exception of `FrameIsPresented`.
4. **A group can be used after its scope** (`task_group_scope`): the decrement
   that lets the owner go comes before the notification under the group's mutex.
5. **A world ticked in `update` draws nothing** (`frame_pipeline_tick_in_update`):
   the loop empties the queue afterwards, and in the first frame there is none.
   In the same way a client that records in `render_prep` before it ticks loses
   what it recorded, since `tick` empties the queue again.  That variant
   (`recordsFirst`) has no run of its own: the theorems exclude it by `ClientsTickFirst`.
6. **White cells are not drawn** (`terminal_white`): `0xFFFFFFFF` stands for
   "unknown, draw it" in the back buffer and is also opaque white, so on the
   first `present`, and on the first after a change of size, a white pixel is
   taken for one already drawn.

Limits the code states or implies, which the properties name as exceptions or
leave open: commands with equal keys may be drawn in either order, from frame to
frame, since slots are claimed in any order and `std::sort` is not stable, so the
deterministic stepper of `run_loop.cpp:8` gives the same pictures only for scenes
whose keys differ where they overlap; outlines and circles write some pixels
twice, which shows when they are translucent; an outline thicker than its
rectangle is drawn outside it; the terminal source never reports a release (`TerminalInput.cpp:40`
says so), so a key stays down once pressed and is `just_pressed` only once; and
a size that changes and changes back between two presents goes unnoticed, so
cells the terminal dropped stay blank until they change colour.

## 7. What is not modelled, and why

The rounding of times, which are whole numbers here; the contents of the registry (EnTT); mouse and text events,
which no source sends; the destructor's `endwin`; a terminal of no rows or
columns; an event queue of capacity 0, which the build does not set;
coordinates near the limits of `int`, whose sums overflow; a text the arena
refuses within `RenderScene` (`RenderQueue` has it); exceptions thrown by a
client.  Text shaping: nothing in the repository creates a `TextEngine`, texts
are drawn as blocks, and the class forwards every call to HarfBuzz; its one
hazard, the scale of a font shared by two threads that shape, is listed although no
caller reaches it today (the same is true of drawing tiles in parallel, which is modelled).  Math types
and build files have no state.  A `begin_frame` during a
push of another thread, `wait_idle` called from a job, and destroying a
`TaskValue` before its group are misuse that nothing in the repository commits;
the guards exclude them and the hazards list them.

## 8. Plan

Done: the modules above, and the theorems of section 5.  Next:

1. `begin_frame` during a push, and `wait_idle` from a job, as protocol
   violations of the caller with their consequences.
