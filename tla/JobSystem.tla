----------------------------- MODULE JobSystem -----------------------------
(***************************************************************************)
(* The thread pool (src/core/job_system.cpp).  A critical section of m_mtx *)
(* is one action: the queues and m_stop are read and written only inside   *)
(* it, and the predicate of m_cv reads nothing else.  m_inflight is read   *)
(* and decremented outside every lock, so wait_idle() is three actions:    *)
(* lock m_idle_mtx, evaluate the predicate, and block, which unlocks.      *)
(*                                                                         *)
(* A job may enqueue other jobs while it runs.  The jobs are a finite set, *)
(* each handed over at most once; how many there are bounds the model.     *)
(***************************************************************************)
EXTENDS Naturals, Sequences, FiniteSets

CONSTANTS
  Configs,   \* how the pool may be built: config::enable_smp and
             \* config::max_worker_threads, the hardware_concurrency() of the
             \* machine (0: unknown) and the argument worker_threads
  Clients,   \* the other threads that call enqueue() and wait_idle()
  Owner,     \* the client that destroys the pool
  Jobs,      \* every job that is ever enqueued
  LaneOf,    \* the lane of each
  None

Lanes == {"Engine", "User"}

ASSUME PoolAssumption ==
  /\ Configs \subseteq [smp : BOOLEAN, max : Nat, cores : Nat, requested : Nat]
  /\ IsFiniteSet(Jobs) /\ IsFiniteSet(Clients)
  /\ Owner \in Clients
  /\ LaneOf \in [Jobs -> Lanes]
  /\ None \notin Jobs \cup Clients

-----------------------------------------------------------------------------
(* The constructor: how many workers it starts.                            *)

(* SMP disabled: none. *)
ApplySmp(c) == IF c.smp THEN c.requested ELSE 0

(* 0 stands for "as many as the machine has, but for the main thread". *)
ApplyAuto(c, n) == IF n # 0 THEN n ELSE IF c.cores > 1 THEN c.cores - 1 ELSE 1

WorkerCount(c) ==
  LET n == ApplyAuto(c, ApplySmp(c)) IN IF n > c.max THEN c.max ELSE n

(* The threads some configuration starts.                                  *)
Workers == UNION {1 .. WorkerCount(c) : c \in Configs}

VARIABLES
  config,     \* what the constructor was given
  todo,       \* the jobs nobody has enqueued yet
  queue,      \* m_jobs_engine and m_jobs_user
  stop,       \* m_stop
  inflight,   \* m_inflight
  idleMtx,    \* who holds m_idle_mtx across a step: a client or None
  wpc,        \* where each worker is in worker_loop_()
  job,        \* worker_loop_: job
  cpc,        \* where each client is in enqueue(), wait_idle(), ~DefaultJobSystem()
  inline      \* the jobs each client is running itself, outermost first

vars == <<config, todo, queue, stop, inflight, idleMtx, wpc, job, cpc, inline>>

WorkerPCs == {"none", "top", "asleep", "run", "notify", "idle", "exit"}
ClientPCs == {"out", "notify", "lock", "check", "block", "asleep",
              "stop_notify", "join", "gone"}

TypeOK ==
  /\ config \in Configs
  /\ todo \subseteq Jobs
  /\ queue \in [Lanes -> Seq(Jobs)]
  /\ stop \in BOOLEAN
  /\ inflight \in Nat
  /\ idleMtx \in Clients \cup {None}
  /\ wpc \in [Workers -> WorkerPCs]
  /\ job \in [Workers -> Jobs \cup {None}]
  /\ cpc \in [Clients -> ClientPCs]
  /\ inline \in [Clients -> Seq(Jobs)]

Init ==
  /\ config \in Configs
  /\ todo = Jobs
  /\ queue = [l \in Lanes |-> << >>]
  /\ stop = FALSE
  /\ inflight = 0
  /\ idleMtx = None
  /\ wpc = [w \in Workers |-> IF w <= WorkerCount(config) THEN "top" ELSE "none"]
  /\ job = [w \in Workers |-> None]
  /\ cpc = [c \in Clients |-> "out"]
  /\ inline = [c \in Clients |-> << >>]

(* m_workers; empty: every job runs in the thread that enqueues it.        *)
Started == {w \in Workers : wpc[w] # "none"}

NoJobQueued == \A l \in Lanes : queue[l] = << >>

-----------------------------------------------------------------------------
(* enqueue(): push under m_mtx, then notify_one() outside it.              *)

(* m_inflight is incremented after the push but before m_mtx is released,  *)
(* so no worker can take the job before it is counted.                     *)
Push(j) ==
  /\ j \in todo
  /\ todo' = todo \ {j}
  /\ queue' = [queue EXCEPT ![LaneOf[j]] = Append(@, j)]
  /\ inflight' = inflight + 1

(* m_cv.notify_one(): some blocked worker, if there is one, wakes up. *)
NotifyOne(pcs) ==
  LET Blocked == {w \in Workers : pcs[w] = "asleep"}
  IN  IF Blocked = {} THEN wpc' = pcs
      ELSE \E w \in Blocked : wpc' = [pcs EXCEPT ![w] = "top"]

ClientPush(c, j) ==
  /\ Started # {}
  /\ cpc[c] = "out" /\ ~stop
  /\ Push(j)
  /\ cpc' = [cpc EXCEPT ![c] = "notify"]
  /\ UNCHANGED <<config, stop, idleMtx, wpc, job, inline>>

ClientNotify(c) ==
  /\ cpc[c] = "notify"
  /\ NotifyOne(wpc)
  /\ cpc' = [cpc EXCEPT ![c] = "out"]
  /\ UNCHANGED <<config, todo, queue, stop, inflight, idleMtx, job, inline>>

(* A job that runs on a worker enqueues another one, also after m_stop. *)
JobPush(w, j) ==
  /\ wpc[w] = "run"
  /\ Push(j)
  /\ wpc' = [wpc EXCEPT ![w] = "notify"]
  /\ UNCHANGED <<config, stop, idleMtx, job, cpc, inline>>

MutJobNoNotify(w) ==         \* a nested enqueue() that wakes nobody
  /\ wpc[w] = "notify"
  /\ wpc' = [wpc EXCEPT ![w] = "run"]
  /\ UNCHANGED <<config, todo, queue, stop, inflight, idleMtx, job, cpc, inline>>

JobNotify(w) ==
  /\ wpc[w] = "notify"
  /\ NotifyOne([wpc EXCEPT ![w] = "run"])
  /\ UNCHANGED <<config, todo, queue, stop, inflight, idleMtx, job, cpc, inline>>

MutInlineNoReturn(c, j) ==    \* job(); without return;
  /\ Started = {}
  /\ cpc[c] = "out" /\ ~stop
  /\ Push(j)
  /\ inline' = [inline EXCEPT ![c] = Append(@, j)]
  /\ UNCHANGED <<config, stop, idleMtx, wpc, job, cpc>>

(* No workers: the job, and what it enqueues, runs in the caller.          *)
RunInline(c, j) ==
  /\ Started = {}
  /\ cpc[c] = "out" /\ ~stop
  /\ j \in todo
  /\ todo' = todo \ {j}
  /\ inline' = [inline EXCEPT ![c] = Append(@, j)]
  /\ UNCHANGED <<config, queue, stop, inflight, idleMtx, wpc, job, cpc>>

FinishInline(c) ==
  /\ inline[c] # << >>
  /\ inline' = [inline EXCEPT ![c] = SubSeq(@, 1, Len(@) - 1)]
  /\ UNCHANGED <<config, todo, queue, stop, inflight, idleMtx, wpc, job, cpc>>

-----------------------------------------------------------------------------
(* worker_loop_().                                                         *)

MutTakeUncounts(w, l) ==      \* fetch_sub when the job is taken out
  /\ wpc[w] = "top"
  /\ queue[l] # << >>
  /\ l = "User" => queue["Engine"] = << >>
  /\ job' = [job EXCEPT ![w] = Head(queue[l])]
  /\ queue' = [queue EXCEPT ![l] = Tail(@)]
  /\ inflight' = inflight - 1
  /\ wpc' = [wpc EXCEPT ![w] = "run"]
  /\ UNCHANGED <<config, todo, stop, idleMtx, cpc, inline>>

(* The Engine lane first. *)
Take(w, l) ==
  /\ wpc[w] = "top"
  /\ queue[l] # << >>
  /\ l = "User" => queue["Engine"] = << >>
  /\ job' = [job EXCEPT ![w] = Head(queue[l])]
  /\ queue' = [queue EXCEPT ![l] = Tail(@)]
  /\ wpc' = [wpc EXCEPT ![w] = "run"]
  /\ UNCHANGED <<config, todo, stop, inflight, idleMtx, cpc, inline>>

(* The predicate of m_cv is false: block. *)
Sleep(w) ==
  /\ wpc[w] = "top"
  /\ ~stop /\ NoJobQueued
  /\ wpc' = [wpc EXCEPT ![w] = "asleep"]
  /\ UNCHANGED <<config, todo, queue, stop, inflight, idleMtx, job, cpc, inline>>

MutExitAtOnce(w) ==           \* if (m_stop) return;
  /\ wpc[w] = "top"
  /\ stop
  /\ wpc' = [wpc EXCEPT ![w] = "exit"]
  /\ UNCHANGED <<config, todo, queue, stop, inflight, idleMtx, job, cpc, inline>>

Exit(w) ==
  /\ wpc[w] = "top"
  /\ stop /\ NoJobQueued
  /\ wpc' = [wpc EXCEPT ![w] = "exit"]
  /\ UNCHANGED <<config, todo, queue, stop, inflight, idleMtx, job, cpc, inline>>

(* job() returns: what follows, up to the fetch_sub, only this thread sees. *)
Finish(w) ==
  /\ wpc[w] = "run"
  /\ wpc' = [wpc EXCEPT ![w] = IF inflight = 1 THEN "idle" ELSE "top"]
  /\ inflight' = inflight - 1
  /\ job' = [job EXCEPT ![w] = None]
  /\ UNCHANGED <<config, todo, queue, stop, idleMtx, cpc, inline>>

MutNotifyIdleUnlocked(w) ==   \* notify_all() without m_idle_mtx
  /\ wpc[w] = "idle"
  /\ cpc' = [c \in Clients |-> IF cpc[c] = "asleep" THEN "lock" ELSE cpc[c]]
  /\ wpc' = [wpc EXCEPT ![w] = "top"]
  /\ UNCHANGED <<config, todo, queue, stop, inflight, idleMtx, job, inline>>

(* lock m_idle_mtx, m_idle_cv.notify_all(), unlock. *)
NotifyIdle(w) ==
  /\ wpc[w] = "idle"
  /\ idleMtx = None
  /\ cpc' = [c \in Clients |-> IF cpc[c] = "asleep" THEN "lock" ELSE cpc[c]]
  /\ wpc' = [wpc EXCEPT ![w] = "top"]
  /\ UNCHANGED <<config, todo, queue, stop, inflight, idleMtx, job, inline>>

(* A condition variable may wake a thread that nobody notified. *)
SpuriousWakeup ==
  /\ \/ \E w \in Workers : /\ wpc[w] = "asleep"
                           /\ wpc' = [wpc EXCEPT ![w] = "top"]
                           /\ UNCHANGED cpc
     \/ \E c \in Clients : /\ cpc[c] = "asleep"
                           /\ cpc' = [cpc EXCEPT ![c] = "lock"]
                           /\ UNCHANGED wpc
  /\ UNCHANGED <<config, todo, queue, stop, inflight, idleMtx, job, inline>>

-----------------------------------------------------------------------------
(* wait_idle(), called between jobs; never from inside a job, where it     *)
(* would wait for its own caller.                                          *)

CallWaitIdle(c) ==
  /\ cpc[c] = "out" /\ inline[c] = << >> /\ ~stop
  /\ cpc' = [cpc EXCEPT ![c] = "lock"]
  /\ UNCHANGED <<config, todo, queue, stop, inflight, idleMtx, wpc, job, inline>>

LockIdle(c) ==
  /\ cpc[c] = "lock"
  /\ idleMtx = None
  /\ idleMtx' = c
  /\ cpc' = [cpc EXCEPT ![c] = "check"]
  /\ UNCHANGED <<config, todo, queue, stop, inflight, wpc, job, inline>>

CheckIdle(c) ==
  /\ cpc[c] = "check"
  /\ \/ /\ inflight = 0
        /\ cpc' = [cpc EXCEPT ![c] = "out"]
        /\ idleMtx' = None
     \/ /\ inflight # 0
        /\ cpc' = [cpc EXCEPT ![c] = "block"]
        /\ UNCHANGED idleMtx
  /\ UNCHANGED <<config, todo, queue, stop, inflight, wpc, job, inline>>

BlockIdle(c) ==
  /\ cpc[c] = "block"
  /\ cpc' = [cpc EXCEPT ![c] = "asleep"]
  /\ idleMtx' = None
  /\ UNCHANGED <<config, todo, queue, stop, inflight, wpc, job, inline>>

-----------------------------------------------------------------------------
(* ~DefaultJobSystem(): no other client is inside a call by then.          *)

Stop ==
  /\ \A c \in Clients : cpc[c] = "out" /\ inline[c] = << >>
  /\ ~stop
  /\ stop' = TRUE
  /\ cpc' = [cpc EXCEPT ![Owner] = "stop_notify"]
  /\ UNCHANGED <<config, todo, queue, inflight, idleMtx, wpc, job, inline>>

MutStopNotifyOne ==           \* notify_one() in the destructor
  /\ cpc[Owner] = "stop_notify"
  /\ NotifyOne(wpc)
  /\ cpc' = [cpc EXCEPT ![Owner] = "join"]
  /\ UNCHANGED <<config, todo, queue, stop, inflight, idleMtx, job, inline>>

StopNotify ==
  /\ cpc[Owner] = "stop_notify"
  /\ wpc' = [w \in Workers |-> IF wpc[w] = "asleep" THEN "top" ELSE wpc[w]]
  /\ cpc' = [cpc EXCEPT ![Owner] = "join"]
  /\ UNCHANGED <<config, todo, queue, stop, inflight, idleMtx, job, inline>>

Join ==
  /\ cpc[Owner] = "join"
  /\ \A w \in Started : wpc[w] = "exit"
  /\ cpc' = [cpc EXCEPT ![Owner] = "gone"]
  /\ UNCHANGED <<config, todo, queue, stop, inflight, idleMtx, wpc, job, inline>>

-----------------------------------------------------------------------------
WorkerStep(w) ==
  \/ \E l \in Lanes : Take(w, l)
  \/ Sleep(w) \/ Exit(w) \/ JobNotify(w) \/ Finish(w) \/ NotifyIdle(w)

InCall(c) ==
  \/ ClientNotify(c) \/ FinishInline(c)
  \/ LockIdle(c) \/ CheckIdle(c) \/ BlockIdle(c)

(* A pool without workers belongs to a program of one thread: wait_idle()  *)
(* would not see a job that another thread is running inline.              *)
Callers == IF Started = {} THEN {Owner} ELSE Clients

Next ==
  \/ \E w \in Workers : WorkerStep(w) \/ \E j \in Jobs : JobPush(w, j)
  \/ \E c \in Callers : \/ InCall(c) \/ CallWaitIdle(c)
                        \/ \E j \in Jobs : ClientPush(c, j) \/ RunInline(c, j)
  \/ Stop \/ StopNotify \/ Join
  \/ SpuriousWakeup

Spec == Init /\ [][Next]_vars

-----------------------------------------------------------------------------
Busy == {w \in Workers : job[w] # None}
Queued(j) == \E l \in Lanes : \E i \in DOMAIN queue[l] : queue[l][i] = j
Unfinished(j) == \/ Queued(j) \/ \E w \in Workers : job[w] = j
                 \/ \E c \in Clients : \E i \in DOMAIN inline[c] : inline[c][i] = j

(* The pool does what JobPool promises: every job runs once, an Engine job *)
(* before any User job and in order within its lane, whoever enqueues it;  *)
(* wait_idle() returns only when every job enqueued so far has finished    *)
(* (JobSystem.hpp), those a running job enqueued meanwhile included; and   *)
(* the destructor ends only when the queues have been drained.             *)
Pool == INSTANCE JobPool WITH
  new <- todo, waiting <- queue,
  running <- {j \in Jobs : Unfinished(j) /\ ~Queued(j)},
  client <- [c \in Clients |->
               CASE cpc[c] \in {"lock", "check", "block", "asleep"} -> "in wait_idle"
                 [] cpc[c] \in {"stop_notify", "join"}              -> "in destructor"
                 [] cpc[c] = "gone"                                 -> "gone"
                 [] OTHER                                           -> "out"]
ImplementsJobPool == Pool!Spec

(* Without SMP the pool has no worker threads, and every job runs in the   *)
(* thread that enqueues it (job_system.cpp, RunLoopConfig).                *)
NoWorkersWithoutSmp == ~config.smp => Started = {}

(* No worker sleeps while there is work nobody was woken for: with a       *)
(* worker asleep, there are at least as many workers on their way to the   *)
(* queues, or notify_one() calls still to come, as there are queued jobs.  *)
(* enqueue() notifies outside m_mtx, so a job may be gone, or more may     *)
(* have come, when its own notification arrives.                           *)
WorkConserving ==
  (\E w \in Workers : wpc[w] = "asleep") =>
    Len(queue["Engine"]) + Len(queue["User"])
      <= Cardinality({w \in Workers : wpc[w] \in {"top", "idle", "notify"}})
         + Cardinality({c \in Clients : cpc[c] = "notify"})

(* The scheduler runs every thread that is not blocked, and every job      *)
(* returns.  Nobody has to start a call.  m_idle_mtx is not withheld from  *)
(* a thread for ever while others lock and unlock it over and over.        *)
FairSpec ==
  /\ Spec
  /\ \A w \in Workers : WF_vars(WorkerStep(w)) /\ SF_vars(NotifyIdle(w))
  /\ \A c \in Clients : WF_vars(InCall(c)) /\ SF_vars(LockIdle(c))
  /\ WF_vars(StopNotify \/ Join)

(* Every enqueued job is run to its end, also one a job enqueued after the *)
(* destructor had set m_stop.                                              *)
EveryJobFinishes == \A j \in Jobs : Unfinished(j) ~> ~Unfinished(j)

(* wait_idle() returns: the last decrement cannot fall between the test of *)
(* the predicate and the block without the waiter being notified.          *)
WaitIdleReturns ==
  \A c \in Clients : (cpc[c] \in {"lock", "check", "block", "asleep"}) ~> (cpc[c] = "out")

(* The destructor ends: it wakes every sleeping worker, none goes back to  *)
(* sleep, and none waits for a job that another one took.                  *)
DestructorReturns == stop ~> cpc[Owner] = "gone"
=============================================================================
