----------------------------- MODULE TaskGroup -----------------------------
(***************************************************************************)
(* Fork-join on top of the pool (include/framedot/core/Tasks.hpp).  An     *)
(* actor, the main thread or a task that runs, opens task groups one after *)
(* the other; in each it runs tasks and waits for them; the group dies     *)
(* when its scope ends.  The pool is the one JobPool describes, with no    *)
(* more jobs running than it has workers.                                  *)
(***************************************************************************)
EXTENDS Naturals, Sequences, FiniteSets

CONSTANTS
  WorkerCounts, \* how many workers the pool may have been built with
  Main,      \* the thread that is not a worker
  Tasks,     \* every task that is ever run
  Groups,    \* every TaskGroup object
  GroupOf,   \* the group each task is run in
  OwnerOf,   \* the actor whose scope holds the group
  LaneOf,    \* the lane of each task: that of its group
  None

Actors == {Main} \cup Tasks

ASSUME TreeAssumption ==
  /\ WorkerCounts \subseteq Nat
  /\ Main \notin Tasks
  /\ IsFiniteSet(Tasks)
  /\ GroupOf \in [Tasks -> Groups]
  /\ OwnerOf \in [Groups -> Actors]
  /\ LaneOf \in [Tasks -> {"Engine", "User"}]
  /\ None \notin Actors \cup Groups

VARIABLES
  workers,   \* worker_count(); 0: run() calls the task at once
  new, waiting, running,  \* the pool, as in JobPool
  pc,        \* where each actor is
  scope,     \* the group each actor has open, or None
  target,    \* run: the task being handed over
  inflight,  \* m_inflight of each group
  life,      \* of each group: "unborn", "alive" or "dead"
  mtx,       \* who holds m_mtx of each group across a step, or None
  ready      \* TaskValue::m_ready of each task, set when its function returns

pool == <<new, waiting, running>>
vars == <<workers, pool, pc, scope, target, inflight, life, mtx, ready>>

Pool == INSTANCE JobPool WITH Clients <- {}, Jobs <- Tasks, client <- << >>

PCs == {"none",                                         \* not started
        "body", "group", "enqueue", "inline",           \* its own code, run()
        "fast", "lock", "check", "block", "asleep",     \* wait()
        "waited",                                       \* wait() returned
        "done", "last", "stuck", "left", "gone"}        \* done_one_()

TypeOK ==
  /\ workers \in WorkerCounts
  /\ new \subseteq Tasks /\ running \subseteq Tasks
  /\ waiting \in [{"Engine", "User"} -> Seq(Tasks)]
  /\ pc \in [Actors -> PCs]
  /\ scope \in [Actors -> Groups \cup {None}]
  /\ target \in [Actors -> Tasks \cup {None}]
  /\ inflight \in [Groups -> Nat]
  /\ life \in [Groups -> {"unborn", "alive", "dead"}]
  /\ mtx \in [Groups -> Actors \cup {None}]
  /\ ready \in [Tasks -> BOOLEAN]

Init ==
  /\ workers \in WorkerCounts
  /\ Pool!Init
  /\ pc = [a \in Actors |-> IF a = Main THEN "body" ELSE "none"]
  /\ scope = [a \in Actors |-> None]
  /\ target = [a \in Actors |-> None]
  /\ inflight = [g \in Groups |-> 0]
  /\ life = [g \in Groups |-> "unborn"]
  /\ mtx = [g \in Groups |-> None]
  /\ ready = [t \in Tasks |-> FALSE]

Goto(a, there) == pc' = [pc EXCEPT ![a] = there]

-----------------------------------------------------------------------------
(* The scope of a group, and run().                                        *)

Open(a, g) ==
  /\ pc[a] = "body"
  /\ OwnerOf[g] = a /\ life[g] = "unborn"
  /\ life' = [life EXCEPT ![g] = "alive"]
  /\ scope' = [scope EXCEPT ![a] = g]
  /\ Goto(a, "group")
  /\ UNCHANGED <<workers, pool, target, inflight, mtx, ready>>

MutRunUncounted(a, t) ==      \* enqueue() without m_inflight.fetch_add()
  /\ pc[a] \in {"group", "waited"}
  /\ workers > 0
  /\ t \in new /\ GroupOf[t] = scope[a]
  /\ target' = [target EXCEPT ![a] = t]
  /\ Goto(a, "enqueue")
  /\ UNCHANGED <<workers, pool, scope, inflight, life, mtx, ready>>

(* parallel_ok(): m_inflight is incremented first, *)
RunCount(a, t) ==
  /\ pc[a] \in {"group", "waited"}
  /\ workers > 0
  /\ t \in new /\ GroupOf[t] = scope[a]
  /\ inflight' = [inflight EXCEPT ![scope[a]] = @ + 1]
  /\ target' = [target EXCEPT ![a] = t]
  /\ Goto(a, "enqueue")
  /\ UNCHANGED <<workers, pool, scope, life, mtx, ready>>

(* and then the task is handed to the pool. *)
RunEnqueue(a) ==
  /\ pc[a] = "enqueue"
  /\ Pool!Enqueue(target[a])
  /\ Goto(a, "group")
  /\ UNCHANGED <<workers, scope, target, inflight, life, mtx, ready>>

(* No workers: the function is called in place, and nothing is counted. *)
RunInline(a, t) ==
  /\ pc[a] \in {"group", "waited"}
  /\ workers = 0
  /\ t \in new /\ GroupOf[t] = scope[a]
  /\ Pool!RunInline(t)
  /\ target' = [target EXCEPT ![a] = t]
  /\ pc' = [pc EXCEPT ![a] = "inline", ![t] = "body"]
  /\ UNCHANGED <<workers, scope, inflight, life, mtx, ready>>

ReturnInline(a) ==
  /\ pc[a] = "inline" /\ pc[target[a]] = "gone"
  /\ Goto(a, "group")
  /\ UNCHANGED <<workers, pool, scope, target, inflight, life, mtx, ready>>

-----------------------------------------------------------------------------
(* wait(), explicit or from the destructor.                                *)

WaitFast(a) ==
  /\ pc[a] = "group"
  /\ Goto(a, IF inflight[scope[a]] = 0 THEN "waited" ELSE "lock")
  /\ UNCHANGED <<workers, pool, scope, target, inflight, life, mtx, ready>>

LockGroup(a) ==
  /\ pc[a] = "lock" /\ mtx[scope[a]] = None
  /\ mtx' = [mtx EXCEPT ![scope[a]] = a]
  /\ Goto(a, "check")
  /\ UNCHANGED <<workers, pool, scope, target, inflight, life, ready>>

MutCheckOnce(a) ==             \* m_cv.wait(lock) without the predicate
  /\ pc[a] = "check"
  /\ mtx' = [mtx EXCEPT ![scope[a]] = None]
  /\ Goto(a, "waited")
  /\ UNCHANGED <<workers, pool, scope, target, inflight, life, ready>>

CheckGroup(a) ==
  /\ pc[a] = "check"
  /\ \/ /\ inflight[scope[a]] = 0
        /\ mtx' = [mtx EXCEPT ![scope[a]] = None]
        /\ Goto(a, "waited")
     \/ /\ inflight[scope[a]] # 0
        /\ Goto(a, "block")
        /\ UNCHANGED mtx
  /\ UNCHANGED <<workers, pool, scope, target, inflight, life, ready>>

BlockGroup(a) ==
  /\ pc[a] = "block"
  /\ mtx' = [mtx EXCEPT ![scope[a]] = None]
  /\ Goto(a, "asleep")
  /\ UNCHANGED <<workers, pool, scope, target, inflight, life, ready>>

(* The scope ends: the wait() of the destructor has found nothing to wait  *)
(* for, and the mutex and the condition variable are destroyed.            *)
Destroy(a) ==
  /\ pc[a] = "waited"
  /\ life' = [life EXCEPT ![scope[a]] = "dead"]
  /\ scope' = [scope EXCEPT ![a] = None]
  /\ Goto(a, "body")
  /\ UNCHANGED <<workers, pool, target, inflight, mtx, ready>>

-----------------------------------------------------------------------------
(* A task: started by the pool, its function, done_one_().                 *)

StartTask(t) ==
  /\ Cardinality(running) < workers
  /\ \E l \in {"Engine", "User"} : waiting[l] # << >> /\ Head(waiting[l]) = t /\ Pool!Start(l)
  /\ Goto(t, "body")
  /\ UNCHANGED <<workers, scope, target, inflight, life, mtx, ready>>

(* The function returns, every scope in it being closed; run_value() sets  *)
(* the TaskValue.                                                          *)
ReturnFunction(t) ==
  /\ pc[t] = "body"
  /\ ready' = [ready EXCEPT ![t] = TRUE]
  /\ Goto(t, IF workers = 0 THEN "left" ELSE "done")
  /\ UNCHANGED <<workers, pool, scope, target, inflight, life, mtx>>

Decrement(t) ==
  /\ pc[t] = "done"
  /\ inflight' = [inflight EXCEPT ![GroupOf[t]] = @ - 1]
  /\ Goto(t, IF inflight[GroupOf[t]] = 1 THEN "last" ELSE "left")
  /\ UNCHANGED <<workers, pool, scope, target, life, mtx, ready>>

MutNotifyUnlocked(t) ==        \* notify_all() without m_mtx
  /\ pc[t] = "last"
  /\ life[GroupOf[t]] = "alive"
  /\ pc' = [a \in Actors |->
              CASE a = t                                          -> "left"
                [] pc[a] = "asleep" /\ scope[a] = GroupOf[t] -> "lock"
                [] OTHER                                          -> pc[a]]
  /\ UNCHANGED <<workers, pool, scope, target, inflight, life, mtx, ready>>

(* lock m_mtx, m_cv.notify_all(), unlock. *)
NotifyGroup(t) ==
  /\ pc[t] = "last"
  /\ life[GroupOf[t]] = "alive" /\ mtx[GroupOf[t]] = None
  /\ pc' = [a \in Actors |->
              CASE a = t                                          -> "left"
                [] pc[a] = "asleep" /\ scope[a] = GroupOf[t] -> "lock"
                [] OTHER                                          -> pc[a]]
  /\ UNCHANGED <<workers, pool, scope, target, inflight, life, mtx, ready>>

(* The same on a group that is dead is undefined: as long as its memory    *)
(* has not been used again nothing happens, otherwise the thread may wait  *)
(* for a lock word that nobody will ever reset.                            *)
NotifyDeadGroup(t) ==
  /\ pc[t] = "last"
  /\ life[GroupOf[t]] = "dead"
  /\ Goto(t, "left") \/ Goto(t, "stuck")
  /\ UNCHANGED <<workers, pool, scope, target, inflight, life, mtx, ready>>

LeaveTask(t) ==
  /\ pc[t] = "left"
  /\ Pool!Finish(t)
  /\ Goto(t, "gone")
  /\ UNCHANGED <<workers, scope, target, inflight, life, mtx, ready>>

SpuriousWakeup(a) ==
  /\ pc[a] = "asleep"
  /\ Goto(a, "lock")
  /\ UNCHANGED <<workers, pool, scope, target, inflight, life, mtx, ready>>

-----------------------------------------------------------------------------
Step(a) ==
  \/ \E g \in Groups : Open(a, g)
  \/ \E t \in Tasks : RunCount(a, t) \/ RunInline(a, t)
  \/ RunEnqueue(a) \/ ReturnInline(a)
  \/ WaitFast(a) \/ LockGroup(a) \/ CheckGroup(a) \/ BlockGroup(a)
  \/ Destroy(a)

TaskStep(t) ==
  \/ StartTask(t) \/ ReturnFunction(t) \/ Decrement(t)
  \/ NotifyGroup(t) \/ NotifyDeadGroup(t) \/ LeaveTask(t)

Next ==
  \/ \E a \in Actors : Step(a) \/ SpuriousWakeup(a)
  \/ \E t \in Tasks : TaskStep(t)

Spec == Init /\ [][Next]_vars

(* Every thread that is not blocked runs, functions return, scopes end and *)
(* spurious wakeups do not go on for ever: each takes m_mtx for a moment,  *)
(* always when the worker that notifies looks at it if it comes to that.   *)
FairSpec ==
  /\ Spec
  /\ \A a \in Actors : WF_vars(Step(a))
  /\ \A t \in Tasks : WF_vars(TaskStep(t))
  /\ <>[][~ \E a \in Actors : SpuriousWakeup(a)]_vars

-----------------------------------------------------------------------------
(* When wait() has returned, and after the scope has ended, every task the *)
(* group was given has returned and its TaskValue may be read; the tasks   *)
(* these ran in groups of their own included.  The count is incremented by *)
(* the owner and decremented by workers, before and after the owner blocks.*)
Joined(g) == \/ life[g] = "dead"
             \/ \E a \in Actors : scope[a] = g /\ pc[a] = "waited"
JoinIsComplete ==
  \A t \in Tasks : Joined(GroupOf[t]) /\ t \notin new => ready[t]

(* A worker never touches a group whose scope has ended (Tasks.hpp: the    *)
(* group waits by itself when it leaves its scope).                        *)
NoUseAfterScope ==
  \A t \in Tasks : pc[t] = "last" => life[GroupOf[t]] = "alive"

(* wait() returns, unless a worker was lost in the memory of a dead group. *)
WaitReturns ==
  \A a \in Actors :
    (pc[a] \in {"lock", "check", "block", "asleep"})
      ~> (pc[a] = "waited" \/ \E t \in Tasks : pc[t] = "stuck")
=============================================================================
