-------------------------- MODULE TaskGroupProofs --------------------------
(***************************************************************************)
(* Fork-join for any tree of tasks and groups and any number of workers:   *)
(* type correctness, and that a join is complete.                          *)
(***************************************************************************)
EXTENDS TaskGroup, FiniteSetTheorems, SequenceTheorems, TLAPS

(* Where an actor is while a group of its own is open.                     *)
InScope == {"group", "enqueue", "inline", "fast", "lock", "check", "block", "asleep", "waited"}

(* Where a task is when its function has returned.                         *)
Returned == {"done", "last", "stuck", "left", "gone"}

(* An open group is alive and belongs to the actor that has it open, so no *)
(* two actors have the same one open.                                      *)
ScopeInv ==
  \A a \in Actors :
    /\ pc[a] \in InScope => /\ scope[a] \in Groups
                            /\ OwnerOf[scope[a]] = a /\ life[scope[a]] = "alive"
    /\ pc[a] \notin InScope => scope[a] = None

(* The task an actor is about to hand over, or is running in place, is one *)
(* of the group it has open.                                               *)
TargetInv ==
  \A a \in Actors :
    /\ pc[a] = "enqueue" => /\ workers > 0
                            /\ target[a] \in new /\ GroupOf[target[a]] = scope[a]
    /\ pc[a] = "inline" => /\ workers = 0
                           /\ target[a] \in Tasks \ new /\ GroupOf[target[a]] = scope[a]

(* Until it is started a task does nothing, and it is queued once.         *)
PoolInv ==
  /\ \A t \in new : pc[t] = "none"
  /\ \A l \in Pool!Lanes : \A i \in DOMAIN waiting[l] :
       waiting[l][i] \notin new /\ pc[waiting[l][i]] = "none"
  /\ \A l, m \in Pool!Lanes : \A i \in DOMAIN waiting[l], k \in DOMAIN waiting[m] :
       waiting[l][i] = waiting[m][k] => l = m /\ i = k

(* A function that has returned has set its TaskValue.  Without workers the*)
(* caller is still there when it has not.                                  *)
ReadyInv ==
  /\ \A t \in Tasks : pc[t] \in Returned => ready[t]
  /\ workers = 0 => \A t \in Tasks \ new :
                      ready[t] \/ \E a \in Actors : pc[a] = "inline" /\ target[a] = t

(* A task is counted in m_inflight from just before it is handed over until*)
(* it has decremented it.                                                  *)
Counted(t) ==
  IF t \in new THEN \E a \in Actors : pc[a] = "enqueue" /\ target[a] = t
  ELSE pc[t] \notin {"last", "stuck", "left", "gone"}

Outstanding(g) == {t \in Tasks : GroupOf[t] = g /\ Counted(t)}

CountInv ==
  \A g \in Groups : inflight[g] = IF workers = 0 THEN 0 ELSE Cardinality(Outstanding(g))

(* Without workers nothing is ever counted.                                *)
UncountedInv == workers = 0 => \A t \in Tasks : pc[t] \notin {"done", "last"}

(* wait() returns with a count of 0, and the count of a dead group stays 0.*)
JoinInv ==
  /\ \A a \in Actors : pc[a] = "waited" => inflight[scope[a]] = 0
  /\ \A g \in Groups : life[g] = "dead" => inflight[g] = 0

IInv == /\ TypeOK /\ ScopeInv /\ TargetInv /\ PoolInv /\ ReadyInv
        /\ CountInv /\ UncountedInv /\ JoinInv

-----------------------------------------------------------------------------
(* Lemmas about single steps.                                              *)

(* Goto moves one actor.                                                   *)
LEMMA GotoEffect ==
  ASSUME TypeOK, NEW a \in Actors, NEW there \in PCs, Goto(a, there)
  PROVE  /\ pc' \in [Actors -> PCs]
         /\ pc'[a] = there
         /\ \A b \in Actors : b # a => pc'[b] = pc[b]
  BY DEF TypeOK, Goto

(* notify_all() sends those who sleep on the group back to the lock.       *)
LEMMA NotifyEffect ==
  ASSUME TypeOK, NEW t \in Tasks, NotifyGroup(t)
  PROVE  /\ pc' \in [Actors -> PCs]
         /\ pc'[t] = "left"
         /\ \A b \in Actors :
              b # t => \/ pc'[b] = pc[b]
                       \/ pc[b] = "asleep" /\ pc'[b] = "lock"
<1>1. pc' = [a \in Actors |->
               CASE a = t                                     -> "left"
                 [] pc[a] = "asleep" /\ scope[a] = GroupOf[t] -> "lock"
                 [] OTHER                                     -> pc[a]]
  BY DEF NotifyGroup
<1>2. t \in Actors /\ pc'[t] = "left"
  <2>1. t \in Actors
    BY DEF Actors
  <2>2. pc[t] # "asleep"
    BY DEF NotifyGroup
  <2> QED
    BY <1>1, <2>1, <2>2
<1>3. ASSUME NEW b \in Actors, b # t
      PROVE  \/ pc'[b] = pc[b]
             \/ pc[b] = "asleep" /\ pc'[b] = "lock"
  BY <1>1, <1>3
<1>4. ASSUME NEW b \in Actors PROVE pc'[b] \in PCs
  BY <1>2, <1>3 DEF TypeOK, PCs
<1>5. pc' \in [Actors -> PCs]
  BY <1>1, <1>4
<1> QED
  BY <1>2, <1>3, <1>5

(* No group has two actors in its scope.                                   *)
LEMMA ScopeIsOwned ==
  ASSUME ScopeInv, NEW a \in Actors, NEW b \in Actors, pc[a] \in InScope,
         scope[a] = scope[b]
  PROVE  a = b
<1>1. scope[a] \in Groups /\ OwnerOf[scope[a]] = a
  BY DEF ScopeInv
<1>2. scope[b] # None
  BY <1>1, TreeAssumption
<1>3. pc[b] \in InScope /\ OwnerOf[scope[b]] = b
  BY <1>2 DEF ScopeInv
<1> QED
  BY <1>1, <1>3

(* The tasks counted in a group are finitely many.                         *)
LEMMA OutstandingFinite ==
  ASSUME NEW g \in Groups
  PROVE  IsFiniteSet(Outstanding(g)) /\ Cardinality(Outstanding(g)) \in Nat
<1>1. IsFiniteSet(Tasks) /\ Outstanding(g) \subseteq Tasks
  BY TreeAssumption DEF Outstanding
<1>2. IsFiniteSet(Outstanding(g))
  BY <1>1, FS_Subset
<1> QED
  BY <1>2, FS_CardinalityType

(* A task that decrements is counted, so m_inflight is at least 1.         *)
LEMMA DecrementPositive ==
  ASSUME IInv, NEW t \in Tasks, Decrement(t)
  PROVE  /\ workers > 0 /\ t \notin new /\ GroupOf[t] \in Groups
         /\ t \in Outstanding(GroupOf[t])
         /\ inflight[GroupOf[t]] = Cardinality(Outstanding(GroupOf[t]))
         /\ inflight[GroupOf[t]] \in Nat \ {0}
<1>1. GroupOf[t] \in Groups /\ workers \in Nat
  BY TreeAssumption DEF IInv, TypeOK
<1>2. pc[t] = "done"
  BY DEF Decrement
<1>3. workers > 0
  BY <1>1, <1>2 DEF IInv, UncountedInv
<1>4. t \notin new
  BY <1>2 DEF IInv, PoolInv
<1>5. t \in Outstanding(GroupOf[t])
  BY <1>2, <1>4 DEF Outstanding, Counted
<1>6. inflight[GroupOf[t]] = Cardinality(Outstanding(GroupOf[t]))
  BY <1>1, <1>3 DEF IInv, CountInv
<1>7. Cardinality(Outstanding(GroupOf[t])) # 0
  BY <1>1, <1>5, OutstandingFinite, FS_EmptySet
<1> QED
  BY <1>1, <1>3, <1>4, <1>5, <1>6, <1>7, OutstandingFinite

(* RunEnqueue appends the task to its lane.                                *)
LEMMA EnqueuedLanes ==
  ASSUME TypeOK, NEW t \in Tasks, Pool!Enqueue(t)
  PROVE  /\ waiting' \in [Pool!Lanes -> Seq(Tasks)]
         /\ \A l \in Pool!Lanes : \A i \in DOMAIN waiting'[l] :
              \/ i \in DOMAIN waiting[l] /\ waiting'[l][i] = waiting[l][i]
              \/ l = LaneOf[t] /\ i = Len(waiting[l]) + 1 /\ waiting'[l][i] = t
<1>1. /\ waiting \in [Pool!Lanes -> Seq(Tasks)] /\ LaneOf[t] \in Pool!Lanes
      /\ waiting' = [waiting EXCEPT ![LaneOf[t]] = Append(@, t)]
  BY TreeAssumption DEF TypeOK, Pool!Enqueue, Pool!Lanes
<1>2. ASSUME NEW q \in Seq(Tasks)
      PROVE  /\ Append(q, t) \in Seq(Tasks)
             /\ \A i \in DOMAIN Append(q, t) :
                  \/ i \in DOMAIN q /\ Append(q, t)[i] = q[i]
                  \/ i = Len(q) + 1 /\ Append(q, t)[i] = t
  <2>1. /\ Append(q, t) \in Seq(Tasks) /\ Len(Append(q, t)) = Len(q) + 1
        /\ \A i \in 1 .. Len(q) : Append(q, t)[i] = q[i]
        /\ Append(q, t)[Len(q) + 1] = t
    BY AppendProperties
  <2>2. DOMAIN q = 1 .. Len(q) /\ DOMAIN Append(q, t) = 1 .. Len(q) + 1 /\ Len(q) \in Nat
    BY <2>1, LenProperties
  <2>3. \A i \in 1 .. Len(q) + 1 : i \in 1 .. Len(q) \/ i = Len(q) + 1
    BY <2>2
  <2> QED
    BY <2>1, <2>2, <2>3
<1>3. waiting' \in [Pool!Lanes -> Seq(Tasks)]
  BY <1>1, <1>2
<1>4. ASSUME NEW l \in Pool!Lanes, NEW i \in DOMAIN waiting'[l]
      PROVE  \/ i \in DOMAIN waiting[l] /\ waiting'[l][i] = waiting[l][i]
             \/ l = LaneOf[t] /\ i = Len(waiting[l]) + 1 /\ waiting'[l][i] = t
  <2>1. CASE l = LaneOf[t]
    <3>1. waiting[l] \in Seq(Tasks) /\ waiting'[l] = Append(waiting[l], t)
      BY <1>1, <2>1
    <3> QED
      BY <1>2, <1>4, <2>1, <3>1
  <2>2. CASE l # LaneOf[t]
    BY <1>1, <1>4, <2>2
  <2> QED
    BY <2>1, <2>2
<1> QED
  BY <1>3, <1>4

(* StartTask takes the first task of a lane; the others move up by one.    *)
LEMMA StartedLanes ==
  ASSUME TypeOK, NEW t \in Tasks, StartTask(t)
  PROVE  \E m \in Pool!Lanes :
           /\ waiting' \in [Pool!Lanes -> Seq(Tasks)]
           /\ 1 \in DOMAIN waiting[m] /\ waiting[m][1] = t
           /\ running' = running \cup {t} /\ new' = new
           /\ \A l \in Pool!Lanes : \A i \in DOMAIN waiting'[l] :
                LET k == IF l = m THEN i + 1 ELSE i
                IN  /\ k \in DOMAIN waiting[l] /\ waiting'[l][i] = waiting[l][k]
                    /\ l = m => k # 1
<1>1. waiting \in [Pool!Lanes -> Seq(Tasks)]
  BY DEF TypeOK, Pool!Lanes
<1>2. PICK m \in Pool!Lanes : waiting[m] # << >> /\ Head(waiting[m]) = t /\ Pool!Start(m)
  BY DEF StartTask, Pool!Lanes
<1>3. waiting' = [waiting EXCEPT ![m] = Tail(@)] /\ running' = running \cup {t} /\ new' = new
  BY <1>2 DEF Pool!Start
<1> DEFINE q == waiting[m]
<1>4. q \in Seq(Tasks) /\ q # << >>
  BY <1>1, <1>2
<1>5. /\ Head(q) = q[1] /\ Tail(q) \in Seq(Tasks) /\ Len(Tail(q)) = Len(q) - 1
      /\ \A i \in 1 .. Len(Tail(q)) : Tail(q)[i] = q[i + 1]
  BY <1>4, HeadTailProperties
<1>6. /\ DOMAIN q = 1 .. Len(q) /\ DOMAIN Tail(q) = 1 .. Len(q) - 1
      /\ Len(q) \in Nat \ {0}
  BY <1>4, <1>5, LenProperties, EmptySeq
<1>7. \A i \in DOMAIN Tail(q) : i + 1 \in DOMAIN q /\ Tail(q)[i] = q[i + 1] /\ i + 1 # 1
  <2> HIDE DEF q
  <2> QED
    BY <1>5, <1>6
<1>8. 1 \in DOMAIN q /\ q[1] = t
  BY <1>2, <1>5, <1>6
<1>9. waiting' \in [Pool!Lanes -> Seq(Tasks)]
  BY <1>1, <1>3, <1>5
<1>10. \A l \in Pool!Lanes : l # m => waiting'[l] = waiting[l]
  BY <1>1, <1>3
<1>11. waiting'[m] = Tail(q)
  BY <1>1, <1>3
<1>12. ASSUME NEW l \in Pool!Lanes, NEW i \in DOMAIN waiting'[l]
       PROVE  LET k == IF l = m THEN i + 1 ELSE i
              IN  /\ k \in DOMAIN waiting[l] /\ waiting'[l][i] = waiting[l][k]
                  /\ l = m => k # 1
  <2>1. CASE l = m
    BY <1>7, <1>11, <1>12, <2>1
  <2>2. CASE l # m
    BY <1>10, <1>12, <2>2
  <2> QED
    BY <2>1, <2>2
<1> QED
  BY <1>2, <1>3, <1>8, <1>9, <1>12

(* The steps of wait(), and the two ways of a last task to leave.          *)
Waits(a) == WaitFast(a) \/ LockGroup(a) \/ CheckGroup(a) \/ BlockGroup(a) \/ SpuriousWakeup(a)
Notifies(t) == NotifyGroup(t) \/ NotifyDeadGroup(t)

(* Waiting changes what the waiter does next and who holds the lock; it     *)
(* starts no task and ends none.                                            *)
LEMMA WaitsEffect ==
  ASSUME TypeOK, NEW a \in Actors, Waits(a)
  PROVE  /\ pc[a] \in {"group", "lock", "check", "block", "asleep"}
         /\ pc' \in [Actors -> PCs]
         /\ pc'[a] \in {"waited", "lock", "check", "block", "asleep"}
         /\ pc'[a] = "waited" => inflight[scope[a]] = 0
         /\ \A b \in Actors : b # a => pc'[b] = pc[b]
         /\ mtx' \in [Groups -> Actors \cup {None}]
         /\ UNCHANGED <<workers, new, waiting, running, scope, target, inflight, life, ready>>
<1> USE DEF pool
<1>1. CASE WaitFast(a)
  <2>1. CASE inflight[scope[a]] = 0
    BY <1>1, <2>1, GotoEffect DEF WaitFast, TypeOK, PCs
  <2>2. CASE inflight[scope[a]] # 0
    BY <1>1, <2>2, GotoEffect DEF WaitFast, TypeOK, PCs
  <2> QED
    BY <2>1, <2>2
<1>2. CASE LockGroup(a)
  BY <1>2, GotoEffect DEF LockGroup, TypeOK, PCs
<1>3. CASE CheckGroup(a)
  <2>1. CASE inflight[scope[a]] = 0
    BY <1>3, <2>1, GotoEffect DEF CheckGroup, TypeOK, PCs
  <2>2. CASE inflight[scope[a]] # 0
    BY <1>3, <2>2, GotoEffect DEF CheckGroup, TypeOK, PCs
  <2> QED
    BY <2>1, <2>2
<1>4. CASE BlockGroup(a)
  BY <1>4, GotoEffect DEF BlockGroup, TypeOK, PCs
<1>5. CASE SpuriousWakeup(a)
  BY <1>5, GotoEffect DEF SpuriousWakeup, TypeOK, PCs
<1> QED
  BY <1>1, <1>2, <1>3, <1>4, <1>5 DEF Waits

(* What the last task does under the group's mutex, or to a dead group.    *)
LEMMA NotifiesEffect ==
  ASSUME TypeOK, NEW t \in Tasks, Notifies(t)
  PROVE  /\ pc[t] = "last" /\ t \in Actors
         /\ pc' \in [Actors -> PCs]
         /\ pc'[t] \in {"left", "stuck"}
         /\ \A b \in Actors :
              b # t => \/ pc'[b] = pc[b]
                       \/ pc[b] = "asleep" /\ pc'[b] = "lock"
         /\ UNCHANGED <<workers, new, waiting, running, scope, target, inflight, life, mtx, ready>>
<1>1. t \in Actors
  BY DEF Actors
<1>2. CASE NotifyGroup(t)
  BY <1>1, <1>2, NotifyEffect DEF NotifyGroup, pool
<1>3. CASE NotifyDeadGroup(t)
  BY <1>1, <1>3, GotoEffect DEF NotifyDeadGroup, pool, PCs
<1> QED
  BY <1>2, <1>3 DEF Notifies

(* RunInline moves two actors: the task begins where its caller stands.    *)
LEMMA InlineEffect ==
  ASSUME TypeOK, PoolInv, NEW a \in Actors, NEW t \in Tasks, RunInline(a, t)
  PROVE  /\ t \in Actors /\ t # a /\ pc[t] = "none"
         /\ pc' \in [Actors -> PCs]
         /\ pc'[a] = "inline" /\ pc'[t] = "body"
         /\ \A b \in Actors : b # a /\ b # t => pc'[b] = pc[b]
         /\ new' = new \ {t} /\ waiting' = waiting /\ running' = running \cup {t}
<1>1. t \in Actors /\ pc[t] = "none"
  BY DEF Actors, RunInline, PoolInv
<1>2. t # a /\ pc' = [pc EXCEPT ![a] = "inline", ![t] = "body"]
  BY <1>1 DEF RunInline
<1>3. new' = new \ {t} /\ waiting' = waiting /\ running' = running \cup {t}
  BY DEF RunInline, Pool!RunInline
<1> QED
  BY <1>1, <1>2, <1>3 DEF TypeOK, PCs

(* A task that is started has done nothing before.                         *)
LEMMA StartEffect ==
  ASSUME TypeOK, PoolInv, NEW t \in Tasks, StartTask(t)
  PROVE  /\ t \in Actors /\ pc[t] = "none" /\ t \notin new
         /\ pc' \in [Actors -> PCs]
         /\ pc'[t] = "body"
         /\ \A b \in Actors : b # t => pc'[b] = pc[b]
         /\ new' = new
<1>1. PICK m \in Pool!Lanes : 1 \in DOMAIN waiting[m] /\ waiting[m][1] = t /\ new' = new
  BY StartedLanes
<1>2. pc[t] = "none" /\ t \notin new
  BY <1>1 DEF PoolInv
<1>3. t \in Actors /\ Goto(t, "body")
  BY DEF Actors, StartTask
<1> QED
  BY <1>1, <1>2, <1>3, GotoEffect DEF PCs

(* Next, with the steps that disturb the same things taken together.       *)
LEMMA StepCases ==
  [Next]_vars =>
    \/ \E a \in Actors : Waits(a)
    \/ \E a \in Actors : ReturnInline(a)
    \/ \E a \in Actors : RunEnqueue(a)
    \/ \E a \in Actors : Destroy(a)
    \/ \E a \in Actors, g \in Groups : Open(a, g)
    \/ \E a \in Actors, t \in Tasks : RunCount(a, t)
    \/ \E a \in Actors, t \in Tasks : RunInline(a, t)
    \/ \E t \in Tasks : StartTask(t)
    \/ \E t \in Tasks : ReturnFunction(t)
    \/ \E t \in Tasks : Decrement(t)
    \/ \E t \in Tasks : Notifies(t)
    \/ \E t \in Tasks : LeaveTask(t)
    \/ UNCHANGED vars
<1>1. ASSUME NEW a \in Actors, Step(a)
      PROVE  \/ Waits(a) \/ ReturnInline(a) \/ RunEnqueue(a) \/ Destroy(a)
             \/ \E g \in Groups : Open(a, g)
             \/ \E t \in Tasks : RunCount(a, t)
             \/ \E t \in Tasks : RunInline(a, t)
  BY <1>1 DEF Step, Waits
<1>2. ASSUME NEW a \in Actors, SpuriousWakeup(a) PROVE Waits(a)
  BY <1>2 DEF Waits
<1>3. ASSUME NEW t \in Tasks, TaskStep(t)
      PROVE  \/ StartTask(t) \/ ReturnFunction(t) \/ Decrement(t)
             \/ Notifies(t) \/ LeaveTask(t)
  BY <1>3 DEF TaskStep, Notifies
<1> QED
  BY <1>1, <1>2, <1>3 DEF Next

-----------------------------------------------------------------------------
(* Each step preserves each part of the invariant.                         *)

(* Every step keeps the types; the decrement does not go below 0.          *)
LEMMA TypeStep == ASSUME IInv, [Next]_vars PROVE TypeOK'
<1> USE DEF IInv
<1>1. ASSUME NEW a \in Actors, Waits(a) PROVE TypeOK'
  BY <1>1, WaitsEffect DEF TypeOK
<1>2. ASSUME NEW a \in Actors, ReturnInline(a) PROVE TypeOK'
  BY <1>2, GotoEffect DEF ReturnInline, TypeOK, PCs, pool
<1>3. ASSUME NEW a \in Actors, RunEnqueue(a) PROVE TypeOK'
  <2>1. target[a] \in Tasks /\ Pool!Enqueue(target[a])
    BY <1>3 DEF RunEnqueue, TargetInv, TypeOK
  <2>2. waiting' \in [Pool!Lanes -> Seq(Tasks)] /\ new' \subseteq Tasks /\ running' = running
    BY <2>1, EnqueuedLanes DEF TypeOK, Pool!Enqueue
  <2>3. pc' \in [Actors -> PCs]
    BY <1>3, GotoEffect DEF RunEnqueue, PCs
  <2> QED
    BY <1>3, <2>2, <2>3 DEF RunEnqueue, TypeOK, Pool!Lanes
<1>4. ASSUME NEW a \in Actors, Destroy(a) PROVE TypeOK'
  <2>1. pc' \in [Actors -> PCs]
    BY <1>4, GotoEffect DEF Destroy, PCs
  <2> QED
    BY <1>4, <2>1 DEF Destroy, TypeOK, pool
<1>5. ASSUME NEW a \in Actors, NEW g \in Groups, Open(a, g) PROVE TypeOK'
  <2>1. pc' \in [Actors -> PCs]
    BY <1>5, GotoEffect DEF Open, PCs
  <2> QED
    BY <1>5, <2>1 DEF Open, TypeOK, pool
<1>6. ASSUME NEW a \in Actors, NEW t \in Tasks, RunCount(a, t) PROVE TypeOK'
  <2>1. pc' \in [Actors -> PCs]
    BY <1>6, GotoEffect DEF RunCount, PCs
  <2>2. scope[a] \in Groups
    BY <1>6, TreeAssumption DEF RunCount
  <2>3. inflight' \in [Groups -> Nat]
    BY <1>6, <2>2 DEF RunCount, TypeOK
  <2> QED
    BY <1>6, <2>1, <2>3 DEF RunCount, TypeOK, pool
<1>7. ASSUME NEW a \in Actors, NEW t \in Tasks, RunInline(a, t) PROVE TypeOK'
  <2>1. /\ pc' \in [Actors -> PCs]
        /\ new' = new \ {t} /\ waiting' = waiting /\ running' = running \cup {t}
    BY <1>7, InlineEffect
  <2>2. target' \in [Actors -> Tasks \cup {None}]
    BY <1>7 DEF RunInline, TypeOK
  <2> QED
    BY <1>7, <2>1, <2>2 DEF RunInline, TypeOK
<1>8. ASSUME NEW t \in Tasks, StartTask(t) PROVE TypeOK'
  BY <1>8, StartEffect, StartedLanes DEF StartTask, TypeOK, Pool!Lanes
<1>9. ASSUME NEW t \in Tasks, ReturnFunction(t) PROVE TypeOK'
  <2>1. t \in Actors
    BY DEF Actors
  <2>2. pc' \in [Actors -> PCs]
    BY <1>9, <2>1, GotoEffect DEF ReturnFunction, PCs
  <2> QED
    BY <1>9, <2>2 DEF ReturnFunction, TypeOK, pool
<1>10. ASSUME NEW t \in Tasks, Decrement(t) PROVE TypeOK'
  <2>1. t \in Actors
    BY DEF Actors
  <2>2. pc' \in [Actors -> PCs]
    BY <1>10, <2>1, GotoEffect DEF Decrement, PCs
  <2>3. inflight' = [inflight EXCEPT ![GroupOf[t]] = inflight[GroupOf[t]] - 1]
    BY <1>10 DEF Decrement
  <2>4. inflight[GroupOf[t]] - 1 \in Nat
    BY <1>10, DecrementPositive
  <2>5. inflight' \in [Groups -> Nat]
    BY <2>3, <2>4 DEF TypeOK
  <2> QED
    BY <1>10, <2>2, <2>5 DEF Decrement, TypeOK, pool
<1>11. ASSUME NEW t \in Tasks, Notifies(t) PROVE TypeOK'
  BY <1>11, NotifiesEffect DEF TypeOK
<1>12. ASSUME NEW t \in Tasks, LeaveTask(t) PROVE TypeOK'
  <2>1. t \in Actors
    BY DEF Actors
  <2>2. pc' \in [Actors -> PCs]
    BY <1>12, <2>1, GotoEffect DEF LeaveTask, PCs
  <2>3. new' = new /\ waiting' = waiting /\ running' = running \ {t}
    BY <1>12 DEF LeaveTask, Pool!Finish
  <2> QED
    BY <1>12, <2>2, <2>3 DEF LeaveTask, TypeOK
<1>13. CASE UNCHANGED vars
  BY <1>13 DEF TypeOK, vars, pool
<1> QED
  BY <1>1, <1>2, <1>3, <1>4, <1>5, <1>6, <1>7, <1>8, <1>9, <1>10, <1>11, <1>12, <1>13, StepCases

(* Groups are opened by their owner, one at a time, and closed by it.       *)
LEMMA ScopeStep == ASSUME IInv, [Next]_vars PROVE ScopeInv'
<1> USE DEF IInv
<1>1. ASSUME NEW a \in Actors, Waits(a) PROVE ScopeInv'
  BY <1>1, WaitsEffect DEF ScopeInv, InScope
<1>2. ASSUME NEW a \in Actors, ReturnInline(a) PROVE ScopeInv'
  BY <1>2, GotoEffect DEF ReturnInline, ScopeInv, InScope, PCs
<1>3. ASSUME NEW a \in Actors, RunEnqueue(a) PROVE ScopeInv'
  BY <1>3, GotoEffect DEF RunEnqueue, ScopeInv, InScope, PCs
<1>4. ASSUME NEW a \in Actors, Destroy(a) PROVE ScopeInv'
  <2>1. pc[a] = "waited" /\ pc'[a] = "body" /\ \A b \in Actors : b # a => pc'[b] = pc[b]
    BY <1>4, GotoEffect DEF Destroy, PCs
  <2>2. scope'[a] = None /\ \A b \in Actors : b # a => scope'[b] = scope[b]
    BY <1>4 DEF Destroy, TypeOK
  <2>3. \A g \in Groups : g # scope[a] => life'[g] = life[g]
    BY <1>4 DEF Destroy, TypeOK
  <2>4. \A b \in Actors : b # a => scope[b] # scope[a]
    BY <2>1, ScopeIsOwned DEF InScope
  <2> QED
    BY <2>1, <2>2, <2>3, <2>4 DEF ScopeInv, InScope
<1>5. ASSUME NEW a \in Actors, NEW g \in Groups, Open(a, g) PROVE ScopeInv'
  <2>1. pc[a] = "body" /\ pc'[a] = "group" /\ \A b \in Actors : b # a => pc'[b] = pc[b]
    BY <1>5, GotoEffect DEF Open, PCs
  <2>2. scope'[a] = g /\ \A b \in Actors : b # a => scope'[b] = scope[b]
    BY <1>5 DEF Open, TypeOK
  <2>3. OwnerOf[g] = a /\ life'[g] = "alive" /\ \A h \in Groups : h # g => life'[h] = life[h]
    BY <1>5 DEF Open, TypeOK
  <2> QED
    BY <2>1, <2>2, <2>3 DEF ScopeInv, InScope
<1>6. ASSUME NEW a \in Actors, NEW t \in Tasks, RunCount(a, t) PROVE ScopeInv'
  BY <1>6, GotoEffect DEF RunCount, ScopeInv, InScope, PCs
<1>7. ASSUME NEW a \in Actors, NEW t \in Tasks, RunInline(a, t) PROVE ScopeInv'
  <2>1. /\ t \in Actors /\ t # a /\ pc[t] = "none"
        /\ pc'[a] = "inline" /\ pc'[t] = "body"
        /\ \A b \in Actors : b # a /\ b # t => pc'[b] = pc[b]
    BY <1>7, InlineEffect
  <2>2. pc[a] \in InScope /\ scope' = scope /\ life' = life
    BY <1>7 DEF RunInline, InScope
  <2> QED
    BY <2>1, <2>2 DEF ScopeInv, InScope
<1>8. ASSUME NEW t \in Tasks, StartTask(t) PROVE ScopeInv'
  BY <1>8, StartEffect DEF StartTask, ScopeInv, InScope
<1>9. ASSUME NEW t \in Tasks, ReturnFunction(t) PROVE ScopeInv'
  BY <1>9, GotoEffect DEF ReturnFunction, ScopeInv, InScope, PCs, Actors
<1>10. ASSUME NEW t \in Tasks, Decrement(t) PROVE ScopeInv'
  BY <1>10, GotoEffect DEF Decrement, ScopeInv, InScope, PCs, Actors
<1>11. ASSUME NEW t \in Tasks, Notifies(t) PROVE ScopeInv'
  BY <1>11, NotifiesEffect DEF ScopeInv, InScope
<1>12. ASSUME NEW t \in Tasks, LeaveTask(t) PROVE ScopeInv'
  BY <1>12, GotoEffect DEF LeaveTask, ScopeInv, InScope, PCs, Actors
<1>13. CASE UNCHANGED vars
  BY <1>13 DEF ScopeInv, vars
<1> QED
  BY <1>1, <1>2, <1>3, <1>4, <1>5, <1>6, <1>7, <1>8, <1>9, <1>10, <1>11, <1>12, <1>13, StepCases

(* The task that is handed over stays one of the group its actor has open. *)
LEMMA TargetStep == ASSUME IInv, [Next]_vars PROVE TargetInv'
<1> USE DEF IInv
<1>1. ASSUME NEW a \in Actors, Waits(a) PROVE TargetInv'
  BY <1>1, WaitsEffect DEF TargetInv
<1>2. ASSUME NEW a \in Actors, ReturnInline(a) PROVE TargetInv'
  BY <1>2, GotoEffect DEF ReturnInline, TargetInv, PCs, pool
<1>3. ASSUME NEW a \in Actors, RunEnqueue(a) PROVE TargetInv'
  <2>1. /\ pc[a] = "enqueue" /\ pc'[a] = "group" /\ \A b \in Actors : b # a => pc'[b] = pc[b]
        /\ UNCHANGED <<workers, scope, target>>
    BY <1>3, GotoEffect DEF RunEnqueue, PCs
  <2>2. target[a] \in new /\ new' = new \ {target[a]} /\ GroupOf[target[a]] = scope[a]
    BY <1>3, <2>1 DEF RunEnqueue, TargetInv, Pool!Enqueue
  <2>3. \A b \in Actors : b # a /\ pc[b] = "enqueue" => target[b] # target[a]
    <3>1. SUFFICES ASSUME NEW b \in Actors, pc[b] = "enqueue", target[b] = target[a]
                   PROVE  b = a
      OBVIOUS
    <3>2. scope[b] = scope[a]
      BY <2>2, <3>1 DEF TargetInv
    <3> QED
      BY <2>1, <3>2, ScopeIsOwned DEF InScope
  <2> QED
    BY <2>1, <2>2, <2>3 DEF TargetInv
<1>4. ASSUME NEW a \in Actors, Destroy(a) PROVE TargetInv'
  <2>1. pc'[a] = "body" /\ \A b \in Actors : b # a => pc'[b] = pc[b]
    BY <1>4, GotoEffect DEF Destroy, PCs
  <2>2. /\ \A b \in Actors : b # a => scope'[b] = scope[b]
        /\ UNCHANGED <<workers, new, target>>
    BY <1>4 DEF Destroy, TypeOK, pool
  <2> QED
    BY <2>1, <2>2 DEF TargetInv
<1>5. ASSUME NEW a \in Actors, NEW g \in Groups, Open(a, g) PROVE TargetInv'
  <2>1. pc'[a] = "group" /\ \A b \in Actors : b # a => pc'[b] = pc[b]
    BY <1>5, GotoEffect DEF Open, PCs
  <2>2. /\ \A b \in Actors : b # a => scope'[b] = scope[b]
        /\ UNCHANGED <<workers, new, target>>
    BY <1>5 DEF Open, TypeOK, pool
  <2> QED
    BY <2>1, <2>2 DEF TargetInv
<1>6. ASSUME NEW a \in Actors, NEW t \in Tasks, RunCount(a, t) PROVE TargetInv'
  <2>1. pc'[a] = "enqueue" /\ \A b \in Actors : b # a => pc'[b] = pc[b]
    BY <1>6, GotoEffect DEF RunCount, PCs
  <2>2. /\ target'[a] = t /\ \A b \in Actors : b # a => target'[b] = target[b]
        /\ workers > 0 /\ t \in new /\ GroupOf[t] = scope[a]
        /\ UNCHANGED <<workers, new, scope>>
    BY <1>6 DEF RunCount, TypeOK, pool
  <2> QED
    BY <2>1, <2>2 DEF TargetInv
<1>7. ASSUME NEW a \in Actors, NEW t \in Tasks, RunInline(a, t) PROVE TargetInv'
  <2>1. /\ pc'[a] = "inline" /\ pc'[t] = "body"
        /\ \A b \in Actors : b # a /\ b # t => pc'[b] = pc[b]
        /\ new' = new \ {t}
    BY <1>7, InlineEffect
  <2>2. /\ target'[a] = t /\ \A b \in Actors : b # a => target'[b] = target[b]
        /\ workers = 0 /\ t \in new /\ GroupOf[t] = scope[a]
        /\ UNCHANGED <<workers, scope>>
    BY <1>7 DEF RunInline, TypeOK
  <2> QED
    BY <2>1, <2>2 DEF TargetInv
<1>8. ASSUME NEW t \in Tasks, StartTask(t) PROVE TargetInv'
  BY <1>8, StartEffect DEF StartTask, TargetInv
<1>9. ASSUME NEW t \in Tasks, ReturnFunction(t) PROVE TargetInv'
  BY <1>9, GotoEffect DEF ReturnFunction, TargetInv, PCs, Actors, pool
<1>10. ASSUME NEW t \in Tasks, Decrement(t) PROVE TargetInv'
  BY <1>10, GotoEffect DEF Decrement, TargetInv, PCs, Actors, pool
<1>11. ASSUME NEW t \in Tasks, Notifies(t) PROVE TargetInv'
  BY <1>11, NotifiesEffect DEF TargetInv
<1>12. ASSUME NEW t \in Tasks, LeaveTask(t) PROVE TargetInv'
  <2>1. new' = new
    BY <1>12 DEF LeaveTask, Pool!Finish
  <2> QED
    BY <1>12, <2>1, GotoEffect DEF LeaveTask, TargetInv, PCs, Actors
<1>13. CASE UNCHANGED vars
  BY <1>13 DEF TargetInv, vars, pool
<1> QED
  BY <1>1, <1>2, <1>3, <1>4, <1>5, <1>6, <1>7, <1>8, <1>9, <1>10, <1>11, <1>12, <1>13, StepCases

(* A task is queued once, and starts only from a queue or in place.        *)
LEMMA PoolStep == ASSUME IInv, [Next]_vars PROVE PoolInv'
<1> USE DEF IInv
<1>1. ASSUME new' = new, waiting' = waiting,
             \A t \in Tasks : pc[t] = "none" => pc'[t] = "none"
      PROVE  PoolInv'
  <2>1. \A l \in Pool!Lanes : \A i \in DOMAIN waiting[l] : waiting[l][i] \in Tasks
    BY DEF TypeOK, Pool!Lanes
  <2>2. new \subseteq Tasks
    BY DEF TypeOK
  <2> QED
    BY <1>1, <2>1, <2>2 DEF PoolInv
<1>2. ASSUME NEW a \in Actors, Waits(a) PROVE PoolInv'
  <2>1. \A t \in Tasks : pc[t] = "none" => pc'[t] = "none"
    BY <1>2, WaitsEffect DEF Actors
  <2> QED
    BY <1>1, <1>2, <2>1, WaitsEffect
<1>3. ASSUME NEW a \in Actors, NEW there \in PCs, Goto(a, there), pc[a] # "none",
             new' = new, waiting' = waiting
      PROVE  PoolInv'
  <2>1. \A t \in Tasks : pc[t] = "none" => pc'[t] = "none"
    BY <1>3, GotoEffect DEF Actors
  <2> QED
    BY <1>1, <1>3, <2>1
<1>4. ASSUME NEW a \in Actors, RunEnqueue(a) PROVE PoolInv'
  <2> DEFINE t == target[a]
  <2>1. \A b \in Actors : b # a => pc'[b] = pc[b]
    BY <1>4, GotoEffect DEF RunEnqueue, PCs
  <2>2. pc[a] = "enqueue" /\ t \in new /\ t \in Tasks /\ pc[t] = "none" /\ new' = new \ {t}
    BY <1>4 DEF RunEnqueue, TargetInv, TypeOK, PoolInv, Pool!Enqueue
  <2>3. \A b \in Tasks : pc[b] = "none" => pc'[b] = "none"
    BY <2>1, <2>2 DEF Actors
  <2>4. \A l \in Pool!Lanes : \A i \in DOMAIN waiting'[l] :
          \/ i \in DOMAIN waiting[l] /\ waiting'[l][i] = waiting[l][i]
          \/ l = LaneOf[t] /\ i = Len(waiting[l]) + 1 /\ waiting'[l][i] = t
    BY <1>4, <2>2, EnqueuedLanes DEF RunEnqueue
  <2>5. \A l \in Pool!Lanes : \A i \in DOMAIN waiting[l] :
          waiting[l][i] \in Tasks /\ waiting[l][i] \notin new /\ waiting[l][i] # t
    BY <2>2 DEF TypeOK, Pool!Lanes, PoolInv
  <2> HIDE DEF t
  <2>6. \A b \in new' : pc'[b] = "none"
    BY <2>2, <2>3 DEF PoolInv, TypeOK
  <2>7. \A l \in Pool!Lanes : \A i \in DOMAIN waiting'[l] :
          waiting'[l][i] \notin new' /\ pc'[waiting'[l][i]] = "none"
    BY <2>2, <2>3, <2>4, <2>5 DEF PoolInv
  <2>8. \A l, m \in Pool!Lanes : \A i \in DOMAIN waiting'[l], k \in DOMAIN waiting'[m] :
          waiting'[l][i] = waiting'[m][k] => l = m /\ i = k
    <3>1. SUFFICES ASSUME NEW l \in Pool!Lanes, NEW m \in Pool!Lanes,
                          NEW i \in DOMAIN waiting'[l], NEW k \in DOMAIN waiting'[m],
                          waiting'[l][i] = waiting'[m][k]
                   PROVE  l = m /\ i = k
      OBVIOUS
    <3>2. CASE waiting'[l][i] = t
      <4>1. l = LaneOf[t] /\ i = Len(waiting[l]) + 1
        BY <2>4, <2>5, <3>2
      <4>2. m = LaneOf[t] /\ k = Len(waiting[m]) + 1
        BY <2>4, <2>5, <3>1, <3>2
      <4> QED
        BY <4>1, <4>2
    <3>3. CASE waiting'[l][i] # t
      BY <2>4, <3>1, <3>3 DEF PoolInv
    <3> QED
      BY <3>2, <3>3
  <2> QED
    BY <2>6, <2>7, <2>8 DEF PoolInv
<1>5. ASSUME NEW a \in Actors, NEW t \in Tasks, RunInline(a, t) PROVE PoolInv'
  <2>1. /\ pc[a] # "none" /\ t \in new
        /\ \A b \in Actors : b # a /\ b # t => pc'[b] = pc[b]
        /\ new' = new \ {t} /\ waiting' = waiting
    BY <1>5, InlineEffect DEF RunInline
  <2>2. \A b \in Tasks : b # t /\ pc[b] = "none" => pc'[b] = "none"
    BY <2>1 DEF Actors
  <2>3. \A l \in Pool!Lanes : \A i \in DOMAIN waiting[l] :
          waiting[l][i] \in Tasks /\ waiting[l][i] \notin new
    BY DEF TypeOK, Pool!Lanes, PoolInv
  <2>4. new \subseteq Tasks
    BY DEF TypeOK
  <2> QED
    BY <2>1, <2>2, <2>3, <2>4 DEF PoolInv
<1>6. ASSUME NEW t \in Tasks, StartTask(t) PROVE PoolInv'
  <2>1. /\ pc'[t] = "body" /\ t \notin new /\ new' = new
        /\ \A b \in Actors : b # t => pc'[b] = pc[b]
    BY <1>6, StartEffect
  <2>2. PICK m \in Pool!Lanes :
           /\ 1 \in DOMAIN waiting[m] /\ waiting[m][1] = t
           /\ \A l \in Pool!Lanes : \A i \in DOMAIN waiting'[l] :
                LET k == IF l = m THEN i + 1 ELSE i
                IN  /\ k \in DOMAIN waiting[l] /\ waiting'[l][i] = waiting[l][k]
                    /\ l = m => k # 1
    BY <1>6, StartedLanes
  <2> DEFINE at(l, i) == IF l = m THEN i + 1 ELSE i
  <2>3. \A l \in Pool!Lanes : \A i \in DOMAIN waiting'[l] :
          /\ at(l, i) \in DOMAIN waiting[l] /\ waiting'[l][i] = waiting[l][at(l, i)]
          /\ l = m => at(l, i) # 1
    BY <2>2
  <2>4. waiting \in [Pool!Lanes -> Seq(Tasks)]
    BY DEF TypeOK, Pool!Lanes
  <2>5. waiting' \in [Pool!Lanes -> Seq(Tasks)]
    BY <1>6, StartedLanes
  <2>6. \A l \in Pool!Lanes : \A i, k \in DOMAIN waiting'[l] : at(l, i) = at(l, k) => i = k
    <3>1. SUFFICES ASSUME NEW l \in Pool!Lanes, NEW i \in DOMAIN waiting'[l],
                          NEW k \in DOMAIN waiting'[l], at(l, i) = at(l, k)
                   PROVE  i = k
      OBVIOUS
    <3>2. i \in Nat /\ k \in Nat
      <4>1. waiting'[l] \in Seq(Tasks)
        BY <2>5
      <4>2. DOMAIN waiting'[l] = 1 .. Len(waiting'[l])
        BY <4>1, LenProperties
      <4> QED
        BY <4>2
    <3> QED
      BY <3>1, <3>2
  <2> HIDE DEF at
  <2>7. \A l \in Pool!Lanes : \A i \in DOMAIN waiting'[l] :
          /\ waiting'[l][i] \in Tasks /\ waiting'[l][i] # t
          /\ waiting'[l][i] \notin new /\ pc[waiting'[l][i]] = "none"
    BY <2>2, <2>3, <2>4 DEF PoolInv
  <2>8. \A b \in new' : pc'[b] = "none"
    BY <2>1 DEF PoolInv, TypeOK, Actors
  <2>9. \A l \in Pool!Lanes : \A i \in DOMAIN waiting'[l] :
          waiting'[l][i] \notin new' /\ pc'[waiting'[l][i]] = "none"
    BY <2>1, <2>7 DEF Actors
  <2>10. \A l, n \in Pool!Lanes : \A i \in DOMAIN waiting'[l], k \in DOMAIN waiting'[n] :
           waiting'[l][i] = waiting'[n][k] => l = n /\ i = k
    BY <2>3, <2>6 DEF PoolInv
  <2> QED
    BY <2>8, <2>9, <2>10 DEF PoolInv
<1>7. ASSUME NEW t \in Tasks, Notifies(t) PROVE PoolInv'
  <2>1. \A b \in Tasks : pc[b] = "none" => pc'[b] = "none"
    BY <1>7, NotifiesEffect DEF Actors
  <2> QED
    BY <1>1, <1>7, <2>1, NotifiesEffect
<1>8. ASSUME NEW a \in Actors, \/ ReturnInline(a) \/ Destroy(a)
                               \/ \E g \in Groups : Open(a, g)
                               \/ \E t \in Tasks : RunCount(a, t)
      PROVE  PoolInv'
  BY <1>3, <1>8 DEF ReturnInline, Destroy, Open, RunCount, pool, PCs
<1>9. ASSUME NEW t \in Tasks, ReturnFunction(t) \/ Decrement(t) PROVE PoolInv'
  <2>1. t \in Actors
    BY DEF Actors
  <2> QED
    BY <1>3, <1>9, <2>1 DEF ReturnFunction, Decrement, pool, PCs
<1>10. ASSUME NEW t \in Tasks, LeaveTask(t) PROVE PoolInv'
  <2>1. t \in Actors /\ new' = new /\ waiting' = waiting
    BY <1>10 DEF Actors, LeaveTask, Pool!Finish
  <2> QED
    BY <1>3, <1>10, <2>1 DEF LeaveTask, PCs
<1>11. CASE UNCHANGED vars
  BY <1>11 DEF PoolInv, vars, pool
<1> QED
  BY <1>2, <1>4, <1>5, <1>6, <1>7, <1>8, <1>9, <1>10, <1>11, StepCases

(* A TaskValue is ready from the moment its function returns.              *)
LEMMA ReadyStep == ASSUME IInv, [Next]_vars PROVE ReadyInv'
<1> USE DEF IInv
<1>1. ASSUME ready' = ready, workers' = workers, new' = new,
             \A t \in Tasks : pc'[t] \in Returned => pc[t] \in Returned,
             \A a \in Actors : pc[a] = "inline" => pc'[a] = "inline" /\ target'[a] = target[a]
      PROVE  ReadyInv'
  BY <1>1 DEF ReadyInv
<1>2. ASSUME NEW a \in Actors, Waits(a) PROVE ReadyInv'
  <2>1. /\ ready' = ready /\ workers' = workers /\ new' = new /\ target' = target
        /\ pc[a] \in {"group", "lock", "check", "block", "asleep"}
        /\ pc'[a] \in {"waited", "lock", "check", "block", "asleep"}
        /\ \A b \in Actors : b # a => pc'[b] = pc[b]
    BY <1>2, WaitsEffect
  <2> QED
    BY <1>1, <2>1 DEF Returned, Actors
<1>3. ASSUME NEW a \in Actors, ReturnInline(a) PROVE ReadyInv'
  <2>1. /\ pc[a] = "inline" /\ pc[target[a]] = "gone"
        /\ pc'[a] = "group" /\ \A b \in Actors : b # a => pc'[b] = pc[b]
        /\ UNCHANGED <<workers, new, target, ready>>
    BY <1>3, GotoEffect DEF ReturnInline, PCs, pool
  <2>2. target[a] \in Tasks /\ ready[target[a]]
    BY <2>1 DEF TargetInv, ReadyInv, Returned
  <2> QED
    BY <2>1, <2>2 DEF ReadyInv, Returned, Actors
<1>4. ASSUME NEW a \in Actors, RunEnqueue(a) PROVE ReadyInv'
  <2>1. /\ workers > 0 /\ pc'[a] = "group" /\ \A b \in Actors : b # a => pc'[b] = pc[b]
        /\ UNCHANGED <<workers, ready>>
    BY <1>4, GotoEffect DEF RunEnqueue, TargetInv, PCs
  <2> QED
    BY <2>1 DEF ReadyInv, Returned, Actors
<1>5. ASSUME NEW a \in Actors, NEW t \in Tasks, RunInline(a, t) PROVE ReadyInv'
  <2>1. /\ t \in Actors /\ t # a /\ pc[t] = "none"
        /\ pc'[a] = "inline" /\ pc'[t] = "body"
        /\ \A b \in Actors : b # a /\ b # t => pc'[b] = pc[b]
        /\ new' = new \ {t}
    BY <1>5, InlineEffect
  <2>2. /\ target'[a] = t /\ \A b \in Actors : b # a => target'[b] = target[b]
        /\ pc[a] \in {"group", "waited"}
        /\ UNCHANGED <<workers, ready>>
    BY <1>5 DEF RunInline, TypeOK
  <2>3. \A u \in Tasks : pc'[u] \in Returned => ready'[u]
    BY <2>1, <2>2 DEF ReadyInv, Returned, Actors
  <2>4. ASSUME workers = 0, NEW u \in Tasks \ new', ~ready[u]
        PROVE  \E b \in Actors : pc'[b] = "inline" /\ target'[b] = u
    <3>1. CASE u = t
      BY <2>1, <2>2, <3>1
    <3>2. CASE u # t
      <4>1. PICK b \in Actors : pc[b] = "inline" /\ target[b] = u
        BY <2>1, <2>4, <3>2 DEF ReadyInv
      <4>2. b # a /\ b # t
        BY <2>1, <2>2, <4>1
      <4> QED
        BY <2>1, <2>2, <4>1, <4>2
    <3> QED
      BY <3>1, <3>2
  <2> QED
    BY <2>2, <2>3, <2>4 DEF ReadyInv
<1>6. ASSUME NEW a \in Actors, NEW t \in Tasks, RunCount(a, t) PROVE ReadyInv'
  <2>1. /\ pc'[a] = "enqueue" /\ \A b \in Actors : b # a => pc'[b] = pc[b]
        /\ pc[a] \in {"group", "waited"}
    BY <1>6, GotoEffect DEF RunCount, PCs
  <2>2. /\ \A b \in Actors : b # a => target'[b] = target[b]
        /\ UNCHANGED <<workers, new, ready>>
    BY <1>6 DEF RunCount, TypeOK, pool
  <2> QED
    BY <1>1, <2>1, <2>2 DEF Returned, Actors
<1>7. ASSUME NEW a \in Actors, Destroy(a) \/ \E g \in Groups : Open(a, g) PROVE ReadyInv'
  <2>1. /\ pc'[a] \in {"body", "group"} /\ \A b \in Actors : b # a => pc'[b] = pc[b]
        /\ pc[a] \in {"waited", "body"}
        /\ UNCHANGED <<workers, new, target, ready>>
    BY <1>7, GotoEffect DEF Destroy, Open, PCs, pool
  <2> QED
    BY <1>1, <2>1 DEF Returned, Actors
<1>8. ASSUME NEW t \in Tasks, StartTask(t) PROVE ReadyInv'
  <2>1. /\ pc[t] = "none" /\ pc'[t] = "body" /\ new' = new /\ t \in Actors
        /\ \A b \in Actors : b # t => pc'[b] = pc[b]
        /\ UNCHANGED <<workers, target, ready>>
    BY <1>8, StartEffect DEF StartTask
  <2> QED
    BY <1>1, <2>1 DEF Returned, Actors
<1>9. ASSUME NEW t \in Tasks, ReturnFunction(t) PROVE ReadyInv'
  <2>1. /\ pc[t] = "body" /\ \A b \in Actors : b # t => pc'[b] = pc[b]
        /\ pc'[t] \in {"left", "done"}
        /\ UNCHANGED <<workers, new, target>>
    BY <1>9, GotoEffect DEF ReturnFunction, PCs, pool, Actors
  <2>2. ready'[t] /\ \A u \in Tasks : u # t => ready'[u] = ready[u]
    BY <1>9 DEF ReturnFunction, TypeOK
  <2>3. \A u \in Tasks : pc'[u] \in Returned => ready'[u]
    BY <2>1, <2>2 DEF ReadyInv, Actors
  <2>4. ASSUME workers = 0, NEW u \in Tasks \ new, ~ready'[u]
        PROVE  \E b \in Actors : pc'[b] = "inline" /\ target'[b] = u
    <3>1. u # t /\ ~ready[u]
      BY <2>2, <2>4
    <3>2. PICK b \in Actors : pc[b] = "inline" /\ target[b] = u
      BY <2>4, <3>1 DEF ReadyInv
    <3> QED
      BY <2>1, <3>2
  <2> QED
    BY <2>1, <2>3, <2>4 DEF ReadyInv
<1>10. ASSUME NEW t \in Tasks, Decrement(t) PROVE ReadyInv'
  <2>1. /\ pc[t] = "done" /\ \A b \in Actors : b # t => pc'[b] = pc[b]
        /\ UNCHANGED <<workers, new, target, ready>>
    BY <1>10, GotoEffect DEF Decrement, PCs, pool, Actors
  <2> QED
    BY <1>1, <2>1 DEF Returned, Actors
<1>11. ASSUME NEW t \in Tasks, Notifies(t) PROVE ReadyInv'
  <2>1. /\ pc[t] = "last"
        /\ \A b \in Actors : b # t => pc'[b] = pc[b] \/ (pc[b] = "asleep" /\ pc'[b] = "lock")
        /\ UNCHANGED <<workers, new, target, ready>>
    BY <1>11, NotifiesEffect
  <2> QED
    BY <1>1, <2>1 DEF Returned, Actors
<1>12. ASSUME NEW t \in Tasks, LeaveTask(t) PROVE ReadyInv'
  <2>1. /\ pc[t] = "left" /\ \A b \in Actors : b # t => pc'[b] = pc[b]
        /\ UNCHANGED <<workers, target, ready>>
    BY <1>12, GotoEffect DEF LeaveTask, PCs, Actors
  <2>2. new' = new
    BY <1>12 DEF LeaveTask, Pool!Finish
  <2> QED
    BY <1>1, <2>1, <2>2 DEF Returned, Actors
<1>13. CASE UNCHANGED vars
  BY <1>13 DEF ReadyInv, vars, pool
<1> QED
  BY <1>2, <1>3, <1>4, <1>5, <1>6, <1>7, <1>8, <1>9, <1>10, <1>11, <1>12, <1>13, StepCases

(* A step that hands over nothing and decrements nothing leaves the tasks  *)
(* that are counted as they are.                                           *)
LEMMA CountedStays ==
  ASSUME IInv,
         UNCHANGED <<workers, new, inflight>>,
         \A a \in Actors : /\ pc'[a] = "enqueue" <=> pc[a] = "enqueue"
                           /\ pc[a] = "enqueue" => target'[a] = target[a],
         \A t \in Tasks : pc'[t] \in {"last", "stuck", "left", "gone"}
                            <=> pc[t] \in {"last", "stuck", "left", "gone"}
  PROVE  CountInv'
<1>1. \A t \in Tasks : Counted(t)' <=> Counted(t)
  <2>1. SUFFICES ASSUME NEW t \in Tasks PROVE Counted(t)' <=> Counted(t)
    OBVIOUS
  <2>2. CASE t \in new
    <3>1. (\E a \in Actors : pc'[a] = "enqueue" /\ target'[a] = t)
            <=> (\E a \in Actors : pc[a] = "enqueue" /\ target[a] = t)
      OBVIOUS
    <3> QED
      BY <2>2, <3>1 DEF Counted
  <2>3. CASE t \notin new
    BY <2>3 DEF Counted
  <2> QED
    BY <2>2, <2>3
<1>2. \A g \in Groups : Outstanding(g)' = Outstanding(g)
  BY <1>1 DEF Outstanding
<1> QED
  BY <1>2 DEF CountInv, IInv

(* Without workers inflight stays 0.                                       *)
LEMMA NothingCounted ==
  ASSUME IInv, workers = 0, UNCHANGED <<workers, inflight>> PROVE CountInv'
  BY DEF IInv, CountInv

(* The increment comes before the hand-over and the decrement after the    *)
(* function, each with its own task: the count stays that of the tasks.    *)
LEMMA CountStep == ASSUME IInv, [Next]_vars PROVE CountInv'
<1>0. TypeOK /\ TargetInv /\ PoolInv /\ ScopeInv /\ CountInv /\ workers \in Nat
  BY TreeAssumption DEF IInv, TypeOK
<1>1. ASSUME NEW a \in Actors, Waits(a) PROVE CountInv'
  <2>1. /\ UNCHANGED <<workers, new, target, inflight>>
        /\ pc[a] \in {"group", "lock", "check", "block", "asleep"}
        /\ pc'[a] \in {"waited", "lock", "check", "block", "asleep"}
        /\ \A b \in Actors : b # a => pc'[b] = pc[b]
    BY <1>0, <1>1, WaitsEffect
  <2> QED
    BY <2>1, CountedStays DEF Actors
<1>2. ASSUME NEW a \in Actors, \/ ReturnInline(a) \/ Destroy(a)
                               \/ \E g \in Groups : Open(a, g)
      PROVE  CountInv'
  <2>1. /\ UNCHANGED <<workers, new, target, inflight>>
        /\ pc[a] \in {"inline", "waited", "body"}
        /\ pc'[a] \in {"group", "body"}
        /\ \A b \in Actors : b # a => pc'[b] = pc[b]
    BY <1>0, <1>2, GotoEffect DEF ReturnInline, Destroy, Open, PCs, pool
  <2> QED
    BY <2>1, CountedStays DEF Actors
<1>3. ASSUME NEW a \in Actors, RunEnqueue(a) PROVE CountInv'
  <2>0. PICK t : t = target[a]
    OBVIOUS
  <2>1. /\ pc[a] = "enqueue" /\ pc'[a] = "group"
        /\ \A b \in Actors : b # a => pc'[b] = pc[b]
        /\ UNCHANGED <<workers, target, inflight>>
    BY <1>0, <1>3, GotoEffect DEF RunEnqueue, PCs
  <2>2. t \in new /\ new' = new \ {t} /\ pc[t] = "none" /\ t \in Tasks
    BY <1>0, <1>3, <2>0, <2>1 DEF RunEnqueue, TargetInv, TypeOK, PoolInv, Pool!Enqueue
  <2>3. pc'[t] = "none"
    BY <2>1, <2>2 DEF Actors
  <2>4. Counted(t)' /\ Counted(t)
    BY <2>0, <2>1, <2>2, <2>3 DEF Counted
  <2>5. ASSUME NEW u \in Tasks, u # t PROVE Counted(u)' <=> Counted(u)
    <3>1. CASE u \in new
      <4>1. (\E b \in Actors : pc'[b] = "enqueue" /\ target'[b] = u)
              <=> (\E b \in Actors : pc[b] = "enqueue" /\ target[b] = u)
        BY <2>0, <2>1, <2>5
      <4>2. u \in new'
        BY <2>2, <2>5, <3>1
      <4> QED
        BY <3>1, <4>1, <4>2 DEF Counted
    <3>2. CASE u \notin new
      <4>1. u \notin new'
        BY <2>2, <3>2
      <4>2. pc'[u] \in {"last", "stuck", "left", "gone"} <=> pc[u] \in {"last", "stuck", "left", "gone"}
        BY <2>1 DEF Actors
      <4> QED
        BY <3>2, <4>1, <4>2 DEF Counted
    <3> QED
      BY <3>1, <3>2
  <2>6. \A u \in Tasks : Counted(u)' <=> Counted(u)
    BY <2>4, <2>5
  <2>7. \A g \in Groups : Outstanding(g)' = Outstanding(g)
    BY <2>6 DEF Outstanding
  <2> QED
    BY <1>0, <2>1, <2>7 DEF CountInv
<1>4. ASSUME NEW a \in Actors, NEW t \in Tasks, RunCount(a, t) PROVE CountInv'
  <2>1. /\ pc[a] \in {"group", "waited"} /\ pc'[a] = "enqueue"
        /\ \A b \in Actors : b # a => pc'[b] = pc[b]
        /\ workers > 0 /\ t \in new /\ GroupOf[t] = scope[a]
        /\ UNCHANGED <<workers, new>>
    BY <1>0, <1>4, GotoEffect DEF RunCount, PCs, pool
  <2>2. /\ target'[a] = t /\ \A b \in Actors : b # a => target'[b] = target[b]
    BY <1>0, <1>4 DEF RunCount, TypeOK
  <2> DEFINE h == GroupOf[t]
  <2>3. h \in Groups /\ inflight' = [inflight EXCEPT ![h] = inflight[h] + 1]
    BY <1>4, <2>1, TreeAssumption DEF RunCount
  <2>4. Counted(t)'
    BY <2>1, <2>2 DEF Counted
  <2>5. ~Counted(t)
    <3>1. SUFFICES ASSUME NEW b \in Actors, pc[b] = "enqueue", target[b] = t PROVE FALSE
      BY <2>1 DEF Counted
    <3>2. scope[b] = scope[a]
      BY <1>0, <2>1, <3>1 DEF TargetInv
    <3>3. a = b
      BY <1>0, <2>1, <3>2, ScopeIsOwned DEF InScope
    <3> QED
      BY <2>1, <3>1, <3>3
  <2>6. ASSUME NEW u \in Tasks, u # t PROVE Counted(u)' <=> Counted(u)
    <3>1. CASE u \in new
      <4>1. (\E b \in Actors : pc'[b] = "enqueue" /\ target'[b] = u)
              <=> (\E b \in Actors : pc[b] = "enqueue" /\ target[b] = u)
        BY <2>1, <2>2, <2>6
      <4> QED
        BY <2>1, <3>1, <4>1 DEF Counted
    <3>2. CASE u \notin new
      <4>1. pc'[u] \in {"last", "stuck", "left", "gone"} <=> pc[u] \in {"last", "stuck", "left", "gone"}
        BY <2>1 DEF Actors
      <4> QED
        BY <2>1, <3>2, <4>1 DEF Counted
    <3> QED
      BY <3>1, <3>2
  <2>7. Outstanding(h)' = Outstanding(h) \cup {t} /\ t \notin Outstanding(h)
    BY <2>4, <2>5, <2>6 DEF Outstanding
  <2>8. \A g \in Groups : g # h => Outstanding(g)' = Outstanding(g)
    BY <2>4, <2>5, <2>6 DEF Outstanding
  <2>9. Cardinality(Outstanding(h)') = Cardinality(Outstanding(h)) + 1
    BY <2>3, <2>7, OutstandingFinite, FS_AddElement
  <2> HIDE DEF h
  <2>10. inflight'[h] = inflight[h] + 1 /\ \A g \in Groups : g # h => inflight'[g] = inflight[g]
    BY <1>0, <2>3 DEF TypeOK
  <2>11. \A g \in Groups : inflight[g] = Cardinality(Outstanding(g))
    BY <1>0, <2>1 DEF CountInv
  <2>12. \A g \in Groups : inflight'[g] = Cardinality(Outstanding(g)')
    BY <2>3, <2>8, <2>9, <2>10, <2>11
  <2> QED
    BY <1>0, <2>1, <2>12 DEF CountInv
<1>5. ASSUME NEW a \in Actors, NEW t \in Tasks, RunInline(a, t) PROVE CountInv'
  BY <1>5, NothingCounted DEF RunInline
<1>6. ASSUME NEW t \in Tasks, StartTask(t) PROVE CountInv'
  <2>1. /\ UNCHANGED <<workers, target, inflight>> /\ new' = new
        /\ pc[t] = "none" /\ pc'[t] = "body"
        /\ \A b \in Actors : b # t => pc'[b] = pc[b]
    BY <1>0, <1>6, StartEffect DEF StartTask
  <2> QED
    BY <2>1, CountedStays DEF Actors
<1>7. ASSUME NEW t \in Tasks, ReturnFunction(t) PROVE CountInv'
  <2>1. CASE workers = 0
    BY <1>7, <2>1, NothingCounted DEF ReturnFunction
  <2>2. CASE workers # 0
    <3>1. /\ UNCHANGED <<workers, new, target, inflight>>
          /\ pc[t] = "body" /\ pc'[t] = "done"
          /\ \A b \in Actors : b # t => pc'[b] = pc[b]
      BY <1>0, <1>7, <2>2, GotoEffect DEF ReturnFunction, PCs, pool, Actors
    <3> QED
      BY <3>1, CountedStays DEF Actors
  <2> QED
    BY <2>1, <2>2
<1>8. ASSUME NEW t \in Tasks, Decrement(t) PROVE CountInv'
  <2> DEFINE h == GroupOf[t]
  <2>1. /\ workers > 0 /\ t \notin new /\ h \in Groups
        /\ t \in Outstanding(h)
    BY <1>8, DecrementPositive
  <2>2. /\ pc[t] = "done" /\ pc'[t] \in {"last", "left"}
        /\ \A b \in Actors : b # t => pc'[b] = pc[b]
        /\ UNCHANGED <<workers, new, target>>
        /\ inflight' = [inflight EXCEPT ![h] = inflight[h] - 1]
    BY <1>0, <1>8, GotoEffect DEF Decrement, PCs, pool, Actors
  <2> HIDE DEF h
  <2>3. ~Counted(t)'
    BY <2>1, <2>2 DEF Counted
  <2>4. ASSUME NEW u \in Tasks, u # t PROVE Counted(u)' <=> Counted(u)
    <3>1. CASE u \in new
      <4>1. (\E b \in Actors : pc'[b] = "enqueue" /\ target'[b] = u)
              <=> (\E b \in Actors : pc[b] = "enqueue" /\ target[b] = u)
        BY <2>2
      <4> QED
        BY <2>2, <3>1, <4>1 DEF Counted
    <3>2. CASE u \notin new
      <4>1. pc'[u] \in {"last", "stuck", "left", "gone"} <=> pc[u] \in {"last", "stuck", "left", "gone"}
        BY <2>2, <2>4 DEF Actors
      <4> QED
        BY <2>2, <3>2, <4>1 DEF Counted
    <3> QED
      BY <3>1, <3>2
  <2>5. Outstanding(h)' = Outstanding(h) \ {t}
    BY <2>3, <2>4 DEF Outstanding
  <2>6. \A g \in Groups : g # h => Outstanding(g)' = Outstanding(g)
    BY <2>3, <2>4 DEF Outstanding, h
  <2>7. Cardinality(Outstanding(h)') = Cardinality(Outstanding(h)) - 1
    BY <2>1, <2>5, OutstandingFinite, FS_RemoveElement
  <2>8. inflight'[h] = inflight[h] - 1 /\ \A g \in Groups : g # h => inflight'[g] = inflight[g]
    BY <1>0, <2>1, <2>2 DEF TypeOK
  <2>9. \A g \in Groups : inflight[g] = Cardinality(Outstanding(g))
    BY <1>0, <2>1 DEF CountInv
  <2>10. \A g \in Groups : inflight'[g] = Cardinality(Outstanding(g)')
    BY <2>1, <2>6, <2>7, <2>8, <2>9
  <2> QED
    BY <1>0, <2>1, <2>2, <2>10 DEF CountInv
<1>9. ASSUME NEW t \in Tasks, Notifies(t) PROVE CountInv'
  <2>1. /\ UNCHANGED <<workers, new, target, inflight>> /\ t \in Actors
        /\ pc[t] = "last" /\ pc'[t] \in {"left", "stuck"}
        /\ \A b \in Actors : b # t => pc'[b] = pc[b] \/ (pc[b] = "asleep" /\ pc'[b] = "lock")
    BY <1>0, <1>9, NotifiesEffect
  <2> QED
    BY <2>1, CountedStays DEF Actors
<1>10. ASSUME NEW t \in Tasks, LeaveTask(t) PROVE CountInv'
  <2>1. /\ UNCHANGED <<workers, target, inflight>>
        /\ pc[t] = "left" /\ pc'[t] = "gone"
        /\ \A b \in Actors : b # t => pc'[b] = pc[b]
    BY <1>0, <1>10, GotoEffect DEF LeaveTask, PCs, Actors
  <2>2. new' = new
    BY <1>10 DEF LeaveTask, Pool!Finish
  <2> QED
    BY <2>1, <2>2, CountedStays DEF Actors
<1>11. CASE UNCHANGED vars
  BY <1>11, CountedStays DEF vars, pool
<1> QED
  BY <1>1, <1>2, <1>3, <1>4, <1>5, <1>6, <1>7, <1>8, <1>9, <1>10, <1>11, StepCases

(* Without workers no task gets to the decrement.                          *)
LEMMA UncountedStep == ASSUME IInv, [Next]_vars PROVE UncountedInv'
<1> USE DEF IInv
<1>1. ASSUME workers' = workers,
             \A t \in Tasks : pc'[t] \in {"done", "last"} => pc[t] \in {"done", "last"}
      PROVE  UncountedInv'
  BY <1>1 DEF UncountedInv
<1>2. ASSUME NEW a \in Actors, Waits(a) PROVE UncountedInv'
  <2>1. \A t \in Tasks : pc'[t] \in {"done", "last"} => pc[t] \in {"done", "last"}
    BY <1>2, WaitsEffect DEF Actors
  <2> QED
    BY <1>1, <1>2, <2>1, WaitsEffect
<1>3. ASSUME NEW a \in Actors, NEW there \in PCs \ {"done", "last"}, Goto(a, there),
             workers' = workers
      PROVE  UncountedInv'
  BY <1>1, <1>3, GotoEffect DEF Actors
<1>4. ASSUME NEW a \in Actors, \/ ReturnInline(a) \/ RunEnqueue(a) \/ Destroy(a)
                               \/ \E g \in Groups : Open(a, g)
                               \/ \E t \in Tasks : RunCount(a, t)
      PROVE  UncountedInv'
  BY <1>3, <1>4 DEF ReturnInline, RunEnqueue, Destroy, Open, RunCount, PCs
<1>5. ASSUME NEW a \in Actors, NEW t \in Tasks, RunInline(a, t) PROVE UncountedInv'
  <2>1. \A u \in Tasks : pc'[u] \in {"done", "last"} => pc[u] \in {"done", "last"}
    BY <1>5, InlineEffect DEF Actors
  <2> QED
    BY <1>1, <1>5, <2>1 DEF RunInline
<1>6. ASSUME NEW t \in Tasks, StartTask(t) \/ LeaveTask(t) PROVE UncountedInv'
  <2>1. t \in Actors
    BY DEF Actors
  <2> QED
    BY <1>3, <1>6, <2>1 DEF StartTask, LeaveTask, PCs
<1>7. ASSUME NEW t \in Tasks, ReturnFunction(t) PROVE UncountedInv'
  <2>1. /\ workers' = workers /\ t \in Actors
        /\ workers = 0 => Goto(t, "left")
    BY <1>7 DEF ReturnFunction, Actors
  <2>2. CASE workers = 0
    BY <1>3, <2>1, <2>2 DEF PCs
  <2>3. CASE workers # 0
    BY <2>1, <2>3 DEF UncountedInv
  <2> QED
    BY <2>2, <2>3
<1>8. ASSUME NEW t \in Tasks, Decrement(t) PROVE UncountedInv'
  BY <1>8, DecrementPositive DEF Decrement, UncountedInv
<1>9. ASSUME NEW t \in Tasks, Notifies(t) PROVE UncountedInv'
  <2>1. \A u \in Tasks : pc'[u] \in {"done", "last"} => pc[u] \in {"done", "last"}
    BY <1>9, NotifiesEffect DEF Actors
  <2> QED
    BY <1>1, <1>9, <2>1, NotifiesEffect
<1>10. CASE UNCHANGED vars
  BY <1>10 DEF vars, UncountedInv
<1> QED
  BY <1>2, <1>4, <1>5, <1>6, <1>7, <1>8, <1>9, <1>10, StepCases

(* The count is 0 when wait() returns, and nobody runs a task in the group *)
(* any more: only its owner could, and it has left the scope.              *)
LEMMA JoinStep == ASSUME IInv, [Next]_vars PROVE JoinInv'
<1> USE DEF IInv
<1>1. ASSUME UNCHANGED <<scope, inflight, life>>,
             \A a \in Actors : pc'[a] = "waited" => pc[a] = "waited"
      PROVE  JoinInv'
  BY <1>1 DEF JoinInv
<1>2. ASSUME NEW a \in Actors, Waits(a) PROVE JoinInv'
  BY <1>2, WaitsEffect DEF JoinInv
<1>3. ASSUME NEW a \in Actors, NEW there \in PCs \ {"waited"}, Goto(a, there),
             UNCHANGED <<scope, inflight, life>>
      PROVE  JoinInv'
  BY <1>1, <1>3, GotoEffect
<1>4. ASSUME NEW a \in Actors, ReturnInline(a) \/ RunEnqueue(a) PROVE JoinInv'
  BY <1>3, <1>4 DEF ReturnInline, RunEnqueue, PCs
<1>5. ASSUME NEW a \in Actors, Destroy(a) PROVE JoinInv'
  <2>1. /\ pc[a] = "waited" /\ pc'[a] = "body" /\ \A b \in Actors : b # a => pc'[b] = pc[b]
        /\ inflight' = inflight
    BY <1>5, GotoEffect DEF Destroy, PCs
  <2>2. \A b \in Actors : b # a => scope'[b] = scope[b]
    BY <1>5 DEF Destroy, TypeOK
  <2>3. \A g \in Groups : g # scope[a] => life'[g] = life[g]
    BY <1>5 DEF Destroy, TypeOK
  <2> QED
    BY <2>1, <2>2, <2>3 DEF JoinInv
<1>6. ASSUME NEW a \in Actors, NEW g \in Groups, Open(a, g) PROVE JoinInv'
  <2>1. /\ pc'[a] = "group" /\ \A b \in Actors : b # a => pc'[b] = pc[b]
        /\ inflight' = inflight
    BY <1>6, GotoEffect DEF Open, PCs
  <2>2. \A b \in Actors : b # a => scope'[b] = scope[b]
    BY <1>6 DEF Open, TypeOK
  <2>3. life'[g] = "alive" /\ \A h \in Groups : h # g => life'[h] = life[h]
    BY <1>6 DEF Open, TypeOK
  <2> QED
    BY <2>1, <2>2, <2>3 DEF JoinInv
<1>7. ASSUME NEW a \in Actors, NEW t \in Tasks, RunCount(a, t) PROVE JoinInv'
  <2>1. /\ pc[a] \in {"group", "waited"} /\ pc'[a] = "enqueue"
        /\ \A b \in Actors : b # a => pc'[b] = pc[b]
        /\ UNCHANGED <<scope, life>>
    BY <1>7, GotoEffect DEF RunCount, PCs
  <2>2. \A g \in Groups : g # scope[a] => inflight'[g] = inflight[g]
    BY <1>7 DEF RunCount, TypeOK
  <2>3. scope[a] \in Groups /\ life[scope[a]] = "alive"
    BY <2>1 DEF ScopeInv, InScope
  <2>4. ASSUME NEW b \in Actors, pc[b] = "waited", b # a
        PROVE  scope[b] \in Groups /\ scope[b] # scope[a]
    BY <2>1, <2>4, ScopeIsOwned DEF ScopeInv, InScope
  <2> QED
    BY <2>1, <2>2, <2>3, <2>4 DEF JoinInv
<1>8. ASSUME NEW a \in Actors, NEW t \in Tasks, RunInline(a, t) PROVE JoinInv'
  <2>1. \A b \in Actors : pc'[b] = "waited" => pc[b] = "waited"
    BY <1>8, InlineEffect
  <2> QED
    BY <1>1, <1>8, <2>1 DEF RunInline
<1>9. ASSUME NEW t \in Tasks, StartTask(t) \/ LeaveTask(t) \/ ReturnFunction(t) PROVE JoinInv'
  <2>1. t \in Actors
    BY DEF Actors
  <2> QED
    BY <1>3, <1>9, <2>1 DEF StartTask, LeaveTask, ReturnFunction, PCs
<1>10. ASSUME NEW t \in Tasks, Decrement(t) PROVE JoinInv'
  <2>1. inflight[GroupOf[t]] # 0
    BY <1>10, DecrementPositive
  <2>2. \A g \in Groups : g # GroupOf[t] => inflight'[g] = inflight[g]
    BY <1>10 DEF Decrement, TypeOK
  <2>3. /\ pc'[t] \in {"last", "left"} /\ \A b \in Actors : b # t => pc'[b] = pc[b]
        /\ UNCHANGED <<scope, life>>
    BY <1>10, GotoEffect DEF Decrement, PCs, Actors
  <2>4. \A b \in Actors : pc[b] = "waited" => scope[b] \in Groups
    BY DEF ScopeInv, InScope
  <2> QED
    BY <2>1, <2>2, <2>3, <2>4 DEF JoinInv
<1>11. ASSUME NEW t \in Tasks, Notifies(t) PROVE JoinInv'
  BY <1>1, <1>11, NotifiesEffect
<1>12. CASE UNCHANGED vars
  BY <1>12 DEF vars, JoinInv
<1> QED
  BY <1>2, <1>4, <1>5, <1>6, <1>7, <1>8, <1>9, <1>10, <1>11, <1>12, StepCases

-----------------------------------------------------------------------------
(* The theorems.                                                           *)

(* The invariant holds before the first group is opened, and every step    *)
(* preserves it.                                                           *)
LEMMA IInvInductive == /\ Init => IInv
                       /\ IInv /\ [Next]_vars => IInv'
<1>1. ASSUME Init PROVE IInv
  <2>1. /\ new = Tasks /\ running = {} /\ waiting = [l \in Pool!Lanes |-> << >>]
    BY <1>1 DEF Init, Pool!Init
  <2>2. /\ pc = [a \in Actors |-> IF a = Main THEN "body" ELSE "none"]
        /\ pc \in [Actors -> PCs]
        /\ \A t \in Tasks : t \in Actors /\ pc[t] = "none"
    BY <1>1, TreeAssumption DEF Init, PCs, Actors
  <2>3. \A l \in Pool!Lanes : waiting[l] = << >> /\ DOMAIN waiting[l] = {}
    BY <2>1
  <2>4. TypeOK
    BY <1>1, <2>1, <2>2 DEF Init, TypeOK, Pool!Lanes
  <2>5. ScopeInv /\ TargetInv
    BY <1>1, <2>2 DEF Init, ScopeInv, TargetInv, InScope
  <2>6. PoolInv
    BY <2>1, <2>2, <2>3 DEF PoolInv
  <2>7. ReadyInv /\ UncountedInv
    BY <2>1, <2>2 DEF ReadyInv, UncountedInv, Returned
  <2>8. CountInv
    <3>1. ASSUME NEW t \in Tasks PROVE ~Counted(t)
      BY <2>1, <2>2 DEF Counted
    <3>2. \A g \in Groups : Outstanding(g) = {}
      BY <3>1 DEF Outstanding
    <3>3. \A g \in Groups : inflight[g] = 0
      BY <1>1 DEF Init
    <3> QED
      BY <3>2, <3>3, FS_EmptySet DEF CountInv
  <2>9. JoinInv
    BY <1>1, <2>2 DEF Init, JoinInv
  <2> QED
    BY <2>4, <2>5, <2>6, <2>7, <2>8, <2>9 DEF IInv
<1>2. ASSUME IInv, [Next]_vars PROVE IInv'
  BY <1>2, TypeStep, ScopeStep, TargetStep, PoolStep, ReadyStep, CountStep, UncountedStep, JoinStep
  DEF IInv
<1> QED
  BY <1>1, <1>2

(* Type correctness for any tree of tasks and groups; m_inflight never goes*)
(* below 0.                                                                *)
THEOREM TypeCorrect == Spec => []TypeOK
<1>1. IInv => TypeOK
  BY DEF IInv
<1> QED
  BY <1>1, IInvInductive, PTL DEF Spec

(* Whatever the tree of tasks, with workers or without: once wait() has    *)
(* returned every task the group was given has returned.                   *)
THEOREM JoinIsCompleteHolds == Spec => []JoinIsComplete
<1>1. ASSUME IInv PROVE JoinIsComplete
  <2>1. SUFFICES ASSUME NEW t \in Tasks, Joined(GroupOf[t]), t \notin new PROVE ready[t]
    BY DEF JoinIsComplete
  <2> DEFINE g == GroupOf[t]
  <2>2. g \in Groups
    BY TreeAssumption
  <2>3. inflight[g] = 0
    BY <1>1, <2>1, <2>2 DEF Joined, IInv, JoinInv
  <2>4. CASE workers = 0
    <3>1. SUFFICES ASSUME NEW a \in Actors, pc[a] = "inline", target[a] = t PROVE FALSE
      BY <1>1, <2>1, <2>4 DEF IInv, ReadyInv
    <3>2. scope[a] = g /\ life[g] = "alive"
      BY <1>1, <3>1 DEF IInv, TargetInv, ScopeInv, InScope
    <3>3. PICK b \in Actors : scope[b] = g /\ pc[b] = "waited"
      BY <2>1, <3>2 DEF Joined
    <3>4. a = b
      BY <1>1, <3>1, <3>2, <3>3, ScopeIsOwned DEF IInv, InScope
    <3> QED
      BY <3>1, <3>3, <3>4
  <2>5. CASE workers # 0
    <3>1. Cardinality(Outstanding(g)) = 0
      BY <1>1, <2>2, <2>3, <2>5 DEF IInv, CountInv
    <3>2. Outstanding(g) = {}
      BY <2>2, <3>1, OutstandingFinite, FS_EmptySet
    <3>3. ~Counted(t)
      BY <3>2 DEF Outstanding
    <3> QED
      BY <1>1, <2>1, <3>3 DEF Counted, IInv, ReadyInv, Returned
  <2> QED
    BY <2>4, <2>5
<1> QED
  BY <1>1, IInvInductive, PTL DEF Spec
=============================================================================
