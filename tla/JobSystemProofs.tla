-------------------------- MODULE JobSystemProofs --------------------------
(***************************************************************************)
(* Proofs about JobSystem, for any number of clients, any build and        *)
(* machine the pool is built for, and any jobs.                            *)
(***************************************************************************)
EXTENDS JobSystem, FiniteSetTheorems, SequenceTheorems, TLAPS

(* The constructor has started exactly the threads its count asks for.      *)
WorkersInv == \A w \in Workers : wpc[w] # "none" <=> w <= WorkerCount(config)

(* A worker holds a job while it runs it, the notify_one() of a nested      *)
(* enqueue() included.                                                     *)
HeldInv == \A w \in Workers : job[w] # None <=> wpc[w] \in {"run", "notify"}

(* m_inflight counts the jobs in the queues and in the workers.             *)
QueueLength == Len(queue["Engine"]) + Len(queue["User"])
CountInv == inflight = QueueLength + Cardinality(Busy)

(* Only the owner of a pool without workers runs jobs itself, and between   *)
(* wait_idle() and the destructor; such a pool never queues anything.      *)
InlineInv ==
  /\ \A c \in Clients :
       inline[c] # << >> => c = Owner /\ Started = {} /\ cpc[c] = "out" /\ ~stop
  /\ Started = {} => NoJobQueued

(* A job is in one place: not enqueued yet, at one position of one queue,   *)
(* in one worker, or at one depth of the owner's stack.                    *)
PlaceInv ==
  /\ \A j \in todo : ~Unfinished(j)
  /\ \A l, m \in Lanes : \A i \in DOMAIN queue[l], k \in DOMAIN queue[m] :
       queue[l][i] = queue[m][k] => l = m /\ i = k
  /\ \A l \in Lanes : \A i \in DOMAIN queue[l] :
       \A w \in Workers : job[w] # queue[l][i]
  /\ \A w, v \in Workers : job[w] = job[v] /\ job[w] # None => w = v
  /\ \A i, k \in DOMAIN inline[Owner] : inline[Owner][i] = inline[Owner][k] => i = k

(* Once m_stop is set only the owner is inside a call.  A worker leaves     *)
(* only then, and the last one leaves empty queues behind.                 *)
StopInv ==
  /\ stop <=> cpc[Owner] \in {"stop_notify", "join", "gone"}
  /\ \A c \in Clients \ {Owner} :
       /\ cpc[c] \notin {"stop_notify", "join", "gone"}
       /\ stop => cpc[c] = "out"
  /\ \A w \in Workers : wpc[w] = "exit" => stop
  /\ (\A w \in Started : wpc[w] = "exit") => NoJobQueued

IInv ==
  /\ TypeOK /\ WorkersInv /\ HeldInv /\ CountInv /\ InlineInv /\ PlaceInv
  /\ StopInv

-----------------------------------------------------------------------------
(* However the pool is built, the number of its workers is a number, and    *)
(* their threads are among Workers.                                        *)
LEMMA WorkerCountType ==
  ASSUME NEW c \in Configs
  PROVE  /\ WorkerCount(c) \in Nat
         /\ 1 .. WorkerCount(c) \subseteq Workers
<1>1. c \in [smp : BOOLEAN, max : Nat, cores : Nat, requested : Nat]
  BY PoolAssumption
<1>2. ApplySmp(c) \in Nat
  BY <1>1 DEF ApplySmp
<1>3. ApplyAuto(c, ApplySmp(c)) \in Nat
  BY <1>1, <1>2 DEF ApplyAuto
<1>4. WorkerCount(c) \in Nat
  BY <1>1, <1>3 DEF WorkerCount
<1> QED
  BY <1>4 DEF Workers

(* notify_one() moves sleeping workers only, and only back to the queues.   *)
LEMMA NotifyOneEffect ==
  ASSUME NEW pcs \in [Workers -> WorkerPCs], NotifyOne(pcs)
  PROVE  /\ wpc' \in [Workers -> WorkerPCs]
         /\ \A w \in Workers : \/ wpc'[w] = pcs[w]
                               \/ pcs[w] = "asleep" /\ wpc'[w] = "top"
BY DEF NotifyOne, WorkerPCs

(* A step of a worker, of a client inside a call or at the beginning of     *)
(* one, of the destructor, or of nobody.                                   *)
LEMMA StepCases ==
  ASSUME [Next]_vars
  PROVE  /\ Callers \subseteq Clients
         /\ \/ \E w \in Workers : \/ \E l \in Lanes : Take(w, l)
                                  \/ \E j \in Jobs : JobPush(w, j)
                                  \/ Sleep(w) \/ Exit(w) \/ JobNotify(w)
                                  \/ Finish(w) \/ NotifyIdle(w)
            \/ \E c \in Clients : \/ \E j \in Jobs : ClientPush(c, j)
                                  \/ ClientNotify(c) \/ FinishInline(c)
                                  \/ LockIdle(c) \/ BlockIdle(c)
                                  \/ CallWaitIdle(c)
            \/ \E c \in Callers : CheckIdle(c) \/ \E j \in Jobs : RunInline(c, j)
            \/ Stop \/ StopNotify \/ Join \/ SpuriousWakeup \/ UNCHANGED vars
<1>1. Callers \subseteq Clients
  BY PoolAssumption DEF Callers
<1> QED
  BY <1>1 DEF Next, WorkerStep, InCall

(* The initial values have their types, and every action leaves every       *)
(* variable in its type, as long as m_inflight counts every job that runs:  *)
(* otherwise its decrement would wrap around.                              *)
LEMMA TypeInductive ==
  /\ Init => TypeOK
  /\ TypeOK /\ [Next]_vars /\ (\A w \in Workers : wpc[w] = "run" => inflight # 0)
       => TypeOK'
<1>1. ASSUME Init PROVE TypeOK
  <2>1. << >> \in Seq(Jobs)
    OBVIOUS
  <2>2. /\ queue \in [Lanes -> Seq(Jobs)]
        /\ inline \in [Clients -> Seq(Jobs)]
    BY <1>1, <2>1 DEF Init
  <2>3. /\ wpc \in [Workers -> WorkerPCs]
        /\ cpc \in [Clients -> ClientPCs]
    BY <1>1 DEF Init, WorkerPCs, ClientPCs
  <2>4. job \in [Workers -> Jobs \cup {None}]
    BY <1>1 DEF Init
  <2> QED
    BY <1>1, <2>2, <2>3, <2>4 DEF Init, TypeOK
<1>2. ASSUME TypeOK, [Next]_vars,
             \A w \in Workers : wpc[w] = "run" => inflight # 0
      PROVE  TypeOK'
  <2> USE TypeOK DEF TypeOK
  <2>0. \A w \in Workers, pc \in WorkerPCs :
          [wpc EXCEPT ![w] = pc] \in [Workers -> WorkerPCs]
    OBVIOUS
  <2>1. \A c \in Clients, pc \in ClientPCs :
          [cpc EXCEPT ![c] = pc] \in [Clients -> ClientPCs]
    OBVIOUS
  <2>2. ASSUME NEW j \in Jobs, Push(j)
        PROVE  /\ todo' \subseteq Jobs /\ inflight' \in Nat
               /\ queue' \in [Lanes -> Seq(Jobs)]
    <3>1. queue[LaneOf[j]] \in Seq(Jobs)
      BY PoolAssumption
    <3>2. Append(queue[LaneOf[j]], j) \in Seq(Jobs)
      BY <3>1
    <3> QED
      BY <2>2, <3>2, PoolAssumption DEF Push
  <2>3. ASSUME NEW w \in Workers, NEW l \in Lanes, Take(w, l) PROVE TypeOK'
    <3>1. queue[l] \in Seq(Jobs) /\ queue[l] # << >>
      BY <2>3 DEF Take
    <3>2. Head(queue[l]) \in Jobs /\ Tail(queue[l]) \in Seq(Jobs)
      BY <3>1, HeadTailProperties
    <3> QED
      BY <2>0, <2>3, <3>2 DEF Take, WorkerPCs
  <2>4. ASSUME NEW w \in Workers, NEW j \in Jobs, JobPush(w, j) PROVE TypeOK'
    BY <2>0, <2>2, <2>4 DEF JobPush, WorkerPCs
  <2>5. ASSUME NEW w \in Workers, Sleep(w) \/ Exit(w) PROVE TypeOK'
    BY <2>0, <2>5 DEF Sleep, Exit, WorkerPCs
  <2>6. ASSUME NEW w \in Workers, JobNotify(w) PROVE TypeOK'
    BY <2>0, <2>6, NotifyOneEffect DEF JobNotify, WorkerPCs
  <2>7. ASSUME NEW w \in Workers, Finish(w) PROVE TypeOK'
    <3>1. inflight - 1 \in Nat
      BY <1>2, <2>7 DEF Finish
    <3> QED
      BY <2>0, <2>7, <3>1 DEF Finish, WorkerPCs
  <2>8. ASSUME NEW w \in Workers, NotifyIdle(w) PROVE TypeOK'
    BY <2>0, <2>8 DEF NotifyIdle, WorkerPCs, ClientPCs
  <2>9. ASSUME NEW c \in Clients, NEW j \in Jobs, ClientPush(c, j) PROVE TypeOK'
    BY <2>1, <2>2, <2>9 DEF ClientPush, ClientPCs
  <2>10. ASSUME NEW c \in Clients, ClientNotify(c) PROVE TypeOK'
    BY <2>1, <2>10, NotifyOneEffect DEF ClientNotify, ClientPCs
  <2>11. ASSUME NEW c \in Clients, FinishInline(c) PROVE TypeOK'
    <3>1. inline[c] \in Seq(Jobs) /\ inline[c] # << >>
      BY <2>11 DEF FinishInline
    <3>2. SubSeq(inline[c], 1, Len(inline[c]) - 1) \in Seq(Jobs)
      BY <3>1, SubSeqProperties, ElementOfSeq, LenProperties
    <3> QED
      BY <2>11, <3>2 DEF FinishInline
  <2>12. ASSUME NEW c \in Clients,
                LockIdle(c) \/ CheckIdle(c) \/ BlockIdle(c) \/ CallWaitIdle(c)
         PROVE  TypeOK'
    BY <2>1, <2>12 DEF LockIdle, CheckIdle, BlockIdle, CallWaitIdle, ClientPCs
  <2>13. ASSUME NEW c \in Clients, NEW j \in Jobs, RunInline(c, j) PROVE TypeOK'
    BY <2>13 DEF RunInline
  <2>14. CASE Stop \/ StopNotify \/ Join
    BY <2>1, <2>14, PoolAssumption DEF Stop, StopNotify, Join, ClientPCs, WorkerPCs
  <2>15. CASE SpuriousWakeup
    BY <2>0, <2>1, <2>15 DEF SpuriousWakeup, ClientPCs, WorkerPCs
  <2>16. CASE UNCHANGED vars
    BY <2>16 DEF vars
  <2>17. Callers \subseteq Clients
    BY PoolAssumption DEF Callers
  <2> QED
    BY <1>2, <2>3, <2>4, <2>5, <2>6, <2>7, <2>8, <2>9, <2>10, <2>11, <2>12, <2>13,
       <2>14, <2>15, <2>16, <2>17, StepCases
<1> QED
  BY <1>1, <1>2

-----------------------------------------------------------------------------
(* What a step does to the jobs: one is enqueued, taken, finished, run by   *)
(* its caller or finished there, or they all stay where they are.          *)
LEMMA JobMoves ==
  ASSUME TypeOK, [Next]_vars
  PROVE  \/ \E j \in Jobs : Started # {} /\ Push(j) /\ UNCHANGED <<job, inline>>
         \/ \E w \in Workers, l \in Lanes : Take(w, l)
         \/ \E w \in Workers : Finish(w)
         \/ \E c \in Callers, j \in Jobs : RunInline(c, j)
         \/ \E c \in Clients : FinishInline(c)
         \/ UNCHANGED <<todo, queue, inflight, job, inline>>
<1>1. ASSUME NEW w \in Workers, NEW j \in Jobs, JobPush(w, j)
      PROVE  Started # {} /\ Push(j) /\ UNCHANGED <<job, inline>>
  BY <1>1 DEF JobPush, Started
<1>2. ASSUME NEW c \in Clients, NEW j \in Jobs, ClientPush(c, j)
      PROVE  Started # {} /\ Push(j) /\ UNCHANGED <<job, inline>>
  BY <1>2 DEF ClientPush
<1>3. ASSUME NEW w \in Workers, Sleep(w) \/ Exit(w) \/ JobNotify(w) \/ NotifyIdle(w)
      PROVE  UNCHANGED <<todo, queue, inflight, job, inline>>
  BY <1>3 DEF Sleep, Exit, JobNotify, NotifyIdle
<1>4. ASSUME NEW c \in Clients,
             ClientNotify(c) \/ LockIdle(c) \/ CheckIdle(c) \/ BlockIdle(c) \/ CallWaitIdle(c)
      PROVE  UNCHANGED <<todo, queue, inflight, job, inline>>
  BY <1>4 DEF ClientNotify, LockIdle, CheckIdle, BlockIdle, CallWaitIdle
<1>5. ASSUME Stop \/ StopNotify \/ Join \/ SpuriousWakeup \/ UNCHANGED vars
      PROVE  UNCHANGED <<todo, queue, inflight, job, inline>>
  BY <1>5 DEF Stop, StopNotify, Join, SpuriousWakeup, vars
<1> QED
  BY <1>1, <1>2, <1>3, <1>4, <1>5, StepCases

(* No thread is started after the constructor, and a worker takes up or     *)
(* puts down its job as it begins and ends to run it.                      *)
LEMMA WorkersStep ==
  ASSUME TypeOK, [Next]_vars
  PROVE  /\ config' = config
         /\ \A w \in Workers : wpc'[w] = "none" <=> wpc[w] = "none"
         /\ Started' = Started
         /\ WorkersInv => WorkersInv'
         /\ HeldInv => HeldInv'
<1>1. config' = config
  BY StepCases
  DEF Take, JobPush, Sleep, Exit, JobNotify, Finish, NotifyIdle, ClientPush,
      ClientNotify, FinishInline, LockIdle, CheckIdle, BlockIdle, CallWaitIdle,
      RunInline, Stop, StopNotify, Join, SpuriousWakeup, vars
<1> DEFINE Goal == /\ \A w \in Workers : wpc'[w] = "none" <=> wpc[w] = "none"
                   /\ HeldInv => HeldInv'
<1>2. Goal
  <2> USE TypeOK DEF TypeOK, HeldInv
  <2>1. ASSUME NEW w \in Workers, NEW l \in Lanes, Take(w, l) PROVE Goal
    <3>1. Head(queue[l]) \in Jobs
      BY <2>1, HeadTailProperties DEF Take
    <3> QED
      BY <2>1, <3>1, PoolAssumption DEF Take
  <2>2. ASSUME NEW w \in Workers, NEW j \in Jobs, JobPush(w, j) PROVE Goal
    BY <2>2 DEF JobPush
  <2>3. ASSUME NEW w \in Workers, Sleep(w) \/ Exit(w) PROVE Goal
    BY <2>3 DEF Sleep, Exit
  <2>4. ASSUME NEW w \in Workers, JobNotify(w) PROVE Goal
    <3>1. [wpc EXCEPT ![w] = "run"] \in [Workers -> WorkerPCs]
      BY DEF WorkerPCs
    <3> QED
      BY <2>4, <3>1, NotifyOneEffect DEF JobNotify
  <2>5. ASSUME NEW w \in Workers, Finish(w) PROVE Goal
    BY <2>5 DEF Finish
  <2>6. ASSUME NEW w \in Workers, NotifyIdle(w) PROVE Goal
    BY <2>6 DEF NotifyIdle
  <2>7. ASSUME NEW c \in Clients, ClientNotify(c) PROVE Goal
    BY <2>7, NotifyOneEffect DEF ClientNotify
  <2>8. CASE StopNotify
    BY <2>8 DEF StopNotify
  <2>9. CASE SpuriousWakeup
    BY <2>9 DEF SpuriousWakeup
  <2>10. ASSUME UNCHANGED <<wpc, job>> PROVE Goal
    BY <2>10
  <2> QED
    BY <2>1, <2>2, <2>3, <2>4, <2>5, <2>6, <2>7, <2>8, <2>9, <2>10, StepCases
    DEF ClientPush, FinishInline, LockIdle, CheckIdle, BlockIdle, CallWaitIdle,
        RunInline, Stop, Join, vars
<1>3. Started' = Started
  BY <1>2 DEF Started
<1>4. WorkersInv => WorkersInv'
  BY <1>1, <1>2 DEF WorkersInv
<1> QED
  BY <1>1, <1>2, <1>3, <1>4

(* The workers that hold a job are finitely many.                           *)
LEMMA BusyFinite ==
  ASSUME TypeOK, WorkersInv, HeldInv
  PROVE  IsFiniteSet(Busy) /\ Cardinality(Busy) \in Nat
<1>1. Busy \subseteq 1 .. WorkerCount(config)
  <2>1. \A w \in Workers : w \in Nat /\ w >= 1
    BY WorkerCountType DEF Workers
  <2>2. WorkerCount(config) \in Nat
    BY WorkerCountType DEF TypeOK
  <2>3. \A w \in Busy : w \in Workers /\ w <= WorkerCount(config)
    BY DEF Busy, WorkersInv, HeldInv
  <2>4. \A w \in Busy : w \in 1 .. WorkerCount(config)
    BY <2>1, <2>2, <2>3
  <2> QED
    BY <2>4
<1>2. IsFiniteSet(1 .. WorkerCount(config))
  BY WorkerCountType, FS_Interval DEF TypeOK
<1> QED
  BY <1>1, <1>2, FS_Subset, FS_CardinalityType

(* The queues grow by the job that is enqueued and shrink by the one that   *)
(* is taken.                                                               *)
LEMMA QueueLengthStep ==
  ASSUME TypeOK
  PROVE  /\ QueueLength \in Nat
         /\ QueueLength = 0 <=> NoJobQueued
         /\ \A j \in Jobs : Push(j) => QueueLength' = QueueLength + 1
         /\ \A w \in Workers, l \in Lanes : Take(w, l) => QueueLength' = QueueLength - 1
<1> DEFINE e == Len(queue["Engine"])
           u == Len(queue["User"])
<1>1. queue["Engine"] \in Seq(Jobs) /\ queue["User"] \in Seq(Jobs)
  BY DEF TypeOK, Lanes
<1>2. e \in Nat /\ u \in Nat /\ QueueLength = e + u /\ QueueLength' = e' + u'
  BY <1>1, LenProperties DEF QueueLength
<1>3. NoJobQueued <=> e = 0 /\ u = 0
  <2>1. NoJobQueued <=> queue["Engine"] = << >> /\ queue["User"] = << >>
    BY DEF NoJobQueued, Lanes
  <2>2. /\ e = 0 <=> queue["Engine"] = << >>
        /\ u = 0 <=> queue["User"] = << >>
    BY <1>1, EmptySeq
  <2> QED
    BY <2>1, <2>2
<1>4. ASSUME NEW j \in Jobs, Push(j)
      PROVE  \/ e' = e + 1 /\ u' = u
             \/ e' = e /\ u' = u + 1
  <2>1. LaneOf[j] \in Lanes /\ queue[LaneOf[j]] \in Seq(Jobs)
    BY PoolAssumption DEF TypeOK
  <2>2. Len(Append(queue[LaneOf[j]], j)) = Len(queue[LaneOf[j]]) + 1
    BY <2>1, AppendProperties
  <2>3. queue' = [queue EXCEPT ![LaneOf[j]] = Append(queue[LaneOf[j]], j)]
    BY <1>4 DEF Push
  <2> QED
    BY <2>1, <2>2, <2>3 DEF TypeOK, Lanes
<1>5. ASSUME NEW w \in Workers, NEW l \in Lanes, Take(w, l)
      PROVE  \/ e' = e - 1 /\ u' = u
             \/ e' = e /\ u' = u - 1
  <2>1. queue' = [queue EXCEPT ![l] = Tail(queue[l])] /\ queue[l] # << >>
    BY <1>5 DEF Take
  <2>2. Len(Tail(queue[l])) = Len(queue[l]) - 1
    BY <2>1, HeadTailProperties DEF TypeOK
  <2> QED
    BY <2>1, <2>2 DEF TypeOK, Lanes
<1> HIDE DEF e, u
<1> QED
  BY <1>2, <1>3, <1>4, <1>5

(* The counter goes up with the queue, stays when a job changes hands, and  *)
(* goes down with the workers that hold one.                               *)
LEMMA CountStep ==
  ASSUME TypeOK, WorkersInv, HeldInv, CountInv, [Next]_vars
  PROVE  /\ CountInv'
         /\ \A w \in Workers : wpc[w] = "run" => inflight # 0
<1> USE DEF CountInv
<1>1. QueueLength \in Nat /\ inflight \in Nat
  BY QueueLengthStep DEF TypeOK
<1>2. IsFiniteSet(Busy) /\ Cardinality(Busy) \in Nat
  BY BusyFinite
<1>3. ASSUME NEW w \in Workers, wpc[w] = "run" PROVE inflight # 0
  <2>1. Busy # {}
    BY <1>3 DEF Busy, HeldInv
  <2>2. Cardinality(Busy) # 0
    BY <2>1, <1>2, FS_EmptySet
  <2> QED
    BY <1>1, <1>2, <2>2
<1>4. ASSUME NEW j \in Jobs, Push(j), UNCHANGED job PROVE CountInv'
  <2>1. Busy' = Busy
    BY <1>4 DEF Busy
  <2>2. QueueLength' = QueueLength + 1
    BY <1>4, QueueLengthStep
  <2>3. inflight' = inflight + 1
    BY <1>4 DEF Push
  <2> QED
    BY <1>1, <1>2, <2>1, <2>2, <2>3
<1>5. ASSUME NEW w \in Workers, NEW l \in Lanes, Take(w, l) PROVE CountInv'
  <2>1. Busy' = Busy \cup {w} /\ w \notin Busy
    <3>1. job[w] = None
      BY <1>5 DEF Take, HeldInv
    <3>2. Head(queue[l]) # None
      BY <1>5, HeadTailProperties, PoolAssumption DEF Take, TypeOK
    <3>3. \A v \in Workers : job'[v] # None <=> v = w \/ job[v] # None
      BY <1>5, <3>2 DEF Take, TypeOK
    <3> QED
      BY <3>1, <3>3 DEF Busy
  <2>2. Cardinality(Busy') = Cardinality(Busy) + 1
    BY <1>2, <2>1, FS_AddElement
  <2>3. QueueLength' = QueueLength - 1
    BY <1>5, QueueLengthStep
  <2>4. inflight' = inflight
    BY <1>5 DEF Take
  <2> QED
    BY <1>1, <1>2, <2>2, <2>3, <2>4
<1>6. ASSUME NEW w \in Workers, Finish(w) PROVE CountInv'
  <2>1. Busy' = Busy \ {w} /\ w \in Busy
    BY <1>6, PoolAssumption DEF Finish, Busy, HeldInv, TypeOK
  <2>2. Cardinality(Busy') = Cardinality(Busy) - 1
    BY <1>2, <2>1, FS_RemoveElement
  <2>3. QueueLength' = QueueLength /\ inflight' = inflight - 1
    BY <1>6 DEF Finish, QueueLength
  <2> QED
    BY <1>1, <1>2, <2>2, <2>3
<1>7. ASSUME UNCHANGED <<queue, inflight, job>> PROVE CountInv'
  BY <1>7 DEF Busy, QueueLength
<1> QED
  BY <1>3, <1>4, <1>5, <1>6, <1>7, JobMoves DEF RunInline, FinishInline

(* The owner of a pool without workers enters wait_idle() and the           *)
(* destructor only between jobs, and enqueues nothing.                     *)
LEMMA InlineStep ==
  ASSUME TypeOK, InlineInv, [Next]_vars
  PROVE  InlineInv'
<1>1. Started' = Started
  BY WorkersStep
<1>2. Started = {} => NoJobQueued'
  <2> SUFFICES ASSUME Started = {} PROVE NoJobQueued'
    OBVIOUS
  <2>1. NoJobQueued
    BY DEF InlineInv
  <2>2. ASSUME NEW w \in Workers, NEW l \in Lanes, Take(w, l) PROVE FALSE
    BY <2>1, <2>2 DEF Take, NoJobQueued
  <2>3. queue' = queue
    BY <2>2, JobMoves DEF Finish, RunInline, FinishInline
  <2> QED
    BY <2>1, <2>3 DEF NoJobQueued
<1>3. ASSUME NEW c \in Clients, inline'[c] # << >>
      PROVE  c = Owner /\ Started = {} /\ cpc'[c] = "out" /\ ~stop'
  <2> USE <1>3 DEF TypeOK
  <2>1. CASE inline[c] # << >>
    <3>1. c = Owner /\ Started = {} /\ cpc[c] = "out" /\ ~stop
      BY <2>1 DEF InlineInv
    <3>2. cpc'[c] = cpc[c] /\ stop' = stop
      BY <2>1, <3>1, StepCases, PoolAssumption
      DEF Take, JobPush, Sleep, Exit, JobNotify, Finish, NotifyIdle, ClientPush,
          ClientNotify, FinishInline, LockIdle, CheckIdle, BlockIdle, CallWaitIdle,
          RunInline, Stop, StopNotify, Join, SpuriousWakeup, vars
    <3> QED
      BY <3>1, <3>2
  <2>2. CASE inline[c] = << >>
    <3>1. ASSUME NEW d \in Clients, FinishInline(d) PROVE FALSE
      BY <2>2, <3>1 DEF FinishInline
    <3>2. PICK d \in Callers, j \in Jobs : RunInline(d, j)
      BY <2>2, <3>1, JobMoves DEF Push, Take, Finish
    <3>3. d \in Clients
      BY PoolAssumption DEF Callers
    <3>4. c = d
      BY <2>2, <3>2, <3>3 DEF RunInline
    <3> QED
      BY <3>2, <3>4 DEF RunInline, Callers
  <2> QED
    BY <2>1, <2>2
<1> QED
  BY <1>1, <1>2, <1>3 DEF InlineInv

(* The destructor runs in the owner alone, and whoever enqueues a job after *)
(* m_stop is a worker that is still there.                                 *)
LEMMA StopStep ==
  ASSUME TypeOK, StopInv, [Next]_vars
  PROVE  StopInv'
<1> USE PoolAssumption DEF TypeOK, StopInv
<1> DEFINE Goal == /\ stop' <=> cpc'[Owner] \in {"stop_notify", "join", "gone"}
                   /\ \A c \in Clients \ {Owner} :
                        /\ cpc'[c] \notin {"stop_notify", "join", "gone"}
                        /\ stop' => cpc'[c] = "out"
<1>1. Goal
  <2>1. ASSUME NEW c \in Clients,
               \/ \E j \in Jobs : ClientPush(c, j)
               \/ ClientNotify(c) \/ LockIdle(c) \/ CheckIdle(c) \/ BlockIdle(c)
               \/ CallWaitIdle(c)
        PROVE  Goal
    BY <2>1 DEF ClientPush, ClientNotify, LockIdle, CheckIdle, BlockIdle, CallWaitIdle
  <2>2. ASSUME NEW w \in Workers, NotifyIdle(w) PROVE Goal
    BY <2>2 DEF NotifyIdle
  <2>3. CASE SpuriousWakeup
    BY <2>3 DEF SpuriousWakeup
  <2>4. CASE Stop
    BY <2>4 DEF Stop
  <2>5. CASE StopNotify
    BY <2>5 DEF StopNotify
  <2>6. CASE Join
    BY <2>6 DEF Join
  <2>7. ASSUME UNCHANGED <<stop, cpc>> PROVE Goal
    BY <2>7
  <2> QED
    BY <2>1, <2>2, <2>3, <2>4, <2>5, <2>6, <2>7, StepCases
    DEF Take, JobPush, Sleep, Exit, JobNotify, Finish, FinishInline, RunInline, vars
<1>2. \A w \in Workers : wpc'[w] = "exit" => wpc[w] = "exit" \/ Exit(w)
  <2>1. ASSUME NEW w \in Workers, JobNotify(w)
        PROVE  \A v \in Workers : wpc'[v] = "exit" => wpc[v] = "exit"
    <3>1. [wpc EXCEPT ![w] = "run"] \in [Workers -> WorkerPCs]
      BY DEF WorkerPCs
    <3> QED
      BY <2>1, <3>1, NotifyOneEffect DEF JobNotify
  <2>2. ASSUME NEW c \in Clients, ClientNotify(c)
        PROVE  \A v \in Workers : wpc'[v] = "exit" => wpc[v] = "exit"
    BY <2>2, NotifyOneEffect DEF ClientNotify
  <2>3. ASSUME NEW w \in Workers, Exit(w)
        PROVE  \A v \in Workers : wpc'[v] = "exit" => wpc[v] = "exit" \/ Exit(v)
    BY <2>3 DEF Exit
  <2>4. ASSUME NEW w \in Workers,
               \/ \E l \in Lanes : Take(w, l)
               \/ \E j \in Jobs : JobPush(w, j)
               \/ Sleep(w) \/ Finish(w) \/ NotifyIdle(w)
        PROVE  \A v \in Workers : wpc'[v] = "exit" => wpc[v] = "exit"
    BY <2>4 DEF Take, JobPush, Sleep, Finish, NotifyIdle
  <2>5. ASSUME StopNotify \/ SpuriousWakeup
        PROVE  \A v \in Workers : wpc'[v] = "exit" => wpc[v] = "exit"
    BY <2>5 DEF StopNotify, SpuriousWakeup
  <2>6. ASSUME UNCHANGED wpc
        PROVE  \A v \in Workers : wpc'[v] = "exit" => wpc[v] = "exit"
    BY <2>6
  <2> QED
    BY <2>1, <2>2, <2>3, <2>4, <2>5, <2>6, StepCases
    DEF ClientPush, FinishInline, LockIdle, CheckIdle, BlockIdle, CallWaitIdle,
        RunInline, Stop, Join, vars
<1>3. stop => stop'
  BY StepCases
  DEF Take, JobPush, Sleep, Exit, JobNotify, Finish, NotifyIdle, ClientPush,
      ClientNotify, FinishInline, LockIdle, CheckIdle, BlockIdle, CallWaitIdle,
      RunInline, Stop, StopNotify, Join, SpuriousWakeup, vars
<1>4. ASSUME \A w \in Started' : wpc'[w] = "exit"
      PROVE  NoJobQueued'
  <2>1. Started' = Started /\ \A w \in Started : w \in Workers
    BY WorkersStep DEF Started
  <2>2. CASE \E w \in Started : Exit(w)
    BY <2>2 DEF Exit, NoJobQueued
  <2>3. CASE ~\E w \in Started : Exit(w)
    <3>1. \A w \in Started : wpc[w] = "exit"
      BY <1>2, <1>4, <2>1, <2>3
    <3>2. NoJobQueued
      BY <3>1
    <3>3. Started # {} => stop
      BY <2>1, <3>1
    <3>4. ASSUME NEW w \in Workers, NEW j \in Jobs, JobPush(w, j) PROVE FALSE
      BY <3>1, <3>4 DEF JobPush, Started
    <3>5. ASSUME NEW c \in Clients, NEW j \in Jobs, ClientPush(c, j) PROVE FALSE
      BY <3>3, <3>5 DEF ClientPush
    <3>6. ASSUME NEW w \in Workers, NEW l \in Lanes, Take(w, l) PROVE FALSE
      BY <3>2, <3>6 DEF Take, NoJobQueued
    <3>7. queue' = queue
      BY <3>4, <3>5, <3>6, StepCases
      DEF Sleep, Exit, JobNotify, Finish, NotifyIdle, ClientNotify, FinishInline,
          LockIdle, CheckIdle, BlockIdle, CallWaitIdle, RunInline, Stop,
          StopNotify, Join, SpuriousWakeup, vars
    <3> QED
      BY <3>2, <3>7 DEF NoJobQueued
  <2> QED
    BY <2>2, <2>3
<1>5. \A w \in Workers : wpc'[w] = "exit" => stop'
  BY <1>2, <1>3 DEF Exit
<1> QED
  BY <1>1, <1>4, <1>5

-----------------------------------------------------------------------------
(* An enqueued job is the last of its lane; the others stay where they are. *)
LEMMA PushedQueue ==
  ASSUME TypeOK, NEW j \in Jobs, Push(j), NEW l \in Lanes
  PROVE  \A i \in DOMAIN queue'[l] :
           \/ i \in DOMAIN queue[l] /\ queue'[l][i] = queue[l][i]
           \/ l = LaneOf[j] /\ i = Len(queue[l]) + 1 /\ queue'[l][i] = j
<1> DEFINE q == queue[l]
<1>1. q \in Seq(Jobs) /\ queue' = [queue EXCEPT ![LaneOf[j]] = Append(@, j)]
  BY DEF TypeOK, Push
<1>2. /\ Append(q, j) \in Seq(Jobs) /\ Len(Append(q, j)) = Len(q) + 1
      /\ \A i \in 1 .. Len(q) : Append(q, j)[i] = q[i]
      /\ Append(q, j)[Len(q) + 1] = j
  BY <1>1, AppendProperties
<1>3. DOMAIN q = 1 .. Len(q) /\ DOMAIN Append(q, j) = 1 .. Len(q) + 1 /\ Len(q) \in Nat
  BY <1>1, <1>2, LenProperties
<1>4. CASE l = LaneOf[j]
  <2>1. queue'[l] = Append(q, j)
    BY <1>1, <1>4 DEF TypeOK
  <2>2. \A i \in 1 .. Len(q) + 1 : i \in 1 .. Len(q) \/ i = Len(q) + 1
    BY <1>3
  <2> HIDE DEF q
  <2>3. \A i \in DOMAIN Append(q, j) :
          \/ i \in DOMAIN q /\ Append(q, j)[i] = q[i]
          \/ i = Len(q) + 1 /\ Append(q, j)[i] = j
    BY <1>2, <1>3, <2>2
  <2> QED
    BY <1>4, <2>1, <2>3 DEF q
<1>5. CASE l # LaneOf[j]
  BY <1>1, <1>5 DEF TypeOK
<1> QED
  BY <1>4, <1>5

(* The taken job was the first of its lane; the others move up by one.      *)
LEMMA TakenQueue ==
  ASSUME TypeOK, NEW w \in Workers, NEW l \in Lanes, Take(w, l)
  PROVE  /\ 1 \in DOMAIN queue[l] /\ Head(queue[l]) = queue[l][1]
         /\ Head(queue[l]) \in Jobs
         /\ \A i \in DOMAIN queue'[l] :
              i + 1 \in DOMAIN queue[l] /\ queue'[l][i] = queue[l][i + 1]
         /\ \A i \in DOMAIN queue[l] \ {1} :
              i - 1 \in DOMAIN queue'[l] /\ queue'[l][i - 1] = queue[l][i]
         /\ DOMAIN queue'[l] \subseteq Nat \ {0} /\ DOMAIN queue[l] \subseteq Nat
         /\ \A m \in Lanes \ {l} : queue'[m] = queue[m]
<1> DEFINE q == queue[l]
<1>1. q \in Seq(Jobs) /\ q # << >> /\ queue' = [queue EXCEPT ![l] = Tail(@)]
  BY DEF TypeOK, Take
<1>2. /\ Head(q) \in Jobs /\ Tail(q) \in Seq(Jobs) /\ Len(Tail(q)) = Len(q) - 1
      /\ \A i \in 1 .. Len(Tail(q)) : Tail(q)[i] = q[i + 1]
      /\ Head(q) = q[1]
  BY <1>1, HeadTailProperties
<1>3. /\ DOMAIN q = 1 .. Len(q) /\ DOMAIN Tail(q) = 1 .. Len(q) - 1
      /\ Len(q) \in Nat \ {0}
  BY <1>1, <1>2, LenProperties, EmptySeq
<1>4. queue'[l] = Tail(q) /\ \A m \in Lanes \ {l} : queue'[m] = queue[m]
  BY <1>1 DEF TypeOK
<1>5. /\ 1 \in DOMAIN q
      /\ DOMAIN Tail(q) \subseteq Nat \ {0} /\ DOMAIN q \subseteq Nat
      /\ \A i \in DOMAIN Tail(q) : i + 1 \in DOMAIN q /\ Tail(q)[i] = q[i + 1]
  <2> HIDE DEF q
  <2> QED
    BY <1>2, <1>3
<1>6. \A i \in DOMAIN q \ {1} : i - 1 \in DOMAIN Tail(q) /\ Tail(q)[i - 1] = q[i]
  <2> HIDE DEF q
  <2>1. ASSUME NEW i \in DOMAIN q \ {1}
        PROVE  i - 1 \in DOMAIN Tail(q) /\ Tail(q)[i - 1] = q[i]
    <3>1. i \in Nat /\ i - 1 \in 1 .. Len(q) - 1 /\ (i - 1) + 1 = i
      BY <1>3
    <3> QED
      BY <1>2, <1>3, <3>1
  <2> QED
    BY <2>1
<1> QED
  BY <1>2, <1>4, <1>5, <1>6

(* The stack of jobs a client runs grows and shrinks at its top.            *)
LEMMA InlineMoves ==
  ASSUME TypeOK, NEW c \in Clients
  PROVE  /\ \A j \in Jobs : RunInline(c, j) =>
              /\ DOMAIN inline[c] \subseteq DOMAIN inline'[c]
              /\ \A i \in DOMAIN inline[c] : inline'[c][i] = inline[c][i]
              /\ Len(inline[c]) + 1 \in DOMAIN inline'[c]
              /\ inline'[c][Len(inline[c]) + 1] = j
              /\ \A i \in DOMAIN inline'[c] :
                   i \in DOMAIN inline[c] \/ i = Len(inline[c]) + 1
         /\ FinishInline(c) =>
              /\ Len(inline[c]) \in DOMAIN inline[c]
              /\ DOMAIN inline'[c] = DOMAIN inline[c] \ {Len(inline[c])}
              /\ \A i \in DOMAIN inline'[c] : inline'[c][i] = inline[c][i]
<1> DEFINE s == inline[c]
<1>1. s \in Seq(Jobs) /\ DOMAIN s = 1 .. Len(s) /\ Len(s) \in Nat
  BY LenProperties DEF TypeOK
<1>2. ASSUME NEW j \in Jobs, RunInline(c, j)
      PROVE  /\ DOMAIN s \subseteq DOMAIN inline'[c]
             /\ \A i \in DOMAIN s : inline'[c][i] = s[i]
             /\ Len(s) + 1 \in DOMAIN inline'[c] /\ inline'[c][Len(s) + 1] = j
             /\ \A i \in DOMAIN inline'[c] : i \in DOMAIN s \/ i = Len(s) + 1
  <2>1. inline'[c] = Append(s, j)
    BY <1>2 DEF RunInline, TypeOK
  <2>2. /\ Append(s, j) \in Seq(Jobs) /\ Len(Append(s, j)) = Len(s) + 1
        /\ \A i \in 1 .. Len(s) : Append(s, j)[i] = s[i]
        /\ Append(s, j)[Len(s) + 1] = j
    BY <1>1, AppendProperties
  <2>3. DOMAIN Append(s, j) = 1 .. Len(s) + 1
    BY <2>2, LenProperties
  <2> HIDE DEF s
  <2> QED
    BY <1>1, <2>1, <2>2, <2>3
<1>3. ASSUME FinishInline(c)
      PROVE  /\ Len(s) \in DOMAIN s
             /\ DOMAIN inline'[c] = DOMAIN s \ {Len(s)}
             /\ \A i \in DOMAIN inline'[c] : inline'[c][i] = s[i]
  <2>1. s # << >> /\ inline'[c] = SubSeq(s, 1, Len(s) - 1)
    BY <1>3 DEF FinishInline, TypeOK
  <2>2. Len(s) > 0
    BY <1>1, <2>1, EmptySeq
  <2>3. \A i \in 1 .. Len(s) - 1 : s[i] \in Jobs
    BY <1>1, ElementOfSeq
  <2>4. /\ SubSeq(s, 1, Len(s) - 1) \in Seq(Jobs)
        /\ Len(SubSeq(s, 1, Len(s) - 1)) = Len(s) - 1
        /\ \A i \in 1 .. Len(s) - 1 : SubSeq(s, 1, Len(s) - 1)[i] = s[i]
    <3> HIDE DEF s
    <3>1. 1 \in Int /\ Len(s) - 1 \in Int
      BY <1>1
    <3>2. /\ SubSeq(s, 1, Len(s) - 1) \in Seq(Jobs)
          /\ Len(SubSeq(s, 1, Len(s) - 1))
               = IF 1 <= Len(s) - 1 THEN (Len(s) - 1) - 1 + 1 ELSE 0
          /\ \A i \in 1 .. (Len(s) - 1) - 1 + 1 : SubSeq(s, 1, Len(s) - 1)[i] = s[1 + i - 1]
      BY <2>3, <3>1, SubSeqProperties
    <3> QED
      BY <1>1, <2>2, <3>2
  <2>5. DOMAIN SubSeq(s, 1, Len(s) - 1) = 1 .. Len(s) - 1
    BY <2>4, LenProperties
  <2> HIDE DEF s
  <2> QED
    BY <1>1, <2>1, <2>2, <2>4, <2>5
<1> QED
  BY <1>2, <1>3

(* The jobs in a worker and those a client runs itself.                     *)
Held(j) == \E w \in Workers : job[w] = j
Inlined(j) == \E c \in Clients : \E i \in DOMAIN inline[c] : inline[c][i] = j

(* A pool without workers holds no job in one, and only its owner has any.  *)
LEMMA InlineFacts ==
  ASSUME TypeOK, HeldInv, InlineInv
  PROVE  /\ \A j \in Jobs : Inlined(j) => Started = {} /\ ~Queued(j) /\ ~Held(j)
         /\ \A j : Inlined(j) <=> \E i \in DOMAIN inline[Owner] : inline[Owner][i] = j
<1>1. \A c \in Clients : DOMAIN inline[c] # {} => c = Owner /\ Started = {}
  BY EmptySeq, LenProperties DEF InlineInv, TypeOK
<1>2. ASSUME Started = {} PROVE \A j \in Jobs : ~Queued(j) /\ ~Held(j)
  <2>1. \A l \in Lanes : DOMAIN queue[l] = {}
    BY <1>2, EmptySeq, LenProperties DEF InlineInv, NoJobQueued
  <2>2. \A w \in Workers : job[w] = None
    BY <1>2 DEF Started, HeldInv
  <2> QED
    BY <2>1, <2>2, PoolAssumption DEF Queued, Held
<1> QED
  BY <1>1, <1>2, PoolAssumption DEF Inlined

(* A job moves, and is never copied.                                        *)
LEMMA PlaceStep ==
  ASSUME TypeOK, HeldInv, InlineInv, PlaceInv, [Next]_vars
  PROVE  PlaceInv'
<1> USE PoolAssumption DEF PlaceInv
<1>0. \A l \in Lanes : DOMAIN queue[l] \subseteq Nat
  BY LenProperties DEF TypeOK
<1>1. ASSUME NEW j \in Jobs, Push(j), Started # {}, UNCHANGED <<job, inline>>
      PROVE  PlaceInv'
  <2>1. todo' = todo \ {j} /\ j \in todo
    BY <1>1 DEF Push
  <2>2. /\ \A l \in Lanes : \A i \in DOMAIN queue[l] : queue[l][i] # j
        /\ \A w \in Workers : job[w] # j
        /\ \A c \in Clients : \A i \in DOMAIN inline[c] : inline[c][i] # j
    BY <2>1 DEF Unfinished, Queued
  <2>3. \A l \in Lanes : \A i \in DOMAIN queue'[l] :
           \/ i \in DOMAIN queue[l] /\ queue'[l][i] = queue[l][i]
           \/ l = LaneOf[j] /\ i = Len(queue[l]) + 1 /\ queue'[l][i] = j
    BY <1>1, PushedQueue
  <2>4. \A x \in todo' : ~Unfinished(x)'
    BY <1>1, <2>1, <2>3 DEF Unfinished, Queued
  <2>5. \A l, m \in Lanes : \A i \in DOMAIN queue'[l], k \in DOMAIN queue'[m] :
          queue'[l][i] = queue'[m][k] => l = m /\ i = k
    BY <2>2, <2>3
  <2>6. \A l \in Lanes : \A i \in DOMAIN queue'[l] :
          \A w \in Workers : job'[w] # queue'[l][i]
    BY <1>1, <2>2, <2>3
  <2> QED
    BY <1>1, <2>4, <2>5, <2>6
<1>2. ASSUME NEW w \in Workers, NEW l \in Lanes, Take(w, l) PROVE PlaceInv'
  <2> DEFINE h == Head(queue[l])
  <2>1. /\ 1 \in DOMAIN queue[l] /\ h = queue[l][1] /\ h \in Jobs
        /\ \A i \in DOMAIN queue'[l] :
             i + 1 \in DOMAIN queue[l] /\ queue'[l][i] = queue[l][i + 1]
        /\ DOMAIN queue'[l] \subseteq Nat \ {0}
        /\ \A m \in Lanes \ {l} : queue'[m] = queue[m]
    BY <1>2, TakenQueue
  <2>2. /\ job' = [job EXCEPT ![w] = h] /\ todo' = todo /\ inline' = inline
        /\ job[w] = None
    BY <1>2 DEF Take, HeldInv
  <2>3. \A v \in Workers : job'[v] = IF v = w THEN h ELSE job[v]
    BY <2>2 DEF TypeOK
  <2> HIDE DEF h
  <2>4. \A m \in Lanes : \A i \in DOMAIN queue'[m] :
          \E k \in DOMAIN queue[m] :
             /\ queue'[m][i] = queue[m][k]
             /\ k = IF m = l THEN i + 1 ELSE i
             /\ m = l => k # 1
    BY <2>1
  <2>5. \A x \in todo' : ~Unfinished(x)'
    BY <2>1, <2>2, <2>3, <2>4 DEF Unfinished, Queued
  <2>6. \A k, m \in Lanes : \A i \in DOMAIN queue'[k], n \in DOMAIN queue'[m] :
          queue'[k][i] = queue'[m][n] => k = m /\ i = n
    BY <1>0, <2>1, <2>4
  <2>7. \A m \in Lanes : \A i \in DOMAIN queue'[m] :
          \A v \in Workers : job'[v] # queue'[m][i]
    BY <2>1, <2>3, <2>4
  <2>8. \A v, u \in Workers : job'[v] = job'[u] /\ job'[v] # None => v = u
    BY <2>1, <2>3
  <2> QED
    BY <2>2, <2>5, <2>6, <2>7, <2>8
<1>3. ASSUME NEW w \in Workers, Finish(w) PROVE PlaceInv'
  <2>1. /\ todo' = todo /\ queue' = queue /\ inline' = inline
        /\ \A v \in Workers : job'[v] = IF v = w THEN None ELSE job[v]
    BY <1>3 DEF Finish, TypeOK
  <2>2. \A l \in Lanes : \A i \in DOMAIN queue[l] : queue[l][i] # None
    BY ElementOfSeq, LenProperties DEF TypeOK
  <2>3. \A x \in todo' : ~Unfinished(x)'
    BY <2>1 DEF Unfinished, Queued, TypeOK
  <2> QED
    BY <2>1, <2>2, <2>3
<1>4. ASSUME NEW c \in Callers, NEW j \in Jobs, RunInline(c, j) PROVE PlaceInv'
  <2>1. c = Owner
    BY <1>4 DEF RunInline, Callers
  <2>2. /\ queue' = queue /\ job' = job /\ todo' = todo \ {j} /\ j \in todo
        /\ \A d \in Clients \ {Owner} : inline'[d] = inline[d]
    BY <1>4, <2>1 DEF RunInline, TypeOK
  <2>3. /\ \A i \in DOMAIN inline[Owner] : inline'[Owner][i] = inline[Owner][i]
        /\ inline'[Owner][Len(inline[Owner]) + 1] = j
        /\ \A i \in DOMAIN inline'[Owner] :
             i \in DOMAIN inline[Owner] \/ i = Len(inline[Owner]) + 1
    BY <1>4, <2>1, InlineMoves
  <2>4. \A i \in DOMAIN inline[Owner] : inline[Owner][i] # j
    BY <2>2 DEF Unfinished
  <2>5. \A x \in todo' : ~Unfinished(x)'
    BY <2>2, <2>3 DEF Unfinished, Queued
  <2>6. \A i, k \in DOMAIN inline'[Owner] : inline'[Owner][i] = inline'[Owner][k] => i = k
    BY <2>3, <2>4
  <2> QED
    BY <2>2, <2>5, <2>6
<1>5. ASSUME NEW c \in Clients, FinishInline(c) PROVE PlaceInv'
  <2>1. /\ queue' = queue /\ job' = job /\ todo' = todo
        /\ \A d \in Clients \ {c} : inline'[d] = inline[d]
    BY <1>5 DEF FinishInline, TypeOK
  <2>2. /\ DOMAIN inline'[c] \subseteq DOMAIN inline[c]
        /\ \A i \in DOMAIN inline'[c] : inline'[c][i] = inline[c][i]
    BY <1>5, InlineMoves
  <2>3. \A x \in todo' : ~Unfinished(x)'
    BY <2>1, <2>2 DEF Unfinished, Queued
  <2> QED
    BY <2>1, <2>2, <2>3
<1>6. ASSUME UNCHANGED <<todo, queue, inflight, job, inline>> PROVE PlaceInv'
  BY <1>6 DEF Unfinished, Queued
<1> QED
  BY <1>1, <1>2, <1>3, <1>4, <1>5, <1>6, JobMoves

-----------------------------------------------------------------------------
(* The invariant holds in a pool that was just built, and every step        *)
(* preserves it.                                                           *)
LEMMA IInvInductive ==
  /\ Init => IInv
  /\ IInv /\ [Next]_vars => IInv'
<1>1. ASSUME Init PROVE IInv
  <2> USE <1>1, PoolAssumption DEF Init
  <2>1. TypeOK
    BY TypeInductive
  <2>2. WorkersInv /\ HeldInv
    BY DEF WorkersInv, HeldInv
  <2>3. CountInv
    <3>1. Busy = {}
      BY DEF Busy
    <3>2. NoJobQueued
      BY DEF NoJobQueued
    <3> QED
      BY <2>1, <3>1, <3>2, FS_EmptySet, QueueLengthStep DEF CountInv
  <2>4. InlineInv
    BY DEF InlineInv, NoJobQueued
  <2>5. PlaceInv
    <3>1. DOMAIN << >> = {}
      OBVIOUS
    <3> QED
      BY <3>1 DEF PlaceInv, Unfinished, Queued
  <2>6. StopInv
    BY DEF StopInv, NoJobQueued
  <2> QED
    BY <2>1, <2>2, <2>3, <2>4, <2>5, <2>6 DEF IInv
<1>2. ASSUME IInv, [Next]_vars PROVE IInv'
  BY <1>2, TypeInductive, WorkersStep, CountStep, InlineStep, StopStep, PlaceStep DEF IInv
<1> QED
  BY <1>1, <1>2

(* Every reachable state is well typed, however many threads use the pool.  *)
(* m_inflight is never decremented below zero, where it would wrap around. *)
THEOREM TypeCorrect == Spec => []TypeOK
<1>1. IInv => TypeOK
  BY DEF IInv
<1> QED
  BY <1>1, IInvInductive, PTL DEF Spec

-----------------------------------------------------------------------------
(* The workers on their way to the queues, and the clients that still have  *)
(* to call notify_one().                                                   *)
Awake == {w \in Workers : wpc[w] \in {"top", "idle", "notify"}}
Notifying == {c \in Clients : cpc[c] = "notify"}

(* Both are finite sets.                                                    *)
LEMMA AwakeFinite ==
  TypeOK /\ WorkersInv =>
    /\ IsFiniteSet(Awake) /\ Cardinality(Awake) \in Nat
    /\ IsFiniteSet(Notifying) /\ Cardinality(Notifying) \in Nat
<1> SUFFICES ASSUME TypeOK, WorkersInv
             PROVE  /\ IsFiniteSet(Awake) /\ Cardinality(Awake) \in Nat
                    /\ IsFiniteSet(Notifying) /\ Cardinality(Notifying) \in Nat
  OBVIOUS
<1>1. Awake \subseteq 1 .. WorkerCount(config)
  <2>1. \A w \in Workers : w \in Nat /\ w >= 1
    BY WorkerCountType DEF Workers
  <2>2. WorkerCount(config) \in Nat
    BY WorkerCountType DEF TypeOK
  <2>3. \A w \in Awake : w \in Workers /\ w <= WorkerCount(config)
    BY DEF Awake, WorkersInv
  <2>4. \A w \in Awake : w \in 1 .. WorkerCount(config)
    BY <2>1, <2>2, <2>3
  <2> QED
    BY <2>4
<1>2. IsFiniteSet(1 .. WorkerCount(config))
  BY WorkerCountType, FS_Interval DEF TypeOK
<1>3. Notifying \subseteq Clients
  BY DEF Notifying
<1> QED
  BY <1>1, <1>2, <1>3, PoolAssumption, FS_Subset, FS_CardinalityType

(* What a step may do to those who look after the queues: the queue grows   *)
(* only with a notification still to come, and a notification is spent     *)
(* only on a worker that it wakes.                                         *)
AwakeMoves ==
  \/ /\ QueueLength' = QueueLength - 1 /\ Notifying' = Notifying
     /\ \E w \in Awake : Awake' = Awake \ {w}
  \/ /\ QueueLength' = QueueLength + 1 /\ Notifying' = Notifying
     /\ \E w \in Workers \ Awake : Awake' = Awake \cup {w}
  \/ /\ QueueLength' = QueueLength + 1 /\ Awake' = Awake
     /\ \E c \in Clients \ Notifying : Notifying' = Notifying \cup {c}
  \/ /\ QueueLength' = QueueLength /\ Notifying' = Notifying
     /\ \E w \in Awake, v \in Workers \ Awake : Awake' = (Awake \ {w}) \cup {v}
  \/ /\ QueueLength' = QueueLength
     /\ \E c \in Notifying : Notifying' = Notifying \ {c}
     /\ \E v \in Workers \ Awake : Awake' = Awake \cup {v}
  \/ /\ QueueLength' = QueueLength /\ Notifying' = Notifying
     /\ \E v \in Workers \ Awake : Awake' = Awake \cup {v}
  \/ UNCHANGED <<QueueLength, Awake, Notifying>>

(* A step that leaves a worker asleep does one of these, or the queues are  *)
(* empty.                                                                  *)
LEMMA AwakeStep ==
  ASSUME TypeOK, WorkersInv, [Next]_vars, NEW s \in Workers, wpc'[s] = "asleep"
  PROVE  NoJobQueued' \/ (wpc[s] = "asleep" /\ AwakeMoves)
<1> DEFINE Goal == NoJobQueued' \/ (wpc[s] = "asleep" /\ AwakeMoves)
<1> USE DEF TypeOK, WorkerPCs, AwakeMoves
<1>1. ASSUME NEW w \in Workers, NEW l \in Lanes, Take(w, l) PROVE Goal
  <2>1. wpc' = [wpc EXCEPT ![w] = "run"] /\ cpc' = cpc /\ wpc[w] = "top"
    BY <1>1 DEF Take
  <2>2. w \in Awake /\ Awake' = Awake \ {w} /\ Notifying' = Notifying
    BY <2>1 DEF Awake, Notifying
  <2>3. wpc[s] = "asleep"
    BY <2>1
  <2> QED
    BY <1>1, <2>2, <2>3, QueueLengthStep
<1>2. ASSUME NEW w \in Workers, NEW j \in Jobs, JobPush(w, j) PROVE Goal
  <2>1. wpc' = [wpc EXCEPT ![w] = "notify"] /\ cpc' = cpc /\ wpc[w] = "run" /\ Push(j)
    BY <1>2 DEF JobPush
  <2>2. w \notin Awake /\ Awake' = Awake \cup {w} /\ Notifying' = Notifying
    BY <2>1 DEF Awake, Notifying
  <2>3. wpc[s] = "asleep"
    BY <2>1
  <2> QED
    BY <2>1, <2>2, <2>3, QueueLengthStep
<1>3. ASSUME NEW c \in Clients, NEW j \in Jobs, ClientPush(c, j) PROVE Goal
  <2>1. cpc' = [cpc EXCEPT ![c] = "notify"] /\ wpc' = wpc /\ cpc[c] = "out" /\ Push(j)
    BY <1>3 DEF ClientPush
  <2>2. c \notin Notifying /\ Notifying' = Notifying \cup {c} /\ Awake' = Awake
    BY <2>1 DEF Awake, Notifying
  <2> QED
    BY <2>1, <2>2, QueueLengthStep
<1>4. ASSUME NEW w \in Workers, Sleep(w) \/ Exit(w) PROVE Goal
  BY <1>4 DEF Sleep, Exit, NoJobQueued
<1>5. ASSUME NEW w \in Workers, JobNotify(w) PROVE Goal
  <2> DEFINE pcs == [wpc EXCEPT ![w] = "run"]
  <2>1. /\ wpc[w] = "notify" /\ cpc' = cpc /\ queue' = queue
        /\ pcs \in [Workers -> WorkerPCs] /\ NotifyOne(pcs)
    BY <1>5 DEF JobNotify
  <2>2. pcs[s] = "asleep"
    BY <2>1, NotifyOneEffect
  <2>3. PICK v \in Workers : pcs[v] = "asleep" /\ wpc' = [pcs EXCEPT ![v] = "top"]
    BY <2>1, <2>2 DEF NotifyOne
  <2>4. w \in Awake /\ v \notin Awake /\ Awake' = (Awake \ {w}) \cup {v} /\ wpc[s] = "asleep"
    BY <2>1, <2>2, <2>3 DEF Awake
  <2>5. Notifying' = Notifying /\ QueueLength' = QueueLength
    BY <2>1 DEF Notifying, QueueLength
  <2> QED
    BY <2>4, <2>5
<1>6. ASSUME NEW c \in Clients, ClientNotify(c) PROVE Goal
  <2>1. /\ cpc[c] = "notify" /\ cpc' = [cpc EXCEPT ![c] = "out"] /\ queue' = queue
        /\ NotifyOne(wpc)
    BY <1>6 DEF ClientNotify
  <2>2. wpc[s] = "asleep"
    BY <2>1, NotifyOneEffect
  <2>3. PICK v \in Workers : wpc[v] = "asleep" /\ wpc' = [wpc EXCEPT ![v] = "top"]
    BY <2>1, <2>2 DEF NotifyOne
  <2>4. v \notin Awake /\ Awake' = Awake \cup {v}
    BY <2>3 DEF Awake
  <2>5. c \in Notifying /\ Notifying' = Notifying \ {c} /\ QueueLength' = QueueLength
    BY <2>1 DEF Notifying, QueueLength
  <2> QED
    BY <2>2, <2>4, <2>5
<1>7. ASSUME NEW w \in Workers, Finish(w) PROVE Goal
  <2>1. PICK pc \in {"idle", "top"} :
          wpc[w] = "run" /\ wpc' = [wpc EXCEPT ![w] = pc] /\ cpc' = cpc /\ queue' = queue
    BY <1>7 DEF Finish
  <2>2. w \notin Awake /\ Awake' = Awake \cup {w} /\ wpc[s] = "asleep"
    BY <2>1 DEF Awake
  <2>3. Notifying' = Notifying /\ QueueLength' = QueueLength
    BY <2>1 DEF Notifying, QueueLength
  <2> QED
    BY <2>2, <2>3
<1>8. ASSUME NEW w \in Workers, NotifyIdle(w) PROVE Goal
  <2>1. /\ wpc[w] = "idle" /\ wpc' = [wpc EXCEPT ![w] = "top"] /\ queue' = queue
        /\ cpc' = [c \in Clients |-> IF cpc[c] = "asleep" THEN "lock" ELSE cpc[c]]
    BY <1>8 DEF NotifyIdle
  <2>2. Awake' = Awake /\ wpc[s] = "asleep"
    BY <2>1 DEF Awake
  <2>3. Notifying' = Notifying /\ QueueLength' = QueueLength
    BY <2>1 DEF Notifying, QueueLength
  <2> QED
    BY <2>2, <2>3
<1>9. ASSUME StopNotify PROVE Goal
  BY <1>9 DEF StopNotify
<1>10. ASSUME SpuriousWakeup PROVE Goal
  <2>1. QueueLength' = QueueLength
    BY <1>10 DEF SpuriousWakeup, QueueLength
  <2>2. ASSUME NEW w \in Workers, wpc[w] = "asleep", wpc' = [wpc EXCEPT ![w] = "top"],
               UNCHANGED cpc
        PROVE  Goal
    <3>1. w \notin Awake /\ Awake' = Awake \cup {w} /\ wpc[s] = "asleep"
      BY <2>2 DEF Awake
    <3>2. Notifying' = Notifying
      BY <2>2 DEF Notifying
    <3> QED
      BY <2>1, <3>1, <3>2
  <2>3. ASSUME NEW c \in Clients, cpc[c] = "asleep", cpc' = [cpc EXCEPT ![c] = "lock"],
               UNCHANGED wpc
        PROVE  Goal
    BY <2>1, <2>3 DEF Awake, Notifying
  <2> QED
    BY <1>10, <2>2, <2>3 DEF SpuriousWakeup
<1>11. ASSUME NEW c \in Clients,
              LockIdle(c) \/ CheckIdle(c) \/ BlockIdle(c) \/ CallWaitIdle(c)
       PROVE  Goal
  <2>1. wpc' = wpc /\ queue' = queue
    BY <1>11 DEF LockIdle, CheckIdle, BlockIdle, CallWaitIdle
  <2>2. \A d \in Clients : cpc'[d] = "notify" <=> cpc[d] = "notify"
    BY <1>11 DEF LockIdle, CheckIdle, BlockIdle, CallWaitIdle
  <2> QED
    BY <2>1, <2>2 DEF Awake, Notifying, QueueLength
<1>12. ASSUME Stop \/ Join PROVE Goal
  <2>1. wpc' = wpc /\ queue' = queue
    BY <1>12 DEF Stop, Join
  <2>2. \A d \in Clients : cpc'[d] = "notify" <=> cpc[d] = "notify"
    BY <1>12, PoolAssumption DEF Stop, Join
  <2> QED
    BY <2>1, <2>2 DEF Awake, Notifying, QueueLength
<1>13. ASSUME UNCHANGED <<wpc, cpc, queue>> PROVE Goal
  BY <1>13 DEF Awake, Notifying, QueueLength
<1> HIDE DEF Goal, TypeOK, WorkerPCs, AwakeMoves
<1>14. ASSUME \/ \E c \in Clients : FinishInline(c)
              \/ \E c \in Callers, j \in Jobs : RunInline(c, j)
              \/ UNCHANGED vars
       PROVE  Goal
  BY <1>13, <1>14 DEF FinishInline, RunInline, vars
<1>15. ASSUME NEW w \in Workers,
              \/ \E l \in Lanes : Take(w, l)
              \/ \E j \in Jobs : JobPush(w, j)
              \/ Sleep(w) \/ Exit(w) \/ JobNotify(w) \/ Finish(w) \/ NotifyIdle(w)
       PROVE  Goal
  BY <1>1, <1>2, <1>4, <1>5, <1>7, <1>8, <1>15
<1>16. ASSUME NEW c \in Clients,
              \/ \E j \in Jobs : ClientPush(c, j)
              \/ ClientNotify(c) \/ LockIdle(c) \/ CheckIdle(c) \/ BlockIdle(c)
              \/ CallWaitIdle(c)
       PROVE  Goal
  BY <1>3, <1>6, <1>11, <1>16
<1>17. Goal
  BY <1>9, <1>10, <1>12, <1>14, <1>15, <1>16, StepCases
<1> QED
  BY <1>17 DEF Goal

(* No worker sleeps while there is work nobody was woken for.               *)
THEOREM WorkConservingHolds == Spec => []WorkConserving
<1>1. ASSUME Init PROVE WorkConserving
  BY <1>1 DEF Init, WorkConserving
<1>2. ASSUME IInv, IInv', WorkConserving, [Next]_vars PROVE WorkConserving'
  <2>1. TypeOK /\ WorkersInv
    BY <1>2 DEF IInv
  <2>2. SUFFICES ASSUME NEW s \in Workers, wpc'[s] = "asleep"
                 PROVE  QueueLength' <= Cardinality(Awake') + Cardinality(Notifying')
    BY DEF WorkConserving, QueueLength, Awake, Notifying
  <2>3. /\ IsFiniteSet(Awake) /\ Cardinality(Awake) \in Nat
        /\ IsFiniteSet(Notifying) /\ Cardinality(Notifying) \in Nat
        /\ QueueLength \in Nat
    BY <2>1, AwakeFinite, QueueLengthStep
  <2>4. wpc[s] = "asleep" => QueueLength <= Cardinality(Awake) + Cardinality(Notifying)
    BY <1>2 DEF WorkConserving, QueueLength, Awake, Notifying
  <2>5. CASE NoJobQueued'
    <3>1. QueueLength' = 0
      <4>1. queue'["Engine"] = << >> /\ queue'["User"] = << >>
        BY <2>5 DEF NoJobQueued, Lanes
      <4> QED
        BY <4>1 DEF QueueLength
    <3>2. (TypeOK /\ WorkersInv)'
      BY <1>2 DEF IInv
    <3>3. (TypeOK /\ WorkersInv)' =>
            (Cardinality(Awake) \in Nat /\ Cardinality(Notifying) \in Nat)'
      BY AwakeFinite, PTL
    <3> QED
      BY <3>1, <3>2, <3>3
  <2>6. CASE wpc[s] = "asleep" /\ AwakeMoves
    <3>1. /\ \A w \in Awake : Cardinality(Awake \ {w}) = Cardinality(Awake) - 1
          /\ \A w \in Workers \ Awake : Cardinality(Awake \cup {w}) = Cardinality(Awake) + 1
          /\ \A c \in Notifying : Cardinality(Notifying \ {c}) = Cardinality(Notifying) - 1
          /\ \A c \in Clients \ Notifying :
               Cardinality(Notifying \cup {c}) = Cardinality(Notifying) + 1
      BY <2>3, FS_AddElement, FS_RemoveElement
    <3>2. \A w \in Awake, v \in Workers \ Awake :
            Cardinality((Awake \ {w}) \cup {v}) = Cardinality(Awake)
      <4> TAKE w \in Awake, v \in Workers \ Awake
      <4>1. IsFiniteSet(Awake \ {w}) /\ v \notin Awake \ {w}
        BY <2>3, FS_RemoveElement
      <4>2. Cardinality((Awake \ {w}) \cup {v}) = Cardinality(Awake \ {w}) + 1
        BY <4>1, FS_AddElement
      <4> QED
        BY <2>3, <3>1, <4>2
    <3> QED
      BY <2>3, <2>4, <2>6, <3>1, <3>2 DEF AwakeMoves
  <2> QED
    BY <1>2, <2>1, <2>2, <2>5, <2>6, AwakeStep
<1> QED
  BY <1>1, <1>2, IInvInductive, PTL DEF Spec

-----------------------------------------------------------------------------
(* What ImplementsJobPool reads as the running jobs and as what each client *)
(* is doing.                                                               *)
Running == {j \in Jobs : Unfinished(j) /\ ~Queued(j)}
View == [c \in Clients |->
           CASE cpc[c] \in {"lock", "check", "block", "asleep"} -> "in wait_idle"
             [] cpc[c] \in {"stop_notify", "join"}              -> "in destructor"
             [] cpc[c] = "gone"                                 -> "gone"
             [] OTHER                                           -> "out"]

(* A running job is in a worker or on the stack of its caller.              *)
LEMMA RunningJobs ==
  IInv => Running = {j \in Jobs : Held(j) \/ Inlined(j)}
<1> SUFFICES ASSUME IInv PROVE \A j \in Jobs : Unfinished(j) /\ ~Queued(j) <=> Held(j) \/ Inlined(j)
  BY DEF Running
<1>1. \A j \in Jobs : Held(j) => ~Queued(j)
  BY DEF IInv, PlaceInv, Held, Queued
<1>2. \A j \in Jobs : Inlined(j) => ~Queued(j)
  BY InlineFacts DEF IInv
<1> QED
  BY <1>1, <1>2 DEF Unfinished, Held, Inlined

(* How the running jobs change with each move of a job.                     *)
LEMMA RunningStep ==
  ASSUME IInv, IInv', Running' = {j \in Jobs : Held(j)' \/ Inlined(j)'}
  PROVE  /\ \A w \in Workers, l \in Lanes :
              Take(w, l) => Running' = Running \cup {Head(queue[l])}
         /\ \A w \in Workers :
              Finish(w) => job[w] \in Running /\ Running' = Running \ {job[w]}
         /\ \A c \in Callers, j \in Jobs :
              RunInline(c, j) => Running' = Running \cup {j}
         /\ \A c \in Clients : FinishInline(c) =>
              \E j \in Running : Running' = Running \ {j}
         /\ UNCHANGED <<job, inline>> => Running' = Running
<1>0. TypeOK /\ HeldInv /\ InlineInv /\ PlaceInv
  BY DEF IInv
<1>1. \A j \in Jobs : j \in Running <=> Held(j) \/ Inlined(j)
  BY RunningJobs
<1>2. Running' \subseteq Jobs /\ \A j \in Jobs : j \in Running' <=> Held(j)' \/ Inlined(j)'
  OBVIOUS
<1>3. Running \subseteq Jobs
  BY DEF Running
<1>4. ASSUME NEW w \in Workers, NEW l \in Lanes, Take(w, l)
      PROVE  Running' = Running \cup {Head(queue[l])}
  <2>1. Head(queue[l]) \in Jobs
    BY <1>0, <1>4, TakenQueue
  <2>2. inline' = inline /\ \A v \in Workers : job'[v] = IF v = w THEN Head(queue[l]) ELSE job[v]
    BY <1>0, <1>4 DEF Take, TypeOK
  <2>3. job[w] = None
    BY <1>0, <1>4 DEF Take, HeldInv
  <2>4. \A j \in Jobs : Held(j)' <=> Held(j) \/ j = Head(queue[l])
    BY <2>2, <2>3, PoolAssumption DEF Held
  <2>5. \A j \in Jobs : Inlined(j)' <=> Inlined(j)
    BY <2>2 DEF Inlined
  <2> QED
    BY <1>1, <1>2, <1>3, <2>1, <2>4, <2>5
<1>5. ASSUME NEW w \in Workers, Finish(w)
      PROVE  job[w] \in Running /\ Running' = Running \ {job[w]}
  <2>1. job[w] \in Jobs /\ Held(job[w])
    BY <1>0, <1>5 DEF Finish, HeldInv, TypeOK, Held
  <2>2. inline' = inline /\ \A v \in Workers : job'[v] = IF v = w THEN None ELSE job[v]
    BY <1>0, <1>5 DEF Finish, TypeOK
  <2>3. \A j \in Jobs : Held(j)' <=> Held(j) /\ j # job[w]
    BY <1>0, <2>2, <2>1, PoolAssumption DEF Held, PlaceInv
  <2>4. \A j \in Jobs : ~Inlined(j) /\ ~Inlined(j)'
    <3>1. Started # {}
      BY <1>5 DEF Finish, Started
    <3>2. \A j \in Jobs : ~Inlined(j)
      BY <1>0, <3>1, InlineFacts
    <3> QED
      BY <2>2, <3>2 DEF Inlined
  <2> QED
    BY <1>1, <1>2, <1>3, <2>1, <2>3, <2>4
<1>6. ASSUME NEW c \in Callers, NEW j \in Jobs, RunInline(c, j)
      PROVE  Running' = Running \cup {j}
  <2>1. c \in Clients
    BY PoolAssumption DEF Callers
  <2>2. job' = job /\ \A d \in Clients \ {c} : inline'[d] = inline[d]
    BY <1>0, <1>6, <2>1 DEF RunInline, TypeOK
  <2>3. \A x \in Jobs : Held(x)' <=> Held(x)
    BY <2>2 DEF Held
  <2>4. \A x \in Jobs : (\E i \in DOMAIN inline'[c] : inline'[c][i] = x)
                       <=> (\E i \in DOMAIN inline[c] : inline[c][i] = x) \/ x = j
    BY <1>0, <1>6, <2>1, InlineMoves
  <2>5. \A x \in Jobs : Inlined(x)' <=> Inlined(x) \/ x = j
    BY <2>1, <2>2, <2>4 DEF Inlined
  <2> QED
    BY <1>1, <1>2, <1>3, <2>3, <2>5
<1>7. ASSUME NEW c \in Clients, FinishInline(c)
      PROVE  \E j \in Running : Running' = Running \ {j}
  <2>1. c = Owner /\ inline[c] # << >>
    BY <1>0, <1>7 DEF FinishInline, InlineInv
  <2>2. job' = job /\ \A d \in Clients \ {c} : inline'[d] = inline[d]
    BY <1>0, <1>7 DEF FinishInline, TypeOK
  <2> DEFINE n == Len(inline[c])
             j == inline[c][n]
  <2>3. /\ n \in DOMAIN inline[c] /\ DOMAIN inline'[c] = DOMAIN inline[c] \ {n}
        /\ \A i \in DOMAIN inline'[c] : inline'[c][i] = inline[c][i]
    BY <1>0, <1>7, InlineMoves
  <2>4. j \in Jobs /\ Inlined(j)
    <3>1. j \in Jobs
      BY <1>0, <2>3, ElementOfSeq, LenProperties DEF TypeOK
    <3> QED
      BY <2>3, <3>1 DEF Inlined
  <2> HIDE DEF n
  <2>5. \A x \in Jobs : Inlined(x)' <=> Inlined(x) /\ x # j
    <3>1. \A x : (\E i \in DOMAIN inline'[c] : inline'[c][i] = x)
               <=> (\E i \in DOMAIN inline[c] : inline[c][i] = x) /\ x # j
      BY <1>0, <2>1, <2>3 DEF PlaceInv
    <3>2. \A d \in Clients \ {c} : DOMAIN inline[d] = {}
      BY <1>0, <2>1, EmptySeq, LenProperties DEF InlineInv, TypeOK
    <3> HIDE DEF j
    <3> QED
      BY <2>2, <3>1, <3>2 DEF Inlined
  <2>6. \A x \in Jobs : Held(x)' <=> Held(x)
    BY <2>2 DEF Held
  <2>7. ~Held(j)
    BY <1>0, <2>4, InlineFacts
  <2> HIDE DEF j
  <2>8. j \in Running /\ Running' = Running \ {j}
    BY <1>1, <1>2, <1>3, <2>4, <2>5, <2>6, <2>7
  <2> QED
    BY <2>8
<1>8. ASSUME UNCHANGED <<job, inline>> PROVE Running' = Running
  <2>1. \A x \in Jobs : (Held(x)' <=> Held(x)) /\ (Inlined(x)' <=> Inlined(x))
    BY <1>8 DEF Held, Inlined
  <2> QED
    BY <1>1, <1>2, <1>3, <2>1
<1> QED
  BY <1>4, <1>5, <1>6, <1>7, <1>8

(* The initial predicate and the actions of JobPool under the mapping.      *)
LEMMA PoolActions ==
  /\ Pool!Init <=> /\ todo = Jobs /\ queue = [l \in Lanes |-> << >>]
                   /\ Running = {} /\ View = [c \in Clients |-> "out"]
  /\ Pool!vars = <<todo, queue, Running, View>>
  /\ \A j \in Jobs : Pool!Enqueue(j) <=>
       /\ j \in todo /\ todo' = todo \ {j}
       /\ queue' = [queue EXCEPT ![LaneOf[j]] = Append(@, j)]
       /\ Running' = Running /\ View' = View
  /\ \A j \in Jobs : Pool!RunInline(j) <=>
       /\ j \in todo /\ todo' = todo \ {j} /\ Running' = Running \cup {j}
       /\ queue' = queue /\ View' = View
  /\ \A l \in Lanes : Pool!Start(l) <=>
       /\ queue[l] # << >> /\ (l = "User" => queue["Engine"] = << >>)
       /\ Running' = Running \cup {Head(queue[l])}
       /\ queue' = [queue EXCEPT ![l] = Tail(@)]
       /\ todo' = todo /\ View' = View
  /\ \A j : Pool!Finish(j) <=>
       /\ j \in Running /\ Running' = Running \ {j}
       /\ todo' = todo /\ queue' = queue /\ View' = View
  /\ \A c \in Clients : Pool!CallWaitIdle(c) <=>
       /\ View[c] = "out" /\ View' = [View EXCEPT ![c] = "in wait_idle"]
       /\ todo' = todo /\ queue' = queue /\ Running' = Running
  /\ \A c \in Clients : Pool!ReturnWaitIdle(c) <=>
       /\ View[c] = "in wait_idle" /\ Running = {} /\ NoJobQueued
       /\ View' = [View EXCEPT ![c] = "out"]
       /\ todo' = todo /\ queue' = queue /\ Running' = Running
  /\ \A c \in Clients : Pool!CallDestructor(c) <=>
       /\ View[c] = "out" /\ View' = [View EXCEPT ![c] = "in destructor"]
       /\ todo' = todo /\ queue' = queue /\ Running' = Running
  /\ \A c \in Clients : Pool!ReturnDestructor(c) <=>
       /\ View[c] = "in destructor" /\ Running = {} /\ NoJobQueued
       /\ View' = [View EXCEPT ![c] = "gone"]
       /\ todo' = todo /\ queue' = queue /\ Running' = Running
  /\ Pool!Next <=>
       \/ \E j \in Jobs : Pool!Enqueue(j) \/ Pool!RunInline(j) \/ Pool!Finish(j)
       \/ \E l \in Lanes : Pool!Start(l)
       \/ \E c \in Clients : \/ Pool!CallWaitIdle(c) \/ Pool!ReturnWaitIdle(c)
                             \/ Pool!CallDestructor(c) \/ Pool!ReturnDestructor(c)
<1> USE DEF Running, View
<1>1. /\ Pool!Init <=> /\ todo = Jobs /\ queue = [l \in Lanes |-> << >>]
                       /\ Running = {} /\ View = [c \in Clients |-> "out"]
      /\ Pool!vars = <<todo, queue, Running, View>>
  BY DEF Pool!Init, Pool!vars, Pool!Lanes, Lanes
<1>2. \A j \in Jobs : Pool!Enqueue(j) <=>
       /\ j \in todo /\ todo' = todo \ {j}
       /\ queue' = [queue EXCEPT ![LaneOf[j]] = Append(@, j)]
       /\ Running' = Running /\ View' = View
  BY DEF Pool!Enqueue
<1>3. \A j \in Jobs : Pool!RunInline(j) <=>
       /\ j \in todo /\ todo' = todo \ {j} /\ Running' = Running \cup {j}
       /\ queue' = queue /\ View' = View
  BY DEF Pool!RunInline
<1>4. \A l \in Lanes : Pool!Start(l) <=>
       /\ queue[l] # << >> /\ (l = "User" => queue["Engine"] = << >>)
       /\ Running' = Running \cup {Head(queue[l])}
       /\ queue' = [queue EXCEPT ![l] = Tail(@)]
       /\ todo' = todo /\ View' = View
  BY DEF Pool!Start
<1>5. \A j : Pool!Finish(j) <=>
       /\ j \in Running /\ Running' = Running \ {j}
       /\ todo' = todo /\ queue' = queue /\ View' = View
  BY DEF Pool!Finish
<1>6. \A c \in Clients : Pool!CallWaitIdle(c) <=>
       /\ View[c] = "out" /\ View' = [View EXCEPT ![c] = "in wait_idle"]
       /\ todo' = todo /\ queue' = queue /\ Running' = Running
  BY DEF Pool!CallWaitIdle
<1>7. \A c \in Clients : Pool!ReturnWaitIdle(c) <=>
       /\ View[c] = "in wait_idle" /\ Running = {} /\ NoJobQueued
       /\ View' = [View EXCEPT ![c] = "out"]
       /\ todo' = todo /\ queue' = queue /\ Running' = Running
  BY DEF Pool!ReturnWaitIdle, Pool!NoJobLeft, Pool!Lanes, Lanes, NoJobQueued
<1>8. \A c \in Clients : Pool!CallDestructor(c) <=>
       /\ View[c] = "out" /\ View' = [View EXCEPT ![c] = "in destructor"]
       /\ todo' = todo /\ queue' = queue /\ Running' = Running
  BY DEF Pool!CallDestructor
<1>9. \A c \in Clients : Pool!ReturnDestructor(c) <=>
       /\ View[c] = "in destructor" /\ Running = {} /\ NoJobQueued
       /\ View' = [View EXCEPT ![c] = "gone"]
       /\ todo' = todo /\ queue' = queue /\ Running' = Running
  BY DEF Pool!ReturnDestructor, Pool!NoJobLeft, Pool!Lanes, Lanes, NoJobQueued
<1>10. Pool!Next <=>
       \/ \E j \in Jobs : Pool!Enqueue(j) \/ Pool!RunInline(j) \/ Pool!Finish(j)
       \/ \E l \in Lanes : Pool!Start(l)
       \/ \E c \in Clients : \/ Pool!CallWaitIdle(c) \/ Pool!ReturnWaitIdle(c)
                             \/ Pool!CallDestructor(c) \/ Pool!ReturnDestructor(c)
  BY DEF Pool!Next, Pool!Lanes, Lanes
<1> HIDE DEF Running, View
<1> QED
  BY <1>1, <1>2, <1>3, <1>4, <1>5, <1>6, <1>7, <1>8, <1>9, <1>10

(* What a client is seen to do changes when wait_idle() or the destructor   *)
(* is called or returns, and in no other step.                             *)
LEMMA ViewStep ==
  ASSUME TypeOK, [Next]_vars
  PROVE  \/ View' = View
         \/ \E c \in Clients : /\ CallWaitIdle(c) /\ View[c] = "out"
                               /\ View' = [View EXCEPT ![c] = "in wait_idle"]
         \/ \E c \in Callers : /\ CheckIdle(c) /\ inflight = 0 /\ View[c] = "in wait_idle"
                               /\ View' = [View EXCEPT ![c] = "out"]
         \/ /\ Stop /\ View[Owner] = "out"
            /\ View' = [View EXCEPT ![Owner] = "in destructor"]
         \/ /\ Join /\ View[Owner] = "in destructor"
            /\ View' = [View EXCEPT ![Owner] = "gone"]
<1> USE PoolAssumption
<1> DEFINE ViewOf(pc) == CASE pc \in {"lock", "check", "block", "asleep"} -> "in wait_idle"
                           [] pc \in {"stop_notify", "join"}              -> "in destructor"
                           [] pc = "gone"                                 -> "gone"
                           [] OTHER                                       -> "out"
<1>1. /\ View = [c \in Clients |-> ViewOf(cpc[c])]
      /\ View' = [c \in Clients |-> ViewOf(cpc'[c])]
  BY DEF View
<1>2. /\ ViewOf("lock") = "in wait_idle" /\ ViewOf("check") = "in wait_idle"
      /\ ViewOf("block") = "in wait_idle" /\ ViewOf("asleep") = "in wait_idle"
      /\ ViewOf("stop_notify") = "in destructor" /\ ViewOf("join") = "in destructor"
      /\ ViewOf("gone") = "gone" /\ ViewOf("out") = "out" /\ ViewOf("notify") = "out"
  OBVIOUS
<1> HIDE DEF ViewOf
<1>3. (\A c \in Clients : ViewOf(cpc'[c]) = ViewOf(cpc[c])) => View' = View
  BY <1>1
<1>4. \A c \in Clients, pc \in ClientPCs :
        cpc' = [cpc EXCEPT ![c] = pc] /\ ViewOf(pc) = ViewOf(cpc[c]) => View' = View
  <2> SUFFICES ASSUME NEW c \in Clients, NEW pc \in ClientPCs,
                      cpc' = [cpc EXCEPT ![c] = pc], ViewOf(pc) = ViewOf(cpc[c])
               PROVE  View' = View
    OBVIOUS
  <2>1. \A d \in Clients : cpc'[d] = IF d = c THEN pc ELSE cpc[d]
    BY DEF TypeOK
  <2> QED
    BY <1>3, <2>1
<1>5. {"out", "notify", "lock", "check", "asleep", "stop_notify", "join", "gone"}
        \subseteq ClientPCs
  BY DEF ClientPCs
<1>6. ASSUME NEW c \in Clients,
             \/ \E j \in Jobs : ClientPush(c, j)
             \/ ClientNotify(c) \/ LockIdle(c) \/ BlockIdle(c)
      PROVE  View' = View
  <2>1. \/ cpc[c] = "out" /\ cpc' = [cpc EXCEPT ![c] = "notify"]
        \/ cpc[c] = "notify" /\ cpc' = [cpc EXCEPT ![c] = "out"]
        \/ cpc[c] = "lock" /\ cpc' = [cpc EXCEPT ![c] = "check"]
        \/ cpc[c] = "block" /\ cpc' = [cpc EXCEPT ![c] = "asleep"]
    BY <1>6 DEF ClientPush, ClientNotify, LockIdle, BlockIdle
  <2> QED
    BY <1>2, <1>4, <1>5, <2>1
<1>7. ASSUME NEW c \in Clients, CallWaitIdle(c)
      PROVE  View[c] = "out" /\ View' = [View EXCEPT ![c] = "in wait_idle"]
  <2>1. cpc[c] = "out" /\ cpc' = [cpc EXCEPT ![c] = "lock"]
    BY <1>7 DEF CallWaitIdle
  <2>2. \A d \in Clients : ViewOf(cpc'[d]) = IF d = c THEN "in wait_idle" ELSE ViewOf(cpc[d])
    BY <1>2, <2>1 DEF TypeOK
  <2> QED
    BY <1>1, <1>2, <2>1, <2>2
<1>8. ASSUME NEW c \in Clients, CheckIdle(c)
      PROVE  \/ View' = View
             \/ /\ inflight = 0 /\ View[c] = "in wait_idle"
                /\ View' = [View EXCEPT ![c] = "out"]
  <2>1. CASE inflight = 0
    <3>1. cpc[c] = "check" /\ cpc' = [cpc EXCEPT ![c] = "out"]
      BY <1>8, <2>1 DEF CheckIdle
    <3>2. \A d \in Clients : ViewOf(cpc'[d]) = IF d = c THEN "out" ELSE ViewOf(cpc[d])
      BY <1>2, <3>1 DEF TypeOK
    <3> QED
      BY <1>1, <1>2, <2>1, <3>1, <3>2
  <2>2. CASE inflight # 0
    <3>1. cpc[c] = "check" /\ cpc' = [cpc EXCEPT ![c] = "block"] /\ "block" \in ClientPCs
      BY <1>8, <2>2 DEF CheckIdle, ClientPCs
    <3> QED
      BY <1>2, <1>4, <3>1
  <2> QED
    BY <2>1, <2>2
<1>9. ASSUME NEW w \in Workers, NotifyIdle(w) PROVE View' = View
  <2>1. \A c \in Clients : cpc'[c] = cpc[c] \/ (cpc[c] = "asleep" /\ cpc'[c] = "lock")
    BY <1>9 DEF NotifyIdle
  <2> QED
    BY <1>2, <1>3, <2>1
<1>10. ASSUME SpuriousWakeup PROVE View' = View
  <2>1. \/ cpc' = cpc
        \/ \E c \in Clients : cpc[c] = "asleep" /\ cpc' = [cpc EXCEPT ![c] = "lock"]
    BY <1>10 DEF SpuriousWakeup
  <2>2. (cpc' = cpc) => View' = View
    BY <1>3
  <2> QED
    BY <1>2, <1>4, <1>5, <2>1, <2>2
<1>11. ASSUME Stop
       PROVE  View[Owner] = "out" /\ View' = [View EXCEPT ![Owner] = "in destructor"]
  <2>1. cpc[Owner] = "out" /\ cpc' = [cpc EXCEPT ![Owner] = "stop_notify"]
    BY <1>11 DEF Stop
  <2>2. \A d \in Clients : ViewOf(cpc'[d]) = IF d = Owner THEN "in destructor" ELSE ViewOf(cpc[d])
    BY <1>2, <2>1 DEF TypeOK
  <2> QED
    BY <1>1, <1>2, <2>1, <2>2
<1>12. ASSUME StopNotify PROVE View' = View
  <2>1. cpc[Owner] = "stop_notify" /\ cpc' = [cpc EXCEPT ![Owner] = "join"]
    BY <1>12 DEF StopNotify
  <2> QED
    BY <1>2, <1>4, <1>5, <2>1
<1>13. ASSUME Join
       PROVE  View[Owner] = "in destructor" /\ View' = [View EXCEPT ![Owner] = "gone"]
  <2>1. cpc[Owner] = "join" /\ cpc' = [cpc EXCEPT ![Owner] = "gone"]
    BY <1>13 DEF Join
  <2>2. \A d \in Clients : ViewOf(cpc'[d]) = IF d = Owner THEN "gone" ELSE ViewOf(cpc[d])
    BY <1>2, <2>1 DEF TypeOK
  <2> QED
    BY <1>1, <1>2, <2>1, <2>2
<1>14. ASSUME UNCHANGED cpc PROVE View' = View
  BY <1>3, <1>14
<1> QED
  BY <1>6, <1>7, <1>8, <1>9, <1>10, <1>11, <1>12, <1>13, <1>14, StepCases
  DEF Take, JobPush, Sleep, Exit, JobNotify, Finish, FinishInline, RunInline, vars

(* wait_idle() returns, and the destructor ends, when no job is left.       *)
LEMMA NoJobLeft ==
  ASSUME IInv
  PROVE  /\ \A c \in Callers : CheckIdle(c) /\ inflight = 0 => Running = {} /\ NoJobQueued
         /\ Join => Running = {} /\ NoJobQueued
<1>1. TypeOK /\ WorkersInv /\ HeldInv /\ CountInv /\ InlineInv /\ StopInv
  BY DEF IInv
<1>2. \A j \in Jobs : j \in Running <=> Held(j) \/ Inlined(j)
  BY RunningJobs
<1>3. Running \subseteq Jobs
  BY DEF Running
<1>4. ASSUME NEW j \in Jobs, Inlined(j)
      PROVE  Started = {} /\ cpc[Owner] = "out" /\ ~stop
  <2>1. PICK i \in DOMAIN inline[Owner] : inline[Owner][i] = j
    BY <1>1, <1>4, InlineFacts
  <2>2. inline[Owner] # << >>
    BY <2>1
  <2> QED
    BY <1>1, <2>2, PoolAssumption DEF InlineInv
<1>5. ASSUME NEW c \in Callers, CheckIdle(c), inflight = 0
      PROVE  Running = {} /\ NoJobQueued
  <2>1. QueueLength = 0 /\ Cardinality(Busy) = 0 /\ IsFiniteSet(Busy)
    <3>1. QueueLength \in Nat /\ Cardinality(Busy) \in Nat /\ IsFiniteSet(Busy)
      BY <1>1, QueueLengthStep, BusyFinite
    <3> QED
      BY <1>1, <1>5, <3>1 DEF CountInv
  <2>2. NoJobQueued
    BY <1>1, <2>1, QueueLengthStep
  <2>3. \A j \in Jobs : ~Held(j)
    <3>1. Busy = {}
      BY <2>1, FS_EmptySet
    <3> QED
      BY <3>1, PoolAssumption DEF Busy, Held
  <2>4. \A j \in Jobs : ~Inlined(j)
    <3>1. Started = {} => c = Owner
      BY DEF Callers
    <3>2. cpc[c] # "out"
      BY <1>5 DEF CheckIdle
    <3> QED
      BY <1>4, <3>1, <3>2
  <2> QED
    BY <1>2, <1>3, <2>2, <2>3, <2>4
<1>6. ASSUME Join PROVE Running = {} /\ NoJobQueued
  <2>1. cpc[Owner] = "join" /\ \A w \in Started : wpc[w] = "exit"
    BY <1>6 DEF Join
  <2>2. NoJobQueued
    BY <1>1, <2>1 DEF StopInv
  <2>3. \A j \in Jobs : ~Held(j)
    BY <1>1, <2>1, PoolAssumption DEF Held, HeldInv, Started
  <2>4. \A j \in Jobs : ~Inlined(j)
    BY <1>4, <2>1
  <2> QED
    BY <1>2, <1>3, <2>2, <2>3, <2>4
<1> QED
  BY <1>5, <1>6

(* Every step of the pool is a step of JobPool or leaves it as it is.       *)
LEMMA PoolStep ==
  ASSUME IInv, IInv', Running' = {j \in Jobs : Held(j)' \/ Inlined(j)'}, [Next]_vars
  PROVE  Pool!Next \/ UNCHANGED Pool!vars
<1>0. TypeOK /\ TypeOK'
  BY DEF IInv
<1>1. CASE View' = View
  <2>1. ASSUME NEW j \in Jobs, Push(j), UNCHANGED <<job, inline>> PROVE Pool!Next
    <3>1. Running' = Running
      BY <2>1, RunningStep
    <3>2. Pool!Enqueue(j)
      BY <1>1, <2>1, <3>1, PoolActions DEF Push
    <3> QED
      BY <3>2, PoolActions
  <2>2. ASSUME NEW w \in Workers, NEW l \in Lanes, Take(w, l) PROVE Pool!Next
    <3>1. Running' = Running \cup {Head(queue[l])}
      BY <2>2, RunningStep
    <3>2. Pool!Start(l)
      BY <1>1, <2>2, <3>1, PoolActions DEF Take
    <3> QED
      BY <3>2, PoolActions
  <2>3. ASSUME NEW w \in Workers, Finish(w) PROVE Pool!Next
    <3>1. job[w] \in Running /\ Running' = Running \ {job[w]}
      BY <2>3, RunningStep
    <3>2. Pool!Finish(job[w]) /\ job[w] \in Jobs
      BY <1>1, <2>3, <3>1, PoolActions DEF Finish, Running
    <3> QED
      BY <3>2, PoolActions
  <2>4. ASSUME NEW c \in Callers, NEW j \in Jobs, RunInline(c, j) PROVE Pool!Next
    <3>1. Running' = Running \cup {j}
      BY <2>4, RunningStep
    <3>2. Pool!RunInline(j)
      BY <1>1, <2>4, <3>1, PoolActions DEF RunInline
    <3> QED
      BY <3>2, PoolActions
  <2>5. ASSUME NEW c \in Clients, FinishInline(c) PROVE Pool!Next
    <3>1. PICK j \in Running : Running' = Running \ {j}
      BY <2>5, RunningStep
    <3>2. j \in Jobs
      BY DEF Running
    <3>3. Pool!Finish(j)
      BY <1>1, <2>5, <3>1, PoolActions DEF FinishInline
    <3> QED
      BY <3>2, <3>3, PoolActions
  <2>6. ASSUME UNCHANGED <<todo, queue, inflight, job, inline>>
        PROVE  UNCHANGED Pool!vars
    <3>1. Running' = Running
      BY <2>6, RunningStep
    <3> QED
      BY <1>1, <2>6, <3>1 DEF Pool!vars, Running, View
  <2> QED
    BY <1>0, <2>1, <2>2, <2>3, <2>4, <2>5, <2>6, JobMoves
<1>2. ASSUME NEW c \in Clients, CallWaitIdle(c), View[c] = "out",
             View' = [View EXCEPT ![c] = "in wait_idle"]
      PROVE  Pool!Next
  <2>1. Running' = Running /\ todo' = todo /\ queue' = queue
    BY <1>2, RunningStep DEF CallWaitIdle
  <2>2. Pool!CallWaitIdle(c)
    BY <1>2, <2>1, PoolActions
  <2> QED
    BY <2>2, PoolActions
<1>3. ASSUME NEW c \in Callers, CheckIdle(c), inflight = 0, View[c] = "in wait_idle",
             View' = [View EXCEPT ![c] = "out"]
      PROVE  Pool!Next
  <2>1. Running' = Running /\ todo' = todo /\ queue' = queue
    BY <1>3, RunningStep DEF CheckIdle
  <2>2. Running = {} /\ NoJobQueued /\ c \in Clients
    BY <1>3, NoJobLeft, PoolAssumption DEF Callers
  <2>3. Pool!ReturnWaitIdle(c)
    BY <1>3, <2>1, <2>2, PoolActions
  <2> QED
    BY <2>2, <2>3, PoolActions
<1>4. ASSUME Stop, View[Owner] = "out", View' = [View EXCEPT ![Owner] = "in destructor"]
      PROVE  Pool!Next
  <2>1. Running' = Running /\ todo' = todo /\ queue' = queue
    BY <1>4, RunningStep DEF Stop
  <2>2. Pool!CallDestructor(Owner)
    BY <1>4, <2>1, PoolActions, PoolAssumption
  <2> QED
    BY <2>2, PoolActions, PoolAssumption
<1>5. ASSUME Join, View[Owner] = "in destructor", View' = [View EXCEPT ![Owner] = "gone"]
      PROVE  Pool!Next
  <2>1. Running' = Running /\ todo' = todo /\ queue' = queue
    BY <1>5, RunningStep DEF Join
  <2>2. Running = {} /\ NoJobQueued
    BY <1>5, NoJobLeft
  <2>3. Pool!ReturnDestructor(Owner)
    BY <1>5, <2>1, <2>2, PoolActions, PoolAssumption
  <2> QED
    BY <2>3, PoolActions, PoolAssumption
<1> QED
  BY <1>0, <1>1, <1>2, <1>3, <1>4, <1>5, ViewStep

(* The pool does what JobPool promises: a job runs once, an Engine job      *)
(* before any User job and in order within its lane; wait_idle() returns,  *)
(* and the destructor ends, when no job is left, also none that a running  *)
(* job enqueued meanwhile.                                                 *)
THEOREM Refinement == Spec => ImplementsJobPool
<1>1. ASSUME Init PROVE Pool!Init
  <2>1. Running = {}
    <3>1. IInv
      BY <1>1, IInvInductive
    <3>2. \A j \in Jobs : ~Held(j) /\ ~Inlined(j)
      BY <1>1, PoolAssumption DEF Init, Held, Inlined
    <3> QED
      BY <3>1, <3>2, RunningJobs
  <2>2. View = [c \in Clients |-> "out"]
    BY <1>1 DEF Init, View
  <2> QED
    BY <1>1, <2>1, <2>2, PoolActions DEF Init
<1>2. IInv' => (Running = {j \in Jobs : Held(j) \/ Inlined(j)})'
  BY RunningJobs, PTL
<1>3. IInv /\ IInv' /\ [Next]_vars => [Pool!Next]_(Pool!vars)
  BY <1>2, PoolStep
<1> QED
  BY <1>1, <1>3, IInvInductive, PTL DEF Spec, ImplementsJobPool, Pool!Spec
=============================================================================
