------------------------------ MODULE JobPool ------------------------------
(***************************************************************************)
(* What a JobSystem promises to the code that uses it, with no word about  *)
(* threads, locks, condition variables or counters: a job that was handed  *)
(* over runs once, an Engine job before any User job, in order within its  *)
(* lane; wait_idle() returns, and the destructor ends, only when no job is *)
(* left.                                                                   *)
(***************************************************************************)
EXTENDS Sequences

CONSTANTS Clients,   \* the threads that own or use the pool, workers excepted
          Jobs,      \* every job the clients and the jobs themselves hand over
          LaneOf     \* the JobLane each job is handed over to

Lanes == {"Engine", "User"}

VARIABLES new,       \* jobs not handed over yet
          waiting,   \* for each lane, the jobs not started
          running,   \* the jobs started and not finished
          client     \* what each client is doing

vars == <<new, waiting, running, client>>

Init ==
  /\ new = Jobs
  /\ waiting = [l \in Lanes |-> << >>]
  /\ running = {}
  /\ client = [c \in Clients |-> "out"]

NoJobLeft == running = {} /\ \A l \in Lanes : waiting[l] = << >>

Enqueue(j) ==
  /\ j \in new
  /\ new' = new \ {j}
  /\ waiting' = [waiting EXCEPT ![LaneOf[j]] = Append(@, j)]
  /\ UNCHANGED <<running, client>>

(* Without worker threads a job is run where it is handed over. *)
RunInline(j) ==
  /\ j \in new
  /\ new' = new \ {j}
  /\ running' = running \cup {j}
  /\ UNCHANGED <<waiting, client>>

Start(l) ==
  /\ waiting[l] # << >>
  /\ l = "User" => waiting["Engine"] = << >>
  /\ running' = running \cup {Head(waiting[l])}
  /\ waiting' = [waiting EXCEPT ![l] = Tail(@)]
  /\ UNCHANGED <<new, client>>

Finish(j) ==
  /\ j \in running
  /\ running' = running \ {j}
  /\ UNCHANGED <<new, waiting, client>>

CallWaitIdle(c) ==
  /\ client[c] = "out"
  /\ client' = [client EXCEPT ![c] = "in wait_idle"]
  /\ UNCHANGED <<new, waiting, running>>

ReturnWaitIdle(c) ==
  /\ client[c] = "in wait_idle" /\ NoJobLeft
  /\ client' = [client EXCEPT ![c] = "out"]
  /\ UNCHANGED <<new, waiting, running>>

CallDestructor(c) ==
  /\ client[c] = "out"
  /\ client' = [client EXCEPT ![c] = "in destructor"]
  /\ UNCHANGED <<new, waiting, running>>

ReturnDestructor(c) ==
  /\ client[c] = "in destructor" /\ NoJobLeft
  /\ client' = [client EXCEPT ![c] = "gone"]
  /\ UNCHANGED <<new, waiting, running>>

Next ==
  \/ \E j \in Jobs : Enqueue(j) \/ RunInline(j) \/ Finish(j)
  \/ \E l \in Lanes : Start(l)
  \/ \E c \in Clients : \/ CallWaitIdle(c) \/ ReturnWaitIdle(c)
                        \/ CallDestructor(c) \/ ReturnDestructor(c)

Spec == Init /\ [][Next]_vars
=============================================================================
