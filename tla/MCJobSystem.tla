---------------------------- MODULE MCJobSystem ----------------------------
(* Small instances of JobSystem for TLC. *)
EXTENDS JobSystem

CONSTANTS EngineJobs, UserJobs

MCJobs == EngineJobs \cup UserJobs
MCLaneOf == [j \in MCJobs |-> IF j \in EngineJobs THEN "Engine" ELSE "User"]

(* A build that allows no workers, the automatic count on two cores (one), *)
(* and three workers asked for where the build allows two.                 *)
SmpConfigs ==
  {[smp |-> TRUE, max |-> 0, cores |-> 4, requested |-> 0],
   [smp |-> TRUE, max |-> 2, cores |-> 2, requested |-> 0],
   [smp |-> TRUE, max |-> 2, cores |-> 0, requested |-> 3]}

(* Every small configuration; the caller asks for nothing in particular.   *)
AnyConfigs ==
  [smp : BOOLEAN, max : 0 .. 2, cores : 0 .. 4, requested : {0}]
=============================================================================
