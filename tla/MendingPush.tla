---------------------------- MODULE MendingPush ----------------------------
(***************************************************************************)
(* RenderQueue with a history variable that tells how far a push lost to   *)
(* the store buffers (see AllPublishedAtRest) stays lost: until the next   *)
(* push that claims its slot when the marks of all earlier slots are in    *)
(* memory, as they are when threads have been joined in between.           *)
(***************************************************************************)
EXTENDS RenderQueue

VARIABLE mending    \* the producers in such a push

MInit == Init /\ mending = {}

(* p, which claims its slot, finds every earlier one marked. *)
ClaimsAfterAll(p) == /\ pc[p] = "claim" /\ pc'[p] = "store"
                     /\ \A i \in 0 .. claimed - 1 : seq[i] = frame

MNext ==
  /\ Next
  /\ mending' = {p \in Producers : ClaimsAfterAll(p) \/ (p \in mending /\ pc'[p] # "idle")}

mvars == <<vars, mending>>
MSpec == MInit /\ [][MNext]_mvars
MFairSpec == MSpec /\ Runs(Steady)

(* Such a push returns with its own slot and every earlier one published,  *)
(* whatever the other producers do meanwhile and whatever was lost before: *)
(* a thread that pushes alone loses nothing, and the first push after      *)
(* TaskGroup::wait() makes up for what the group's tasks have lost.        *)
MendsLostPushes ==
  [][\A p \in mending : pc'[p] = "idle" => published' > myIdx[p]]_mvars
=============================================================================
