------------------------------ MODULE JobQueue ------------------------------
(***************************************************************************)
(* BullMQ, as src/ uses it: jobs with a custom jobId, optionally delayed,  *)
(* default job options.  The library is not under src/; what its calls do  *)
(* to the set of jobs is written here as operators on a function q from    *)
(* job ids to job states, for the modules that own a queue.                *)
(*                                                                         *)
(*   none     no job with this id                                          *)
(*   waiting  delayed or ready; when its delay ends is left open           *)
(*   active   taken by a live worker, which holds its lock                 *)
(*   stalled  taken by a worker that died; its lock may have expired       *)
(*   done     completed or failed: the defaults keep such a job and its id *)
(***************************************************************************)

JobState == {"none", "waiting", "active", "stalled", "done"}

(* queue.add with a jobId that exists, in whatever state, adds nothing.    *)
QueueAdd(q, id) == IF q[id] = "none" THEN [q EXCEPT ![id] = "waiting"] ELSE q

(* queue.remove may turn q into r: a locked job stays and the call only    *)
(* returns 0, a stalled one stays or goes with its lock.                   *)
QueueRemove(q, id, r) ==
  \/ q[id] \in {"active", "stalled"} /\ r = q
  \/ q[id] # "active" /\ r = [q EXCEPT ![id] = "none"]

QueueTake(q, id) == [q EXCEPT ![id] = "active"]

(* A processor that returns, or throws with no attempts left, ends its job *)
(* for good.                                                               *)
QueueFinish(q, id) == [q EXCEPT ![id] = "done"]

(* The worker's process died: what it held is found stalled.               *)
QueueOrphan(q) == [id \in DOMAIN q |-> IF q[id] = "active" THEN "stalled" ELSE q[id]]

(* The stalled checker gives the job back, or fails it if it has stalled   *)
(* before (the count is abstracted to the choice).                         *)
QueueStalledCheck(q, id) ==
  {[q EXCEPT ![id] = "waiting"], [q EXCEPT ![id] = "done"]}
=============================================================================
