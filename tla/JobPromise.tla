----------------------------- MODULE JobPromise -----------------------------
(***************************************************************************)
(* What the job endpoints promise, without processes, queue or crashes: a  *)
(* job is queued, runs, and ends once, done or failed; a request is        *)
(* charged at most once; and only a failed job is refunded, at most once.  *)
(***************************************************************************)
CONSTANT Requests

VARIABLES job,       \* the phase of every job
          paid,      \* requests that have been charged
          returned   \* requests whose price has been given back

vars == <<job, paid, returned>>

Init ==
  /\ job = [r \in Requests |-> "none"]
  /\ paid = {}
  /\ returned = {}

Move(r, from, to) ==
  /\ job[r] \in from
  /\ job' = [job EXCEPT ![r] = to]
  /\ UNCHANGED <<paid, returned>>

Submit(r) == Move(r, {"none"}, "queued")
Start(r)  == Move(r, {"queued", "running"}, "running")
Finish(r) == Move(r, {"running"}, "done")
Fail(r)   == Move(r, {"running"}, "failed")

Pay(r) ==
  /\ r \notin paid
  /\ paid' = paid \cup {r}
  /\ UNCHANGED <<job, returned>>

GiveBack(r) ==
  /\ job[r] = "failed"
  /\ r \notin returned
  /\ returned' = returned \cup {r}
  /\ UNCHANGED <<job, paid>>

Next ==
  \E r \in Requests :
    Submit(r) \/ Start(r) \/ Finish(r) \/ Fail(r) \/ Pay(r) \/ GiveBack(r)

Spec == Init /\ [][Next]_vars
=============================================================================
