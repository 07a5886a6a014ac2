----------------------------- MODULE SolveJobs -----------------------------
(***************************************************************************)
(* The asynchronous compute jobs of backend/solver: a request is checked   *)
(* against the caller's tokens, runs inline or is stored in S3, recorded   *)
(* in DynamoDB and queued in SQS, and is charged after the endpoint        *)
(* returned; a worker (one Lambda invocation per SQS record) runs it; the  *)
(* browser polls.  Steps of different Lambda instances interleave at every *)
(* DynamoDB, S3 and SQS call.                                              *)
(***************************************************************************)
EXTENDS Tokens, FiniteSets

CONSTANTS Requests,     \* the POST /api/jobs/* calls, each with its job id
          Owner,        \* the caller of every request
          Kind,         \* its endpoint: "solve", "near_field", "far_field"
          Workers,      \* concurrent worker invocations (maximum_concurrency)
          NoJob,        \* a worker that runs nothing
          MaxReceive,   \* maxReceiveCount of the queue
          MaxCrashes,   \* bound: worker invocations that die
          Faults        \* of FaultKinds: what may happen

(* A message delivered again, a handler that raises or dies, an account    *)
(* deleted, a FastAPI that runs a dependency's exit code after the answer. *)
FaultKinds == {"duplicate", "abort", "erase", "late"}

ASSUME JobsAssumption ==
  /\ Owner \in [Requests -> Users]
  /\ Kind \in [Requests -> {"solve", "near_field", "far_field"}]
  /\ NoJob \notin Requests
  /\ MaxReceive \in Nat \ {0}
  /\ MaxCrashes \in Nat
  /\ Faults \subseteq FaultKinds

VARIABLES
  handler,    \* where the request handler of each request is
  deduct,     \* TokenCheckResult.should_deduct of each request
  stored,     \* S3: the requests whose JOB_REQUEST object exists
  results,    \* S3: the requests whose SOLVER_RESULTS object exists
  status,     \* Status of the job record, "none" without a record
  fee,        \* TokensCharged of the job record
  expiring,   \* the job records that carry a TTL attribute
  visible,    \* copies of the job's message a worker could receive
  receives,   \* ApproximateReceiveCount of the message
  dead,       \* messages in the dead-letter queue
  worker,     \* [pc, job, fee] of each worker invocation
  crashes,    \* worker invocations that died so far
  erasing,    \* users whose account deletion is under way
  doomed,     \* job records that deletion has listed and not yet removed
  client,     \* what runJob in the browser knows
  charged,    \* history: tokens taken for each request
  refunded    \* history: tokens given back for each request

handlerVars == <<handler, deduct>>
recordVars  == <<status, fee, expiring>>
queueVars   == <<visible, receives, dead>>
workerVars  == <<worker, crashes>>
eraseVars   == <<erasing, doomed>>
moneyVars   == <<charged, refunded>>

vars == <<tokenVars, handlerVars, stored, results, recordVars, queueVars,
          workerVars, eraseVars, client, moneyVars>>

-----------------------------------------------------------------------------
Cost(r) == IF Kind[r] = "solve" THEN 5 ELSE 3

HandlerPc == {"idle", "checked", "stored", "recorded", "sent", "served",
              "accepted", "refused", "rejected", "error"}
Status    == {"queued", "running", "done", "failed"}
Terminal  == {"done", "failed"}
WorkerPc  == {"idle", "read", "mark", "compute", "store", "finish", "fail", "refund",
              "end"}
ClientPc  == {"calling", "polling", "delivered", "failed", "gaveUp"}

IdleWorker == [pc |-> "idle", job |-> NoJob, fee |-> 0]

HandlerTypeOK ==
  /\ handler \in [Requests -> HandlerPc]
  /\ deduct \in SUBSET Requests
  /\ client \in [Requests -> ClientPc]

JobTypeOK ==
  /\ stored \in SUBSET Requests
  /\ results \in SUBSET Requests
  /\ status \in [Requests -> Status \cup {"none"}]
  /\ fee \in [Requests -> Nat]
  /\ expiring \in SUBSET Requests

QueueTypeOK ==
  /\ visible \in [Requests -> Nat]
  /\ receives \in [Requests -> Nat]
  /\ dead \in SUBSET Requests

WorkerTypeOK ==
  /\ worker \in [Workers -> [pc : WorkerPc, job : Requests \cup {NoJob}, fee : Nat]]
  /\ \A w \in Workers : IF worker[w].pc = "idle" THEN worker[w].job = NoJob
                                                ELSE worker[w].job \in Requests
  /\ crashes \in Nat

MoneyTypeOK ==
  /\ charged \in [Requests -> Nat]
  /\ refunded \in [Requests -> Nat]

TypeOK ==
  /\ TokensTypeOK
  /\ HandlerTypeOK
  /\ JobTypeOK
  /\ QueueTypeOK
  /\ WorkerTypeOK
  /\ MoneyTypeOK
  /\ erasing \in SUBSET Users
  /\ doomed \in SUBSET Requests

Init ==
  /\ TokensInit
  /\ handler = [r \in Requests |-> "idle"]
  /\ deduct = {}
  /\ stored = {}
  /\ results = {}
  /\ status = [r \in Requests |-> "none"]
  /\ fee = [r \in Requests |-> 0]
  /\ expiring = {}
  /\ visible = [r \in Requests |-> 0]
  /\ receives = [r \in Requests |-> 0]
  /\ dead = {}
  /\ worker = [w \in Workers |-> IdleWorker]
  /\ crashes = 0
  /\ erasing = {}
  /\ doomed = {}
  /\ client = [r \in Requests |-> "calling"]
  /\ charged = [r \in Requests |-> 0]
  /\ refunded = [r \in Requests |-> 0]

-----------------------------------------------------------------------------
(* The request handler.                                                    *)

HandlerAt(r, pc) == handler[r] = pc

GoTo(r, pc) == handler' = [handler EXCEPT ![r] = pc]

(* get_current_user and the first half of require_simulation_tokens, on    *)
(* instance i: 401, 402, or the endpoint runs.                             *)
Check(r, i) ==
  LET u == Owner[r]
      p == ProfileSeen(i, u)
  IN  /\ HandlerAt(r, "idle")
      /\ \/ /\ ~Authenticates(i, u)
            /\ GoTo(r, "rejected")
            /\ UNCHANGED <<cache, deduct>>
         \/ /\ Authenticates(i, u)
            /\ RememberProfile(i, u)
            /\ IF Affordable(p, Cost(r))
                 THEN /\ GoTo(r, "checked")
                      /\ deduct' = IF MustDeduct(p, Cost(r)) THEN deduct \cup {r} ELSE deduct
                 ELSE /\ GoTo(r, "rejected")
                      /\ UNCHANGED deduct
      /\ UNCHANGED <<accounts, tokens, flatrate, stored, results, recordVars,
                     queueVars, workerVars, eraseVars, client, moneyVars>>

(* _run_inline_or_queue with a small estimate: the result is the answer,   *)
(* and an error costs nothing.                                             *)
RunInline(r) ==
  /\ HandlerAt(r, "checked")
  /\ \/ GoTo(r, "served")
     \/ GoTo(r, "rejected")
  /\ UNCHANGED <<tokenVars, deduct, stored, results, recordVars, queueVars,
                 workerVars, eraseVars, client, moneyVars>>

(* JobStore.submit: the S3 object, the job record, the SQS message.        *)
StoreRequest(r) ==
  /\ HandlerAt(r, "checked")
  /\ stored' = stored \cup {r}
  /\ GoTo(r, "stored")
  /\ UNCHANGED <<tokenVars, deduct, results, recordVars, queueVars,
                 workerVars, eraseVars, client, moneyVars>>

PutRecord(r) ==
  /\ HandlerAt(r, "stored")
  /\ status' = [status EXCEPT ![r] = "queued"]
  /\ fee' = [fee EXCEPT ![r] = IF r \in deduct THEN Cost(r) ELSE 0]
  /\ expiring' = expiring \cup {r}
  /\ GoTo(r, "recorded")
  /\ UNCHANGED <<tokenVars, deduct, stored, results, queueVars, workerVars,
                 eraseVars, client, moneyVars>>

SendMessage(r) ==
  /\ HandlerAt(r, "recorded")
  /\ visible' = [visible EXCEPT ![r] = 1]
  /\ GoTo(r, "sent")
  /\ UNCHANGED <<tokenVars, deduct, stored, results, recordVars, receives,
                 dead, workerVars, eraseVars, client, moneyVars>>

(* The answer reaches runJob: 200 with the result, or 202 to poll for it.  *)
Accept(r) ==
  /\ GoTo(r, "accepted")
  /\ client' = [client EXCEPT ![r] = IF HandlerAt(r, "served") THEN "delivered" ELSE "polling"]

(* Mutant: a charge that is refused is logged and the answer sent anyway.  *)
ChargeBestEffort(r) ==
  /\ handler[r] \in {"sent", "served"}
  /\ \/ /\ r \in deduct
        /\ Deduct(Owner[r], Cost(r))
        /\ charged' = [charged EXCEPT ![r] = Cost(r)]
     \/ /\ r \notin deduct \/ ~CanDeduct(Owner[r], Cost(r))
        /\ UNCHANGED <<tokenVars, charged>>
  /\ Accept(r)
  /\ UNCHANGED <<deduct, stored, results, recordVars, queueVars, workerVars,
                 eraseVars, refunded>>

(* The second half of require_simulation_tokens, after the endpoint        *)
(* returned: a charge that finds too few tokens, or no profile any more,   *)
(* answers 402 although the job may be queued already -- or, where the     *)
(* framework has completed the answer by then (FastAPI from 0.118 on),     *)
(* changes nothing.                                                        *)
Charge(r) ==
  /\ handler[r] \in {"sent", "served"}
  /\ \/ /\ r \in deduct
        /\ Deduct(Owner[r], Cost(r))
        /\ charged' = [charged EXCEPT ![r] = Cost(r)]
        /\ Accept(r)
     \/ /\ r \in deduct
        /\ ~CanDeduct(Owner[r], Cost(r))
        /\ IF "late" \in Faults
             THEN Accept(r)
             ELSE GoTo(r, "refused") /\ UNCHANGED client
        /\ UNCHANGED <<tokenVars, charged>>
     \/ /\ r \notin deduct
        /\ Accept(r)
        /\ UNCHANGED <<tokenVars, charged>>
  /\ UNCHANGED <<deduct, stored, results, recordVars, queueVars, workerVars,
                 eraseVars, refunded>>

(* An AWS call of the handler raises (500), or its Lambda dies: what it    *)
(* has written stays, and the charge is skipped.                           *)
Abort(r) ==
  /\ "abort" \in Faults
  /\ handler[r] \in {"checked", "stored", "recorded", "sent", "served"}
  /\ GoTo(r, "error")
  /\ UNCHANGED <<tokenVars, deduct, stored, results, recordVars, queueVars,
                 workerVars, eraseVars, client, moneyVars>>

-----------------------------------------------------------------------------
(* The SQS queue and its event source mapping.                             *)

Running(r) == {w \in Workers : worker[w].job = r}

(* Mutant: no visibility timeout, a received message can be received again.*)
ReceiveVisibly(w, r) ==
  /\ worker[w].pc = "idle"
  /\ visible[r] > 0
  /\ receives[r] < MaxReceive
  /\ receives' = [receives EXCEPT ![r] = @ + 1]
  /\ worker' = [worker EXCEPT ![w] = [pc |-> "read", job |-> r, fee |-> 0]]
  /\ UNCHANGED <<tokenVars, handlerVars, stored, results, recordVars, visible, dead,
                 crashes, eraseVars, client, moneyVars>>

(* Lambda receives a copy and invokes a worker with it.                    *)
Receive(w, r) ==
  /\ worker[w].pc = "idle"
  /\ visible[r] > 0
  /\ receives[r] < MaxReceive
  /\ visible' = [visible EXCEPT ![r] = @ - 1]
  /\ receives' = [receives EXCEPT ![r] = @ + 1]
  /\ worker' = [worker EXCEPT ![w] = [pc |-> "read", job |-> r, fee |-> 0]]
  /\ UNCHANGED <<tokenVars, handlerVars, stored, results, recordVars, dead,
                 crashes, eraseVars, client, moneyVars>>

(* redrive_policy: a message received maxReceiveCount times moves to the   *)
(* dead-letter queue instead of being received again.                      *)
DeadLetter(r) ==
  /\ visible[r] > 0
  /\ receives[r] >= MaxReceive
  /\ visible' = [visible EXCEPT ![r] = @ - 1]
  /\ dead' = dead \cup {r}
  /\ UNCHANGED <<tokenVars, handlerVars, stored, results, recordVars, receives,
                 workerVars, eraseVars, client, moneyVars>>

(* A standard queue delivers at least once: a received message may show up *)
(* again, whether its worker still runs or has finished.                   *)
Duplicate(r) ==
  /\ "duplicate" \in Faults
  /\ receives[r] > 0
  /\ visible[r] + receives[r] < MaxReceive
  /\ visible' = [visible EXCEPT ![r] = @ + 1]
  /\ UNCHANGED <<tokenVars, handlerVars, stored, results, recordVars, receives,
                 dead, workerVars, eraseVars, client, moneyVars>>

-----------------------------------------------------------------------------
(* run_job, one step per call of DynamoDB or S3.                           *)

At(w, pc) == worker[w].pc = pc

Step(w, pc) == worker' = [worker EXCEPT ![w] = [@ EXCEPT !.pc = pc]]

(* The invocation returns and its message is deleted.                      *)
Return(w) == worker' = [worker EXCEPT ![w] = IdleWorker]

(* set_status: an update_item without a condition, which also creates the  *)
(* record of a job that has none (without TTL and TokensCharged).          *)
SetStatus(r, s) ==
  /\ status' = [status EXCEPT ![r] = s]
  /\ UNCHANGED <<fee, expiring>>

(* run_job's early return, for the statuses it names.                      *)
ReadJobUnless(w, settled) ==
  LET r == worker[w].job
  IN  /\ At(w, "read")
      /\ IF status[r] \in settled
           THEN Return(w)
           ELSE worker' = [worker EXCEPT ![w] = [pc |-> "mark", job |-> r, fee |-> fee[r]]]
      /\ UNCHANGED <<tokenVars, handlerVars, stored, results, recordVars, queueVars,
                     crashes, eraseVars, client, moneyVars>>

(* Mutants: an early return that forgets a status, or names one too many.  *)
ReadJobRetryFailed(w)   == ReadJobUnless(w, {"none", "done"})
ReadJobRetryAlways(w)   == ReadJobUnless(w, {"none"})
ReadJobTrustRunning(w)  == ReadJobUnless(w, {"none", "done", "failed", "running"})

(* A job that has no record, or is settled, is not run again.              *)
ReadJob(w) == ReadJobUnless(w, Terminal \cup {"none"})

(* Mutant: "running" is not recorded.                                      *)
MarkRunningSilently(w) ==
  /\ At(w, "mark")
  /\ Step(w, "compute")
  /\ UNCHANGED <<tokenVars, handlerVars, stored, results, recordVars, queueVars, crashes,
                 eraseVars, client, moneyVars>>

MarkRunning(w) ==
  /\ At(w, "mark")
  /\ SetStatus(worker[w].job, "running")
  /\ Step(w, "compute")
  /\ UNCHANGED <<tokenVars, handlerVars, stored, results, queueVars, crashes,
                 eraseVars, client, moneyVars>>

(* get_result of the request, parse and run: any of them may raise, and a  *)
(* request object that is missing always does.                             *)
Compute(w) ==
  /\ At(w, "compute")
  /\ \/ /\ worker[w].job \in stored
        /\ Step(w, "store")
     \/ Step(w, "fail")
  /\ UNCHANGED <<tokenVars, handlerVars, stored, results, recordVars, queueVars,
                 crashes, eraseVars, client, moneyVars>>

(* Mutant: a result that cannot be stored is logged and ignored.           *)
StoreResultBestEffort(w) ==
  /\ At(w, "store")
  /\ results' \in {results, results \cup {worker[w].job}}
  /\ Step(w, "finish")
  /\ UNCHANGED <<tokenVars, handlerVars, stored, recordVars, queueVars, crashes,
                 eraseVars, client, moneyVars>>

StoreResult(w) ==
  /\ At(w, "store")
  /\ \/ /\ results' = results \cup {worker[w].job}
        /\ Step(w, "finish")
     \/ /\ Step(w, "fail")
        /\ UNCHANGED results
  /\ UNCHANGED <<tokenVars, handlerVars, stored, recordVars, queueVars, crashes,
                 eraseVars, client, moneyVars>>

MarkDone(w) ==
  /\ At(w, "finish")
  /\ \/ /\ SetStatus(worker[w].job, "done")
        /\ Step(w, "end")
     \/ /\ Step(w, "fail")
        /\ UNCHANGED recordVars
  /\ UNCHANGED <<tokenVars, handlerVars, stored, results, queueVars, crashes,
                 eraseVars, client, moneyVars>>

(* Mutants: the refund before, or without, the status; or no refund.       *)
MarkFailedLate(w) ==
  /\ At(w, "fail")
  /\ IF worker[w].fee > 0
       THEN Step(w, "refund") /\ UNCHANGED recordVars
       ELSE Step(w, "end") /\ SetStatus(worker[w].job, "failed")
  /\ UNCHANGED <<tokenVars, handlerVars, stored, results, queueVars, crashes,
                 eraseVars, client, moneyVars>>

MarkFailedUnpaid(w) ==
  /\ At(w, "fail")
  /\ SetStatus(worker[w].job, "failed")
  /\ Step(w, "end")
  /\ UNCHANGED <<tokenVars, handlerVars, stored, results, queueVars, crashes,
                 eraseVars, client, moneyVars>>

MarkFailed(w) ==
  /\ At(w, "fail")
  /\ SetStatus(worker[w].job, "failed")
  /\ IF worker[w].fee > 0 THEN Step(w, "refund") ELSE Step(w, "end")
  /\ UNCHANGED <<tokenVars, handlerVars, stored, results, queueVars, crashes,
                 eraseVars, client, moneyVars>>

(* refund_user_tokens raises when the profile is gone; run_job then raises *)
(* too, and the message comes back.                                        *)
RefundFee(w) ==
  LET r == worker[w].job
  IN  /\ At(w, "refund")
      /\ \/ /\ Refund(Owner[r], worker[w].fee)
            /\ refunded' = [refunded EXCEPT ![r] = @ + worker[w].fee]
            /\ Step(w, "end")
            /\ UNCHANGED visible
         \/ /\ ~CanRefund(Owner[r])
            /\ visible' = [visible EXCEPT ![r] = @ + 1]
            /\ Return(w)
            /\ UNCHANGED <<tokenVars, refunded>>
      /\ UNCHANGED <<handlerVars, stored, results, recordVars, receives, dead,
                     crashes, eraseVars, client, charged>>

(* run_job returned: only now is the message deleted.                      *)
Acknowledge(w) ==
  /\ At(w, "end")
  /\ Return(w)
  /\ UNCHANGED <<tokenVars, handlerVars, stored, results, recordVars, queueVars,
                 crashes, eraseVars, client, moneyVars>>

(* Mutant: a visibility timeout shorter than the invocation.               *)
CrashOrTimeOut(w) ==
  /\ crashes < MaxCrashes
  /\ ~At(w, "idle")
  /\ crashes' = crashes + 1
  /\ visible' = [visible EXCEPT ![worker[w].job] = @ + 1]
  /\ UNCHANGED <<tokenVars, handlerVars, stored, results, recordVars, receives,
                 dead, worker, eraseVars, client, moneyVars>>

(* The invocation dies (timeout, out of memory, an AWS error no handler    *)
(* catches): its message becomes visible again after the visibility        *)
(* timeout, which exceeds the Lambda timeout.                              *)
Crash(w) ==
  /\ crashes < MaxCrashes
  /\ ~At(w, "idle")
  /\ crashes' = crashes + 1
  /\ visible' = [visible EXCEPT ![worker[w].job] = @ + 1]
  /\ Return(w)
  /\ UNCHANGED <<tokenVars, handlerVars, stored, results, recordVars, receives,
                 dead, eraseVars, client, moneyVars>>

-----------------------------------------------------------------------------
(* Account deletion (delete_user_data): the items are listed, then deleted *)
(* one by one.                                                             *)

ListItems(u) ==
  /\ "erase" \in Faults
  /\ u \in accounts \ erasing
  /\ erasing' = erasing \cup {u}
  /\ doomed' = doomed \cup {r \in Requests : Owner[r] = u /\ status[r] # "none"}
  /\ UNCHANGED <<tokenVars, handlerVars, stored, results, recordVars, queueVars,
                 workerVars, client, moneyVars>>

EraseRecord(r) ==
  /\ r \in doomed
  /\ doomed' = doomed \ {r}
  /\ status' = [status EXCEPT ![r] = "none"]
  /\ fee' = [fee EXCEPT ![r] = 0]
  /\ expiring' = expiring \ {r}
  /\ UNCHANGED <<tokenVars, handlerVars, stored, results, queueVars, workerVars,
                 erasing, client, moneyVars>>

EraseProfile(u) ==
  /\ u \in erasing
  /\ RemoveProfile(u)
  /\ UNCHANGED <<handlerVars, stored, results, recordVars, queueVars, workerVars,
                 eraseVars, client, moneyVars>>

Erased(u) == u \in erasing \ accounts /\ \A r \in doomed : Owner[r] # u

-----------------------------------------------------------------------------
(* runJob in the browser, after a 202.                                     *)

(* get_solve_job: the result of a done job, the error of a failed one, 404 *)
(* for none (or 401); a done job without its result is polled again.       *)
Poll(r) ==
  /\ client[r] = "polling"
  /\ \/ /\ status[r] = "done"
        /\ r \in results
        /\ client' = [client EXCEPT ![r] = "delivered"]
     \/ /\ status[r] \in {"failed", "none"}
        /\ client' = [client EXCEPT ![r] = "failed"]
  /\ UNCHANGED <<tokenVars, handlerVars, stored, results, recordVars, queueVars,
                 workerVars, eraseVars, moneyVars>>

(* JOB_TIMEOUT_MS: the browser stops polling a job that has not settled.   *)
GiveUp(r) ==
  /\ client[r] = "polling"
  /\ client' = [client EXCEPT ![r] = "gaveUp"]
  /\ UNCHANGED <<tokenVars, handlerVars, stored, results, recordVars, queueVars,
                 workerVars, eraseVars, moneyVars>>

Forget(i, u) ==
  /\ ForgetProfile(i, u)
  /\ UNCHANGED <<handlerVars, stored, results, recordVars, queueVars, workerVars,
                 eraseVars, client, moneyVars>>

-----------------------------------------------------------------------------
HandlerStep(r) ==
  RunInline(r) \/ StoreRequest(r) \/ PutRecord(r) \/ SendMessage(r) \/ Charge(r)

Deliver(r) == \E w \in Workers : Receive(w, r)

WorkerStep(w) ==
  \/ ReadJob(w) \/ MarkRunning(w) \/ Compute(w) \/ StoreResult(w)
  \/ MarkDone(w) \/ MarkFailed(w) \/ RefundFee(w) \/ Acknowledge(w)

Next ==
  \/ \E r \in Requests, i \in Instances : Check(r, i)
  \/ \E r \in Requests :
       \/ HandlerStep(r) \/ Abort(r)
       \/ Deliver(r) \/ DeadLetter(r) \/ Duplicate(r)
       \/ EraseRecord(r) \/ Poll(r) \/ GiveUp(r)
  \/ \E w \in Workers : WorkerStep(w) \/ Crash(w)
  \/ \E u \in Users : ListItems(u) \/ EraseProfile(u)
  \/ \E i \in Instances, u \in Users : Forget(i, u)

Spec == Init /\ [][Next]_vars

(* A handler that is not aborted runs on; Lambda keeps receiving from the  *)
(* queue; a worker that does not crash runs on.  Nothing makes a user call *)
(* or poll, a message duplicate or an account go away.                     *)
Fairness ==
  /\ \A r \in Requests : WF_vars(HandlerStep(r)) /\ WF_vars(Deliver(r)) /\ WF_vars(DeadLetter(r))
  /\ \A w \in Workers : WF_vars(WorkerStep(w))

FairSpec == Spec /\ Fairness

-----------------------------------------------------------------------------
(* What may be relied on under every fault.                                *)

(* A poll that reads "done" finds the result: run_job stores the object    *)
(* before it sets the status (jobs.py), and nothing un-stores it.          *)
DoneHasResult == \A r \in Requests : status[r] = "done" => r \in results

(* A worker never starts on a job whose request object was not stored:     *)
(* submit writes S3 before DynamoDB before SQS, so that neither a message  *)
(* nor an invocation can precede its payload.                              *)
PayloadPrecedesMessage ==
  \A r \in Requests : visible[r] > 0 \/ Running(r) # {} => r \in stored

(* A job that was queued is never lost: it is done or failed, its message  *)
(* is in the queue, with a worker that has yet to settle it or among the   *)
(* dead letters, or the account deletion has removed its record.  Every    *)
(* way out of run_job has to leave one of these behind (jobs.py).          *)
NothingLost ==
  \A r \in Requests :
    handler[r] = "sent" \/ client[r] \in {"polling", "failed", "gaveUp"} =>
      \/ status[r] \in Terminal
      \/ visible[r] > 0 \/ r \in dead
      \/ \E w \in Running(r) : worker[w].pc \notin {"refund", "end"}
      \/ status[r] = "none" /\ Owner[r] \in erasing

(* A record without a TTL is one that set_status wrote back while its      *)
(* user's account was being deleted, and it carries no fee: nothing can be *)
(* refunded on its account (jobs.py, submit and set_status).               *)
GhostRecords ==
  \A r \in Requests :
    status[r] # "none" /\ r \notin expiring => Owner[r] \in erasing /\ fee[r] = 0

-----------------------------------------------------------------------------
(* What holds as long as the queue does not duplicate a message; some of   *)
(* it only if no account is deleted while a job is under way, or if a      *)
(* refused charge still refuses the request.                               *)

(* No two invocations ever work on the same job: the visibility timeout    *)
(* outlives the worker, so a message comes back only after its worker is   *)
(* gone (async_jobs.tf).                                                   *)
NoOverlap ==
  \A r \in Requests : \A v, w \in Running(r) : v = w

(* A job is refunded at most once and never more than its price, however   *)
(* its worker crashes and is retried (run_job).                            *)
RefundedOnce == \A r \in Requests : refunded[r] <= Cost(r)

(* Tokens go back only for a job that has failed and stays failed.         *)
RefundOnlyFailed == \A r \in Requests : refunded[r] > 0 => status[r] = "failed"

(* A result the browser got was paid for and not refunded, unless the      *)
(* caller had a flatrate: delivery, charge and refund are steps of three   *)
(* processes (token_dependency.py, jobs.py, api/solver.ts).  It is stated  *)
(* of a system without late charging: where the framework charges after it *)
(* has answered, a refused charge no longer keeps the result back.  And    *)
(* without duplicate deliveries: two of them that overlap may deliver the  *)
(* result of the one and refund the other.                                 *)
DeliveredWasPaid ==
  \A r \in Requests :
    client[r] = "delivered" /\ r \in deduct => charged[r] = Cost(r) /\ refunded[r] = 0

(* Only a request that was refused or died after its message was sent is   *)
(* given back tokens it never paid (or it is still to be charged): the     *)
(* refund relies on what submit recorded, not on the charge (main.py,      *)
(* _run_inline_or_queue).                                                  *)
RefundBacked ==
  \A r \in Requests :
    handler[r] \notin {"sent", "refused", "error"} => refunded[r] <= charged[r]

(* A message is among the dead letters only if as many workers died as the *)
(* queue delivers (maxReceiveCount): a job that raises is not retried,     *)
(* since run_job catches what it raises.                                   *)
DeadAfterCrashes == \A r \in Requests : r \in dead => crashes >= MaxReceive

(* Unless a worker died, a job that failed has been given back exactly     *)
(* what was charged for it, or a worker is about to do so (run_job).       *)
FailedGivenBack ==
  \A r \in Requests :
    status[r] = "failed" /\ handler[r] = "accepted" /\ crashes = 0
      => refunded[r] = charged[r] \/ \E w \in Running(r) : At(w, "refund")

(* A job that is done or failed keeps its status: a retried or repeated    *)
(* delivery returns early (run_job).                                       *)
TerminalIsFinal ==
  [][\A r \in Requests : status[r] \in Terminal => status'[r] = status[r]]_vars

(* Every job that was queued is answered, if fewer workers crash than the  *)
(* queue retries (maxReceiveCount).                                        *)
JobSettles ==
  \A r \in Requests : handler[r] = "sent" ~> status[r] \in Terminal

(* A job that failed costs nothing in the end: what was charged for it is  *)
(* given back, unless a worker died (run_job).                             *)
FailedCostsNothing ==
  \A r \in Requests :
    status[r] = "failed" /\ handler[r] = "accepted"
      ~> refunded[r] = charged[r] \/ crashes > 0

(* The job endpoints keep the promise of JobPromise: the status, the       *)
(* charges and the refunds of the detailed system are those of a job that  *)
(* is charged, run and refunded at most once.                              *)
Promise == INSTANCE JobPromise WITH
             job      <- status,
             paid     <- {r \in Requests : charged[r] > 0},
             returned <- {r \in Requests : refunded[r] > 0}

KeepsPromise == Promise!Spec

-----------------------------------------------------------------------------
(* Why those hold: the inductive strengthening.                            *)

Busy(w) == ~At(w, "idle")

(* Requests whose message has not been sent.                               *)
Unsent(r) == handler[r] \in {"idle", "checked", "stored", "recorded", "served", "rejected"}

(* The record has been removed with its user's account.                    *)
Gone(r) == status[r] = "none" /\ Owner[r] \in erasing

(* There is at most one copy of a message, in the queue or with a worker.  *)
CopyInv ==
  /\ \A r \in Requests : visible[r] \in {0, 1}
  /\ \A w \in Workers : Busy(w) => visible[worker[w].job] = 0
  /\ \A v, w \in Workers : Busy(v) /\ worker[v].job = worker[w].job => v = w
  /\ \A r \in Requests : Unsent(r) => visible[r] = 0
  /\ \A w \in Workers : Busy(w) => ~Unsent(worker[w].job)

(* The record's status follows the handler, then the one worker, unless    *)
(* the account deletion has removed it.                                    *)
StageInv ==
  /\ \A r \in Requests :
       /\ handler[r] \in {"idle", "checked", "stored", "served", "rejected"} => status[r] = "none"
       /\ handler[r] = "recorded" => status[r] = "queued" \/ Gone(r)
  /\ \A w \in Workers :
       LET r == worker[w].job
       IN  /\ At(w, "mark") => status[r] \in {"queued", "running"} \/ Gone(r)
           /\ worker[w].pc \in {"compute", "store", "finish", "fail"} => status[r] = "running" \/ Gone(r)
           /\ At(w, "refund") => status[r] = "failed" \/ Gone(r)

(* A refund is at most the price, and no worker that may make another one  *)
(* is under way.                                                           *)
RefundInv ==
  /\ \A r \in Requests :
       /\ fee[r] <= Cost(r)
       /\ refunded[r] <= Cost(r)
       /\ refunded[r] > 0 => ~Unsent(r) /\ (status[r] = "failed" \/ Gone(r))
  /\ \A w \in Workers :
       /\ Busy(w) => worker[w].fee <= Cost(worker[w].job)
       /\ Busy(w) /\ refunded[worker[w].job] > 0 => worker[w].pc \in {"read", "end"}
       /\ At(w, "refund") => worker[w].fee > 0

(* Only an accepted request is charged or polled for (under every fault),  *)
(* and one that must pay has paid (without late charging).                 *)
LedgerInv ==
  \A r \in Requests :
    /\ handler[r] # "accepted" => charged[r] = 0 /\ client[r] = "calling"
    /\ charged[r] > 0 => r \in deduct

PaidInv ==
  \A r \in Requests :
    "late" \notin Faults /\ handler[r] = "accepted" /\ r \in deduct => charged[r] = Cost(r)

(* What is delivered is never refunded: it is done, and nobody reruns it.  *)
DeliveredInv ==
  \A r \in Requests : client[r] = "delivered" =>
    /\ status[r] \in {"none", "done"}
    /\ refunded[r] = 0
    /\ \A w \in Running(r) : worker[w].pc \in {"read", "end"}

(* Under every fault: a record is there from its submission until the      *)
(* account is deleted; one that a worker has written back after that has   *)
(* neither a TTL nor a fee; only a request that must pay has a fee.        *)
RecordInv ==
  /\ \A r \in Requests :
       /\ r \in doomed => Owner[r] \in erasing
       /\ handler[r] \in {"recorded", "sent"} \/ visible[r] > 0 \/ receives[r] > 0
            => status[r] # "none" \/ Gone(r)
       /\ r \in expiring => status[r] # "none" /\ handler[r] \notin {"idle", "checked", "stored"}
       /\ status[r] # "none" /\ r \notin expiring => Owner[r] \in erasing
       /\ fee[r] = IF r \in expiring /\ r \in deduct THEN Cost(r) ELSE 0
       /\ refunded[r] > 0 => r \in deduct
  /\ \A w \in Workers : Busy(w) =>
       /\ receives[worker[w].job] > 0
       /\ worker[w].fee > 0 => worker[w].job \in deduct

(* Every receipt of a message but the last ended in a crash (without       *)
(* duplicates and account deletion).                                       *)
ReceiveInv ==
  /\ \A r \in Requests :
       /\ Unsent(r) => receives[r] = 0
       /\ visible[r] > 0 => receives[r] <= crashes
       /\ r \in dead => MaxReceive <= crashes
  /\ \A w \in Workers : Busy(w) => receives[worker[w].job] <= crashes + 1

(* A worker knows the fee, and as long as none dies the one that set the   *)
(* status to failed gives the fee back (without duplicates and deletion).  *)
GiveBackInv ==
  /\ \A w \in Workers : Busy(w) /\ ~At(w, "read") => worker[w].fee = fee[worker[w].job]
  /\ \A r \in Requests :
       status[r] = "failed" /\ crashes = 0
         => refunded[r] = fee[r] \/ \E w \in Running(r) : At(w, "refund")

(* Under every fault: the payload precedes the record and the message, and *)
(* the result precedes the status.                                         *)
StoreInv ==
  /\ DoneHasResult
  /\ \A w \in Workers : At(w, "finish") => worker[w].job \in results
  /\ \A r \in Requests :
       handler[r] \in {"stored", "recorded"} \/ visible[r] > 0 \/ receives[r] > 0 => r \in stored
  /\ \A w \in Workers : Busy(w) => worker[w].job \in stored

LifecycleInv == TypeOK /\ CopyInv /\ StageInv /\ RefundInv

(* No token is made or lost on the way: as long as a profile exists, every *)
(* step changes its balance by what one request of its user is charged and *)
(* given back in that step (user_repository.py), under every fault.  Two   *)
(* charges of one request, which would be recorded as one, break it.       *)
Untouched(r) == charged'[r] = charged[r] /\ refunded'[r] = refunded[r]

TokensAccounted ==
  [][\A u \in accounts' : LET Own == {r \in Requests : Owner[r] = u} IN
       \/ tokens'[u] = tokens[u] /\ \A r \in Own : Untouched(r)
       \/ \E r \in Own :
            /\ tokens'[u] + charged'[r] + refunded[r] = tokens[u] + charged[r] + refunded'[r]
            /\ \A q \in Own \ {r} : Untouched(q)]_vars

-----------------------------------------------------------------------------
(* What the code or its tests say and a run refutes.                       *)

(* "A crash is retried once", and a failed job is refunded: it is refunded *)
(* even if a worker died (async_jobs.tf, test_async_jobs.py).              *)
FailedRefunded ==
  \A r \in Requests :
    status[r] = "failed" /\ handler[r] = "accepted" ~> refunded[r] = charged[r]

(* "Give tokens back": no more is refunded for a job than was taken for it *)
(* (user_repository.py, refund_user_tokens).                               *)
RefundWasCharged ==
  \A r \in Requests : handler[r] \in {"accepted", "refused", "error"} => refunded[r] <= charged[r]

(* "account deletion and retention remove them": no job record of a user   *)
(* is left when the deletion is through (jobs.py).                         *)
ErasedWithAccount ==
  \A r \in Requests : Erased(Owner[r]) => status[r] = "none"

(* "expire after JOB_TTL_DAYS via the table's TTL attribute": no job       *)
(* record lacks it (jobs.py).                                              *)
RecordsExpire == \A r \in Requests : status[r] # "none" => r \in expiring
-----------------------------------------------------------------------------
(* Under which circumstances two of them hold after all.                   *)

(* A request whose message was sent is charged: its charge is not refused, *)
(* and its handler does not die before it.                                 *)
SentIsCharged ==
  [][\A r \in Requests : handler[r] = "sent" => handler'[r] \in {"sent", "accepted"}]_vars

(* No record is written behind the deletion of its account: no submission  *)
(* stores one after the listing, and no worker updates one that is gone.   *)
Behind(r) == Owner[r] \in erasing /\ status[r] = "none"

RecordsInTime ==
  [][/\ \A r \in Requests : PutRecord(r) => Owner[r] \notin erasing
     /\ \A w \in Workers :
          MarkRunning(w) \/ MarkDone(w) \/ MarkFailed(w) => ~Behind(worker[w].job)]_vars

(* A request that was refused, or died, has sent nothing.                  *)
EndedInv ==
  \A r \in Requests : handler[r] \in {"refused", "error"} =>
    visible[r] = 0 /\ Running(r) = {} /\ refunded[r] = 0

(* What the deletion has not removed yet is on its list.                   *)
ListedInv ==
  \A r \in Requests : Owner[r] \in erasing /\ status[r] # "none" => r \in doomed
=============================================================================
