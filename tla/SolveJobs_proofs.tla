-------------------------- MODULE SolveJobs_proofs --------------------------
(***************************************************************************)
(* Proofs about SolveJobs, for every set of users, requests and workers,   *)
(* every maxReceiveCount and any number of crashes.                        *)
(***************************************************************************)
EXTENDS SolveJobs, TLAPS

(* The price of a request is a positive number.                            *)
LEMMA CostType == \A r : Cost(r) \in Nat /\ Cost(r) > 0
BY DEF Cost

(* Moving a busy worker to another step keeps its job and its fee.         *)
LEMMA StepType ==
  ASSUME WorkerTypeOK, NEW w \in Workers, NEW pc \in WorkerPc \ {"idle"},
         worker[w].pc # "idle", Step(w, pc), UNCHANGED crashes
  PROVE  WorkerTypeOK'
<1>1. worker[w] \in [pc : WorkerPc, job : Requests \cup {NoJob}, fee : Nat]
  BY DEF WorkerTypeOK
<1>2. [worker[w] EXCEPT !.pc = pc] \in [pc : WorkerPc, job : Requests \cup {NoJob}, fee : Nat]
  BY <1>1
<1>3. [worker[w] EXCEPT !.pc = pc].job = worker[w].job
  BY <1>1
<1> QED
  BY <1>1, <1>2, <1>3 DEF WorkerTypeOK, Step

(* A worker that returns is idle and runs nothing.                         *)
LEMMA ReturnType ==
  ASSUME WorkerTypeOK, NEW w \in Workers, Return(w), crashes' \in Nat
  PROVE  WorkerTypeOK'
BY DEF WorkerTypeOK, Return, IdleWorker, WorkerPc

(* A worker that takes on a request is busy with it.                       *)
LEMMA TakeType ==
  ASSUME WorkerTypeOK, NEW w \in Workers, NEW pc \in WorkerPc \ {"idle"},
         NEW r \in Requests, NEW n \in Nat,
         worker' = [worker EXCEPT ![w] = [pc |-> pc, job |-> r, fee |-> n]], crashes' \in Nat
  PROVE  WorkerTypeOK'
<1>1. [pc |-> pc, job |-> r, fee |-> n] \in [pc : WorkerPc, job : Requests \cup {NoJob}, fee : Nat]
  OBVIOUS
<1> QED
  BY <1>1 DEF WorkerTypeOK

(* Every variable keeps its type, under every fault.                       *)
THEOREM TypeCorrect == Spec => []TypeOK
<1> USE DEF TypeOK, tokenVars, handlerVars, recordVars, queueVars, workerVars,
            eraseVars, moneyVars
<1>1. Init => TypeOK
  <2> SUFFICES ASSUME Init PROVE TypeOK
    OBVIOUS
  <2>1. TokensTypeOK
    BY StartAssumption DEF Init, TokensInit, TokensTypeOK, CacheEntry, NoEntry
  <2>2. HandlerTypeOK /\ JobTypeOK /\ QueueTypeOK /\ MoneyTypeOK
    BY DEF Init, HandlerTypeOK, JobTypeOK, QueueTypeOK, MoneyTypeOK, HandlerPc, ClientPc
  <2>3. WorkerTypeOK
    BY DEF Init, WorkerTypeOK, IdleWorker, WorkerPc
  <2> QED
    BY <2>1, <2>2, <2>3 DEF Init
<1>2. TypeOK /\ [Next]_vars => TypeOK'
  <2> SUFFICES ASSUME TypeOK, [Next]_vars PROVE TypeOK'
    OBVIOUS
  <2> USE DEF TokensTypeOK, HandlerTypeOK, JobTypeOK, QueueTypeOK, MoneyTypeOK,
              HandlerPc, ClientPc, Status, GoTo, HandlerAt, SetStatus
  <2>1. ASSUME NEW r \in Requests, NEW i \in Instances, Check(r, i) PROVE TypeOK'
    <3>1. Owner[r] \in Users
      BY JobsAssumption
    <3>2. ProfileSeen(i, Owner[r]) \in CacheEntry
      <4>1. cache[i][Owner[r]] \in CacheEntry
        BY <3>1
      <4>2. [valid |-> TRUE, tokens |-> tokens[Owner[r]], flat |-> Owner[r] \in flatrate]
               \in CacheEntry
        BY <3>1 DEF CacheEntry
      <4> QED
        BY <4>1, <4>2 DEF ProfileSeen
    <3>3. cache' \in [Instances -> [Users -> CacheEntry]]
      <4>1. CASE UNCHANGED cache
        BY <4>1
      <4>2. CASE RememberProfile(i, Owner[r])
        BY <3>1, <3>2, <4>2 DEF RememberProfile
      <4> QED
        BY <2>1, <4>1, <4>2 DEF Check
    <3>4. WorkerTypeOK'
      BY <2>1 DEF Check, WorkerTypeOK
    <3> QED
      BY <2>1, <3>3, <3>4 DEF Check
  <2>2. ASSUME NEW r \in Requests, HandlerStep(r) PROVE TypeOK'
    <3>0. WorkerTypeOK'
      BY <2>2 DEF HandlerStep, RunInline, StoreRequest, PutRecord, SendMessage, Charge,
                  WorkerTypeOK
    <3>1. CASE RunInline(r)
      BY <3>0, <3>1 DEF RunInline
    <3>2. CASE StoreRequest(r)
      BY <3>0, <3>2 DEF StoreRequest
    <3>3. CASE PutRecord(r)
      BY <3>0, <3>3, CostType DEF PutRecord
    <3>4. CASE SendMessage(r)
      BY <3>0, <3>4 DEF SendMessage
    <3>5. CASE Charge(r)
      <4>1. Owner[r] \in Users
        BY JobsAssumption
      <4>2. TokensTypeOK'
        BY <3>5, <4>1, CostType DEF Charge, Deduct, CanDeduct
      <4>3. HandlerTypeOK'
        BY <3>5 DEF Charge, Accept
      <4>4. MoneyTypeOK'
        BY <3>5, CostType DEF Charge
      <4> QED
        BY <3>0, <3>5, <4>2, <4>3, <4>4 DEF Charge
    <3> QED
      BY <2>2, <3>1, <3>2, <3>3, <3>4, <3>5 DEF HandlerStep
  <2>3. ASSUME NEW r \in Requests, Abort(r) PROVE TypeOK'
    BY <2>3 DEF Abort, WorkerTypeOK
  <2>4. ASSUME NEW r \in Requests, NEW w \in Workers, Receive(w, r) PROVE TypeOK'
    <3>1. WorkerTypeOK'
      BY <2>4 DEF Receive, WorkerTypeOK, WorkerPc
    <3> QED
      BY <2>4, <3>1 DEF Receive
  <2>5. ASSUME NEW r \in Requests, DeadLetter(r) \/ Duplicate(r) PROVE TypeOK'
    BY <2>5 DEF DeadLetter, Duplicate, WorkerTypeOK
  <2>6. ASSUME NEW r \in Requests, EraseRecord(r) PROVE TypeOK'
    BY <2>6 DEF EraseRecord, WorkerTypeOK
  <2>7. ASSUME NEW r \in Requests, Poll(r) \/ GiveUp(r) PROVE TypeOK'
    BY <2>7 DEF Poll, GiveUp, WorkerTypeOK
  <2>8. ASSUME NEW w \in Workers, WorkerStep(w) PROVE TypeOK'
    <3>0. worker[w].pc # "idle" /\ worker[w].job \in Requests /\ worker[w].fee \in Nat
      BY <2>8 DEF WorkerTypeOK, WorkerStep, ReadJob, ReadJobUnless, MarkRunning, Compute, StoreResult, MarkDone,
                  MarkFailed, RefundFee, Acknowledge, At
    <3>1. CASE ReadJob(w)
      <4>1. WorkerTypeOK'
        <5>1. CASE Return(w)
          BY <3>1, <5>1, ReturnType DEF ReadJob, ReadJobUnless, WorkerTypeOK
        <5>2. CASE ~Return(w)
          <6>1. fee[worker[w].job] \in Nat
            BY <3>0
          <6>2. worker' = [worker EXCEPT ![w] =
                             [pc |-> "mark", job |-> worker[w].job, fee |-> fee[worker[w].job]]]
            BY <3>1, <5>2 DEF ReadJob, ReadJobUnless
          <6>3. WorkerTypeOK /\ crashes' \in Nat /\ "mark" \in WorkerPc \ {"idle"}
            BY <3>1 DEF ReadJob, ReadJobUnless, WorkerTypeOK, WorkerPc
          <6> QED
            BY ONLY <3>0, <6>1, <6>2, <6>3, TakeType, w \in Workers
        <5> QED
          BY <5>1, <5>2
      <4> QED
        BY <3>1, <4>1 DEF ReadJob, ReadJobUnless
    <3>2. CASE MarkRunning(w)
      <4>1. WorkerTypeOK'
        BY <3>0, <3>2, StepType DEF MarkRunning, WorkerPc
      <4> QED
        BY <3>0, <3>2, <4>1 DEF MarkRunning
    <3>3. CASE Compute(w)
      <4>1. WorkerTypeOK'
        BY <3>0, <3>3, StepType DEF Compute, WorkerPc
      <4> QED
        BY <3>3, <4>1 DEF Compute
    <3>4. CASE StoreResult(w)
      <4>1. WorkerTypeOK'
        BY <3>0, <3>4, StepType DEF StoreResult, WorkerPc
      <4> QED
        BY <3>0, <3>4, <4>1 DEF StoreResult
    <3>5. CASE MarkDone(w)
      <4>1. WorkerTypeOK'
        BY <3>0, <3>5, StepType, ReturnType DEF MarkDone, WorkerPc, WorkerTypeOK
      <4> QED
        BY <3>0, <3>5, <4>1 DEF MarkDone
    <3>6. CASE MarkFailed(w)
      <4>1. WorkerTypeOK'
        BY <3>0, <3>6, StepType, ReturnType DEF MarkFailed, WorkerPc, WorkerTypeOK
      <4> QED
        BY <3>0, <3>6, <4>1 DEF MarkFailed
    <3>7. CASE RefundFee(w)
      <4>1. Owner[worker[w].job] \in Users
        BY <3>0, JobsAssumption
      <4>2. WorkerTypeOK'
        BY <3>0, <3>7, StepType, ReturnType DEF RefundFee, WorkerPc, WorkerTypeOK
      <4>3. TokensTypeOK' /\ MoneyTypeOK' /\ QueueTypeOK'
        BY <3>0, <3>7, <4>1 DEF RefundFee, Refund
      <4> QED
        BY <3>7, <4>2, <4>3 DEF RefundFee
    <3>8. CASE Acknowledge(w)
      <4>1. WorkerTypeOK'
        BY <3>8, ReturnType DEF Acknowledge, WorkerTypeOK
      <4> QED
        BY <3>8, <4>1 DEF Acknowledge
    <3> QED
      BY <2>8, <3>1, <3>2, <3>3, <3>4, <3>5, <3>6, <3>7, <3>8 DEF WorkerStep
  <2>9. ASSUME NEW w \in Workers, Crash(w) PROVE TypeOK'
    <3>1. WorkerTypeOK'
      BY <2>9, ReturnType DEF Crash, WorkerTypeOK
    <3>2. worker[w].job \in Requests
      BY <2>9 DEF Crash, At, WorkerTypeOK
    <3> QED
      BY <2>9, <3>1, <3>2 DEF Crash
  <2>10. ASSUME NEW u \in Users, ListItems(u) \/ EraseProfile(u) PROVE TypeOK'
    BY <2>10 DEF ListItems, EraseProfile, RemoveProfile, WorkerTypeOK
  <2>11. ASSUME NEW i \in Instances, NEW u \in Users, Forget(i, u) PROVE TypeOK'
    BY <2>11 DEF Forget, ForgetProfile, NoEntry, CacheEntry, WorkerTypeOK
  <2>12. CASE UNCHANGED vars
    BY <2>12 DEF vars, WorkerTypeOK
  <2> QED
    BY <2>1, <2>2, <2>3, <2>4, <2>5, <2>6, <2>7, <2>8, <2>9, <2>10, <2>11, <2>12
       DEF Next, Deliver
<1> QED
  BY <1>1, <1>2, PTL DEF Spec

-----------------------------------------------------------------------------
(* What a step of one worker does to the array of workers.                 *)
LEMMA WorkerFacts ==
  ASSUME TypeOK, NEW w \in Workers
  PROVE  /\ Return(w) => /\ worker'[w] = IdleWorker
                         /\ \A v \in Workers \ {w} : worker'[v] = worker[v]
         /\ \A pc \in WorkerPc : Step(w, pc) =>
              /\ worker'[w].pc = pc
              /\ worker'[w].job = worker[w].job
              /\ worker'[w].fee = worker[w].fee
              /\ \A v \in Workers \ {w} : worker'[v] = worker[v]
         /\ Busy(w) => worker[w].job \in Requests /\ worker[w].job # NoJob
         /\ ~Busy(w) => worker[w].job = NoJob
BY JobsAssumption DEF TypeOK, WorkerTypeOK, Return, Step, Busy, At, IdleWorker

(* No account is being deleted.                                            *)
NoErasure == erasing = {} /\ doomed = {} /\ accounts = Users

LEMMA NoErasureStep ==
  ASSUME "erase" \notin Faults, NoErasure, [Next]_vars
  PROVE  NoErasure'
BY DEF NoErasure, Next, vars, eraseVars, tokenVars, HandlerStep, WorkerStep, Deliver, Check, RunInline,
   StoreRequest, PutRecord, SendMessage, Charge, Deduct, Abort, Receive, DeadLetter, Duplicate,
   EraseRecord, Poll, GiveUp, ReadJob, ReadJobUnless, MarkRunning, Compute, StoreResult, MarkDone,
   MarkFailed, RefundFee, Refund, Acknowledge, Crash, ListItems, EraseProfile, Forget, ForgetProfile,
   RememberProfile

LEMMA NoErasureInvariant ==
  ASSUME "erase" \notin Faults
  PROVE  Spec => []NoErasure
<1>1. Init => NoErasure
  BY DEF Init, TokensInit, NoErasure
<1> QED
  BY <1>1, NoErasureStep, PTL DEF Spec

(* The worker of a step is busy with a request.                            *)
LEMMA WorkerStepFacts ==
  ASSUME TypeOK, NEW w \in Workers, WorkerStep(w) \/ Crash(w)
  PROVE  Busy(w) /\ worker[w].job \in Requests
BY WorkerFacts DEF WorkerStep, ReadJob, ReadJobUnless, MarkRunning, Compute, StoreResult, MarkDone,
                   MarkFailed, RefundFee, Acknowledge, Crash, At, Busy

(* What run_job leaves alone, and that it touches no job but its own.      *)
LEMMA WorkerStepLocal ==
  ASSUME TypeOK, NEW w \in Workers, WorkerStep(w), NEW r \in Requests, r = worker[w].job
  PROVE  /\ UNCHANGED <<handler, deduct, stored, fee, expiring, receives, dead, crashes,
                        erasing, doomed, client, charged>>
         /\ \A v \in Workers \ {w} : worker'[v] = worker[v]
         /\ \A q \in Requests \ {r} :
              status'[q] = status[q] /\ refunded'[q] = refunded[q] /\ visible'[q] = visible[q]
<1> USE DEF recordVars, queueVars, workerVars, handlerVars, moneyVars, eraseVars
<1>1. UNCHANGED <<handler, deduct, stored, fee, expiring, receives, dead, crashes,
                  erasing, doomed, client, charged>>
  BY DEF WorkerStep, ReadJob, ReadJobUnless, MarkRunning, Compute, StoreResult, MarkDone, MarkFailed,
         RefundFee, Acknowledge, SetStatus
<1>2. \A v \in Workers \ {w} : worker'[v] = worker[v]
  BY WorkerFacts DEF WorkerStep, ReadJob, ReadJobUnless, MarkRunning, Compute, StoreResult, MarkDone,
         MarkFailed, RefundFee, Acknowledge, WorkerPc, TypeOK, WorkerTypeOK
<1>3. \A q \in Requests \ {r} :
        status'[q] = status[q] /\ refunded'[q] = refunded[q] /\ visible'[q] = visible[q]
  BY DEF WorkerStep, ReadJob, ReadJobUnless, MarkRunning, Compute, StoreResult, MarkDone, MarkFailed,
         RefundFee, Acknowledge, SetStatus, TypeOK, JobTypeOK, MoneyTypeOK, QueueTypeOK
<1> QED
  BY <1>1, <1>2, <1>3

(* One line of the table of run_job: worker w, busy with r, goes from one  *)
(* step to another, and sets r's status, refunds and copies as given.      *)
Goes(w, r, from, to, s, back, copies) ==
  /\ worker[w].pc \in from
  /\ worker'[w].pc = to
  /\ IF to = "idle" THEN worker'[w].job = NoJob ELSE worker'[w].job = r
  /\ to \notin {"idle", "mark"} => worker'[w].fee = worker[w].fee
  /\ status'[r] = s
  /\ refunded'[r] = back
  /\ visible'[r] = copies

(* Every step of run_job is one of these.                                  *)
LEMMA WorkerTable ==
  ASSUME TypeOK, NEW w \in Workers, WorkerStep(w), NEW r \in Requests, r = worker[w].job
  PROVE  \/ /\ Goes(w, r, {"read"}, "idle", status[r], refunded[r], visible[r])
            /\ status[r] \in {"none"} \cup Terminal
         \/ /\ Goes(w, r, {"read"}, "mark", status[r], refunded[r], visible[r])
            /\ status[r] \in {"queued", "running"}
            /\ worker'[w].fee = fee[r]
         \/ Goes(w, r, {"mark"}, "compute", "running", refunded[r], visible[r])
         \/ Goes(w, r, {"compute"}, "store", status[r], refunded[r], visible[r])
         \/ Goes(w, r, {"store"}, "finish", status[r], refunded[r], visible[r])
         \/ Goes(w, r, {"compute", "store", "finish"}, "fail", status[r], refunded[r], visible[r])
         \/ Goes(w, r, {"finish"}, "end", "done", refunded[r], visible[r])
         \/ /\ Goes(w, r, {"fail"}, "refund", "failed", refunded[r], visible[r])
            /\ worker[w].fee > 0
         \/ /\ Goes(w, r, {"fail"}, "end", "failed", refunded[r], visible[r])
            /\ ~(worker[w].fee > 0)
         \/ /\ Goes(w, r, {"refund"}, "end", status[r], refunded[r] + worker[w].fee, visible[r])
            /\ Owner[r] \in accounts
         \/ /\ Goes(w, r, {"refund"}, "idle", status[r], refunded[r], visible[r] + 1)
            /\ Owner[r] \notin accounts
         \/ Goes(w, r, {"end"}, "idle", status[r], refunded[r], visible[r])
<1> USE WorkerFacts DEF recordVars, queueVars, workerVars, handlerVars, moneyVars, Goes, WorkerPc,
        IdleWorker, At, TypeOK
<1>1. CASE ReadJob(w)
  <2>1. worker' = [worker EXCEPT ![w] = IdleWorker]
          \/ worker' = [worker EXCEPT ![w] = [pc |-> "mark", job |-> r, fee |-> fee[r]]]
    BY <1>1 DEF ReadJob, ReadJobUnless, Return
  <2> QED
    BY <1>1, <2>1 DEF ReadJob, ReadJobUnless, Return, WorkerTypeOK, JobTypeOK, Status, Terminal
<1>2. CASE MarkRunning(w)
  BY <1>2 DEF MarkRunning, SetStatus, JobTypeOK
<1>3. CASE Compute(w)
  BY <1>3 DEF Compute
<1>4. CASE StoreResult(w)
  BY <1>4 DEF StoreResult
<1>5. CASE MarkDone(w)
  BY <1>5 DEF MarkDone, SetStatus, JobTypeOK
<1>6. CASE MarkFailed(w)
  BY <1>6 DEF MarkFailed, SetStatus, JobTypeOK
<1>7. CASE RefundFee(w)
  BY <1>7 DEF RefundFee, Refund, CanRefund, MoneyTypeOK, QueueTypeOK
<1>8. CASE Acknowledge(w)
  BY <1>8 DEF Acknowledge
<1> QED
  BY <1>1, <1>2, <1>3, <1>4, <1>5, <1>6, <1>7, <1>8 DEF WorkerStep

(* A worker that dies is idle, and its message is back in the queue.       *)
LEMMA CrashTable ==
  ASSUME TypeOK, NEW w \in Workers, Crash(w), NEW r \in Requests, r = worker[w].job
  PROVE  /\ worker[w].pc # "idle" /\ worker'[w] = IdleWorker
         /\ \A v \in Workers \ {w} : worker'[v] = worker[v]
         /\ visible'[r] = visible[r] + 1
         /\ \A q \in Requests \ {r} : visible'[q] = visible[q]
         /\ crashes' = crashes + 1
         /\ UNCHANGED <<handler, deduct, stored, results, status, fee, expiring, receives, dead,
                        erasing, doomed, client, charged, refunded, accounts>>
BY WorkerFacts
   DEF Crash, At, recordVars, queueVars, handlerVars, moneyVars, eraseVars, tokenVars, TypeOK, QueueTypeOK

(* A worker that receives a message starts to read its job.                *)
LEMMA ReceiveTable ==
  ASSUME TypeOK, NEW w \in Workers, NEW r \in Requests, Receive(w, r)
  PROVE  /\ ~Busy(w) /\ worker'[w].pc = "read" /\ worker'[w].job = r /\ worker'[w].fee = 0
         /\ \A v \in Workers \ {w} : worker'[v] = worker[v]
         /\ visible[r] > 0 /\ visible'[r] = visible[r] - 1
         /\ \A q \in Requests \ {r} : visible'[q] = visible[q] /\ receives'[q] = receives[q]
         /\ receives[r] < MaxReceive /\ receives'[r] = receives[r] + 1
         /\ UNCHANGED <<handler, deduct, stored, results, status, fee, expiring, dead, crashes,
                        erasing, doomed, client, charged, refunded, accounts>>
BY DEF Receive, Busy, At, recordVars, handlerVars, moneyVars, eraseVars, tokenVars, TypeOK, QueueTypeOK,
       WorkerTypeOK

(* At most one copy of a message, as long as none is duplicated.           *)
LEMMA CopyStep ==
  ASSUME "duplicate" \notin Faults, TypeOK, CopyInv, [Next]_vars
  PROVE  CopyInv'
<1> USE DEF recordVars, queueVars, workerVars, handlerVars, GoTo, HandlerAt
<1>0. ASSUME UNCHANGED <<worker, visible>>, \A q \in Requests : Unsent(q)' => Unsent(q)
      PROVE  CopyInv'
  <2>1. \A w \in Workers : Busy(w) => worker[w].job \in Requests
    BY WorkerFacts
  <2> QED
    BY <1>0, <2>1 DEF CopyInv, Busy, At
<1>1. ASSUME NEW r \in Requests, NEW i \in Instances, Check(r, i) PROVE CopyInv'
  <2>1. \A q \in Requests : Unsent(q)' => Unsent(q)
    BY <1>1 DEF Check, Unsent, TypeOK, HandlerTypeOK
  <2> QED
    BY <1>0, <1>1, <2>1 DEF Check
<1>2. ASSUME NEW r \in Requests, HandlerStep(r) PROVE CopyInv'
  <2>1. CASE SendMessage(r)
    BY <2>1 DEF SendMessage, CopyInv, Busy, At, Unsent, TypeOK, HandlerTypeOK, QueueTypeOK
  <2>2. CASE ~SendMessage(r)
    <3>1. \A q \in Requests : Unsent(q)' => Unsent(q)
      BY <1>2, <2>2 DEF HandlerStep, RunInline, StoreRequest, PutRecord, Charge, Accept, Unsent,
                        TypeOK, HandlerTypeOK
    <3> QED
      BY <1>0, <1>2, <2>2, <3>1 DEF HandlerStep, RunInline, StoreRequest, PutRecord, Charge
  <2> QED
    BY <2>1, <2>2
<1>3. ASSUME NEW r \in Requests, Abort(r) PROVE CopyInv'
  <2>1. \A q \in Requests : Unsent(q)' => Unsent(q)
    BY <1>3 DEF Abort, Unsent, TypeOK, HandlerTypeOK
  <2> QED
    BY <1>0, <1>3, <2>1 DEF Abort
<1>4. ASSUME NEW r \in Requests, NEW w \in Workers, Receive(w, r) PROVE CopyInv'
  <2>1. visible[r] = 1 /\ visible'[r] = 0 /\ ~Unsent(r)
    BY <1>4, ReceiveTable DEF CopyInv
  <2>2. \A v \in Workers : Busy(v) => worker[v].job # r
    BY <2>1 DEF CopyInv
  <2>3. \A v \in Workers \ {w} : Busy(v)' <=> Busy(v)
    BY <1>4, ReceiveTable DEF Busy, At
  <2>4. \A q \in Requests : Unsent(q)' <=> Unsent(q)
    BY <1>4, ReceiveTable DEF Unsent
  <2> QED
    BY <1>4, ReceiveTable, <2>1, <2>2, <2>3, <2>4, WorkerFacts, JobsAssumption DEF CopyInv
<1>5. ASSUME NEW r \in Requests, DeadLetter(r) PROVE CopyInv'
  BY <1>5 DEF DeadLetter, CopyInv, Busy, At, Unsent, TypeOK, QueueTypeOK, WorkerTypeOK
<1>6. ASSUME NEW r \in Requests, Duplicate(r) PROVE CopyInv'
  BY <1>6 DEF Duplicate
<1>7. ASSUME NEW r \in Requests, EraseRecord(r) \/ Poll(r) \/ GiveUp(r) PROVE CopyInv'
  BY <1>0, <1>7 DEF EraseRecord, Poll, GiveUp, Unsent
<1>8. ASSUME NEW w \in Workers, WorkerStep(w) PROVE CopyInv'
  <2>0. PICK r \in Requests : r = worker[w].job /\ Busy(w)
    BY <1>8, WorkerStepFacts
  <2>1. /\ \A v \in Workers \ {w} : Busy(v) => worker[v].job # r
        /\ visible[r] = 0
        /\ ~Unsent(r)
    BY <2>0 DEF CopyInv
  <2>2. /\ visible'[r] \in {0, 1}
        /\ \/ worker'[w].pc # "idle" /\ worker'[w].job = r /\ visible'[r] = 0
           \/ worker'[w].pc = "idle" /\ worker'[w].job = NoJob
    BY <1>8, <2>0, <2>1, WorkerTable DEF Goes
  <2>3. \A v \in Workers \ {w} : (Busy(v)' <=> Busy(v)) /\ worker'[v] = worker[v]
    BY <1>8, <2>0, WorkerStepLocal DEF Busy, At
  <2>4. \A q \in Requests : Unsent(q)' <=> Unsent(q)
    BY <1>8, <2>0, WorkerStepLocal DEF Unsent
  <2>5. \A q \in Requests \ {r} : visible'[q] = visible[q]
    BY <1>8, <2>0, WorkerStepLocal
  <2>6. Busy(w)' <=> worker'[w].pc # "idle"
    BY DEF Busy, At
  <2> QED
    BY <2>0, <2>1, <2>2, <2>3, <2>4, <2>5, <2>6, WorkerFacts, JobsAssumption DEF CopyInv
<1>9. ASSUME NEW w \in Workers, Crash(w) PROVE CopyInv'
  <2>0. PICK r \in Requests : r = worker[w].job /\ Busy(w)
    BY <1>9, WorkerStepFacts
  <2>1. /\ \A v \in Workers \ {w} : Busy(v) => worker[v].job # r
        /\ visible[r] = 0 /\ ~Unsent(r)
    BY <2>0 DEF CopyInv
  <2>2. /\ ~Busy(w)' /\ worker'[w].job = NoJob
        /\ \A v \in Workers \ {w} : (Busy(v)' <=> Busy(v)) /\ worker'[v] = worker[v]
        /\ visible'[r] = 1
        /\ \A q \in Requests \ {r} : visible'[q] = visible[q]
        /\ \A q \in Requests : Unsent(q)' <=> Unsent(q)
    BY <1>9, <2>0, <2>1, CrashTable DEF Busy, At, Unsent, IdleWorker
  <2> QED
    BY <2>0, <2>1, <2>2, WorkerFacts, JobsAssumption DEF CopyInv
<1>10. ASSUME NEW u \in Users, ListItems(u) \/ EraseProfile(u) PROVE CopyInv'
  BY <1>0, <1>10 DEF ListItems, EraseProfile, Unsent
<1>11. ASSUME NEW i \in Instances, NEW u \in Users, Forget(i, u) PROVE CopyInv'
  BY <1>0, <1>11 DEF Forget, Unsent
<1>12. CASE UNCHANGED vars
  BY <1>0, <1>12 DEF vars, Unsent
<1> QED
  BY <1>1, <1>2, <1>3, <1>4, <1>5, <1>6, <1>7, <1>8, <1>9, <1>10, <1>11, <1>12
     DEF Next, Deliver

(* A worker of a request is one that is busy with it.                      *)
LEMMA RunningFacts ==
  ASSUME TypeOK, NEW r \in Requests, NEW w \in Workers
  PROVE  w \in Running(r) <=> Busy(w) /\ worker[w].job = r
BY WorkerFacts, JobsAssumption DEF Running

(* Deletions only begin: a record that is gone stays gone until somebody   *)
(* writes it.                                                              *)
LEMMA ErasingGrows ==
  ASSUME [Next]_vars
  PROVE  erasing \subseteq erasing'
BY DEF Next, vars, eraseVars, HandlerStep, WorkerStep, Deliver, Check, RunInline,
   StoreRequest, PutRecord, SendMessage, Charge, Abort, Receive, DeadLetter, Duplicate,
   EraseRecord, Poll, GiveUp, ReadJob, ReadJobUnless, MarkRunning, Compute, StoreResult, MarkDone,
   MarkFailed, RefundFee, Acknowledge, Crash, ListItems, EraseProfile, Forget

(* The status follows the handler, then the one worker.                    *)
LEMMA StageStep ==
  ASSUME TypeOK, RecordInv, CopyInv, StageInv, [Next]_vars
  PROVE  StageInv'
<1> USE DEF recordVars, queueVars, workerVars, handlerVars, GoTo, HandlerAt
<1>0. ASSUME UNCHANGED <<handler, status, worker>> PROVE StageInv'
  BY <1>0, ErasingGrows DEF StageInv, At, Gone
<1>1. ASSUME NEW r \in Requests, NEW i \in Instances, Check(r, i) PROVE StageInv'
  BY <1>1 DEF Check, StageInv, At, TypeOK, HandlerTypeOK, Gone, eraseVars
<1>2. ASSUME NEW r \in Requests, HandlerStep(r) PROVE StageInv'
  <2> USE DEF eraseVars, Gone
  <2>1. CASE PutRecord(r)
    <3>1. \A w \in Workers : Busy(w) => worker[w].job # r
      BY <2>1 DEF PutRecord, CopyInv, Unsent
    <3>2. \A w \in Workers : ~Busy(w) => worker[w].pc = "idle"
      BY DEF Busy, At
    <3> QED
      BY <2>1, <3>1, <3>2, WorkerFacts
         DEF PutRecord, StageInv, At, TypeOK, HandlerTypeOK, JobTypeOK
  <2>2. CASE RunInline(r)
    BY <2>2 DEF RunInline, StageInv, At, TypeOK, HandlerTypeOK
  <2>3. CASE StoreRequest(r)
    BY <2>3 DEF StoreRequest, StageInv, At, TypeOK, HandlerTypeOK
  <2>4. CASE SendMessage(r)
    BY <2>4 DEF SendMessage, StageInv, At, TypeOK, HandlerTypeOK
  <2>5. CASE Charge(r)
    BY <2>5 DEF Charge, Accept, StageInv, At, TypeOK, HandlerTypeOK
  <2> QED
    BY <1>2, <2>1, <2>2, <2>3, <2>4, <2>5 DEF HandlerStep
<1>3. ASSUME NEW r \in Requests, Abort(r) PROVE StageInv'
  BY <1>3 DEF Abort, StageInv, At, TypeOK, HandlerTypeOK, Gone, eraseVars
<1>4. ASSUME NEW r \in Requests, NEW w \in Workers, Receive(w, r) PROVE StageInv'
  BY <1>4, ReceiveTable DEF StageInv, At, Gone
<1>5. ASSUME NEW r \in Requests, DeadLetter(r) \/ Duplicate(r) \/ Poll(r) \/ GiveUp(r)
      PROVE StageInv'
  BY <1>0, <1>5 DEF DeadLetter, Duplicate, Poll, GiveUp
<1>6. ASSUME NEW r \in Requests, EraseRecord(r) PROVE StageInv'
  <2>1. UNCHANGED <<handler, worker, erasing>> /\ Owner[r] \in erasing
    BY <1>6 DEF EraseRecord, RecordInv
  <2>2. status' = [status EXCEPT ![r] = "none"] /\ status \in [Requests -> Status \cup {"none"}]
    BY <1>6 DEF EraseRecord, TypeOK, JobTypeOK
  <2> QED
    BY <2>1, <2>2, WorkerFacts DEF StageInv, At, Gone, Busy
<1>7. ASSUME NEW w \in Workers, WorkerStep(w) PROVE StageInv'
  <2>0. PICK r \in Requests : r = worker[w].job /\ Busy(w)
    BY <1>7, WorkerStepFacts
  <2>1. \A v \in Workers \ {w} : Busy(v) => worker[v].job # r
    BY <2>0 DEF CopyInv
  <2>2. handler[r] \notin {"idle", "checked", "stored", "recorded", "served", "rejected"}
    BY <2>0 DEF CopyInv, Unsent
  <2>3. /\ worker'[w].pc # "idle" => worker'[w].job = r
        /\ worker'[w].pc = "mark" => status'[r] \in {"queued", "running"} \/ Gone(r)'
        /\ worker'[w].pc \in {"compute", "store", "finish", "fail"} => status'[r] = "running" \/ Gone(r)'
        /\ worker'[w].pc = "refund" => status'[r] = "failed" \/ Gone(r)'
    BY <1>7, <2>0, WorkerTable, ErasingGrows DEF Goes, StageInv, At, Gone
  <2>4. \A v \in Workers \ {w} : Busy(v) =>
          worker[v].job \in Requests \ {r} /\ status'[worker[v].job] = status[worker[v].job]
    BY <1>7, <2>0, <2>1, WorkerStepLocal, WorkerFacts
  <2>5. UNCHANGED <<handler, erasing>> /\ \A v \in Workers \ {w} : worker'[v] = worker[v]
    BY <1>7, <2>0, WorkerStepLocal
  <2>6. \A q \in Requests \ {r} : status'[q] = status[q]
    BY <1>7, <2>0, WorkerStepLocal
  <2> QED
    BY <2>2, <2>3, <2>4, <2>5, <2>6 DEF StageInv, At, Gone, Busy
<1>8. ASSUME NEW w \in Workers, Crash(w) PROVE StageInv'
  <2>0. PICK r \in Requests : r = worker[w].job
    BY <1>8, WorkerStepFacts
  <2> QED
    BY <1>8, <2>0, CrashTable DEF StageInv, At, IdleWorker, Gone
<1>9. ASSUME NEW u \in Users, ListItems(u) \/ EraseProfile(u) PROVE StageInv'
  BY <1>0, <1>9 DEF ListItems, EraseProfile
<1>10. ASSUME NEW i \in Instances, NEW u \in Users, Forget(i, u) PROVE StageInv'
  BY <1>0, <1>10 DEF Forget
<1>11. CASE UNCHANGED vars
  BY <1>0, <1>11 DEF vars
<1> QED
  BY <1>1, <1>2, <1>3, <1>4, <1>5, <1>6, <1>7, <1>8, <1>9, <1>10, <1>11 DEF Next, Deliver

(* What is refunded stays below the price and belongs to a failed job.     *)
LEMMA RefundStep ==
  ASSUME TypeOK, RecordInv, CopyInv, StageInv, RefundInv, [Next]_vars
  PROVE  RefundInv'
<1> USE DEF recordVars, queueVars, workerVars, handlerVars, moneyVars
<1>0. ASSUME UNCHANGED <<status, fee, refunded, worker>>, \A q \in Requests : Unsent(q)' => Unsent(q)
      PROVE  RefundInv'
  <2>1. \A w \in Workers : Busy(w) => worker[w].job \in Requests
    BY WorkerFacts
  <2> QED
    BY <1>0, <2>1, ErasingGrows DEF RefundInv, Busy, At, Cost, Gone
<1>1. ASSUME NEW r \in Requests, NEW i \in Instances, Check(r, i) PROVE RefundInv'
  <2>1. \A q \in Requests : Unsent(q)' => Unsent(q)
    BY <1>1 DEF Check, GoTo, HandlerAt, Unsent, TypeOK, HandlerTypeOK
  <2> QED
    BY <1>0, <1>1, <2>1 DEF Check
<1>2. ASSUME NEW r \in Requests, HandlerStep(r) PROVE RefundInv'
  <2>0. \A q \in Requests : Unsent(q)' => Unsent(q)
    BY <1>2 DEF HandlerStep, RunInline, StoreRequest, PutRecord, SendMessage, Charge, Accept, GoTo, HandlerAt,
                Unsent, TypeOK, HandlerTypeOK
  <2>1. CASE PutRecord(r)
    <3>1. Unsent(r)
      BY <2>1 DEF PutRecord, HandlerAt, Unsent
    <3>2. refunded[r] = 0 /\ \A w \in Workers : Busy(w) => worker[w].job # r
      BY <3>1 DEF RefundInv, CopyInv, TypeOK, MoneyTypeOK
    <3>3. \A q \in Requests \ {r} : status'[q] = status[q] /\ fee'[q] = fee[q]
      BY <2>1 DEF PutRecord, TypeOK, JobTypeOK
    <3>4. fee'[r] <= Cost(r) /\ UNCHANGED <<worker, refunded, erasing>>
      BY <2>1, CostType DEF PutRecord, TypeOK, JobTypeOK, eraseVars
    <3> QED
      BY <2>0, <3>2, <3>3, <3>4, WorkerFacts DEF RefundInv, Busy, At, Cost, Gone
  <2>2. CASE ~PutRecord(r)
    BY <1>0, <1>2, <2>0, <2>2 DEF HandlerStep, RunInline, StoreRequest, SendMessage, Charge
  <2> QED
    BY <2>1, <2>2
<1>3. ASSUME NEW r \in Requests, Abort(r) PROVE RefundInv'
  <2>1. \A q \in Requests : Unsent(q)' => Unsent(q)
    BY <1>3 DEF Abort, GoTo, HandlerAt, Unsent, TypeOK, HandlerTypeOK
  <2> QED
    BY <1>0, <1>3, <2>1 DEF Abort
<1>4. ASSUME NEW r \in Requests, NEW w \in Workers, Receive(w, r) PROVE RefundInv'
  <2>1. \A v \in Workers \ {w} : Busy(v)' <=> Busy(v)
    BY <1>4, ReceiveTable DEF Busy, At
  <2>2. \A q \in Requests : (Unsent(q)' <=> Unsent(q)) /\ (Gone(q)' <=> Gone(q))
    BY <1>4, ReceiveTable DEF Unsent, Gone
  <2> QED
    BY <1>4, ReceiveTable, <2>1, <2>2, CostType DEF RefundInv, At, Cost
<1>5. ASSUME NEW r \in Requests, DeadLetter(r) \/ Duplicate(r) \/ Poll(r) \/ GiveUp(r)
      PROVE RefundInv'
  BY <1>0, <1>5 DEF DeadLetter, Duplicate, Poll, GiveUp, Unsent
<1>6. ASSUME NEW r \in Requests, EraseRecord(r) PROVE RefundInv'
  <2>1. UNCHANGED <<handler, worker, erasing, refunded>> /\ Owner[r] \in erasing
    BY <1>6 DEF EraseRecord, RecordInv
  <2>2. /\ status'[r] = "none" /\ fee'[r] = 0
        /\ \A q \in Requests \ {r} : status'[q] = status[q] /\ fee'[q] = fee[q]
    BY <1>6 DEF EraseRecord, TypeOK, JobTypeOK
  <2> QED
    BY <2>1, <2>2, CostType DEF RefundInv, Busy, At, Unsent, Cost, Gone
<1>7. ASSUME NEW w \in Workers, WorkerStep(w) PROVE RefundInv'
  <2>0. PICK r \in Requests : r = worker[w].job /\ Busy(w)
    BY <1>7, WorkerStepFacts
  <2>1. \A v \in Workers \ {w} : Busy(v) => worker[v].job # r /\ worker[v].job \in Requests
    BY <2>0, WorkerFacts DEF CopyInv
  <2>2. ~Unsent(r)
    BY <2>0 DEF CopyInv
  <2>3. /\ refunded[r] \in Nat /\ Cost(r) \in Nat /\ worker[w].fee \in Nat /\ fee[r] \in Nat
        /\ fee[r] <= Cost(r) /\ worker[w].fee <= Cost(r) /\ refunded[r] <= Cost(r)
        /\ refunded[r] > 0 => worker[w].pc \in {"read", "end"} /\ (status[r] = "failed" \/ Gone(r))
        /\ worker[w].pc = "refund" => worker[w].fee > 0
    BY <2>0, CostType DEF RefundInv, TypeOK, JobTypeOK, MoneyTypeOK, WorkerTypeOK, At
  <2>4. worker[w].pc = "refund" => status[r] = "failed" \/ Gone(r)
    BY <2>0 DEF StageInv, At
  <2>5. /\ refunded'[r] <= Cost(r)
        /\ refunded'[r] > 0 => status'[r] = "failed" \/ Gone(r)'
        /\ worker'[w].pc # "idle" => worker'[w].job = r /\ worker'[w].fee <= Cost(r)
        /\ worker'[w].pc # "idle" /\ refunded'[r] > 0 => worker'[w].pc \in {"read", "end"}
        /\ worker'[w].pc = "refund" => worker'[w].fee > 0
    BY <1>7, <2>0, <2>3, <2>4, WorkerTable, ErasingGrows DEF Goes, Gone, Terminal
  <2>6. /\ UNCHANGED <<handler, fee, erasing>>
        /\ \A v \in Workers \ {w} : worker'[v] = worker[v]
        /\ \A q \in Requests \ {r} : status'[q] = status[q] /\ refunded'[q] = refunded[q]
    BY <1>7, <2>0, WorkerStepLocal
  <2>7. \A q \in Requests :
          /\ fee'[q] <= Cost(q)'
          /\ refunded'[q] <= Cost(q)'
          /\ refunded'[q] > 0 => ~Unsent(q)' /\ (status'[q] = "failed" \/ Gone(q)')
    BY <2>2, <2>5, <2>6 DEF RefundInv, Unsent, Gone, Cost
  <2>8. \A v \in Workers \ {w} :
          /\ worker'[v].pc # "idle" => worker'[v].fee <= Cost(worker'[v].job)
          /\ worker'[v].pc # "idle" /\ refunded'[worker'[v].job] > 0 => worker'[v].pc \in {"read", "end"}
          /\ worker'[v].pc = "refund" => worker'[v].fee > 0
    BY <2>1, <2>6 DEF RefundInv, Busy, At
  <2>9. /\ worker'[w].pc # "idle" => worker'[w].fee <= Cost(worker'[w].job)
        /\ worker'[w].pc # "idle" /\ refunded'[worker'[w].job] > 0 => worker'[w].pc \in {"read", "end"}
    BY <2>5
  <2> QED
    BY <2>5, <2>7, <2>8, <2>9 DEF RefundInv, Busy, At, Cost
<1>8. ASSUME NEW w \in Workers, Crash(w) PROVE RefundInv'
  <2>0. PICK r \in Requests : r = worker[w].job
    BY <1>8, WorkerStepFacts
  <2> QED
    BY <1>8, <2>0, CrashTable DEF RefundInv, Busy, At, Cost, IdleWorker, Gone, Unsent
<1>9. ASSUME NEW u \in Users, ListItems(u) \/ EraseProfile(u) PROVE RefundInv'
  BY <1>0, <1>9 DEF ListItems, EraseProfile, Unsent
<1>10. ASSUME NEW i \in Instances, NEW u \in Users, Forget(i, u) PROVE RefundInv'
  BY <1>0, <1>10 DEF Forget, Unsent
<1>11. CASE UNCHANGED vars
  BY <1>0, <1>11 DEF vars, Unsent
<1> QED
  BY <1>1, <1>2, <1>3, <1>4, <1>5, <1>6, <1>7, <1>8, <1>9, <1>10, <1>11 DEF Next, Deliver

(* A record is there from its submission until its user is being deleted,  *)
(* and what a worker writes back has neither TTL nor fee.                  *)
LEMMA RecordStep ==
  ASSUME TypeOK, RecordInv, [Next]_vars
  PROVE  RecordInv'
<1> USE DEF recordVars, queueVars, workerVars, handlerVars, moneyVars, eraseVars, GoTo, HandlerAt
<1>0. ASSUME UNCHANGED <<handler, deduct, status, fee, expiring, visible, receives, worker, erasing,
                         doomed, refunded>>
      PROVE  RecordInv'
  BY <1>0 DEF RecordInv, Busy, At, Cost, Gone
<1>1. ASSUME NEW r \in Requests, NEW i \in Instances, Check(r, i) PROVE RecordInv'
  <2>1. /\ handler[r] = "idle" /\ handler'[r] \in {"checked", "rejected"}
        /\ \A q \in Requests \ {r} : handler'[q] = handler[q] /\ (q \in deduct' <=> q \in deduct)
        /\ r \in deduct => r \in deduct'
    BY <1>1 DEF Check, TypeOK, HandlerTypeOK
  <2>2. r \notin expiring
    BY <2>1 DEF RecordInv
  <2>3. UNCHANGED <<status, fee, expiring, visible, receives, worker, erasing, doomed, refunded>>
    BY <1>1 DEF Check
  <2>4. \A q \in Requests : q \in deduct => q \in deduct'
    BY <2>1
  <2>5. \A w \in Workers : Busy(w) => worker[w].job \in Requests
    BY WorkerFacts
  <2>6. ASSUME NEW q \in Requests
        PROVE /\ q \in doomed' => Owner[q] \in erasing'
              /\ handler'[q] \in {"recorded", "sent"} \/ visible'[q] > 0 \/ receives'[q] > 0
                  => status'[q] # "none" \/ Gone(q)'
              /\ q \in expiring' => status'[q] # "none" /\ handler'[q] \notin {"idle", "checked", "stored"}
              /\ status'[q] # "none" /\ q \notin expiring' => Owner[q] \in erasing'
              /\ fee'[q] = IF q \in expiring' /\ q \in deduct' THEN Cost(q) ELSE 0
              /\ refunded'[q] > 0 => q \in deduct'
    <3>1. CASE q = r
      BY <2>1, <2>2, <2>3, <2>4, <3>1 DEF RecordInv, Gone
    <3>2. CASE q # r
      <4>1. handler'[q] = handler[q] /\ (q \in deduct' <=> q \in deduct)
        BY <2>1, <3>2
      <4>2. Gone(q)' <=> Gone(q)
        BY <2>3 DEF Gone
      <4> QED
        BY <2>3, <4>1, <4>2 DEF RecordInv
    <3> QED
      BY <3>1, <3>2
  <2> QED
    BY <2>3, <2>4, <2>5, <2>6 DEF RecordInv, Busy, At, Cost, Gone
<1>2. ASSUME NEW r \in Requests, HandlerStep(r) PROVE RecordInv'
  <2>1. CASE PutRecord(r)
    <3>1. /\ \A q \in Requests \ {r} : handler'[q] = handler[q] /\ status'[q] = status[q] /\ fee'[q] = fee[q]
          /\ handler'[r] = "recorded" /\ status'[r] = "queued"
          /\ fee'[r] = IF r \in deduct THEN Cost(r) ELSE 0
          /\ expiring' = expiring \cup {r}
          /\ UNCHANGED <<deduct, visible, receives, worker, erasing, doomed, refunded>>
      BY <2>1 DEF PutRecord, TypeOK, HandlerTypeOK, JobTypeOK
    <3> QED
      BY <3>1 DEF RecordInv, Busy, At, Cost, Gone
  <2>2. CASE SendMessage(r)
    <3>1. /\ \A q \in Requests \ {r} : handler'[q] = handler[q] /\ visible'[q] = visible[q]
          /\ handler[r] = "recorded" /\ handler'[r] = "sent" /\ visible'[r] = 1
          /\ UNCHANGED <<status, fee, expiring, receives, deduct, worker, erasing, doomed, refunded>>
      BY <2>2 DEF SendMessage, TypeOK, HandlerTypeOK, QueueTypeOK
    <3> QED
      BY <3>1 DEF RecordInv, Busy, At, Cost, Gone
  <2>3. CASE RunInline(r) \/ StoreRequest(r) \/ Charge(r)
    <3>1. /\ \A q \in Requests \ {r} : handler'[q] = handler[q]
          /\ handler'[r] \in {"served", "rejected", "stored", "accepted", "refused"}
          /\ handler'[r] = "stored" => handler[r] = "checked"
          /\ UNCHANGED <<status, fee, expiring, visible, receives, deduct, worker, erasing, doomed, refunded>>
      BY <2>3 DEF RunInline, StoreRequest, Charge, Accept, TypeOK, HandlerTypeOK
    <3> QED
      BY <3>1 DEF RecordInv, Busy, At, Cost, Gone
  <2> QED
    BY <1>2, <2>1, <2>2, <2>3 DEF HandlerStep
<1>3. ASSUME NEW r \in Requests, Abort(r) PROVE RecordInv'
  <2>1. /\ \A q \in Requests \ {r} : handler'[q] = handler[q]
        /\ handler'[r] = "error"
        /\ UNCHANGED <<status, fee, expiring, visible, receives, deduct, worker, erasing, doomed, refunded>>
    BY <1>3 DEF Abort, TypeOK, HandlerTypeOK
  <2> QED
    BY <2>1 DEF RecordInv, Busy, At, Cost, Gone
<1>4. ASSUME NEW r \in Requests, NEW w \in Workers, Receive(w, r) PROVE RecordInv'
  <2>1. \A v \in Workers \ {w} : Busy(v)' <=> Busy(v)
    BY <1>4, ReceiveTable DEF Busy, At
  <2>2. \A v \in Workers : Busy(v) => worker[v].job \in Requests
    BY WorkerFacts
  <2>3. \A q \in Requests : receives[q] > 0 => receives'[q] > 0
    BY <1>4, ReceiveTable DEF TypeOK, QueueTypeOK
  <2>4. receives'[r] > 0
    BY <1>4, ReceiveTable DEF TypeOK, QueueTypeOK
  <2>5. \A v \in Workers : Busy(v)' =>
          /\ receives'[worker'[v].job] > 0
          /\ worker'[v].fee > 0 => worker'[v].job \in deduct'
    BY <1>4, ReceiveTable, <2>1, <2>2, <2>3, <2>4 DEF RecordInv
  <2> QED
    BY <1>4, ReceiveTable, <2>5 DEF RecordInv, Cost, Gone
<1>5. ASSUME NEW r \in Requests, DeadLetter(r) PROVE RecordInv'
  <2>1. /\ \A q \in Requests : visible'[q] > 0 => visible[q] > 0
        /\ UNCHANGED <<handler, status, fee, expiring, receives, deduct, worker, erasing, doomed, refunded>>
    BY <1>5 DEF DeadLetter, TypeOK, QueueTypeOK
  <2> QED
    BY <2>1 DEF RecordInv, Busy, At, Cost, Gone
<1>6. ASSUME NEW r \in Requests, Duplicate(r) PROVE RecordInv'
  <2>1. /\ receives[r] > 0 /\ \A q \in Requests \ {r} : visible'[q] = visible[q]
        /\ UNCHANGED <<handler, status, fee, expiring, receives, deduct, worker, erasing, doomed, refunded>>
    BY <1>6 DEF Duplicate, TypeOK, QueueTypeOK
  <2> QED
    BY <2>1 DEF RecordInv, Busy, At, Cost, Gone
<1>7. ASSUME NEW r \in Requests, EraseRecord(r) PROVE RecordInv'
  <2>1. /\ Owner[r] \in erasing /\ doomed' = doomed \ {r}
        /\ status'[r] = "none" /\ fee'[r] = 0 /\ expiring' = expiring \ {r}
        /\ \A q \in Requests \ {r} : status'[q] = status[q] /\ fee'[q] = fee[q]
        /\ UNCHANGED <<handler, deduct, visible, receives, worker, erasing, refunded>>
    BY <1>7 DEF EraseRecord, RecordInv, TypeOK, JobTypeOK
  <2> QED
    BY <2>1 DEF RecordInv, Busy, At, Cost, Gone
<1>8. ASSUME NEW w \in Workers, WorkerStep(w) PROVE RecordInv'
  <2>0. PICK r \in Requests : r = worker[w].job /\ Busy(w)
    BY <1>8, WorkerStepFacts
  <2>1. /\ receives[r] > 0 /\ (worker[w].fee > 0 => r \in deduct)
        /\ (status[r] # "none" \/ Gone(r)) /\ (fee[r] > 0 => r \in deduct)
        /\ refunded[r] \in Nat /\ worker[w].fee \in Nat
    BY <2>0, CostType DEF RecordInv, TypeOK, MoneyTypeOK, WorkerTypeOK
  <2>2. /\ status[r] # "none" => status'[r] # "none"
        /\ refunded'[r] > 0 => refunded[r] > 0 \/ worker[w].fee > 0
        /\ worker'[w].pc # "idle" => worker'[w].job = r
        /\ worker'[w].pc # "idle" => worker'[w].fee = worker[w].fee \/ worker'[w].fee = fee[r]
    BY <1>8, <2>0, <2>1, WorkerTable DEF Goes
  <2>3. /\ UNCHANGED <<handler, deduct, fee, expiring, receives, erasing, doomed>>
        /\ \A v \in Workers \ {w} : worker'[v] = worker[v]
        /\ \A q \in Requests \ {r} : status'[q] = status[q] /\ refunded'[q] = refunded[q] /\ visible'[q] = visible[q]
    BY <1>8, <2>0, WorkerStepLocal
  <2>4. ASSUME NEW q \in Requests
        PROVE  /\ q \in doomed' => Owner[q] \in erasing'
               /\ handler'[q] \in {"recorded", "sent"} \/ visible'[q] > 0 \/ receives'[q] > 0
                    => status'[q] # "none" \/ Gone(q)'
               /\ q \in expiring' => status'[q] # "none" /\ handler'[q] \notin {"idle", "checked", "stored"}
               /\ status'[q] # "none" /\ q \notin expiring' => Owner[q] \in erasing'
               /\ fee'[q] = IF q \in expiring' /\ q \in deduct' THEN Cost(q) ELSE 0
               /\ refunded'[q] > 0 => q \in deduct'
    BY <2>1, <2>2, <2>3 DEF RecordInv, Gone
  <2>5. \A v \in Workers : worker'[v].pc # "idle" =>
          /\ receives'[worker'[v].job] > 0
          /\ worker'[v].fee > 0 => worker'[v].job \in deduct'
    <3>1. worker'[w].pc # "idle" => receives'[worker'[w].job] > 0
                                    /\ (worker'[w].fee > 0 => worker'[w].job \in deduct')
      BY <2>1, <2>2, <2>3
    <3>2. \A v \in Workers \ {w} : worker'[v].pc # "idle" =>
            receives'[worker'[v].job] > 0 /\ (worker'[v].fee > 0 => worker'[v].job \in deduct')
      BY <2>3 DEF RecordInv, Busy, At
    <3> QED
      BY <3>1, <3>2
  <2> QED
    BY <2>4, <2>5 DEF RecordInv, Busy, At, Cost
<1>9. ASSUME NEW w \in Workers, Crash(w) PROVE RecordInv'
  <2>0. PICK r \in Requests : r = worker[w].job /\ Busy(w)
    BY <1>9, WorkerStepFacts
  <2>1. receives[r] > 0
    BY <2>0 DEF RecordInv
  <2> QED
    BY <1>9, <2>0, <2>1, CrashTable DEF RecordInv, Busy, At, Cost, Gone, IdleWorker
<1>10. ASSUME NEW r \in Requests, Poll(r) \/ GiveUp(r) PROVE RecordInv'
  BY <1>0, <1>10 DEF Poll, GiveUp
<1>11. ASSUME NEW u \in Users, ListItems(u) PROVE RecordInv'
  <2>1. /\ erasing' = erasing \cup {u}
        /\ \A q \in Requests : q \in doomed' => q \in doomed \/ Owner[q] = u
        /\ UNCHANGED <<handler, status, fee, expiring, visible, receives, deduct, worker, refunded>>
    BY <1>11 DEF ListItems
  <2> QED
    BY <2>1 DEF RecordInv, Busy, At, Cost, Gone
<1>12. ASSUME NEW u \in Users, EraseProfile(u) PROVE RecordInv'
  BY <1>0, <1>12 DEF EraseProfile
<1>13. ASSUME NEW i \in Instances, NEW u \in Users, Forget(i, u) PROVE RecordInv'
  BY <1>0, <1>13 DEF Forget
<1>14. CASE UNCHANGED vars
  BY <1>0, <1>14 DEF vars
<1> QED
  BY <1>1, <1>2, <1>3, <1>4, <1>5, <1>6, <1>7, <1>8, <1>9, <1>10, <1>11, <1>12, <1>13, <1>14
     DEF Next, Deliver

(* What the steps of the queue and the workers leave to the handler.       *)
LEMMA QueueLeaves ==
  ASSUME TypeOK, NEW r \in Requests, Deliver(r) \/ DeadLetter(r) \/ Duplicate(r)
  PROVE  UNCHANGED <<handler, deduct, client, status, fee, expiring, charged, refunded, erasing, crashes,
                     accounts>>
BY DEF Deliver, Receive, DeadLetter, Duplicate, recordVars, queueVars, handlerVars, eraseVars, moneyVars,
       workerVars, tokenVars

(* Only an accepted request is charged or polled for.                      *)
LEMMA LedgerStep ==
  ASSUME TypeOK, LedgerInv, PaidInv, [Next]_vars
  PROVE  LedgerInv' /\ PaidInv'
<1> USE DEF recordVars, queueVars, workerVars, handlerVars, moneyVars, GoTo, HandlerAt
<1> DEFINE Kept == LedgerInv' /\ PaidInv'
<1>0. ASSUME UNCHANGED <<handler, deduct, charged, client>> PROVE Kept
  BY <1>0 DEF LedgerInv, PaidInv, Cost
<1>1. ASSUME NEW r \in Requests, NEW i \in Instances, Check(r, i) PROVE Kept
  <2>1. /\ UNCHANGED <<charged, client>>
        /\ \A q \in Requests \ {r} : handler'[q] = handler[q] /\ (q \in deduct <=> q \in deduct')
        /\ handler[r] # "accepted" /\ handler'[r] # "accepted"
        /\ r \in deduct => r \in deduct'
    BY <1>1 DEF Check, TypeOK, HandlerTypeOK
  <2> QED
    BY <2>1 DEF LedgerInv, PaidInv, Cost
<1>2. ASSUME NEW r \in Requests, HandlerStep(r) PROVE Kept
  <2>1. CASE Charge(r)
    <3>1. /\ UNCHANGED deduct
          /\ \A q \in Requests \ {r} :
               handler'[q] = handler[q] /\ client'[q] = client[q] /\ charged'[q] = charged[q]
          /\ handler[r] # "accepted"
          /\ handler'[r] # "accepted" => charged'[r] = charged[r] /\ client'[r] = client[r]
          /\ charged'[r] # charged[r] => r \in deduct
          /\ handler'[r] = "accepted" /\ r \in deduct => "late" \in Faults \/ charged'[r] = Cost(r)
      BY <2>1 DEF Charge, Accept, TypeOK, HandlerTypeOK, MoneyTypeOK
    <3> QED
      BY <3>1 DEF LedgerInv, PaidInv, Cost
  <2>2. CASE ~Charge(r)
    <3>1. /\ UNCHANGED <<charged, client, deduct>>
          /\ \A q \in Requests \ {r} : handler'[q] = handler[q]
          /\ handler[r] # "accepted" /\ handler'[r] # "accepted"
      BY <1>2, <2>2 DEF HandlerStep, RunInline, StoreRequest, PutRecord, SendMessage, TypeOK, HandlerTypeOK
    <3> QED
      BY <3>1 DEF LedgerInv, PaidInv, Cost
  <2> QED
    BY <2>1, <2>2
<1>3. ASSUME NEW r \in Requests, Abort(r) PROVE Kept
  BY <1>3 DEF Abort, LedgerInv, PaidInv, Cost, TypeOK, HandlerTypeOK
<1>4. ASSUME NEW r \in Requests, Deliver(r) \/ DeadLetter(r) \/ Duplicate(r) PROVE Kept
  BY <1>0, <1>4, QueueLeaves
<1>5. ASSUME NEW r \in Requests, Poll(r) \/ GiveUp(r) PROVE Kept
  <2>1. /\ UNCHANGED <<handler, deduct, charged>>
        /\ client[r] = "polling"
        /\ \A q \in Requests : q # r => client'[q] = client[q]
    BY <1>5 DEF Poll, GiveUp, TypeOK, HandlerTypeOK
  <2> QED
    BY <2>1 DEF LedgerInv, PaidInv, Cost
<1>6. ASSUME NEW w \in Workers, WorkerStep(w) \/ Crash(w) PROVE Kept
  <2>1. PICK r \in Requests : r = worker[w].job
    BY <1>6, WorkerStepFacts
  <2> QED
    BY <1>0, <1>6, <2>1, WorkerStepLocal, CrashTable
<1>7. ASSUME NEW r \in Requests, EraseRecord(r) PROVE Kept
  BY <1>0, <1>7 DEF EraseRecord
<1>8. ASSUME NEW u \in Users, ListItems(u) \/ EraseProfile(u) PROVE Kept
  BY <1>0, <1>8 DEF ListItems, EraseProfile
<1>9. ASSUME NEW i \in Instances, NEW u \in Users, Forget(i, u) PROVE Kept
  BY <1>0, <1>9 DEF Forget
<1>10. CASE UNCHANGED vars
  BY <1>0, <1>10 DEF vars
<1> QED
  BY <1>1, <1>2, <1>3, <1>4, <1>5, <1>6, <1>7, <1>8, <1>9, <1>10 DEF Next

(* What is delivered is neither run again nor refunded.                    *)
LEMMA DeliveredStep ==
  ASSUME TypeOK, CopyInv, StageInv, RefundInv, LedgerInv, DeliveredInv, [Next]_vars
  PROVE  DeliveredInv'
<1> USE DEF recordVars, queueVars, workerVars, handlerVars, moneyVars, GoTo, HandlerAt
<1>0. ASSUME UNCHANGED <<client, status, refunded, worker>> PROVE DeliveredInv'
  BY <1>0 DEF DeliveredInv, Running
<1>1. ASSUME NEW r \in Requests, NEW i \in Instances, Check(r, i) PROVE DeliveredInv'
  BY <1>0, <1>1 DEF Check
<1>2. ASSUME NEW r \in Requests, HandlerStep(r) PROVE DeliveredInv'
  <2>1. CASE PutRecord(r)
    <3>1. client[r] # "delivered"
      BY <2>1 DEF PutRecord, LedgerInv
    <3>2. UNCHANGED <<client, refunded, worker>> /\ \A q \in Requests \ {r} : status'[q] = status[q]
      BY <2>1 DEF PutRecord, TypeOK, JobTypeOK
    <3> QED
      BY <3>1, <3>2 DEF DeliveredInv, Running
  <2>2. CASE Charge(r)
    <3>1. /\ UNCHANGED <<status, refunded, worker>>
          /\ \A q \in Requests \ {r} : client'[q] = client[q]
          /\ client'[r] # client[r] =>
               client'[r] = "polling" \/ (client'[r] = "delivered" /\ handler[r] = "served")
      BY <2>2 DEF Charge, Accept, TypeOK, HandlerTypeOK
    <3>2. ASSUME handler[r] = "served"
          PROVE status[r] = "none" /\ refunded[r] = 0 /\ Running(r) = {}
      <4>1. Unsent(r)
        BY <3>2 DEF Unsent
      <4>2. status[r] = "none" /\ refunded[r] = 0
        BY <3>2, <4>1 DEF StageInv, RefundInv, TypeOK, MoneyTypeOK
      <4>3. \A w \in Workers : w \notin Running(r)
        BY <4>1, RunningFacts DEF CopyInv
      <4> QED
        BY <4>2, <4>3 DEF Running
    <3>3. \A q \in Requests : Running(q)' = Running(q)
      BY <3>1 DEF Running
    <3>4. ASSUME NEW q \in Requests, client'[q] = "delivered"
          PROVE /\ status'[q] \in {"none", "done"}
                /\ refunded'[q] = 0
                /\ \A w \in Running(q) : worker'[w].pc \in {"read", "end"}
      BY <3>1, <3>2, <3>4 DEF DeliveredInv
    <3> QED
      BY <3>3, <3>4 DEF DeliveredInv
  <2>3. CASE RunInline(r) \/ StoreRequest(r) \/ SendMessage(r)
    BY <1>0, <2>3 DEF RunInline, StoreRequest, SendMessage
  <2> QED
    BY <1>2, <2>1, <2>2, <2>3 DEF HandlerStep
<1>3. ASSUME NEW r \in Requests, Abort(r) PROVE DeliveredInv'
  BY <1>0, <1>3 DEF Abort
<1>4. ASSUME NEW r \in Requests, NEW w \in Workers, Receive(w, r) PROVE DeliveredInv'
  BY <1>4, ReceiveTable DEF DeliveredInv, Running
<1>5. ASSUME NEW r \in Requests, DeadLetter(r) \/ Duplicate(r) \/ GiveUp(r) PROVE DeliveredInv'
  <2>1. UNCHANGED <<status, refunded, worker>> /\ \A q \in Requests : client'[q] = "delivered" => client[q] = "delivered"
    BY <1>5 DEF DeadLetter, Duplicate, GiveUp, TypeOK, HandlerTypeOK
  <2> QED
    BY <2>1 DEF DeliveredInv, Running
<1>6. ASSUME NEW r \in Requests, Poll(r) PROVE DeliveredInv'
  <2>1. /\ UNCHANGED <<status, refunded, worker>>
        /\ \A q \in Requests \ {r} : client'[q] = client[q]
        /\ client'[r] = "delivered" => status[r] = "done"
    BY <1>6 DEF Poll, TypeOK, HandlerTypeOK
  <2>2. ASSUME status[r] = "done"
        PROVE refunded[r] = 0 /\ \A w \in Running(r) : worker[w].pc \in {"read", "end"}
    <3>1. refunded[r] = 0
      BY <2>2 DEF RefundInv, Gone, TypeOK, MoneyTypeOK
    <3>2. ASSUME NEW w \in Running(r) PROVE worker[w].pc \in {"read", "end"}
      <4>1. w \in Workers /\ Busy(w) /\ worker[w].job = r
        BY <3>2, RunningFacts DEF Running
      <4>2. worker[w].pc \in WorkerPc
        BY <4>1 DEF TypeOK, WorkerTypeOK
      <4> QED
        BY <2>2, <4>1, <4>2 DEF StageInv, Busy, At, Gone, WorkerPc
    <3> QED
      BY <3>1, <3>2
  <2> QED
    BY <2>1, <2>2 DEF DeliveredInv, Running
<1>7. ASSUME NEW r \in Requests, EraseRecord(r) PROVE DeliveredInv'
  <2>1. /\ UNCHANGED <<client, refunded, worker>> /\ status'[r] = "none"
        /\ \A q \in Requests \ {r} : status'[q] = status[q]
    BY <1>7 DEF EraseRecord, TypeOK, JobTypeOK
  <2> QED
    BY <2>1 DEF DeliveredInv, Running
<1>8. ASSUME NEW w \in Workers, WorkerStep(w) PROVE DeliveredInv'
  <2>0. PICK r \in Requests : r = worker[w].job /\ Busy(w)
    BY <1>8, WorkerStepFacts
  <2>1. ASSUME client[r] = "delivered"
        PROVE  status'[r] = status[r] /\ refunded'[r] = refunded[r] /\ worker'[w].job = NoJob
    <3>1. worker[w].pc \in {"read", "end"} /\ status[r] \in {"none", "done"}
      BY <2>0, <2>1, RunningFacts DEF DeliveredInv
    <3> QED
      BY <1>8, <2>0, <3>1, WorkerTable DEF Goes
  <2>2. worker'[w].job \in {r, NoJob}
    BY <1>8, <2>0, WorkerTable DEF Goes
  <2>3. /\ UNCHANGED client
        /\ \A v \in Workers \ {w} : worker'[v] = worker[v]
        /\ \A q \in Requests \ {r} : status'[q] = status[q] /\ refunded'[q] = refunded[q]
    BY <1>8, <2>0, WorkerStepLocal
  <2> QED
    BY <2>1, <2>2, <2>3, JobsAssumption DEF DeliveredInv, Running
<1>9. ASSUME NEW w \in Workers, Crash(w) PROVE DeliveredInv'
  <2>0. PICK r \in Requests : r = worker[w].job
    BY <1>9, WorkerStepFacts
  <2> QED
    BY <1>9, <2>0, CrashTable, JobsAssumption DEF DeliveredInv, Running, IdleWorker
<1>10. ASSUME NEW u \in Users, ListItems(u) \/ EraseProfile(u) PROVE DeliveredInv'
  BY <1>0, <1>10 DEF ListItems, EraseProfile
<1>11. ASSUME NEW i \in Instances, NEW u \in Users, Forget(i, u) PROVE DeliveredInv'
  BY <1>0, <1>11 DEF Forget
<1>12. CASE UNCHANGED vars
  BY <1>0, <1>12 DEF vars
<1> QED
  BY <1>1, <1>2, <1>3, <1>4, <1>5, <1>6, <1>7, <1>8, <1>9, <1>10, <1>11, <1>12 DEF Next, Deliver

(* Every receipt of a message but the last ended in a crash.               *)
LEMMA ReceiveStep ==
  ASSUME "duplicate" \notin Faults, NoErasure, TypeOK, TypeOK', CopyInv, ReceiveInv, [Next]_vars
  PROVE  ReceiveInv'
<1> USE DEF recordVars, queueVars, workerVars, handlerVars, moneyVars, GoTo, HandlerAt
<1>0. ASSUME UNCHANGED <<visible, receives, dead, worker, crashes>>,
             \A q \in Requests : Unsent(q)' => Unsent(q)
      PROVE  ReceiveInv'
  BY <1>0 DEF ReceiveInv, Busy, At
<1>1. ASSUME NEW r \in Requests, NEW i \in Instances, Check(r, i) PROVE ReceiveInv'
  <2>1. \A q \in Requests : Unsent(q)' => Unsent(q)
    BY <1>1 DEF Check, Unsent, TypeOK, HandlerTypeOK
  <2> QED
    BY <1>0, <1>1, <2>1 DEF Check
<1>2. ASSUME NEW r \in Requests, HandlerStep(r) \/ Abort(r) PROVE ReceiveInv'
  <2>0. \A q \in Requests : Unsent(q)' => Unsent(q)
    BY <1>2 DEF HandlerStep, RunInline, StoreRequest, PutRecord, SendMessage, Charge, Accept, Abort, Unsent,
                TypeOK, HandlerTypeOK
  <2>1. CASE SendMessage(r)
    <3>1. receives[r] = 0
      BY <2>1 DEF SendMessage, ReceiveInv, Unsent
    <3>2. /\ \A q \in Requests \ {r} : visible'[q] = visible[q]
          /\ UNCHANGED <<receives, dead, worker, crashes>>
      BY <2>1 DEF SendMessage, TypeOK, QueueTypeOK
    <3>3. crashes \in Nat
      BY DEF TypeOK, WorkerTypeOK
    <3> QED
      BY <2>0, <3>1, <3>2, <3>3 DEF ReceiveInv, Busy, At
  <2>2. CASE ~SendMessage(r)
    BY <1>0, <1>2, <2>0, <2>2 DEF HandlerStep, RunInline, StoreRequest, PutRecord, Charge, Abort
  <2> QED
    BY <2>1, <2>2
<1>3. ASSUME NEW r \in Requests, NEW w \in Workers, Receive(w, r) PROVE ReceiveInv'
  <2>1. \A v \in Workers \ {w} : (Busy(v)' <=> Busy(v)) /\ (Busy(v) => worker[v].job \in Requests)
    BY <1>3, ReceiveTable, WorkerFacts DEF Busy, At
  <2>2. /\ \A q \in Requests : Unsent(q)' <=> Unsent(q)
        /\ ~Unsent(r) /\ visible[r] = 1 /\ visible'[r] = 0
        /\ receives[r] \in Nat /\ crashes \in Nat
    BY <1>3, ReceiveTable DEF CopyInv, Unsent, TypeOK, QueueTypeOK, WorkerTypeOK
  <2>3. receives'[r] = receives[r] + 1 /\ receives[r] <= crashes
    BY <1>3, ReceiveTable, <2>2 DEF ReceiveInv
  <2>4. \A v \in Workers \ {w} : Busy(v) => worker[v].job # r
    BY <2>2 DEF CopyInv
  <2> QED
    BY <1>3, ReceiveTable, <2>1, <2>2, <2>3, <2>4 DEF ReceiveInv
<1>4. ASSUME NEW r \in Requests, DeadLetter(r) PROVE ReceiveInv'
  <2>1. /\ visible[r] > 0 /\ receives[r] >= MaxReceive
        /\ \A q \in Requests : visible'[q] > 0 => visible[q] > 0
        /\ dead' = dead \cup {r}
        /\ UNCHANGED <<handler, receives, worker, crashes>>
    BY <1>4 DEF DeadLetter, TypeOK, QueueTypeOK
  <2>2. MaxReceive <= crashes
    BY <2>1, JobsAssumption DEF ReceiveInv, TypeOK, QueueTypeOK, WorkerTypeOK
  <2> QED
    BY <2>1, <2>2 DEF ReceiveInv, Unsent, Busy, At
<1>5. ASSUME NEW r \in Requests, Duplicate(r) PROVE ReceiveInv'
  BY <1>5 DEF Duplicate
<1>6. ASSUME NEW r \in Requests, EraseRecord(r) \/ Poll(r) \/ GiveUp(r) PROVE ReceiveInv'
  BY <1>0, <1>6 DEF EraseRecord, Poll, GiveUp, Unsent
<1>7. ASSUME NEW w \in Workers, WorkerStep(w) PROVE ReceiveInv'
  <2>0. PICK r \in Requests : r = worker[w].job /\ Busy(w)
    BY <1>7, WorkerStepFacts
  <2>1. Owner[r] \in accounts
    BY JobsAssumption DEF NoErasure
  <2>2. visible'[r] = visible[r] /\ (worker'[w].pc # "idle" => worker'[w].job = r)
    BY <1>7, <2>0, <2>1, WorkerTable DEF Goes
  <2>3. /\ UNCHANGED <<handler, receives, dead, crashes>>
        /\ \A v \in Workers \ {w} : worker'[v] = worker[v]
        /\ \A q \in Requests \ {r} : visible'[q] = visible[q]
    BY <1>7, <2>0, WorkerStepLocal
  <2> QED
    BY <2>0, <2>2, <2>3 DEF ReceiveInv, Unsent, Busy, At
<1>8. ASSUME NEW w \in Workers, Crash(w) PROVE ReceiveInv'
  <2>0. PICK r \in Requests : r = worker[w].job /\ Busy(w)
    BY <1>8, WorkerStepFacts
  <2>1. /\ ~Busy(w)' /\ \A v \in Workers \ {w} : (Busy(v)' <=> Busy(v)) /\ worker'[v] = worker[v]
        /\ \A q \in Requests : Unsent(q)' <=> Unsent(q)
        /\ \A q \in Requests \ {r} : visible'[q] = visible[q]
        /\ crashes' = crashes + 1 /\ crashes \in Nat
        /\ UNCHANGED <<receives, dead>>
    BY <1>8, <2>0, CrashTable DEF Busy, At, IdleWorker, Unsent, TypeOK, WorkerTypeOK
  <2>2. \A q \in Requests : receives[q] \in Nat
    BY DEF TypeOK, QueueTypeOK
  <2>3. receives[r] <= crashes'
    BY <2>0, <2>1 DEF ReceiveInv
  <2>4. \A v \in Workers : Busy(v) => receives[worker[v].job] \in Nat
    BY <2>2, WorkerFacts
  <2>5. /\ \A q \in Requests : visible'[q] > 0 => receives'[q] <= crashes'
        /\ \A q \in Requests : q \in dead' => MaxReceive <= crashes'
    BY <2>1, <2>2, <2>3, JobsAssumption DEF ReceiveInv
  <2>6. \A v \in Workers : Busy(v)' => receives'[worker'[v].job] <= crashes' + 1
    BY <2>1, <2>4 DEF ReceiveInv
  <2> QED
    BY <2>1, <2>5, <2>6 DEF ReceiveInv
<1>9. ASSUME NEW u \in Users, ListItems(u) \/ EraseProfile(u) PROVE ReceiveInv'
  BY <1>0, <1>9 DEF ListItems, EraseProfile, Unsent
<1>10. ASSUME NEW i \in Instances, NEW u \in Users, Forget(i, u) PROVE ReceiveInv'
  BY <1>0, <1>10 DEF Forget, Unsent
<1>11. CASE UNCHANGED vars
  BY <1>0, <1>11 DEF vars, Unsent
<1> QED
  BY <1>1, <1>2, <1>3, <1>4, <1>5, <1>6, <1>7, <1>8, <1>9, <1>10, <1>11 DEF Next, Deliver

(* The worker that sets a job to failed gives its fee back.                *)
LEMMA GiveBackStep ==
  ASSUME "duplicate" \notin Faults, NoErasure, TypeOK, CopyInv, StageInv, RefundInv, GiveBackInv,
         [Next]_vars
  PROVE  GiveBackInv'
<1> USE DEF recordVars, queueVars, workerVars, handlerVars, moneyVars, GoTo, HandlerAt
<1>0. ASSUME UNCHANGED <<status, fee, refunded, worker, crashes>> PROVE GiveBackInv'
  BY <1>0 DEF GiveBackInv, Busy, At, Running
<1>1. ASSUME NEW r \in Requests, NEW i \in Instances, Check(r, i) PROVE GiveBackInv'
  BY <1>0, <1>1 DEF Check
<1>2. ASSUME NEW r \in Requests, HandlerStep(r) \/ Abort(r) PROVE GiveBackInv'
  <2>1. CASE PutRecord(r)
    <3>1. \A w \in Workers : Busy(w) => worker[w].job # r /\ worker[w].job \in Requests
      BY <2>1, WorkerFacts DEF PutRecord, CopyInv, Unsent
    <3>2. /\ \A q \in Requests \ {r} : status'[q] = status[q] /\ fee'[q] = fee[q]
          /\ status'[r] = "queued"
          /\ UNCHANGED <<refunded, worker, crashes>>
      BY <2>1 DEF PutRecord, TypeOK, JobTypeOK
    <3> QED
      BY <3>1, <3>2 DEF GiveBackInv, Busy, At, Running
  <2>2. CASE ~PutRecord(r)
    BY <1>0, <1>2, <2>2 DEF HandlerStep, RunInline, StoreRequest, SendMessage, Charge, Abort
  <2> QED
    BY <2>1, <2>2
<1>3. ASSUME NEW r \in Requests, NEW w \in Workers, Receive(w, r) PROVE GiveBackInv'
  <2>1. /\ At(w, "read")' /\ worker[w].pc = "idle" /\ worker[w].job = NoJob
        /\ \A v \in Workers \ {w} : worker'[v] = worker[v] /\ (Busy(v)' <=> Busy(v))
        /\ \A v \in Workers \ {w}, pc \in WorkerPc : At(v, pc)' <=> At(v, pc)
        /\ UNCHANGED <<status, fee, refunded, crashes>>
    BY <1>3, ReceiveTable, WorkerFacts DEF Busy, At
  <2>2. \A q \in Requests, v \in Workers : v \in Running(q) /\ At(v, "refund") => v # w /\ v \in Running(q)'
    BY <2>1, JobsAssumption DEF Running, At
  <2>3. \A v \in Workers : Busy(v)' /\ ~At(v, "read")' => worker'[v].fee = fee'[worker'[v].job]
    BY <2>1 DEF GiveBackInv, WorkerPc
  <2>4. \A q \in Requests, v \in Workers : v \in Running(q) /\ At(v, "refund") => At(v, "refund")'
    BY <2>1, <2>2 DEF WorkerPc
  <2>5. \A q \in Requests :
          status'[q] = "failed" /\ crashes' = 0
            => refunded'[q] = fee'[q] \/ \E v \in Running(q)' : At(v, "refund")'
    BY <2>1, <2>2, <2>4 DEF GiveBackInv, Running
  <2> QED
    BY <2>3, <2>5 DEF GiveBackInv
<1>4. ASSUME NEW r \in Requests,
             DeadLetter(r) \/ Duplicate(r) \/ EraseRecord(r) \/ Poll(r) \/ GiveUp(r)
      PROVE GiveBackInv'
  BY <1>0, <1>4 DEF DeadLetter, Duplicate, EraseRecord, NoErasure, Poll, GiveUp
<1>5. ASSUME NEW w \in Workers, WorkerStep(w) PROVE GiveBackInv'
  <2>0. PICK r \in Requests : r = worker[w].job /\ Busy(w)
    BY <1>5, WorkerStepFacts
  <2>1. \A v \in Workers \ {w} : Busy(v) => worker[v].job # r /\ worker[v].job \in Requests
    BY <2>0, WorkerFacts DEF CopyInv
  <2>2. Owner[r] \in accounts /\ ~Gone(r)
    BY JobsAssumption DEF NoErasure, Gone
  <2>3. /\ UNCHANGED <<fee, crashes>>
        /\ \A v \in Workers \ {w} : worker'[v] = worker[v]
        /\ \A q \in Requests \ {r} : status'[q] = status[q] /\ refunded'[q] = refunded[q]
    BY <1>5, <2>0, WorkerStepLocal
  <2>4. /\ worker[w].pc # "read" => worker[w].fee = fee[r]
        /\ worker[w].pc \notin {"read", "end"} => refunded[r] = 0
        /\ fee[r] \in Nat /\ refunded[r] \in Nat
    BY <2>0 DEF GiveBackInv, RefundInv, At, TypeOK, JobTypeOK, MoneyTypeOK
  <2>5. /\ worker[w].pc = "mark" => status[r] \in {"queued", "running"}
        /\ worker[w].pc \in {"compute", "store", "finish", "fail"} => status[r] = "running"
    BY <2>0, <2>2 DEF StageInv, At
  <2>6. worker[w].pc = "idle" <=> ~Busy(w)
    BY DEF Busy, At
  <2>7. /\ worker'[w].pc \notin {"idle", "read"} => worker'[w].job = r /\ worker'[w].fee = fee[r]
        /\ worker'[w].pc # "idle" => worker'[w].job = r
        /\ \/ status'[r] = status[r] /\ refunded'[r] = refunded[r] /\ worker[w].pc # "refund"
           \/ status'[r] # "failed"
           \/ worker'[w].pc = "refund" /\ worker'[w].job = r
           \/ refunded'[r] = fee[r]
    BY <1>5, <2>0, <2>2, <2>4, <2>5, <2>6, WorkerTable DEF Goes
  <2>8. \A v \in Workers : Busy(v)' /\ ~At(v, "read")' => worker'[v].fee = fee'[worker'[v].job]
    BY <2>3, <2>7 DEF GiveBackInv, Busy, At
  <2>9. ASSUME NEW q \in Requests, status'[q] = "failed", crashes' = 0
        PROVE  refunded'[q] = fee'[q] \/ \E v \in Running(q)' : At(v, "refund")'
    <3>1. CASE q # r
      <4>1. refunded[q] = fee[q] \/ \E v \in Running(q) : At(v, "refund")
        BY <2>3, <2>9, <3>1 DEF GiveBackInv
      <4>2. ASSUME NEW v \in Running(q), At(v, "refund") PROVE v \in Running(q)' /\ At(v, "refund")'
        BY <2>0, <2>3, <3>1, <4>2 DEF Running, At
      <4> QED
        BY <2>3, <3>1, <4>1, <4>2
    <3>2. CASE q = r
      <4>1. CASE worker'[w].pc = "refund" /\ worker'[w].job = r
        BY <3>2, <4>1 DEF Running, At
      <4>2. CASE status'[r] = status[r] /\ refunded'[r] = refunded[r] /\ worker[w].pc # "refund"
        <5>1. ~(\E v \in Running(r) : At(v, "refund"))
          BY <2>0, <2>1, <4>2, RunningFacts DEF Running, At
        <5> QED
          BY <2>3, <2>9, <3>2, <4>2, <5>1 DEF GiveBackInv
      <4> QED
        BY <2>3, <2>7, <2>9, <3>2, <4>1, <4>2
    <3> QED
      BY <3>1, <3>2
  <2> QED
    BY <2>8, <2>9 DEF GiveBackInv
<1>6. ASSUME NEW w \in Workers, Crash(w) PROVE GiveBackInv'
  <2>0. PICK r \in Requests : r = worker[w].job
    BY <1>6, WorkerStepFacts
  <2>1. crashes' # 0
    BY <1>6, <2>0, CrashTable DEF TypeOK, WorkerTypeOK
  <2> QED
    BY <1>6, <2>0, <2>1, CrashTable DEF GiveBackInv, Busy, At, IdleWorker
<1>7. ASSUME NEW u \in Users, ListItems(u) \/ EraseProfile(u) PROVE GiveBackInv'
  BY <1>0, <1>7 DEF ListItems, EraseProfile
<1>8. ASSUME NEW i \in Instances, NEW u \in Users, Forget(i, u) PROVE GiveBackInv'
  BY <1>0, <1>8 DEF Forget
<1>9. CASE UNCHANGED vars
  BY <1>0, <1>9 DEF vars
<1> QED
  BY <1>1, <1>2, <1>3, <1>4, <1>5, <1>6, <1>7, <1>8, <1>9 DEF Next, Deliver

(* A job that is settled, in the queue, dead, gone or with a worker that   *)
(* has yet to settle it.                                                   *)
Kept(r) ==
  \/ status[r] \in Terminal
  \/ visible[r] > 0 \/ r \in dead
  \/ \E w \in Running(r) : worker[w].pc \notin {"refund", "end"}
  \/ Gone(r)

LEMMA NothingLostKept ==
  NothingLost <=>
    \A r \in Requests :
      handler[r] = "sent" \/ client[r] \in {"polling", "failed", "gaveUp"} => Kept(r)
BY DEF NothingLost, Kept, Gone

(* No step loses a job, under every fault.                                 *)
LEMMA LostStep ==
  ASSUME TypeOK, RecordInv, LedgerInv, NothingLost, [Next]_vars
  PROVE  NothingLost'
<1> USE DEF recordVars, queueVars, workerVars, handlerVars, moneyVars, GoTo, HandlerAt
<1>0. ASSUME \A q \in Requests : Kept(q) => Kept(q)',
             \A q \in Requests :
               handler'[q] = "sent" \/ client'[q] \in {"polling", "failed", "gaveUp"} =>
                 \/ handler[q] = "sent" \/ client[q] \in {"polling", "failed", "gaveUp"}
                 \/ Kept(q)'
      PROVE  NothingLost'
  BY <1>0, NothingLostKept DEF NothingLost, Kept, Gone
<1>00. ASSUME UNCHANGED <<status, visible, dead, worker, erasing>>
       PROVE  \A q \in Requests : Kept(q) => Kept(q)'
  BY <1>00 DEF Kept, Running, Gone
<1>1. ASSUME NEW r \in Requests, NEW i \in Instances, Check(r, i) PROVE NothingLost'
  <2>1. \A q \in Requests : handler'[q] = "sent" => handler[q] = "sent"
    BY <1>1 DEF Check, TypeOK, HandlerTypeOK
  <2> QED
    BY <1>0, <1>00, <1>1, <2>1 DEF Check, eraseVars
<1>2. ASSUME NEW r \in Requests, HandlerStep(r) PROVE NothingLost'
  <2>1. CASE PutRecord(r)
    <3>1. handler[r] = "stored" /\ client[r] = "calling" /\ handler'[r] = "recorded"
      BY <2>1 DEF PutRecord, LedgerInv, TypeOK, HandlerTypeOK
    <3>2. /\ \A q \in Requests \ {r} : status'[q] = status[q] /\ handler'[q] = handler[q]
          /\ UNCHANGED <<visible, dead, worker, erasing, client>>
      BY <2>1 DEF PutRecord, TypeOK, JobTypeOK, HandlerTypeOK, eraseVars
    <3> QED
      BY <3>1, <3>2 DEF NothingLost, Running
  <2>2. CASE SendMessage(r)
    <3>1. /\ \A q \in Requests \ {r} : handler'[q] = handler[q] /\ visible'[q] = visible[q]
          /\ visible'[r] = 1
          /\ UNCHANGED <<status, dead, worker, erasing, client>>
      BY <2>2 DEF SendMessage, TypeOK, HandlerTypeOK, QueueTypeOK, eraseVars
    <3> QED
      BY <3>1 DEF NothingLost, Running
  <2>3. CASE Charge(r)
    <3>1. /\ \A q \in Requests \ {r} : handler'[q] = handler[q] /\ client'[q] = client[q]
          /\ handler'[r] # "sent"
          /\ client'[r] # client[r] => handler[r] = "sent" \/ client'[r] = "delivered"
      BY <2>3 DEF Charge, Accept, TypeOK, HandlerTypeOK
    <3>2. UNCHANGED <<status, visible, dead, worker, erasing>>
      BY <2>3 DEF Charge, eraseVars
    <3> QED
      BY <1>0, <1>00, <3>1, <3>2
  <2>4. CASE RunInline(r) \/ StoreRequest(r)
    <3>1. \A q \in Requests : handler'[q] = "sent" => handler[q] = "sent"
      BY <2>4 DEF RunInline, StoreRequest, TypeOK, HandlerTypeOK
    <3> QED
      BY <1>0, <1>00, <2>4, <3>1 DEF RunInline, StoreRequest, eraseVars
  <2> QED
    BY <1>2, <2>1, <2>2, <2>3, <2>4 DEF HandlerStep
<1>3. ASSUME NEW r \in Requests, Abort(r) PROVE NothingLost'
  <2>1. \A q \in Requests : handler'[q] = "sent" => handler[q] = "sent"
    BY <1>3 DEF Abort, TypeOK, HandlerTypeOK
  <2> QED
    BY <1>0, <1>00, <1>3, <2>1 DEF Abort, eraseVars
<1>4. ASSUME NEW r \in Requests, NEW w \in Workers, Receive(w, r) PROVE NothingLost'
  <2>1. /\ worker[w].job = NoJob /\ w \in Running(r)' /\ worker'[w].pc = "read"
        /\ \A v \in Workers \ {w} : worker'[v] = worker[v]
        /\ \A q \in Requests \ {r} : visible'[q] = visible[q]
        /\ UNCHANGED <<handler, client, status, dead, erasing>>
    BY <1>4, ReceiveTable, WorkerFacts DEF Running
  <2>2. \A q \in Requests : Kept(q) => Kept(q)'
    BY <2>1, JobsAssumption DEF Kept, Running, Gone
  <2> QED
    BY <1>0, <2>1, <2>2
<1>5. ASSUME NEW r \in Requests, DeadLetter(r) PROVE NothingLost'
  <2>1. /\ \A q \in Requests \ {r} : visible'[q] = visible[q]
        /\ dead' = dead \cup {r}
        /\ UNCHANGED <<handler, client, status, worker, erasing>>
    BY <1>5 DEF DeadLetter, TypeOK, QueueTypeOK, eraseVars
  <2> QED
    BY <1>0, <2>1 DEF Kept, Running, Gone
<1>6. ASSUME NEW r \in Requests, Duplicate(r) PROVE NothingLost'
  <2>1. /\ \A q \in Requests : visible[q] > 0 => visible'[q] > 0
        /\ UNCHANGED <<handler, client, status, worker, erasing, dead>>
    BY <1>6 DEF Duplicate, TypeOK, QueueTypeOK, eraseVars
  <2> QED
    BY <1>0, <2>1 DEF Kept, Running, Gone
<1>7. ASSUME NEW r \in Requests, EraseRecord(r) PROVE NothingLost'
  <2>1. /\ Owner[r] \in erasing /\ status'[r] = "none"
        /\ \A q \in Requests \ {r} : status'[q] = status[q]
        /\ UNCHANGED <<handler, client, visible, worker, erasing, dead>>
    BY <1>7 DEF EraseRecord, RecordInv, TypeOK, JobTypeOK
  <2> QED
    BY <1>0, <2>1 DEF Kept, Running, Gone
<1>8. ASSUME NEW w \in Workers, WorkerStep(w) PROVE NothingLost'
  <2>0. PICK r \in Requests : r = worker[w].job /\ Busy(w)
    BY <1>8, WorkerStepFacts
  <2>1. /\ UNCHANGED <<handler, client, dead, erasing>>
        /\ \A v \in Workers \ {w} : worker'[v] = worker[v]
        /\ \A q \in Requests \ {r} : status'[q] = status[q] /\ visible'[q] = visible[q]
    BY <1>8, <2>0, WorkerStepLocal
  <2>2. /\ status[r] # "none" \/ Gone(r)
        /\ visible[r] \in Nat
    BY <2>0 DEF RecordInv, TypeOK, QueueTypeOK
  <2>3. worker'[w].pc # "idle" => worker'[w].job = r
    BY <1>8, <2>0, WorkerTable DEF Goes
  <2>4. \/ status'[r] \in Terminal \/ Gone(r)' \/ visible'[r] > 0
        \/ worker'[w].pc \in {"mark", "compute", "store", "finish", "fail"}
        \/ status'[r] = status[r] /\ visible'[r] = visible[r] /\ worker[w].pc \in {"refund", "end"}
    BY <1>8, <2>0, <2>1, <2>2, WorkerTable DEF Goes, Gone, Terminal
  <2>5. Kept(r) => Kept(r)'
    <3>1. CASE worker'[w].pc \in {"mark", "compute", "store", "finish", "fail"}
      BY <2>3, <3>1 DEF Kept, Running
    <3>2. CASE status'[r] = status[r] /\ visible'[r] = visible[r] /\ worker[w].pc \in {"refund", "end"}
      BY <2>1, <3>2 DEF Kept, Running, Gone
    <3> QED
      BY <2>4, <3>1, <3>2 DEF Kept
  <2>6. \A q \in Requests \ {r} : Kept(q) => Kept(q)'
    BY <2>0, <2>1 DEF Kept, Running, Gone
  <2> QED
    BY <1>0, <2>1, <2>5, <2>6
<1>9. ASSUME NEW w \in Workers, Crash(w) PROVE NothingLost'
  <2>0. PICK r \in Requests : r = worker[w].job
    BY <1>9, WorkerStepFacts
  <2>1. visible'[r] > 0
    BY <1>9, <2>0, CrashTable DEF TypeOK, QueueTypeOK
  <2>2. /\ \A v \in Workers \ {w} : worker'[v] = worker[v]
        /\ \A q \in Requests \ {r} : visible'[q] = visible[q]
        /\ UNCHANGED <<handler, client, status, dead, erasing>>
    BY <1>9, <2>0, CrashTable
  <2>3. \A q \in Requests : Kept(q) => Kept(q)'
    BY <2>0, <2>1, <2>2 DEF Kept, Running, Gone
  <2> QED
    BY <1>0, <2>2, <2>3
<1>10. ASSUME NEW r \in Requests, Poll(r) \/ GiveUp(r) PROVE NothingLost'
  <2>1. /\ client[r] = "polling" /\ \A q \in Requests \ {r} : client'[q] = client[q]
        /\ UNCHANGED <<handler, status, visible, worker, erasing, dead>>
    BY <1>10 DEF Poll, GiveUp, TypeOK, HandlerTypeOK, eraseVars
  <2> QED
    BY <1>0, <1>00, <2>1
<1>11. ASSUME NEW u \in Users, ListItems(u) \/ EraseProfile(u) PROVE NothingLost'
  <2>1. UNCHANGED <<handler, client, status, visible, worker, dead>> /\ erasing \subseteq erasing'
    BY <1>11, ErasingGrows DEF ListItems, EraseProfile
  <2> QED
    BY <1>0, <2>1 DEF Kept, Running, Gone
<1>12. ASSUME NEW i \in Instances, NEW u \in Users, Forget(i, u) PROVE NothingLost'
  BY <1>0, <1>00, <1>12 DEF Forget, eraseVars
<1>13. CASE UNCHANGED vars
  BY <1>0, <1>00, <1>13 DEF vars, eraseVars
<1> QED
  BY <1>1, <1>2, <1>3, <1>4, <1>5, <1>6, <1>7, <1>8, <1>9, <1>10, <1>11, <1>12, <1>13
     DEF Next, Deliver

-----------------------------------------------------------------------------
(* Payload before message, result before status: under every fault.        *)
LEMMA StoreStep ==
  ASSUME TypeOK, TypeOK', StoreInv, [Next]_vars
  PROVE  StoreInv'
<1> USE DEF recordVars, queueVars, workerVars, handlerVars, GoTo, HandlerAt
<1>0. ASSUME UNCHANGED <<handler, status, results, stored, visible, receives, worker>>
      PROVE  StoreInv'
  BY <1>0 DEF StoreInv, DoneHasResult, Busy, At
<1>1. ASSUME NEW r \in Requests, NEW i \in Instances, Check(r, i) PROVE StoreInv'
  BY <1>1 DEF Check, StoreInv, DoneHasResult, Busy, At, TypeOK, HandlerTypeOK
<1>2. ASSUME NEW r \in Requests, HandlerStep(r) PROVE StoreInv'
  <2>1. CASE RunInline(r)
    BY <2>1 DEF RunInline, StoreInv, DoneHasResult, Busy, At, TypeOK, HandlerTypeOK
  <2>2. CASE StoreRequest(r)
    BY <2>2 DEF StoreRequest, StoreInv, DoneHasResult, Busy, At, TypeOK, HandlerTypeOK
  <2>3. CASE PutRecord(r)
    BY <2>3 DEF PutRecord, StoreInv, DoneHasResult, Busy, At, TypeOK, HandlerTypeOK, JobTypeOK
  <2>4. CASE SendMessage(r)
    BY <2>4 DEF SendMessage, StoreInv, DoneHasResult, Busy, At, TypeOK, HandlerTypeOK, QueueTypeOK
  <2>5. CASE Charge(r)
    BY <2>5 DEF Charge, Accept, StoreInv, DoneHasResult, Busy, At, TypeOK, HandlerTypeOK
  <2> QED
    BY <1>2, <2>1, <2>2, <2>3, <2>4, <2>5 DEF HandlerStep
<1>3. ASSUME NEW r \in Requests, Abort(r) PROVE StoreInv'
  BY <1>3 DEF Abort, StoreInv, DoneHasResult, Busy, At, TypeOK, HandlerTypeOK
<1>4. ASSUME NEW r \in Requests, NEW w \in Workers, Receive(w, r) PROVE StoreInv'
  BY <1>4 DEF Receive, StoreInv, DoneHasResult, Busy, At, TypeOK, QueueTypeOK, WorkerTypeOK
<1>5. ASSUME NEW r \in Requests, DeadLetter(r) \/ Duplicate(r) PROVE StoreInv'
  BY <1>5 DEF DeadLetter, Duplicate, StoreInv, DoneHasResult, Busy, At, TypeOK, QueueTypeOK
<1>6. ASSUME NEW r \in Requests, EraseRecord(r) PROVE StoreInv'
  BY <1>6 DEF EraseRecord, StoreInv, DoneHasResult, Busy, At, TypeOK, JobTypeOK
<1>7. ASSUME NEW w \in Workers, WorkerStep(w) PROVE StoreInv'
  <2> DEFINE r == worker[w].job
  <2>0. Busy(w) /\ r \in Requests /\ r \in stored
    BY <1>7, WorkerStepFacts DEF StoreInv
  <2>1. UNCHANGED <<handler, stored, receives>> /\ results \subseteq results'
    BY <1>7 DEF WorkerStep, ReadJob, ReadJobUnless, MarkRunning, Compute, StoreResult, MarkDone, MarkFailed,
                RefundFee, Acknowledge
  <2>2. \A v \in Workers \ {w} : worker'[v] = worker[v]
    BY <1>7, WorkerFacts DEF WorkerStep, ReadJob, ReadJobUnless, MarkRunning, Compute, StoreResult, MarkDone,
                MarkFailed, RefundFee, Acknowledge, WorkerPc, TypeOK, WorkerTypeOK
  <2>3. \A q \in Requests : q # r => visible'[q] = visible[q]
    BY <1>7 DEF WorkerStep, ReadJob, ReadJobUnless, MarkRunning, Compute, StoreResult, MarkDone, MarkFailed,
                RefundFee, Acknowledge, TypeOK, QueueTypeOK
  <2>4. \A q \in Requests : status'[q] = "done" => q \in results'
    <3>1. CASE MarkDone(w)
      BY <2>0, <2>1, <3>1 DEF MarkDone, SetStatus, StoreInv, DoneHasResult, TypeOK, JobTypeOK
    <3>2. CASE ~MarkDone(w)
      BY <1>7, <2>1, <3>2 DEF WorkerStep, ReadJob, ReadJobUnless, MarkRunning, Compute, StoreResult, MarkFailed,
                RefundFee, Acknowledge, SetStatus, StoreInv, DoneHasResult, TypeOK, JobTypeOK
    <3> QED
      BY <3>1, <3>2
  <2>5. /\ worker'[w].pc # "idle" => worker'[w].job = r
        /\ worker'[w].pc = "finish" => r \in results'
    <3>1. CASE ReadJob(w)
      BY <3>1, WorkerFacts DEF ReadJob, ReadJobUnless, IdleWorker, TypeOK, WorkerTypeOK
    <3>2. CASE StoreResult(w)
      BY <3>2, WorkerFacts DEF StoreResult, WorkerPc
    <3>3. CASE ~ReadJob(w) /\ ~StoreResult(w)
      BY <1>7, <3>3, WorkerFacts DEF WorkerStep, MarkRunning, Compute, MarkDone, MarkFailed, RefundFee, Acknowledge,
                WorkerPc, IdleWorker
    <3> QED
      BY <3>1, <3>2, <3>3
  <2>6. \A v \in Workers \ {w} :
          /\ worker'[v].pc # "idle" => worker'[v].job \in stored
          /\ worker'[v].pc = "finish" => worker'[v].job \in results'
    BY <2>1, <2>2 DEF StoreInv, Busy, At
  <2>7. \A q \in Requests :
          handler'[q] \in {"stored", "recorded"} \/ visible'[q] > 0 \/ receives'[q] > 0
            => q \in stored'
    BY <2>0, <2>1, <2>3 DEF StoreInv
  <2>8. \A v \in Workers :
          /\ worker'[v].pc # "idle" => worker'[v].job \in stored'
          /\ worker'[v].pc = "finish" => worker'[v].job \in results'
    <3>1. /\ worker'[w].pc # "idle" => worker'[w].job \in stored'
          /\ worker'[w].pc = "finish" => worker'[w].job \in results'
      BY <2>0, <2>1, <2>5
    <3> QED
      BY <2>1, <2>6, <3>1
  <2> HIDE DEF r
  <2> QED
    BY <2>4, <2>7, <2>8 DEF StoreInv, DoneHasResult, Busy, At
<1>8. ASSUME NEW w \in Workers, Crash(w) PROVE StoreInv'
  <2>1. worker[w].job \in Requests /\ worker[w].job \in stored
    BY <1>8, WorkerStepFacts DEF StoreInv
  <2> QED
    BY <1>8, <2>1, WorkerFacts
       DEF Crash, StoreInv, DoneHasResult, Busy, At, IdleWorker, TypeOK, QueueTypeOK
<1>9. ASSUME NEW r \in Requests, Poll(r) \/ GiveUp(r) PROVE StoreInv'
  BY <1>0, <1>9 DEF Poll, GiveUp
<1>10. ASSUME NEW u \in Users, ListItems(u) \/ EraseProfile(u) PROVE StoreInv'
  BY <1>0, <1>10 DEF ListItems, EraseProfile
<1>11. ASSUME NEW i \in Instances, NEW u \in Users, Forget(i, u) PROVE StoreInv'
  BY <1>0, <1>11 DEF Forget
<1>12. CASE UNCHANGED vars
  BY <1>0, <1>12 DEF vars
<1> QED
  BY <1>1, <1>2, <1>3, <1>4, <1>5, <1>6, <1>7, <1>8, <1>9, <1>10, <1>11, <1>12 DEF Next, Deliver
-----------------------------------------------------------------------------
(* The theorems that hold under every fault.                               *)

LEMMA StoreInvariant == Spec => []StoreInv
<1>1. Init => StoreInv
  BY DEF Init, StoreInv, DoneHasResult, Busy, At, IdleWorker
<1> QED
  BY <1>1, StoreStep, TypeCorrect, PTL DEF Spec

(* A poll that reads "done" finds the result (jobs.py: run_job stores the  *)
(* object, then sets the status), whatever is duplicated, dies or is       *)
(* erased.                                                                 *)
THEOREM DoneHasResultCorrect == Spec => []DoneHasResult
<1>1. StoreInv => DoneHasResult
  BY DEF StoreInv
<1> QED
  BY <1>1, StoreInvariant, PTL

(* No message and no worker precedes its payload (JobStore.submit), under  *)
(* every fault.                                                            *)
THEOREM PayloadPrecedesMessageCorrect == Spec => []PayloadPrecedesMessage
<1>1. TypeOK /\ StoreInv => PayloadPrecedesMessage
  BY RunningFacts DEF PayloadPrecedesMessage, StoreInv, Running
<1> QED
  BY <1>1, StoreInvariant, TypeCorrect, PTL

LEMMA RecordInvariant == Spec => []RecordInv
<1>1. Init => RecordInv
  BY DEF Init, RecordInv, Busy, At, IdleWorker
<1> QED
  BY <1>1, RecordStep, TypeCorrect, PTL DEF Spec

LEMMA LedgerInvariant == Spec => [](LedgerInv /\ PaidInv)
<1>1. Init => LedgerInv /\ PaidInv
  BY DEF Init, LedgerInv, PaidInv
<1> QED
  BY <1>1, LedgerStep, TypeCorrect, PTL DEF Spec

(* A record without TTL belongs to a user who is being deleted and carries *)
(* no fee: only set_status writes one, and only after delete_user_data has *)
(* begun (jobs.py).                                                        *)
THEOREM GhostRecordsCorrect == Spec => []GhostRecords
<1>1. RecordInv => GhostRecords
  BY DEF RecordInv, GhostRecords
<1> QED
  BY <1>1, RecordInvariant, PTL

(* Hence every record expires (jobs.py, JOB_TTL_DAYS), as long as no       *)
(* account is deleted while a job of its user is under way.                *)
THEOREM RecordsExpireCorrect ==
  ASSUME "erase" \notin Faults
  PROVE  Spec => []RecordsExpire
<1>1. NoErasure /\ RecordInv => RecordsExpire
  BY DEF NoErasure, RecordInv, RecordsExpire
<1> QED
  BY <1>1, NoErasureInvariant, RecordInvariant, PTL

(* No fault loses a job: whoever waits for one finds it settled, pending   *)
(* somewhere, among the dead letters, or gone with its user's account.     *)
THEOREM NothingLostCorrect == Spec => []NothingLost
<1>1. Init => NothingLost
  BY DEF Init, NothingLost
<1> QED
  BY <1>1, LostStep, RecordInvariant, LedgerInvariant, TypeCorrect, PTL DEF Spec

-----------------------------------------------------------------------------
(* The theorems about a queue that duplicates nothing.  Workers may crash, *)
(* handlers may be aborted and accounts deleted at will.                   *)

LEMMA LifecycleInvariant ==
  ASSUME "duplicate" \notin Faults
  PROVE  Spec => []LifecycleInv
<1>1. Init /\ TypeOK => LifecycleInv
  BY CostType DEF Init, LifecycleInv, CopyInv, StageInv, RefundInv, Busy, At, IdleWorker, Unsent
<1>2. LifecycleInv /\ RecordInv /\ TypeOK' /\ [Next]_vars => LifecycleInv'
  BY CopyStep, StageStep, RefundStep DEF LifecycleInv
<1> QED
  BY <1>1, <1>2, TypeCorrect, RecordInvariant, PTL DEF Spec

(* No two invocations ever work on the same job (async_jobs.tf: the        *)
(* visibility timeout outlives the worker).                                *)
THEOREM NoOverlapCorrect ==
  ASSUME "duplicate" \notin Faults
  PROVE  Spec => []NoOverlap
<1>1. LifecycleInv => NoOverlap
  BY RunningFacts DEF LifecycleInv, CopyInv, NoOverlap, Running
<1> QED
  BY <1>1, LifecycleInvariant, PTL

(* However often its worker crashes, and even if its record is removed     *)
(* with the account, a job is refunded at most once (run_job).             *)
THEOREM RefundedOnceCorrect ==
  ASSUME "duplicate" \notin Faults
  PROVE  Spec => []RefundedOnce
<1>1. LifecycleInv => RefundedOnce
  BY DEF LifecycleInv, RefundInv, RefundedOnce
<1> QED
  BY <1>1, LifecycleInvariant, PTL

(* Only a failed job is refunded, and it stays failed.                     *)
THEOREM RefundOnlyFailedCorrect ==
  ASSUME "duplicate" \notin Faults, "erase" \notin Faults
  PROVE  Spec => []RefundOnlyFailed
<1>1. LifecycleInv /\ NoErasure => RefundOnlyFailed
  BY DEF LifecycleInv, RefundInv, RefundOnlyFailed, NoErasure, Gone
<1> QED
  BY <1>1, LifecycleInvariant, NoErasureInvariant, PTL

LEMMA DeliveredInvariant ==
  ASSUME "duplicate" \notin Faults
  PROVE  Spec => []DeliveredInv
<1>1. Init => DeliveredInv
  BY DEF Init, DeliveredInv
<1>2. LifecycleInv /\ LedgerInv /\ DeliveredInv /\ [Next]_vars => DeliveredInv'
  BY DeliveredStep DEF LifecycleInv
<1> QED
  BY <1>1, <1>2, LifecycleInvariant, LedgerInvariant, PTL DEF Spec

(* A delivered result was charged and not refunded, unless by flatrate:    *)
(* delivery, charge and refund are steps of three processes.  With either  *)
(* of the two faults left out here it fails.                               *)
THEOREM DeliveredWasPaidCorrect ==
  ASSUME "duplicate" \notin Faults, "late" \notin Faults
  PROVE  Spec => []DeliveredWasPaid
<1>1. LedgerInv /\ PaidInv /\ DeliveredInv => DeliveredWasPaid
  BY DEF LedgerInv, PaidInv, DeliveredInv, DeliveredWasPaid
<1> QED
  BY <1>1, LedgerInvariant, DeliveredInvariant, PTL

(* Tokens that were never taken are given back only to a request that was  *)
(* refused, or died, with its message sent (_run_inline_or_queue).         *)
THEOREM RefundBackedCorrect ==
  ASSUME "duplicate" \notin Faults, "late" \notin Faults
  PROVE  Spec => []RefundBacked
<1>1. LifecycleInv /\ RecordInv /\ PaidInv => RefundBacked
  <2> SUFFICES ASSUME LifecycleInv, RecordInv, PaidInv, NEW r \in Requests,
                      handler[r] \notin {"sent", "refused", "error"}
               PROVE  refunded[r] <= charged[r]
    BY DEF RefundBacked
  <2>1. refunded[r] \in Nat /\ charged[r] \in Nat /\ refunded[r] <= Cost(r) /\ Cost(r) \in Nat
    BY CostType DEF LifecycleInv, RefundInv, TypeOK, MoneyTypeOK
  <2>2. CASE Unsent(r)
    BY <2>1, <2>2 DEF LifecycleInv, RefundInv
  <2>3. CASE ~Unsent(r)
    <3>1. handler[r] = "accepted"
      BY <2>3 DEF Unsent, LifecycleInv, TypeOK, HandlerTypeOK, HandlerPc
    <3> QED
      BY <2>1, <3>1 DEF RecordInv, PaidInv
  <2> QED
    BY <2>2, <2>3
<1> QED
  BY <1>1, LifecycleInvariant, RecordInvariant, LedgerInvariant, PTL

-----------------------------------------------------------------------------
(* The theorems that moreover need the accounts to stay.                   *)

LEMMA ReceiveInvariant ==
  ASSUME "duplicate" \notin Faults, "erase" \notin Faults
  PROVE  Spec => []ReceiveInv
<1>1. Init => ReceiveInv
  BY DEF Init, ReceiveInv, Busy, At, IdleWorker
<1>2. LifecycleInv /\ TypeOK' /\ NoErasure /\ ReceiveInv /\ [Next]_vars => ReceiveInv'
  BY ReceiveStep DEF LifecycleInv
<1> QED
  BY <1>1, <1>2, TypeCorrect, LifecycleInvariant, NoErasureInvariant, PTL DEF Spec

(* A message reaches the dead letters only if as many workers died as the  *)
(* queue delivers it (async_jobs.tf, maxReceiveCount): with NothingLost,   *)
(* fewer crashes leave every queued job settled or under way.              *)
THEOREM DeadAfterCrashesCorrect ==
  ASSUME "duplicate" \notin Faults, "erase" \notin Faults
  PROVE  Spec => []DeadAfterCrashes
<1>1. TypeOK /\ ReceiveInv => DeadAfterCrashes
  BY JobsAssumption DEF ReceiveInv, DeadAfterCrashes, TypeOK, WorkerTypeOK
<1> QED
  BY <1>1, TypeCorrect, ReceiveInvariant, PTL

LEMMA GiveBackInvariant ==
  ASSUME "duplicate" \notin Faults, "erase" \notin Faults
  PROVE  Spec => []GiveBackInv
<1>1. Init => GiveBackInv
  BY DEF Init, GiveBackInv, Busy, At, IdleWorker
<1>2. LifecycleInv /\ NoErasure /\ GiveBackInv /\ [Next]_vars => GiveBackInv'
  BY GiveBackStep DEF LifecycleInv
<1> QED
  BY <1>1, <1>2, LifecycleInvariant, NoErasureInvariant, PTL DEF Spec

(* Unless a worker died, a failed job has been given back what was charged *)
(* for it, or a worker is about to do so (run_job).                        *)
THEOREM FailedGivenBackCorrect ==
  ASSUME Faults \cap {"duplicate", "erase", "late"} = {}
  PROVE  Spec => []FailedGivenBack
<1>0. "duplicate" \notin Faults /\ "erase" \notin Faults /\ "late" \notin Faults
  OBVIOUS
<1>1. TypeOK /\ NoErasure /\ RecordInv /\ LedgerInv /\ PaidInv /\ GiveBackInv => FailedGivenBack
  <2> SUFFICES ASSUME TypeOK, NoErasure, RecordInv, LedgerInv, PaidInv, GiveBackInv,
                      NEW r \in Requests, status[r] = "failed", handler[r] = "accepted", crashes = 0
               PROVE  refunded[r] = charged[r] \/ \E w \in Running(r) : At(w, "refund")
    BY DEF FailedGivenBack
  <2>1. refunded[r] = fee[r] \/ \E w \in Running(r) : At(w, "refund")
    BY DEF GiveBackInv
  <2>2. fee[r] = IF r \in deduct THEN Cost(r) ELSE 0
    BY DEF RecordInv, NoErasure
  <2>3. charged[r] = IF r \in deduct THEN Cost(r) ELSE 0
    BY <1>0 DEF LedgerInv, PaidInv, TypeOK, MoneyTypeOK
  <2> QED
    BY <2>1, <2>2, <2>3
<1>2. (Spec => []GiveBackInv) /\ (Spec => []NoErasure)
  BY <1>0, GiveBackInvariant, NoErasureInvariant
<1> QED
  BY <1>1, <1>2, TypeCorrect, RecordInvariant, LedgerInvariant, PTL

-----------------------------------------------------------------------------
(* A step leaves a terminal status alone.                                  *)
LEMMA TerminalStep ==
  ASSUME LifecycleInv, NoErasure, [Next]_vars, NEW r \in Requests, status[r] \in Terminal
  PROVE  status'[r] = status[r]
<1> USE DEF recordVars, Terminal
<1>1. ASSUME NEW q \in Requests, PutRecord(q) PROVE status'[r] = status[r]
  <2>1. status[q] = "none"
    BY <1>1 DEF PutRecord, HandlerAt, LifecycleInv, StageInv
  <2> QED
    BY <1>1, <2>1 DEF PutRecord, LifecycleInv, TypeOK, JobTypeOK
<1>2. ASSUME NEW w \in Workers, WorkerStep(w) PROVE status'[r] = status[r]
  <2>1. PICK q \in Requests : q = worker[w].job
    BY <1>2, WorkerStepFacts DEF LifecycleInv
  <2>2. CASE q # r
    BY <1>2, <2>1, <2>2, WorkerStepLocal DEF LifecycleInv
  <2>3. CASE q = r
    BY <1>2, <2>1, <2>3, WorkerTable DEF Goes, LifecycleInv, StageInv, At, NoErasure, Gone
  <2> QED
    BY <2>2, <2>3
<1>3. ASSUME ~(\E q \in Requests : PutRecord(q)), ~(\E w \in Workers : WorkerStep(w))
      PROVE  status' = status
  BY <1>3 DEF NoErasure, Next, vars, HandlerStep, Deliver, Check, RunInline, StoreRequest,
     SendMessage, Charge, Abort, Receive, DeadLetter, Duplicate, EraseRecord, Poll, GiveUp, Crash,
     ListItems, EraseProfile, Forget
<1> QED
  BY <1>1, <1>2, <1>3

(* A job that is done or failed keeps its status (run_job returns early).  *)
THEOREM TerminalIsFinalCorrect ==
  ASSUME "duplicate" \notin Faults, "erase" \notin Faults
  PROVE  Spec => TerminalIsFinal
<1>1. LifecycleInv /\ NoErasure /\ [Next]_vars
        => [\A r \in Requests : status[r] \in Terminal => status'[r] = status[r]]_vars
  BY TerminalStep
<1> QED
  BY <1>1, LifecycleInvariant, NoErasureInvariant, PTL DEF Spec, TerminalIsFinal

-----------------------------------------------------------------------------
(* What is refuted without a further hypothesis.                           *)

LEMMA EndedStep ==
  ASSUME "duplicate" \notin Faults, LifecycleInv, EndedInv, [Next]_vars,
         \A r \in Requests : handler[r] = "sent" => handler'[r] \in {"sent", "accepted"}
  PROVE  EndedInv'
<1> USE DEF recordVars, queueVars, workerVars, handlerVars, moneyVars, GoTo, HandlerAt
<1>t. TypeOK
  BY DEF LifecycleInv
<1>n. ASSUME NEW r \in Requests, Unsent(r)
      PROVE  visible[r] = 0 /\ Running(r) = {} /\ refunded[r] = 0
  BY <1>n, <1>t, WorkerFacts, JobsAssumption
     DEF LifecycleInv, CopyInv, RefundInv, Running, TypeOK, MoneyTypeOK
<1>0. ASSUME UNCHANGED <<visible, worker, refunded>>,
             \A r \in Requests : handler'[r] \in {"refused", "error"} => handler[r] \in {"refused", "error"} \/ Unsent(r)
      PROVE  EndedInv'
  BY <1>0, <1>n DEF EndedInv, Running
<1>1. ASSUME NEW r \in Requests, NEW i \in Instances, Check(r, i) PROVE EndedInv'
  BY <1>0, <1>1, <1>t DEF Check, TypeOK, HandlerTypeOK
<1>2. ASSUME NEW r \in Requests, HandlerStep(r), ~SendMessage(r) PROVE EndedInv'
  <2>1. UNCHANGED <<visible, worker, refunded>>
    BY <1>2 DEF HandlerStep, RunInline, StoreRequest, PutRecord, Charge
  <2>2. handler[r] = "sent" \/ Unsent(r)
    BY <1>2 DEF HandlerStep, RunInline, StoreRequest, PutRecord, Charge, Unsent
  <2>3. \A q \in Requests \ {r} : handler'[q] = handler[q]
    BY <1>2, <1>t DEF HandlerStep, RunInline, StoreRequest, PutRecord, Charge, Accept, TypeOK, HandlerTypeOK
  <2> QED
    BY <1>0, <2>1, <2>2, <2>3
<1>3. ASSUME NEW r \in Requests, SendMessage(r) PROVE EndedInv'
  <2>1. /\ UNCHANGED <<worker, refunded>> /\ handler'[r] = "sent"
        /\ \A q \in Requests \ {r} : handler'[q] = handler[q] /\ visible'[q] = visible[q]
    BY <1>3, <1>t DEF SendMessage, TypeOK, HandlerTypeOK, QueueTypeOK
  <2> QED
    BY <2>1 DEF EndedInv, Running
<1>4. ASSUME NEW r \in Requests, Abort(r) PROVE EndedInv'
  <2>1. /\ UNCHANGED <<visible, worker, refunded>>
        /\ handler[r] = "sent" \/ Unsent(r)
        /\ \A q \in Requests \ {r} : handler'[q] = handler[q]
    BY <1>4, <1>t DEF Abort, Unsent, TypeOK, HandlerTypeOK
  <2> QED
    BY <1>0, <2>1
<1>5. ASSUME NEW w \in Workers, NEW r \in Requests, Receive(w, r) PROVE EndedInv'
  <2>1. handler[r] \notin {"refused", "error"}
    BY <1>5, <1>t DEF Receive, EndedInv
  <2>2. \A v \in Workers : worker'[v] = worker[v] \/ worker'[v].job = r
    BY <1>5, <1>t, ReceiveTable
  <2> QED
    BY <1>5, <1>t, <2>1, <2>2, ReceiveTable DEF EndedInv, Running
<1>6. ASSUME NEW w \in Workers, WorkerStep(w) \/ Crash(w) PROVE EndedInv'
  <2>1. PICK r \in Requests : r = worker[w].job
    BY <1>6, <1>t, WorkerStepFacts
  <2>2. handler[r] \notin {"refused", "error"}
    BY <2>1 DEF EndedInv, Running
  <2>3. /\ handler' = handler
        /\ \A q \in Requests \ {r} : visible'[q] = visible[q] /\ refunded'[q] = refunded[q]
        /\ \A v \in Workers \ {w} : worker'[v] = worker[v]
    BY <1>6, <1>t, <2>1, WorkerStepLocal, CrashTable
  <2>4. worker'[w].job \in {r, NoJob}
    BY <1>6, <1>t, <2>1, WorkerTable, CrashTable DEF Goes, IdleWorker
  <2> QED
    BY <2>2, <2>3, <2>4, JobsAssumption DEF EndedInv, Running
<1>7. ASSUME NEW r \in Requests, DeadLetter(r) \/ Duplicate(r) PROVE EndedInv'
  <2>1. /\ UNCHANGED <<handler, worker>> /\ visible[r] > 0
        /\ \A q \in Requests \ {r} : visible'[q] = visible[q]
    BY <1>7, <1>t DEF DeadLetter, Duplicate, TypeOK, QueueTypeOK
  <2> QED
    BY <1>7, <1>t, <2>1, QueueLeaves DEF EndedInv, Running
<1>8. ASSUME UNCHANGED <<handler, visible, worker, refunded>> PROVE EndedInv'
  BY <1>0, <1>8
<1>9. ASSUME NEW r \in Requests, EraseRecord(r) \/ Poll(r) \/ GiveUp(r) PROVE EndedInv'
  BY <1>8, <1>9 DEF EraseRecord, Poll, GiveUp
<1>10. ASSUME NEW u \in Users, ListItems(u) \/ EraseProfile(u) PROVE EndedInv'
  BY <1>8, <1>10 DEF ListItems, EraseProfile
<1>11. ASSUME NEW i \in Instances, NEW u \in Users, Forget(i, u) PROVE EndedInv'
  BY <1>8, <1>11 DEF Forget
<1>12. CASE UNCHANGED vars
  BY <1>8, <1>12 DEF vars
<1> QED
  BY <1>1, <1>2, <1>3, <1>4, <1>5, <1>6, <1>7, <1>9, <1>10, <1>11, <1>12 DEF Next, Deliver, HandlerStep

(* No more is given back than was taken, when a job that was sent is       *)
(* charged: _run_inline_or_queue records the fee before it is, and only a  *)
(* charge that fails after that makes refund_user_tokens mint tokens.      *)
THEOREM RefundWasChargedCorrect ==
  ASSUME "duplicate" \notin Faults, "late" \notin Faults
  PROVE  Spec /\ SentIsCharged => []RefundWasCharged
<1> DEFINE A == \A r \in Requests : handler[r] = "sent" => handler'[r] \in {"sent", "accepted"}
<1>1. Init => EndedInv
  BY DEF Init, EndedInv
<1>2. LifecycleInv /\ EndedInv /\ [Next]_vars /\ [A]_vars => EndedInv'
  <2> SUFFICES ASSUME LifecycleInv, EndedInv, [Next]_vars, [A]_vars PROVE EndedInv'
    OBVIOUS
  <2>1. CASE A
    BY <2>1, EndedStep
  <2>2. CASE UNCHANGED vars
    BY <2>2 DEF vars, queueVars, workerVars, handlerVars, moneyVars, EndedInv, Running
  <2> QED
    BY <2>1, <2>2
<1>3. TypeOK /\ EndedInv /\ RefundBacked => RefundWasCharged
  <2> SUFFICES ASSUME TypeOK, EndedInv, RefundBacked, NEW r \in Requests,
                      handler[r] \in {"accepted", "refused", "error"}
               PROVE  refunded[r] <= charged[r]
    BY DEF RefundWasCharged
  <2>1. CASE handler[r] = "accepted"
    BY <2>1 DEF RefundBacked
  <2>2. CASE handler[r] # "accepted"
    BY <2>2 DEF EndedInv, TypeOK, MoneyTypeOK
  <2> QED
    BY <2>1, <2>2
<1>4. SentIsCharged <=> [][A]_vars
  BY DEF SentIsCharged
<1> HIDE DEF A
<1> QED
  BY <1>1, <1>2, <1>3, <1>4, TypeCorrect, LifecycleInvariant, RefundBackedCorrect, PTL DEF Spec

LEMMA ListedStep ==
  ASSUME TypeOK, ListedInv, [Next]_vars,
         \A r \in Requests : PutRecord(r) => Owner[r] \notin erasing,
         \A w \in Workers :
           MarkRunning(w) \/ MarkDone(w) \/ MarkFailed(w) => ~Behind(worker[w].job)
  PROVE  ListedInv'
<1> USE DEF recordVars, eraseVars
<1>1. ASSUME UNCHANGED <<status, erasing, doomed>> PROVE ListedInv'
  BY <1>1 DEF ListedInv
<1>2. ASSUME NEW r \in Requests, PutRecord(r) PROVE ListedInv'
  BY <1>2 DEF PutRecord, ListedInv, TypeOK, JobTypeOK
<1>3. ASSUME NEW w \in Workers, MarkRunning(w) \/ MarkDone(w) \/ MarkFailed(w) PROVE ListedInv'
  <2>1. UNCHANGED <<erasing, doomed>> /\ ~Behind(worker[w].job)
    BY <1>3 DEF MarkRunning, MarkDone, MarkFailed
  <2>2. \A q \in Requests : q # worker[w].job => status'[q] = status[q]
    BY <1>3 DEF MarkRunning, MarkDone, MarkFailed, SetStatus, TypeOK, JobTypeOK
  <2> QED
    BY <2>1, <2>2 DEF ListedInv, Behind
<1>4. ASSUME NEW w \in Workers, WorkerStep(w), ~MarkRunning(w), ~MarkDone(w), ~MarkFailed(w)
      PROVE  ListedInv'
  BY <1>1, <1>4 DEF WorkerStep, ReadJob, ReadJobUnless, Compute, StoreResult, RefundFee, Acknowledge
<1>5. ASSUME NEW w \in Workers, Crash(w) PROVE ListedInv'
  BY <1>1, <1>5 DEF Crash
<1>6. ASSUME NEW u \in Users, ListItems(u) PROVE ListedInv'
  <2>1. /\ status' = status /\ erasing' = erasing \cup {u}
        /\ doomed' = doomed \cup {r \in Requests : Owner[r] = u /\ status[r] # "none"}
    BY <1>6 DEF ListItems
  <2> QED
    BY <2>1 DEF ListedInv
<1>7. ASSUME NEW r \in Requests, EraseRecord(r) PROVE ListedInv'
  <2>1. /\ erasing' = erasing /\ doomed' = doomed \ {r} /\ status'[r] = "none"
        /\ \A q \in Requests \ {r} : status'[q] = status[q]
    BY <1>7 DEF EraseRecord, TypeOK, JobTypeOK
  <2> QED
    BY <2>1 DEF ListedInv
<1>8. ASSUME NEW r \in Requests, HandlerStep(r), ~PutRecord(r) PROVE ListedInv'
  BY <1>1, <1>8 DEF HandlerStep, RunInline, StoreRequest, SendMessage, Charge
<1>9. ASSUME NEW r \in Requests,
             Abort(r) \/ Deliver(r) \/ DeadLetter(r) \/ Duplicate(r) \/ Poll(r) \/ GiveUp(r)
      PROVE  ListedInv'
  BY <1>1, <1>9 DEF Abort, Deliver, Receive, DeadLetter, Duplicate, Poll, GiveUp
<1>10. ASSUME NEW u \in Users, EraseProfile(u) PROVE ListedInv'
  BY <1>1, <1>10 DEF EraseProfile
<1>11. ASSUME NEW i \in Instances, NEW u \in Users, Forget(i, u) PROVE ListedInv'
  BY <1>1, <1>11 DEF Forget
<1>12. ASSUME NEW r \in Requests, NEW i \in Instances, Check(r, i) PROVE ListedInv'
  BY <1>1, <1>12 DEF Check
<1>13. CASE UNCHANGED vars
  BY <1>1, <1>13 DEF vars
<1> QED
  BY <1>2, <1>3, <1>4, <1>5, <1>6, <1>7, <1>8, <1>9, <1>10, <1>11, <1>12, <1>13 DEF Next

(* A deletion of an account that is through leaves no job record, under    *)
(* every fault, when none is written behind it: delete_user_data lists     *)
(* once, and set_status writes without a condition (jobs.py).              *)
THEOREM ErasedWithAccountCorrect == Spec /\ RecordsInTime => []ErasedWithAccount
<1> DEFINE A == /\ \A r \in Requests : PutRecord(r) => Owner[r] \notin erasing
                /\ \A w \in Workers :
                     MarkRunning(w) \/ MarkDone(w) \/ MarkFailed(w) => ~Behind(worker[w].job)
<1>1. Init => ListedInv
  BY DEF Init, ListedInv
<1>2. TypeOK /\ ListedInv /\ [Next]_vars /\ [A]_vars => ListedInv'
  <2> SUFFICES ASSUME TypeOK, ListedInv, [Next]_vars, [A]_vars PROVE ListedInv'
    OBVIOUS
  <2>1. CASE A
    BY <2>1, ListedStep
  <2>2. CASE UNCHANGED vars
    BY <2>2 DEF vars, recordVars, eraseVars, ListedInv
  <2> QED
    BY <2>1, <2>2
<1>3. ListedInv => ErasedWithAccount
  BY DEF ListedInv, ErasedWithAccount, Erased
<1>4. RecordsInTime <=> [][A]_vars
  BY DEF RecordsInTime
<1> HIDE DEF A
<1> QED
  BY <1>1, <1>2, <1>3, <1>4, TypeCorrect, PTL DEF Spec

-----------------------------------------------------------------------------
(* TokensAccounted.  What a step does to the balances and to the ledger:   *)
(* nothing, or it charges or refunds one request.                          *)
Calm == UNCHANGED <<tokens, charged, refunded>>
Moved(r) ==
  /\ \A u \in Users \ {Owner[r]} : tokens'[u] = tokens[u]
  /\ \A q \in Requests \ {r} : Untouched(q)
  /\ tokens'[Owner[r]] + charged'[r] + refunded[r] = tokens[Owner[r]] + charged[r] + refunded'[r]

LEMMA ChargeMoves ==
  ASSUME TypeOK, LedgerInv, NEW r \in Requests, Charge(r)
  PROVE  Calm \/ Moved(r)
<1>t. /\ tokens \in [Users -> Nat] /\ charged \in [Requests -> Nat] /\ refunded \in [Requests -> Nat]
      /\ Owner[r] \in Users /\ Cost(r) \in Nat
  BY CostType, JobsAssumption DEF TypeOK, TokensTypeOK, MoneyTypeOK
<1>1. refunded' = refunded
  BY DEF Charge
<1>2. CASE UNCHANGED <<tokens, charged>>
  BY <1>1, <1>2 DEF Calm
<1>3. CASE Deduct(Owner[r], Cost(r)) /\ charged' = [charged EXCEPT ![r] = Cost(r)]
  <2>1. charged[r] = 0 /\ charged'[r] = Cost(r) /\ \A q \in Requests \ {r} : charged'[q] = charged[q]
    BY <1>t, <1>3 DEF Charge, LedgerInv
  <2>2. /\ tokens[Owner[r]] >= Cost(r) /\ tokens'[Owner[r]] = tokens[Owner[r]] - Cost(r)
        /\ \A u \in Users \ {Owner[r]} : tokens'[u] = tokens[u]
    BY <1>t, <1>3 DEF Deduct, CanDeduct
  <2>3. tokens'[Owner[r]] + charged'[r] = tokens[Owner[r]] + charged[r]
    BY <1>t, <2>1, <2>2
  <2> QED
    BY <1>t, <1>1, <2>1, <2>2, <2>3 DEF Moved, Untouched
<1> QED
  BY <1>2, <1>3 DEF Charge, tokenVars

LEMMA RefundMoves ==
  ASSUME TypeOK, NEW w \in Workers, RefundFee(w), NEW r \in Requests, r = worker[w].job
  PROVE  Calm \/ Moved(r)
<1>t. /\ tokens \in [Users -> Nat] /\ charged \in [Requests -> Nat] /\ refunded \in [Requests -> Nat]
      /\ Owner[r] \in Users /\ worker[w].fee \in Nat
  BY JobsAssumption, WorkerFacts DEF TypeOK, TokensTypeOK, MoneyTypeOK, WorkerTypeOK
<1>1. charged' = charged
  BY DEF RefundFee
<1>2. CASE UNCHANGED <<tokens, refunded>>
  BY <1>1, <1>2 DEF Calm
<1>3. CASE Refund(Owner[r], worker[w].fee) /\ refunded' = [refunded EXCEPT ![r] = @ + worker[w].fee]
  <2>1. /\ refunded'[r] = refunded[r] + worker[w].fee
        /\ \A q \in Requests \ {r} : refunded'[q] = refunded[q]
    BY <1>t, <1>3
  <2>2. /\ tokens'[Owner[r]] = tokens[Owner[r]] + worker[w].fee
        /\ \A u \in Users \ {Owner[r]} : tokens'[u] = tokens[u]
    BY <1>t, <1>3 DEF Refund
  <2> QED
    BY <1>t, <1>1, <2>1, <2>2 DEF Moved, Untouched
<1> QED
  BY <1>2, <1>3 DEF RefundFee, tokenVars

LEMMA EveryStepMoves ==
  ASSUME TypeOK, LedgerInv, [Next]_vars
  PROVE  \/ Calm
         \/ \E r \in Requests : Moved(r)
         \/ \E u \in Users : EraseProfile(u)
<1> USE DEF Calm, tokenVars, moneyVars
<1>1. ASSUME NEW r \in Requests, NEW i \in Instances, Check(r, i) PROVE Calm
  BY <1>1 DEF Check, RememberProfile
<1>2. ASSUME NEW r \in Requests, HandlerStep(r), ~Charge(r) PROVE Calm
  BY <1>2 DEF HandlerStep, RunInline, StoreRequest, PutRecord, SendMessage
<1>3. ASSUME NEW r \in Requests,
             Abort(r) \/ Deliver(r) \/ DeadLetter(r) \/ Duplicate(r) \/ EraseRecord(r) \/ Poll(r) \/ GiveUp(r)
      PROVE  Calm
  BY <1>3 DEF Abort, Deliver, Receive, DeadLetter, Duplicate, EraseRecord, Poll, GiveUp
<1>4. ASSUME NEW w \in Workers, WorkerStep(w) \/ Crash(w), ~RefundFee(w) PROVE Calm
  BY <1>4 DEF WorkerStep, ReadJob, ReadJobUnless, MarkRunning, Compute, StoreResult, MarkDone, MarkFailed,
              Acknowledge, Crash
<1>5. ASSUME NEW u \in Users, ListItems(u) PROVE Calm
  BY <1>5 DEF ListItems
<1>6. ASSUME NEW i \in Instances, NEW u \in Users, Forget(i, u) PROVE Calm
  BY <1>6 DEF Forget, ForgetProfile
<1>7. CASE UNCHANGED vars
  BY <1>7 DEF vars
<1>8. ASSUME NEW w \in Workers, RefundFee(w) PROVE Calm \/ \E r \in Requests : Moved(r)
  <2>1. PICK r \in Requests : r = worker[w].job
    BY <1>8, WorkerStepFacts DEF WorkerStep
  <2> QED
    BY <1>8, <2>1, RefundMoves
<1> HIDE DEF Calm
<1> QED
  BY <1>1, <1>2, <1>3, <1>4, <1>5, <1>6, <1>7, <1>8, ChargeMoves DEF Next

(* No token is made or lost under any fault: deduct_user_tokens and        *)
(* refund_user_tokens move what the ledger of one request says, and        *)
(* nothing else changes the balance of a profile that exists.              *)
THEOREM TokensAccountedCorrect == Spec => TokensAccounted
<1> DEFINE Own(u) == {r \in Requests : Owner[r] = u}
           A == \A u \in accounts' :
                  \/ tokens'[u] = tokens[u] /\ \A r \in Own(u) : Untouched(r)
                  \/ \E r \in Own(u) :
                       /\ tokens'[u] + charged'[r] + refunded[r] = tokens[u] + charged[r] + refunded'[r]
                       /\ \A q \in Own(u) \ {r} : Untouched(q)
<1>1. TypeOK /\ TypeOK' /\ LedgerInv /\ [Next]_vars => [A]_vars
  <2> SUFFICES ASSUME TypeOK, TypeOK', LedgerInv, [Next]_vars, NEW u \in accounts'
               PROVE  \/ tokens'[u] = tokens[u] /\ \A r \in Own(u) : Untouched(r)
                      \/ \E r \in Own(u) :
                           /\ tokens'[u] + charged'[r] + refunded[r] = tokens[u] + charged[r] + refunded'[r]
                           /\ \A q \in Own(u) \ {r} : Untouched(q)
    OBVIOUS
  <2>t. u \in Users
    BY DEF TypeOK, TokensTypeOK
  <2>1. CASE Calm
    BY <2>1 DEF Calm, Untouched
  <2>2. ASSUME NEW r \in Requests, Moved(r), Owner[r] = u
        PROVE  \E q \in Own(u) :
                 /\ tokens'[u] + charged'[q] + refunded[q] = tokens[u] + charged[q] + refunded'[q]
                 /\ \A p \in Own(u) \ {q} : Untouched(p)
    BY <2>2 DEF Moved
  <2>3. ASSUME NEW r \in Requests, Moved(r), Owner[r] # u
        PROVE  tokens'[u] = tokens[u] /\ \A q \in Own(u) : Untouched(q)
    BY <2>t, <2>3 DEF Moved
  <2>4. ASSUME NEW v \in Users, EraseProfile(v)
        PROVE  tokens'[u] = tokens[u] /\ \A q \in Own(u) : Untouched(q)
    <3>1. u # v /\ tokens' = [tokens EXCEPT ![v] = 0] /\ UNCHANGED <<charged, refunded>>
      BY <2>4 DEF EraseProfile, RemoveProfile, moneyVars
    <3>2. tokens'[u] = tokens[u]
      BY <2>t, <3>1 DEF TypeOK, TokensTypeOK
    <3> QED
      BY <3>1, <3>2 DEF Untouched
  <2> QED
    BY <2>1, <2>2, <2>3, <2>4, EveryStepMoves
<1>2. TokensAccounted <=> [][A]_vars
  BY DEF TokensAccounted
<1> HIDE DEF A
<1> QED
  BY <1>1, <1>2, TypeCorrect, LedgerInvariant, PTL DEF Spec

-----------------------------------------------------------------------------
(* Implementation of JobPromise.                                           *)

LEMMA PromiseInit == Init => Promise!Init
BY DEF Init, Promise!Init

(* A step of a worker is a step of its job, its refund, or a stutter.      *)
LEMMA PromiseWorker ==
  ASSUME LifecycleInv, NoErasure, NEW w \in Workers, WorkerStep(w)
  PROVE  [Promise!Next]_Promise!vars
<1>0. PICK j \in Requests : j = worker[w].job /\ Busy(w)
  BY WorkerStepFacts DEF LifecycleInv
<1> USE DEF recordVars, moneyVars, SetStatus
<1>1. CASE ReadJob(w) \/ Compute(w) \/ StoreResult(w) \/ Acknowledge(w)
  BY <1>1 DEF ReadJob, ReadJobUnless, Compute, StoreResult, Acknowledge, Promise!vars
<1>2. CASE MarkRunning(w)
  <2>1. Promise!Start(j)
    BY <1>0, <1>2 DEF MarkRunning, LifecycleInv, StageInv, NoErasure, Gone, Promise!Start, Promise!Move
  <2> QED
    BY <1>0, <2>1 DEF Promise!Next
<1>3. CASE MarkDone(w)
  <2>1. status[j] = "running" /\ UNCHANGED <<charged, refunded>>
    BY <1>0, <1>3 DEF MarkDone, LifecycleInv, StageInv, NoErasure, Gone, At
  <2>2. Promise!Finish(j) \/ UNCHANGED status
    BY <1>0, <1>3, <2>1 DEF MarkDone, Promise!Finish, Promise!Move
  <2> QED
    BY <1>0, <2>1, <2>2 DEF Promise!Next, Promise!vars
<1>4. CASE MarkFailed(w)
  <2>1. Promise!Fail(j)
    BY <1>0, <1>4 DEF MarkFailed, LifecycleInv, StageInv, NoErasure, Gone, At, Promise!Fail, Promise!Move
  <2> QED
    BY <1>0, <2>1 DEF Promise!Next
<1>5. CASE RefundFee(w)
  <2>1. /\ status[j] = "failed" /\ refunded[j] = 0
        /\ worker[w].fee \in Nat /\ worker[w].fee > 0
        /\ refunded \in [Requests -> Nat]
    BY <1>0, <1>5
       DEF RefundFee, LifecycleInv, StageInv, RefundInv, NoErasure, Gone, At, TypeOK, WorkerTypeOK, MoneyTypeOK
  <2>2. CASE UNCHANGED refunded
    BY <1>5, <2>2 DEF RefundFee, Promise!vars
  <2>3. CASE refunded' = [refunded EXCEPT ![j] = @ + worker[w].fee]
    <3>1. {q \in Requests : refunded'[q] > 0} = {q \in Requests : refunded[q] > 0} \cup {j}
      BY <1>0, <2>1, <2>3
    <3>2. j \notin {q \in Requests : refunded[q] > 0}
      BY <2>1
    <3>3. Promise!GiveBack(j)
      BY <1>0, <1>5, <2>1, <3>1, <3>2 DEF RefundFee, Promise!GiveBack
    <3> QED
      BY <1>0, <3>3 DEF Promise!Next
  <2> QED
    BY <1>0, <1>5, <2>2, <2>3 DEF RefundFee
<1> QED
  BY <1>1, <1>2, <1>3, <1>4, <1>5 DEF WorkerStep

(* A step of a handler submits a job, charges a request, or is a stutter.  *)
LEMMA PromiseHandler ==
  ASSUME LifecycleInv, LedgerInv, NEW r \in Requests, HandlerStep(r)
  PROVE  [Promise!Next]_Promise!vars
<1> USE DEF recordVars, moneyVars, HandlerAt
<1>1. CASE RunInline(r) \/ StoreRequest(r) \/ SendMessage(r)
  BY <1>1 DEF RunInline, StoreRequest, SendMessage, Promise!vars
<1>2. CASE PutRecord(r)
  <2>1. Promise!Submit(r)
    BY <1>2 DEF PutRecord, LifecycleInv, StageInv, Promise!Submit, Promise!Move
  <2> QED
    BY <2>1 DEF Promise!Next
<1>3. CASE Charge(r)
  <2>1. charged[r] = 0 /\ charged \in [Requests -> Nat]
    BY <1>3 DEF Charge, LifecycleInv, LedgerInv, TypeOK, MoneyTypeOK
  <2>2. CASE UNCHANGED charged
    BY <1>3, <2>2 DEF Charge, Promise!vars
  <2>3. CASE charged' = [charged EXCEPT ![r] = Cost(r)]
    <3>1. {q \in Requests : charged'[q] > 0} = {q \in Requests : charged[q] > 0} \cup {r}
      BY <2>1, <2>3, CostType
    <3>2. r \notin {q \in Requests : charged[q] > 0}
      BY <2>1
    <3>3. Promise!Pay(r)
      BY <1>3, <3>1, <3>2 DEF Charge, Promise!Pay
    <3> QED
      BY <3>3 DEF Promise!Next
  <2> QED
    BY <1>3, <2>2, <2>3 DEF Charge
<1> QED
  BY <1>1, <1>2, <1>3 DEF HandlerStep

(* The job endpoints implement JobPromise: what users and their balances   *)
(* see is a job that is charged, run and refunded at most once, through    *)
(* every crash and retry, and even if a refused charge came too late.      *)
THEOREM KeepsPromiseCorrect ==
  ASSUME "duplicate" \notin Faults, "erase" \notin Faults
  PROVE  Spec => KeepsPromise
<1>1. LifecycleInv /\ NoErasure /\ LedgerInv /\ [Next]_vars => [Promise!Next]_Promise!vars
  <2> SUFFICES ASSUME LifecycleInv, NoErasure, LedgerInv, [Next]_vars
               PROVE  [Promise!Next]_Promise!vars
    OBVIOUS
  <2>1. CASE \E r \in Requests : HandlerStep(r)
    BY <2>1, PromiseHandler
  <2>2. CASE \E w \in Workers : WorkerStep(w)
    BY <2>2, PromiseWorker
  <2>3. CASE ~(\E r \in Requests : HandlerStep(r)) /\ ~(\E w \in Workers : WorkerStep(w))
    <3>1. UNCHANGED <<status, charged, refunded>>
      BY <2>3 DEF NoErasure, Next, vars, recordVars, moneyVars, Deliver, Check, Abort, Receive,
         DeadLetter, Duplicate, EraseRecord, Poll, GiveUp, Crash, ListItems, EraseProfile, Forget
    <3> QED
      BY <3>1 DEF Promise!vars
  <2> QED
    BY <2>1, <2>2, <2>3
<1> QED
  BY <1>1, PromiseInit, LifecycleInvariant, NoErasureInvariant, LedgerInvariant, PTL
     DEF Spec, KeepsPromise, Promise!Spec
=============================================================================
