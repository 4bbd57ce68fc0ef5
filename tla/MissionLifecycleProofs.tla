----------------------- MODULE MissionLifecycleProofs -----------------------
(***************************************************************************)
(* Theorems about MissionLifecycle, for every set of occurrences, children *)
(* and requests and every policy: types, coins, and then the worker's half *)
(* (the reminder goes out once, a mission that waits for the child keeps   *)
(* its mark-missed check and is marked missed once).                       *)
(***************************************************************************)
EXTENDS MissionLifecycle, FiniteSetsExt, FiniteSetTheorems, WellFoundedInduction, TLAPS

LEMMA SetType ==
  ASSUME TypeOK, NEW r \in Request, NEW local \in Calls \cup Finished, Set(r, local)
  PROVE  req' \in [Request -> {Idle} \cup Calls \cup Finished]
BY DEF TypeOK, Set

LEMMA GotoType ==
  ASSUME TypeOK, NEW r \in Request, req[r].pc \in SnoozePc \cup VerdictPc,
         NEW pc \in SnoozePc \cup VerdictPc, Goto(r, pc)
  PROVE  req' \in [Request -> {Idle} \cup Calls \cup Finished]
<1>1. req[r] \in Calls
  BY DEF TypeOK, Finished, Idle, SnoozePc, VerdictPc
<1>2. [req[r] EXCEPT !.pc = pc] \in Calls
  BY <1>1 DEF Calls
<1>3. QED
  BY <1>2, SetType DEF Goto

LEMMA FinishType ==
  ASSUME TypeOK, NEW r \in Request, req[r].pc \in SnoozePc \cup VerdictPc, Finish(r)
  PROVE  req' \in [Request -> {Idle} \cup Calls \cup Finished]
<1>1. req[r] \in Calls
  BY DEF TypeOK, Finished, Idle, SnoozePc, VerdictPc
<1>2. [pc |-> "done", op |-> req[r].op, occ |-> req[r].occ] \in Finished
  BY <1>1 DEF Calls, Finished
<1>3. QED
  BY <1>2, SetType DEF Finish

LEMMA BeginType ==
  ASSUME TypeOK, NEW r \in Request, NEW call \in [
           pc: SnoozePc \cup VerdictPc, op: {"snooze", "done", "proof", "approve", "reject"}, occ: Occurrence, minutes: Nat,
           proof: ProofType, rounds: {1, 2}, target: Status, until: Nat], Begin(r, call)
  PROVE  req' \in [Request -> {Idle} \cup Calls \cup Finished]
<1>1. call \in Calls
  BY DEF Begin, Calls
<1>2. QED
  BY <1>1, SetType DEF Begin

LEMMA WorkerType ==
  ASSUME TypeOK, worker.pc \in {"notify", "arm", "remind", "fail", "ack"}
  PROVE  /\ worker \in Runs
         /\ \A pc \in {"arm", "remind", "ack"} : [worker EXCEPT !.pc = pc] \in Runs
<1>1. worker \in Runs
  BY DEF TypeOK, Expansions, Idle
<1>2. QED
  BY <1>1 DEF Runs

LEMMA JobType ==
  ASSUME NEW kind \in {"notify", "missed"}, NEW o \in Occurrence, NEW at \in Nat
  PROVE  NewJob(kind, o, at) \in Job
BY DEF NewJob, Job, MaxAttempts

(* The steps of a request keep the type invariant. *)
LEMMA RequestType ==
  ASSUME TypeOK, NEW r \in Request, RequestStart(r) \/ RequestStep(r) \/ RequestFault(r)
  PROVE  TypeOK'
<1> USE LifecycleAssumption DEF coinVars, jobVars
<1>1. ASSUME NEW o \in Occurrence, NEW m \in Minutes, RequestSnooze(r, o, m) PROVE TypeOK'
  BY <1>1, BeginType DEF RequestSnooze, TypeOK, Call, SnoozePc, ProofType, Status
<1>2. ASSUME NEW o \in Occurrence, NEW op \in {"done", "proof"}, NEW p \in ProofType,
             SubmitProof(r, op, o, p)
      PROVE  TypeOK'
  <2>1. [Call("proof", op, o) EXCEPT !.proof = p, !.rounds = IF op = "done" THEN 2 ELSE 1]
          \in [pc: SnoozePc \cup VerdictPc, op: {"snooze", "done", "proof", "approve", "reject"},
               occ: Occurrence, minutes: Nat, proof: ProofType, rounds: {1, 2},
               target: Status, until: Nat]
    BY DEF Call, VerdictPc, Status
  <2>2. req' \in [Request -> {Idle} \cup Calls \cup Finished]
    BY <1>2, <2>1, BeginType DEF SubmitProof
  <2>3. QED
    BY <1>2, <2>2 DEF SubmitProof, TypeOK
<1>3. ASSUME NEW o \in Occurrence, NEW op \in {"approve", "reject"}, ParentReview(r, op, o)
      PROVE  TypeOK'
  BY <1>3, BeginType DEF ParentReview, TypeOK, Call, VerdictPc, ProofType, Status
<1> DEFINE busy == req[r].pc \in SnoozePc \cup VerdictPc
<1>4. busy => req[r] \in Calls
  BY DEF TypeOK, Finished, Idle, SnoozePc, VerdictPc
<1>5. CASE CountSnoozes(r)
  <2>1. req[r].pc = "count" /\ busy
    BY <1>5 DEF CountSnoozes, SnoozePc
  <2>2. now + req[r].minutes \in Nat
    BY <1>4, <2>1 DEF TypeOK, Calls
  <2>3. [req[r] EXCEPT !.pc = "commit", !.until = now + req[r].minutes] \in Calls
    BY <1>4, <2>1, <2>2 DEF Calls, SnoozePc
  <2>4. req' \in [Request -> {Idle} \cup Calls \cup Finished]
    <3>1. CASE Goto(r, "alert") \/ Goto(r, "deny")
      BY <3>1, <2>1, GotoType DEF SnoozePc
    <3>2. CASE Set(r, [req[r] EXCEPT !.pc = "commit", !.until = now + req[r].minutes])
      BY <3>2, <2>3, SetType
    <3>3. QED
      BY <1>5, <3>1, <3>2 DEF CountSnoozes
  <2>5. QED
    BY <1>5, <2>4 DEF CountSnoozes, TypeOK
<1>6. CASE LimitAlert(r)
  <2>1. busy
    BY <1>6 DEF LimitAlert, SnoozePc
  <2>2. req' \in [Request -> {Idle} \cup Calls \cup Finished]
    BY <1>6, <2>1, GotoType DEF LimitAlert, SnoozePc
  <2>3. [alerts[req[r].occ] EXCEPT !.limit = @ + 1] \in [missed: Nat, limit: Nat]
    BY <1>4, <2>1 DEF TypeOK, Calls
  <2>4. alerts' \in [Occurrence -> [missed: Nat, limit: Nat]]
    BY <1>6, <2>3 DEF LimitAlert, TypeOK
  <2>5. QED
    BY <1>4, <1>6, <2>1, <2>2, <2>4 DEF LimitAlert, TypeOK, Calls
<1>7. CASE RecordDeniedSnooze(r)
  <2>1. busy
    BY <1>7 DEF RecordDeniedSnooze, SnoozePc
  <2>2. req' \in [Request -> {Idle} \cup Calls \cup Finished]
    BY <1>7, <2>1, FinishType DEF RecordDeniedSnooze
  <2>3. [snoozes[req[r].occ] EXCEPT !.denied = @ + 1] \in [approved: Nat, denied: Nat]
    BY <1>4, <2>1 DEF TypeOK, Calls
  <2>4. snoozes' \in [Occurrence -> [approved: Nat, denied: Nat]]
    BY <1>7, <2>3 DEF RecordDeniedSnooze, TypeOK
  <2>5. QED
    BY <1>4, <1>7, <2>1, <2>2, <2>4 DEF RecordDeniedSnooze, TypeOK, Calls
<1>8. CASE CommitSnooze(r)
  <2>1. busy
    BY <1>8 DEF CommitSnooze, SnoozePc
  <2>2. req' \in [Request -> {Idle} \cup Calls \cup Finished]
    BY <1>8, <2>1, FinishType DEF CommitSnooze
  <2>3. [snoozes[req[r].occ] EXCEPT !.approved = @ + 1] \in [approved: Nat, denied: Nat]
    BY <1>4, <2>1 DEF TypeOK, Calls
  <2>4. snoozes' \in [Occurrence -> [approved: Nat, denied: Nat]]
    BY <1>8, <2>3 DEF CommitSnooze, TypeOK
  <2>5. QED
    BY <1>4, <1>8, <2>1, <2>2, <2>4 DEF CommitSnooze, TypeOK, Calls, Status
<1>9. CASE CreateProof(r)
  <2>1. busy
    BY <1>9 DEF CreateProof, VerdictPc
  <2>2. QED
    BY <1>4, <1>9, <2>1, GotoType DEF CreateProof, TypeOK, Calls, VerdictPc
<1>10. CASE Evaluate(r)
  <2>1. busy
    BY <1>10 DEF Evaluate, VerdictPc
  <2>2. Verdict(req[r].occ) \in Status
    BY DEF Verdict, Status
  <2>3. [req[r] EXCEPT !.pc = "save", !.target = Verdict(req[r].occ)] \in Calls
    BY <1>4, <2>1, <2>2 DEF Calls, VerdictPc
  <2>4. QED
    BY <1>10, <2>3, SetType DEF Evaluate, TypeOK
<1>11. ASSUME busy, AfterVerdict(r)
       PROVE  req' \in [Request -> {Idle} \cup Calls \cup Finished]
  <2>1. [req[r] EXCEPT !.pc = "evaluate", !.rounds = 1] \in Calls
    BY <1>4, <1>11 DEF Calls, VerdictPc
  <2>2. QED
    BY <1>11, <2>1, FinishType, SetType DEF AfterVerdict
<1>12. CASE SaveVerdict(r)
  <2>1. busy
    BY <1>12 DEF SaveVerdict, VerdictPc
  <2>2. req' \in [Request -> {Idle} \cup Calls \cup Finished]
    BY <1>11, <1>12, <2>1, GotoType DEF SaveVerdict, Complete, VerdictPc
  <2>3. completedAt' \subseteq Occurrence
    BY <1>4, <1>12, <2>1 DEF SaveVerdict, Complete, TypeOK, Calls
  <2>4. status' \in [Occurrence -> Status]
    BY <1>4, <1>12, <2>1 DEF SaveVerdict, TypeOK, Calls
  <2>5. QED
    BY <1>12, <2>2, <2>3, <2>4 DEF SaveVerdict, TypeOK
<1>13. CASE AwardCoinsOnce(r)
  <2>1. busy
    BY <1>13 DEF AwardCoinsOnce, VerdictPc
  <2>2. req[r].occ \in Occurrence /\ Policy[req[r].occ].coins \in Nat
    BY <1>4, <2>1 DEF Calls, Policies
  <2>3. ledger' \in [Occurrence -> Nat] /\ balance' \in [Child -> Nat]
    <3>1. Award(req[r].occ) /\ ChildOf[req[r].occ] \in Child
      BY <1>13, <2>2 DEF AwardCoinsOnce
    <3>2. CASE UNCHANGED coinVars
      BY <3>2 DEF TypeOK
    <3>3. CASE /\ ledger' = [ledger EXCEPT ![req[r].occ] = @ + 1]
               /\ balance' = [balance EXCEPT ![ChildOf[req[r].occ]] = @ + Policy[req[r].occ].coins]
      BY <2>2, <3>1, <3>3 DEF TypeOK
    <3>4. QED
      BY <3>1, <3>2, <3>3 DEF Award
  <2>4. QED
    BY <1>11, <1>13, <2>1, <2>3 DEF AwardCoinsOnce, TypeOK
<1>14. CASE RequestFault(r)
  <2>1. busy
    BY <1>14 DEF RequestFault, TypeOK, Calls, Finished, Idle
  <2>2. QED
    BY <1>14, <2>1, FinishType DEF RequestFault, TypeOK
<1>15. QED
  BY <1>1, <1>2, <1>3, <1>5, <1>6, <1>7, <1>8, <1>9, <1>10, <1>12, <1>13, <1>14
     DEF RequestStart, RequestStep

(* The steps of the worker and of the clock keep the type invariant. *)
LEMMA WorkerStepType ==
  ASSUME TypeOK, WorkerStep \/ JobThrows \/ WorkerCrash \/ Tick
  PROVE  TypeOK'
<1> USE LifecycleAssumption DEF coinVars, jobVars, dbVars
<1>1. CASE ListScheduled
  BY <1>1 DEF ListScheduled, TypeOK, Expansions, Upcoming
<1>2. CASE EnqueueNotify
  <2>1. worker \in Expansions
    BY <1>2 DEF EnqueueNotify, TypeOK, Runs, Idle
  <2>2. PICK o \in worker.list :
          /\ QueueAdd(NewJob("notify", o, ScheduledFor[o]))
          /\ worker' = IF worker.list = {o} THEN Idle
                       ELSE [worker EXCEPT !.list = @ \ {o}]
    BY <1>2 DEF EnqueueNotify
  <2>3. queue' \subseteq Job
    BY <2>1, <2>2, JobType DEF QueueAdd, TypeOK, Expansions
  <2>4. [worker EXCEPT !.list = @ \ {o}] \in Expansions
    BY <2>1 DEF Expansions
  <2>5. QED
    BY <1>2, <2>2, <2>3, <2>4 DEF EnqueueNotify, TypeOK
<1>3. ASSUME NEW job \in queue, TakeNotify(job) PROVE TypeOK'
  <2>1. [pc |-> "notify", job |-> job, until |-> now + NotifyDeadline] \in Runs
    BY <1>3 DEF TypeOK, Runs
  <2>2. QED
    BY <1>3, <2>1 DEF TakeNotify, Take, TypeOK
<1>4. ASSUME NEW job \in queue, TakeMissed(job) PROVE TypeOK'
  <2>1. job \in Job /\ job.occ \in Occurrence
    BY DEF TypeOK, Job
  <2>2. [pc |-> "fail", job |-> job, until |-> now] \in Runs
    BY <2>1 DEF TypeOK, Runs
  <2>3. Postponed(job.occ) => [pc |-> "arm", job |-> job, until |-> deadline[job.occ]] \in Runs
    BY <2>1 DEF Postponed, TypeOK, Runs, NoTime
  <2>4. QED
    BY <1>4, <2>2, <2>3 DEF TakeMissed, Take, TypeOK
<1> DEFINE run == worker \in Runs /\ worker.job \in Job /\ worker.job.occ \in Occurrence
                  /\ worker.until \in Nat
<1>5. worker.pc \in {"notify", "arm", "remind", "fail", "ack"} => run
  BY WorkerType DEF Runs, Job
<1>6. CASE MarkNotified
  <2>1. run /\ [worker EXCEPT !.pc = "arm"] \in Runs
    BY <1>5, <1>6, WorkerType DEF MarkNotified
  <2>2. QED
    BY <1>6, <2>1 DEF MarkNotified, AfterNotified, TypeOK, Status
<1>7. CASE EnqueueMarkMissed
  <2>1. run /\ \A pc \in {"remind", "ack"} : [worker EXCEPT !.pc = pc] \in Runs
    BY <1>5, <1>7, WorkerType DEF EnqueueMarkMissed
  <2>2. QED
    BY <1>7, <2>1, JobType DEF EnqueueMarkMissed, QueueAdd, TypeOK
<1>8. CASE SendReminder
  <2>1. run /\ [worker EXCEPT !.pc = "ack"] \in Runs
    BY <1>5, <1>8, WorkerType DEF SendReminder
  <2>2. QED
    BY <1>8, <2>1 DEF SendReminder, TypeOK
<1>9. CASE FailMissed
  <2>1. run /\ [worker EXCEPT !.pc = "ack"] \in Runs
    BY <1>5, <1>9, WorkerType DEF FailMissed
  <2>2. [alerts[worker.job.occ] EXCEPT !.missed = @ + 1] \in [missed: Nat, limit: Nat]
    BY <2>1 DEF TypeOK
  <2>3. alerts' \in [Occurrence -> [missed: Nat, limit: Nat]]
    BY <1>9, <2>2 DEF FailMissed, TypeOK
  <2>4. QED
    BY <1>9, <2>1, <2>3 DEF FailMissed, FailedStatus, TypeOK, Status
<1>10. CASE JobThrows \/ WorkerCrash
  <2>1. worker.pc # "expanding" => run
    BY <1>5, <1>10 DEF JobThrows, WorkerCrash, TypeOK, Runs, Expansions, Idle
  <2>2. run /\ worker.job.tries + 1 < MaxAttempts => [worker.job EXCEPT !.tries = @ + 1] \in Job
    <3>1. ASSUME NEW job \in Job, job.tries + 1 < MaxAttempts
          PROVE  job.tries + 1 \in 0..(MaxAttempts - 1)
      BY <3>1 DEF Job, MaxAttempts
    <3>2. QED
      BY <3>1 DEF Job
  <2>3. run => [worker.job EXCEPT !.stalled = TRUE] \in Job
    BY DEF Job
  <2>4. queue' \subseteq Job /\ dead' \subseteq Job
    BY <1>10, <2>1, <2>2, <2>3 DEF JobThrows, WorkerCrash, TypeOK
  <2>5. QED
    BY <1>10, <2>4 DEF JobThrows, WorkerCrash, TypeOK
<1>11. CASE Tick
  BY <1>11 DEF Tick, TypeOK
<1>12. CASE JobDone
  BY <1>12 DEF JobDone, TypeOK
<1>13. QED
  BY <1>1, <1>2, <1>3, <1>4, <1>6, <1>7, <1>8, <1>9, <1>10, <1>11, <1>12 DEF WorkerStep

(* The shape of the database, the queue and every handler is kept by every    *)
(* step, whatever the policies and however the requests interleave.           *)
THEOREM TypeCorrect == Spec => []TypeOK
<1>1. Init => TypeOK
  BY LifecycleAssumption DEF Init, TypeOK, Status, NoTime
<1>2. TypeOK /\ [Next]_vars => TypeOK'
  <2>1. TypeOK /\ UNCHANGED vars => TypeOK'
    BY DEF TypeOK, vars
  <2>2. QED
    BY <2>1, RequestType, WorkerStepType DEF Next
<1>3. QED
  BY <1>1, <1>2, PTL DEF Spec

-----------------------------------------------------------------------------
(***************************************************************************)
(* Coins.  The award trusts a row it read earlier, so the invariant must   *)
(* follow the verdict through the handler: a request about to save         *)
(* `completed`, or about to pay, has its ground in the database already,   *)
(* and proofs and approvals are never taken back.                          *)
(***************************************************************************)
Ground(o) == Passed(o) \/ Called(o, "approve")

CoinInv ==
  /\ PaidWhenEarned
  /\ \A r \in Request :
       /\ req[r].pc = "save" /\ req[r].target = "completed" => Ground(req[r].occ)
       /\ req[r].pc = "award" => Ground(req[r].occ) /\ req[r].occ \in completedAt

LEMMA BusyCall ==
  ASSUME TypeOK, NEW r \in Request, req[r].pc \in SnoozePc \cup VerdictPc
  PROVE  req[r] \in Calls /\ req[r] # Idle
BY DEF TypeOK, Finished, Idle, SnoozePc, VerdictPc

LEMMA IdlePc ==
  ASSUME TypeOK, NEW r \in Request
  PROVE  req[r] = Idle <=> req[r].pc = "idle"
<1>1. req[r] \in {Idle} \cup Calls \cup Finished
  BY DEF TypeOK
<1>2. \A c \in Calls : c.pc # "idle"
  BY DEF Calls, SnoozePc, VerdictPc
<1>3. \A c \in Finished : c.pc # "idle"
  BY DEF Finished
<1>4. Idle.pc = "idle"
  BY DEF Idle
<1>5. QED
  BY <1>1, <1>2, <1>3, <1>4

(* A request keeps its operation and its occurrence once it has begun.        *)
LEMMA CallKept ==
  ASSUME TypeOK, TypeOK', [Next]_vars, NEW r \in Request, req[r] # Idle
  PROVE  req'[r] # Idle /\ req'[r].op = req[r].op /\ req'[r].occ = req[r].occ
<1>1. CASE UNCHANGED req
  BY <1>1
<1>2. ASSUME NEW q \in Request, RequestStart(q) PROVE req'[r] = req[r]
  BY <1>2 DEF RequestStart, RequestSnooze, SubmitProof, ParentReview, Begin, Set, TypeOK
<1>3. ASSUME NEW q \in Request, RequestStep(q) \/ RequestFault(q)
      PROVE  /\ req'[r].op = req[r].op /\ req'[r].occ = req[r].occ
             /\ req'[r].pc # "idle"
  <2>1. req[r].pc # "idle" /\ DOMAIN req = Request
    BY IdlePc DEF TypeOK
  <2>2. req[q] \in Calls
    BY <1>3, BusyCall, IdlePc DEF RequestStep, RequestFault, CountSnoozes, LimitAlert,
       RecordDeniedSnooze, CommitSnooze, CreateProof, Evaluate, SaveVerdict,
       AwardCoinsOnce, SnoozePc, VerdictPc, TypeOK, Finished, Calls
  <2>3. ASSUME NEW local, Set(q, local), local.pc # "idle",
               local.op = req[q].op, local.occ = req[q].occ
        PROVE  /\ req'[r].op = req[r].op /\ req'[r].occ = req[r].occ
               /\ req'[r].pc # "idle"
    BY <2>1, <2>3 DEF Set
  <2>4. ASSUME NEW pc \in {"alert", "deny", "evaluate", "award"}, Goto(q, pc)
        PROVE  /\ req'[r].op = req[r].op /\ req'[r].occ = req[r].occ
               /\ req'[r].pc # "idle"
    BY <2>2, <2>3, <2>4 DEF Goto, Calls
  <2>5. CASE Finish(q)
    BY <2>3, <2>5 DEF Finish
  <2>6. CASE AfterVerdict(q)
    BY <2>2, <2>3, <2>5, <2>6 DEF AfterVerdict, Calls
  <2>7. CASE CountSnoozes(q)
    BY <2>2, <2>3, <2>4, <2>7 DEF CountSnoozes, Calls
  <2>8. CASE Evaluate(q)
    BY <2>2, <2>3, <2>8 DEF Evaluate, Calls
  <2>9. QED
    BY <1>3, <2>4, <2>5, <2>6, <2>7, <2>8 DEF RequestStep, RequestFault, LimitAlert,
       RecordDeniedSnooze, CommitSnooze, CreateProof, SaveVerdict, Complete, AwardCoinsOnce
<1>4. CASE WorkerStep \/ JobThrows \/ WorkerCrash \/ Tick \/ UNCHANGED vars
  <2>1. UNCHANGED req
    BY <1>4 DEF vars, WorkerStep, ListScheduled, EnqueueNotify, TakeNotify, MarkNotified,
       EnqueueMarkMissed, SendReminder, TakeMissed, FailMissed, JobDone, JobThrows, WorkerCrash,
       Tick, dbVars
  <2>2. QED
    BY <1>1, <2>1
<1>5. QED
  BY <1>2, <1>3, <1>4, IdlePc DEF Next, Idle

(* Proof submissions are only ever added.                                     *)
LEMMA ProofsKept ==
  ASSUME TypeOK, [Next]_vars, NEW o \in Occurrence
  PROVE  proofs[o] \subseteq proofs'[o]
<1>1. ASSUME NEW r \in Request, CreateProof(r) PROVE proofs[o] \subseteq proofs'[o]
  BY <1>1 DEF CreateProof, TypeOK
<1>2. ASSUME NEW r \in Request, RequestStart(r) \/ RequestStep(r) \/ RequestFault(r)
      PROVE  proofs[o] \subseteq proofs'[o]
  BY <1>1, <1>2 DEF RequestStart, RequestStep, RequestFault, RequestSnooze, SubmitProof,
     ParentReview, CountSnoozes, LimitAlert, RecordDeniedSnooze, CommitSnooze, Evaluate,
     SaveVerdict, AwardCoinsOnce
<1>3. CASE WorkerStep \/ JobThrows \/ WorkerCrash \/ Tick \/ UNCHANGED vars
  BY <1>3 DEF vars, WorkerStep, ListScheduled, EnqueueNotify, TakeNotify, MarkNotified,
     EnqueueMarkMissed, SendReminder, TakeMissed, FailMissed, JobDone, JobThrows, WorkerCrash,
     Tick, dbVars
<1>4. QED
  BY <1>2, <1>3 DEF Next

LEMMA GroundKept ==
  ASSUME TypeOK, TypeOK', [Next]_vars, NEW o \in Occurrence, Ground(o)
  PROVE  Ground(o)'
<1>1. CASE Passed(o)
  <2>1. Policy[o].rules \subseteq ProofType /\ proofs[o] \subseteq proofs'[o]
    BY ProofsKept, LifecycleAssumption DEF Policies
  <2>2. QED
    BY <1>1, <2>1 DEF Passed, Ground
<1>2. CASE Called(o, "approve")
  BY <1>2, CallKept DEF Called, Ground
<1>3. QED
  BY <1>1, <1>2 DEF Ground

(* One request's step keeps what CoinInv says of a request.                   *)
LEMMA CoinStep ==
  ASSUME TypeOK, TypeOK', CoinInv, [Next]_vars PROVE CoinInv'
<1> DEFINE Safe(r) == /\ req[r].pc = "save" /\ req[r].target = "completed" => Ground(req[r].occ)
                      /\ req[r].pc = "award" => Ground(req[r].occ) /\ req[r].occ \in completedAt
           Earned(o) == ledger[o] <= 1 /\ (Paid(o) => o \in completedAt /\ Ground(o))
<1>1. CoinInv <=> (\A r \in Request : Safe(r)) /\ (\A o \in Occurrence : Earned(o))
  BY DEF CoinInv, PaidWhenEarned, Ground
<1>2. CoinInv' <=> (\A r \in Request : Safe(r)') /\ (\A o \in Occurrence : Earned(o)')
  BY DEF CoinInv, PaidWhenEarned, Ground
<1>3. \A r \in Request : req[r] \in {Idle} \cup Calls \cup Finished
  BY DEF TypeOK
<1>4. \A r \in Request : req[r].pc \in {"save", "award"} => req[r] \in Calls /\ req[r].occ \in Occurrence
  BY <1>3 DEF Calls, Finished, Idle
<1>5. \/ completedAt \subseteq completedAt' /\ UNCHANGED ledger
      \/ \E r \in Request : AwardCoinsOnce(r)
  <2>1. ASSUME NEW r \in Request, RequestStart(r) \/ RequestStep(r) \/ RequestFault(r)
        PROVE  AwardCoinsOnce(r) \/ (completedAt \subseteq completedAt' /\ UNCHANGED ledger)
    <3>1. CASE SaveVerdict(r)
      BY <3>1 DEF SaveVerdict, Complete, coinVars
    <3>2. CASE RequestStart(r)
      BY <3>2 DEF RequestStart, RequestSnooze, SubmitProof, ParentReview, coinVars
    <3>3. CASE CountSnoozes(r)
      <4>1. UNCHANGED <<now, status, deadline, completedAt, proofs, snoozes, alerts,
                        coinVars, jobVars, faults>>
        BY <3>3, Zenon DEF CountSnoozes
      <4>2. QED
        BY <4>1 DEF coinVars
    <3>4. CASE LimitAlert(r) \/ RecordDeniedSnooze(r) \/ CommitSnooze(r)
      BY <3>4 DEF LimitAlert, RecordDeniedSnooze, CommitSnooze, coinVars
    <3>5. CASE CreateProof(r) \/ Evaluate(r) \/ RequestFault(r)
      BY <3>5 DEF CreateProof, Evaluate, RequestFault, coinVars
    <3>6. QED
      BY <2>1, <3>1, <3>2, <3>3, <3>4, <3>5 DEF RequestStep
  <2>2. CASE WorkerStep \/ JobThrows \/ WorkerCrash \/ Tick \/ UNCHANGED vars
    <3>1. UNCHANGED <<completedAt, ledger>>
      BY <2>2 DEF vars, WorkerStep, ListScheduled, EnqueueNotify, TakeNotify, MarkNotified,
         EnqueueMarkMissed, SendReminder, TakeMissed, FailMissed, JobDone, JobThrows, WorkerCrash,
         Tick, dbVars, coinVars
    <3>2. QED
      BY <3>1
  <2>3. QED
    BY <2>1, <2>2 DEF Next
<1>6. ASSUME NEW o \in Occurrence PROVE Earned(o)'
  <2>1. CASE completedAt \subseteq completedAt' /\ ledger'[o] = ledger[o]
    BY <1>1, <2>1, GroundKept DEF Paid
  <2>2. ASSUME NEW r \in Request, AwardCoinsOnce(r) PROVE Earned(o)'
    <3>1. Ground(req[r].occ) /\ req[r].occ \in completedAt /\ req[r].occ \in Occurrence
      BY <1>1, <1>4, <2>2 DEF AwardCoinsOnce
    <3>2. UNCHANGED completedAt
      BY <2>2 DEF AwardCoinsOnce
    <3>3. CASE UNCHANGED coinVars
      BY <2>1, <3>2, <3>3 DEF coinVars
    <3>4. CASE ~Paid(req[r].occ) /\ ledger' = [ledger EXCEPT ![req[r].occ] = @ + 1]
      <4>1. CASE o = req[r].occ
        <5>1. ledger[o] = 0
          BY <3>4, <4>1 DEF TypeOK, Paid
        <5>2. ledger'[o] = 1
          BY <3>4, <4>1, <5>1 DEF TypeOK
        <5>3. QED
          BY <3>1, <3>2, <4>1, <5>2, GroundKept
      <4>2. CASE o # req[r].occ
        BY <2>1, <3>2, <3>4, <4>2 DEF TypeOK
      <4>3. QED
        BY <4>1, <4>2
    <3>5. QED
      BY <2>2, <3>3, <3>4 DEF AwardCoinsOnce, Award
  <2>3. QED
    BY <1>5, <2>1, <2>2
<1>7. ASSUME NEW r \in Request PROVE Safe(r)'
  <2>1. ASSUME req'[r] = req[r], completedAt \subseteq completedAt' PROVE Safe(r)'
    BY <1>1, <1>4, <2>1, GroundKept
  <2>2. ASSUME req'[r].pc \notin {"save", "award"} PROVE Safe(r)'
    BY <2>2
  <2>3. completedAt \subseteq completedAt'
    BY <1>5 DEF AwardCoinsOnce
  <2>4. ASSUME NEW q \in Request, RequestStart(q) \/ RequestStep(q) \/ RequestFault(q), q # r
        PROVE  Safe(r)'
    <3>1. req'[r] = req[r]
      BY <2>4 DEF RequestStart, RequestStep, RequestFault, RequestSnooze, SubmitProof,
         ParentReview, CountSnoozes, LimitAlert, RecordDeniedSnooze, CommitSnooze, CreateProof,
         Evaluate, SaveVerdict, Complete, AwardCoinsOnce, AfterVerdict, Begin, Goto, Finish,
         Set, TypeOK
    <3>2. QED
      BY <2>1, <2>3, <3>1
  <2>5. CASE WorkerStep \/ JobThrows \/ WorkerCrash \/ Tick \/ UNCHANGED vars
    <3>1. UNCHANGED req
      BY <2>5 DEF vars, WorkerStep, ListScheduled, EnqueueNotify, TakeNotify, MarkNotified,
         EnqueueMarkMissed, SendReminder, TakeMissed, FailMissed, JobDone, JobThrows, WorkerCrash,
         Tick, dbVars
    <3>2. QED
      BY <2>1, <2>3, <3>1
  <2> DEFINE Becomes(local) == req'[r] = local
  <2>6. ASSUME NEW local, Set(r, local) PROVE Becomes(local)
    BY <2>6 DEF Set, TypeOK
  <2>7. ASSUME NEW o \in Occurrence, NEW m \in Minutes, RequestSnooze(r, o, m) PROVE Safe(r)'
    <3>1. req'[r].pc \in {"count", "deny"}
      BY <2>6, <2>7 DEF RequestSnooze, Begin, Call
    <3>2. QED
      BY <2>2, <3>1
  <2>8. ASSUME NEW o \in Occurrence, NEW op \in {"done", "proof"}, NEW p \in ProofType,
               SubmitProof(r, op, o, p)
        PROVE  Safe(r)'
    <3>1. req'[r].pc = "proof"
      BY <2>6, <2>8 DEF SubmitProof, Begin, Call
    <3>2. QED
      BY <2>2, <3>1
  <2>9. ASSUME NEW o \in Occurrence, NEW op \in {"approve", "reject"}, ParentReview(r, op, o)
        PROVE  Safe(r)'
    <3>1. req'[r] = [Call("save", op, o) EXCEPT
                       !.target = IF op = "approve" THEN "completed" ELSE "failed"]
      BY <2>6, <2>9 DEF ParentReview, Begin
    <3>2. /\ req'[r].pc = "save" /\ req'[r].op = op /\ req'[r].occ = o
          /\ req'[r].target = "completed" => op = "approve"
      BY <3>1 DEF Call
    <3>3. req'[r] # Idle
      BY <3>2 DEF Idle
    <3>4. op = "approve" => Called(o, "approve")'
      BY <3>2, <3>3 DEF Called
    <3>5. QED
      BY <3>2, <3>4 DEF Ground
  <2>10. CASE CountSnoozes(r)
    <3>1. req[r] \in Calls
      BY <2>10, BusyCall DEF CountSnoozes, SnoozePc
    <3>2. req'[r].pc \in {"alert", "deny", "commit"}
      BY <2>6, <2>10, <3>1 DEF CountSnoozes, Goto, Calls
    <3>3. QED
      BY <2>2, <3>2
  <2>11. CASE LimitAlert(r) \/ RecordDeniedSnooze(r) \/ CommitSnooze(r) \/ CreateProof(r)
                \/ RequestFault(r)
    <3>1. req[r] \in Calls
      BY <2>11, BusyCall, IdlePc DEF LimitAlert, RecordDeniedSnooze, CommitSnooze, CreateProof,
         RequestFault, SnoozePc, VerdictPc, TypeOK, Finished
    <3>2. req'[r].pc \in {"deny", "evaluate", "done"}
      BY <2>6, <2>11, <3>1 DEF LimitAlert, RecordDeniedSnooze, CommitSnooze, CreateProof,
         RequestFault, Goto, Finish, Calls
    <3>3. QED
      BY <2>2, <3>2
  <2>12. CASE Evaluate(r)
    <3>1. req[r] \in Calls /\ req[r].occ \in Occurrence
      BY <2>12, BusyCall DEF Evaluate, VerdictPc, Calls
    <3>2. req'[r] = [req[r] EXCEPT !.pc = "save", !.target = Verdict(req[r].occ)]
      BY <2>6, <2>12 DEF Evaluate
    <3>3. PICK o \in Occurrence : o = req[r].occ
      BY <3>1
    <3>4. /\ req'[r].pc = "save" /\ req'[r].occ = o
          /\ req'[r].target = "completed" => Passed(o)
      BY <3>1, <3>2, <3>3 DEF Calls, Verdict
    <3>5. Passed(o) => Ground(o)
      BY DEF Ground
    <3>6. QED
      BY <3>4, <3>5, GroundKept
  <2>13. ASSUME req[r] \in Calls, AfterVerdict(r) PROVE Safe(r)'
    <3>1. CASE Finish(r)
      BY <2>2, <2>6, <3>1 DEF Finish
    <3>2. CASE Set(r, [req[r] EXCEPT !.pc = "evaluate", !.rounds = 1])
      <4>1. req'[r].pc = "evaluate"
        BY <2>6, <2>13, <3>2 DEF Calls
      <4>2. QED
        BY <2>2, <4>1
    <3>3. QED
      BY <2>13, <3>1, <3>2 DEF AfterVerdict
  <2>14. CASE SaveVerdict(r)
    <3>1. req[r] \in Calls /\ req[r].pc = "save" /\ req[r].occ \in Occurrence
      BY <1>4, <2>14 DEF SaveVerdict
    <3>2. CASE req[r].target = "completed" /\ Complete(r, req[r].occ)
      <4>1. PICK o \in Occurrence : o = req[r].occ
        BY <3>1
      <4>2. req'[r].pc = "award" /\ req'[r].occ = o
        BY <2>6, <3>1, <3>2, <4>1 DEF Complete, Goto, Calls
      <4>3. Ground(o) /\ o \in completedAt'
        BY <1>1, <3>1, <3>2, <4>1 DEF Complete
      <4>4. QED
        BY <4>2, <4>3, GroundKept
    <3>3. QED
      BY <2>13, <2>14, <3>1, <3>2 DEF SaveVerdict
  <2>15. CASE AwardCoinsOnce(r)
    BY <1>4, <2>13, <2>15 DEF AwardCoinsOnce
  <2>16. QED
    BY <2>4, <2>5, <2>7, <2>8, <2>9, <2>10, <2>11, <2>12, <2>14, <2>15
       DEF Next, RequestStart, RequestStep
<1>8. QED
  BY <1>2, <1>6, <1>7

(* What a step does to the account: a request completes its occurrence, or    *)
(* pays one that was completed and not paid before, or nothing changes.       *)
LEMMA AccountStep ==
  ASSUME TypeOK, CoinInv, [Next]_vars
  PROVE  [Account!AccountNext]_(Account!accountVars)
<1>1. ASSUME NEW r \in Request, SaveVerdict(r)
      PROVE  [Account!AccountNext]_(Account!accountVars)
  <2>1. req[r].occ \in Occurrence
    BY <1>1, BusyCall DEF SaveVerdict, VerdictPc, Calls
  <2>2. UNCHANGED <<ledger, balance>>
    BY <1>1 DEF SaveVerdict, coinVars
  <2>3. CASE Complete(r, req[r].occ)
    <3>1. Account!Earn(req[r].occ)
      BY <2>2, <2>3 DEF Complete, Account!Earn
    <3>2. QED
      BY <2>1, <3>1 DEF Account!AccountNext
  <2>4. CASE UNCHANGED completedAt
    BY <2>2, <2>4 DEF Account!accountVars
  <2>5. QED
    BY <1>1, <2>3, <2>4 DEF SaveVerdict
<1>2. ASSUME NEW r \in Request, AwardCoinsOnce(r)
      PROVE  [Account!AccountNext]_(Account!accountVars)
  <2>1. UNCHANGED completedAt /\ Award(req[r].occ)
    BY <1>2 DEF AwardCoinsOnce
  <2>2. req[r].occ \in Occurrence /\ req[r].occ \in completedAt
    BY <1>2, BusyCall DEF AwardCoinsOnce, VerdictPc, Calls, CoinInv
  <2>3. CASE UNCHANGED coinVars
    BY <2>1, <2>3 DEF coinVars, Account!accountVars
  <2>4. CASE /\ ~(Policy[req[r].occ].coins <= 0 \/ Paid(req[r].occ))
             /\ ledger' = [ledger EXCEPT ![req[r].occ] = @ + 1]
             /\ balance' = [balance EXCEPT ![ChildOf[req[r].occ]] = @ + Policy[req[r].occ].coins]
    <3>1. PICK o \in Occurrence : o = req[r].occ
      BY <2>2
    <3>2. ledger[o] = 0 /\ Policy[o].coins > 0
      <4>1. ledger[o] \in Nat
        BY DEF TypeOK
      <4>2. Policy[o] \in Policies
        BY LifecycleAssumption
      <4>3. Policy[o].coins \in Nat
        BY <4>2 DEF Policies
      <4>4. QED
        BY <2>4, <3>1, <4>1, <4>3 DEF Paid
    <3>3. ledger' = [ledger EXCEPT ![o] = 1]
      BY <2>4, <3>1, <3>2 DEF TypeOK
    <3>4. balance' = [balance EXCEPT ![ChildOf[o]] = @ + Policy[o].coins]
      BY <2>4, <3>1
    <3>5. Account!Pay(o)
      BY <2>1, <2>2, <3>1, <3>2, <3>3, <3>4 DEF Account!Pay
    <3>6. QED
      BY <3>5 DEF Account!AccountNext
  <2>5. QED
    BY <2>1, <2>3, <2>4 DEF Award
<1>3. ASSUME NEW r \in Request, RequestStart(r) \/ RequestStep(r) \/ RequestFault(r)
      PROVE  [Account!AccountNext]_(Account!accountVars)
  <2>1. CASE RequestStart(r)
    BY <2>1 DEF RequestStart, RequestSnooze, SubmitProof, ParentReview, coinVars,
       Account!accountVars
  <2>2. CASE CountSnoozes(r)
    <3>1. UNCHANGED <<now, status, deadline, completedAt, proofs, snoozes, alerts,
                      coinVars, jobVars, faults>>
      BY <2>2, Zenon DEF CountSnoozes
    <3>2. QED
      BY <3>1 DEF coinVars, Account!accountVars
  <2>3. CASE \/ LimitAlert(r) \/ RecordDeniedSnooze(r) \/ CommitSnooze(r)
             \/ CreateProof(r) \/ Evaluate(r) \/ RequestFault(r)
    <3>1. UNCHANGED <<completedAt, coinVars>>
      BY <2>3 DEF LimitAlert, RecordDeniedSnooze, CommitSnooze, CreateProof, Evaluate,
         RequestFault
    <3>2. QED
      BY <3>1 DEF coinVars, Account!accountVars
  <2>4. QED
    BY <1>1, <1>2, <1>3, <2>1, <2>2, <2>3 DEF RequestStep
<1>4. CASE WorkerStep \/ JobThrows \/ WorkerCrash \/ Tick \/ UNCHANGED vars
  <2>1. UNCHANGED <<completedAt, ledger, balance>>
    BY <1>4 DEF vars, WorkerStep, ListScheduled, EnqueueNotify, TakeNotify, MarkNotified,
       EnqueueMarkMissed, SendReminder, TakeMissed, FailMissed, JobDone, JobThrows, WorkerCrash,
       Tick, dbVars, coinVars
  <2>2. QED
    BY <2>1 DEF Account!accountVars
<1>5. QED
  BY <1>3, <1>4 DEF Next

(* The handlers, the worker, the races and the faults together implement the  *)
(* account: the row and the money appear in one step, once per occurrence,    *)
(* and never before the occurrence was completed.                             *)
THEOREM AccountImplemented == Spec => ImplementsAccount
<1>1. Init => Account!AccountInit
  BY DEF Init, Account!AccountInit
<1>2. Init => CoinInv
  BY DEF Init, CoinInv, PaidWhenEarned, Idle, Paid
<1>3. TypeOK /\ TypeOK' /\ CoinInv /\ [Next]_vars => CoinInv'
  BY CoinStep
<1>4. TypeOK /\ CoinInv /\ [Next]_vars => [Account!AccountNext]_(Account!accountVars)
  BY AccountStep
<1>5. QED
  BY <1>1, <1>2, <1>3, <1>4, TypeCorrect, PTL
     DEF Spec, ImplementsAccount, Account!AccountSpec

-----------------------------------------------------------------------------
(***************************************************************************)
(* The books.  MapThenSumSet takes the elements of a set in the order of a *)
(* CHOOSE, so that a sum with one payment more says nothing of the sum     *)
(* before it, until it is known that the order does not matter.  That is   *)
(* an induction over the number of elements; the library's theorems for it *)
(* take an operator, which the provers cannot instantiate, and the least   *)
(* counterexample does their work.                                         *)
(***************************************************************************)

LEMMA LeastOf ==
  ASSUME NEW T \in SUBSET Nat, T # {}
  PROVE  \E m \in T : \A k \in T : m <= k
<1>1. PICK m \in T : \A k \in T : <<k, m>> \notin OpToRel(<, Nat)
  BY NatLessThanWellFounded, WFMin
<1>2. ASSUME NEW k \in T PROVE m <= k
  <2>1. \A ss \in Nat \X Nat : ss \in OpToRel(<, Nat) <=> ss[1] < ss[2]
    BY DEF OpToRel
  <2>2. <<k, m>> \in Nat \X Nat /\ <<k, m>>[1] = k /\ <<k, m>>[2] = m
    OBVIOUS
  <2>3. ~(k < m)
    BY <1>1, <2>1, <2>2
  <2>4. k \in Nat /\ m \in Nat
    OBVIOUS
  <2>5. QED
    BY <2>3, <2>4
<1>3. QED
  BY <1>2

Some(s) == CHOOSE x \in s : TRUE
Entry(f, g, s) == IF s = {} THEN 0 ELSE f[Some(s)] + g[s \ {Some(s)}]
Adds(f, g, S) == \A s \in SUBSET S : g[s] = Entry(f, g, s)
Entries(f, S) == CHOOSE g : g = [s \in SUBSET S |-> Entry(f, g, s)]
SumOf(f, S) == MapThenSumSet(LAMBDA x : f[x], S)

LEMMA SumIsEntry ==
  ASSUME NEW f, NEW S
  PROVE SumOf(f, S) = Entries(f, S)[S]
BY DEF SumOf, MapThenSumSet, MapThenFoldSet, Entries, Entry, Some

LEMMA SmallerSet ==
  ASSUME NEW S, IsFiniteSet(S), NEW x \in S
  PROVE  /\ IsFiniteSet(S \ {x})
         /\ Cardinality(S) \in Nat /\ Cardinality(S \ {x}) \in Nat
         /\ Cardinality(S \ {x}) = Cardinality(S) - 1
<1>1. IsFiniteSet(S \ {x}) /\ Cardinality(S \ {x}) = Cardinality(S) - 1
  BY FS_RemoveElement
<1>2. QED
  BY <1>1, FS_CardinalityType

LEMMA EntriesExist ==
  ASSUME NEW D, NEW f \in [D -> Int], NEW S \in SUBSET D, IsFiniteSet(S)
  PROVE  \E g \in [SUBSET S -> Int] : Adds(f, g, S)
<1> DEFINE Small(n) == {s \in SUBSET S : Cardinality(s) <= n}
           Fits(g, n) == g \in [Small(n) -> Int] /\ \A s \in Small(n) : g[s] = Entry(f, g, s)
           Reached(n) == \E g : Fits(g, n)
<1>0. \A s \in SUBSET S : IsFiniteSet(s) /\ Cardinality(s) \in Nat
  BY FS_Subset, FS_CardinalityType
<1>1. Reached(0)
  <2> DEFINE g == [s \in Small(0) |-> 0]
  <2>1. \A s \in Small(0) : s = {}
    BY <1>0, FS_EmptySet
  <2>2. Fits(g, 0)
    BY <2>1 DEF Entry
  <2>3. QED
    BY <2>2
<1>2. ASSUME NEW n \in Nat, Reached(n) PROVE Reached(n + 1)
  <2>1. PICK g : Fits(g, n)
    BY <1>2
  <2> DEFINE h == [s \in Small(n + 1) |-> IF s \in Small(n) THEN g[s] ELSE Entry(f, g, s)]
  <2>2. ASSUME NEW s \in Small(n + 1), s # {}
        PROVE  Some(s) \in S /\ s \ {Some(s)} \in Small(n)
    <3>1. Some(s) \in s
      BY <2>2 DEF Some
    <3>2. Cardinality(s \ {Some(s)}) = Cardinality(s) - 1 /\ Cardinality(s) \in Nat
      BY <1>0, <3>1, SmallerSet
    <3>3. QED
      BY <3>1, <3>2
  <2>3. ASSUME NEW s \in Small(n) PROVE s \in Small(n + 1)
    BY <1>0
  <2>4. ASSUME NEW s \in Small(n + 1) PROVE h[s] \in Int /\ h[s] = Entry(f, h, s)
    <3>1. CASE s = {}
      <4>1. s \in Small(n)
        BY <3>1, FS_EmptySet
      <4>2. QED
        BY <2>1, <3>1, <4>1 DEF Entry
    <3>2. CASE s # {}
      <4>1. Some(s) \in S /\ s \ {Some(s)} \in Small(n)
        BY <2>2, <3>2
      <4>2. h[s \ {Some(s)}] = g[s \ {Some(s)}]
        BY <2>3, <4>1
      <4>3. h[s] = Entry(f, g, s)
        BY <2>1
      <4>4. Entry(f, g, s) = f[Some(s)] + g[s \ {Some(s)}]
        BY <3>2, Zenon DEF Entry
      <4>5. Entry(f, h, s) = f[Some(s)] + h[s \ {Some(s)}]
        <5> HIDE DEF h
        <5>1. QED
          BY <3>2, Zenon DEF Entry
      <4>6. f[Some(s)] \in Int /\ g[s \ {Some(s)}] \in Int
        BY <2>1, <4>1
      <4>7. QED
        BY <4>2, <4>3, <4>4, <4>5, <4>6
    <3>3. QED
      BY <3>1, <3>2
  <2>5. h \in [Small(n + 1) -> Int]
    BY <2>4
  <2>6. Fits(h, n + 1)
    BY <2>4, <2>5
  <2>7. QED
    BY <2>6
<1>3. Reached(Cardinality(S))
  <2> DEFINE Missed == {n \in Nat : ~Reached(n)}
  <2>1. Cardinality(S) \in Nat
    BY FS_CardinalityType
  <2> HIDE DEF Reached
  <2>2. CASE Missed = {}
    BY <2>1, <2>2
  <2>3. CASE Missed # {}
    <3>1. PICK m \in Missed : \A k \in Missed : m <= k
      BY <2>3, LeastOf
    <3>2. m - 1 \in Nat /\ m - 1 \notin Missed
      BY <1>1, <3>1
    <3>3. Reached((m - 1) + 1)
      BY <1>2, <3>2
    <3>4. (m - 1) + 1 = m
      OBVIOUS
    <3>5. QED
      BY <3>1, <3>3, <3>4
  <2>4. QED
    BY <2>2, <2>3
<1>4. Small(Cardinality(S)) = SUBSET S
  BY FS_Subset
<1>5. PICK g : Fits(g, Cardinality(S))
  BY <1>3
<1>6. g \in [SUBSET S -> Int] /\ Adds(f, g, S)
  <2> HIDE DEF Small
  <2>1. QED
    BY <1>4, <1>5 DEF Adds
<1>7. QED
  BY <1>6

LEMMA EntriesAgree ==
  ASSUME NEW f, NEW S, NEW R, IsFiniteSet(S), NEW g, NEW h,
         Adds(f, g, S), Adds(f, h, R),
         NEW s \in SUBSET S, s \in SUBSET R
  PROVE  g[s] = h[s]
<1> DEFINE Differ == {n \in Nat : \E u \in SUBSET s : Cardinality(u) = n /\ g[u] # h[u]}
<1>1. \A u \in SUBSET s : IsFiniteSet(u) /\ Cardinality(u) \in Nat
  BY FS_Subset, FS_CardinalityType
<1>2. CASE Differ = {}
  BY <1>1, <1>2
<1>3. CASE Differ # {}
  <2>1. PICK m \in Differ : \A k \in Differ : m <= k
    <3> HIDE DEF Differ
    <3>1. Differ \in SUBSET Nat
      BY DEF Differ
    <3>2. QED
      BY <1>3, <3>1, LeastOf
  <2>2. PICK u \in SUBSET s : Cardinality(u) = m /\ g[u] # h[u]
    BY <2>1
  <2>3. g[u] = Entry(f, g, u) /\ h[u] = Entry(f, h, u)
    BY DEF Adds
  <2>4. u # {}
    BY <2>2, <2>3 DEF Entry
  <2>5. Some(u) \in u
    BY <2>4 DEF Some
  <2> DEFINE v == u \ {Some(u)}
  <2>6. v \in SUBSET s /\ Cardinality(v) \in Nat /\ Cardinality(v) = m - 1
    BY <1>1, <2>2, <2>5, SmallerSet
  <2>7. g[v] = h[v]
    <3>1. ~(m <= m - 1)
      BY <2>1
    <3>2. QED
      BY <2>1, <2>6, <3>1
  <2>8. Entry(f, g, u) = Entry(f, h, u)
    BY <2>7, Zenon DEF Entry
  <2>9. QED
    BY <2>2, <2>3, <2>8
<1>4. QED
  BY <1>2, <1>3

LEMMA EntriesGiven ==
  ASSUME NEW D, NEW f \in [D -> Int], NEW S \in SUBSET D, IsFiniteSet(S)
  PROVE  /\ Adds(f, Entries(f, S), S)
         /\ SumOf(f, S) \in Int
<1>1. PICK g \in [SUBSET S -> Int] : Adds(f, g, S)
  BY EntriesExist
<1>2. g = [s \in SUBSET S |-> Entry(f, g, s)]
  BY <1>1 DEF Adds
<1>3. Entries(f, S) = [s \in SUBSET S |-> Entry(f, Entries(f, S), s)]
  BY <1>2 DEF Entries
<1>4. Adds(f, Entries(f, S), S)
  BY <1>3 DEF Adds
<1>5. Entries(f, S)[S] = g[S]
  BY <1>1, <1>4, EntriesAgree
<1>6. QED
  BY <1>1, <1>4, <1>5, SumIsEntry

LEMMA SumOfRest ==
  ASSUME NEW D, NEW f \in [D -> Int], NEW S \in SUBSET D, IsFiniteSet(S)
  PROVE  SumOf(f, S) = IF S = {} THEN 0 ELSE f[Some(S)] + SumOf(f, S \ {Some(S)})
<1>1. SumOf(f, S) = Entry(f, Entries(f, S), S)
  BY EntriesGiven, SumIsEntry DEF Adds
<1>2. CASE S = {}
  BY <1>1, <1>2 DEF Entry
<1>3. CASE S # {}
  <2> DEFINE R == S \ {Some(S)}
  <2>1. Some(S) \in S
    BY <1>3 DEF Some
  <2>2. IsFiniteSet(R) /\ R \in SUBSET D /\ R \in SUBSET S
    BY <2>1, SmallerSet
  <2>3. Entries(f, S)[R] = Entries(f, R)[R]
    <3>1. Adds(f, Entries(f, S), S) /\ Adds(f, Entries(f, R), R)
      BY <2>2, EntriesGiven
    <3> HIDE DEF R
    <3>2. QED
      BY <2>2, <3>1, EntriesAgree
  <2>4. SumOf(f, R) = Entries(f, R)[R]
    BY SumIsEntry
  <2>5. QED
    BY <1>1, <1>3, <2>3, <2>4 DEF Entry
<1>4. QED
  BY <1>2, <1>3

(* What is added up does not depend on the order.                             *)
LEMMA SumWithout ==
  ASSUME NEW D, NEW f \in [D -> Int], NEW S \in SUBSET D, IsFiniteSet(S), NEW x \in S
  PROVE  SumOf(f, S) = f[x] + SumOf(f, S \ {x})
<1> DEFINE Rest(u, y) == SumOf(f, u) = f[y] + SumOf(f, u \ {y})
           Wrong == {n \in Nat : \E u \in SUBSET S : Cardinality(u) = n /\ \E y \in u : ~Rest(u, y)}
<1>1. \A u \in SUBSET S : /\ IsFiniteSet(u) /\ Cardinality(u) \in Nat
                          /\ u \in SUBSET D /\ SumOf(f, u) \in Int
  BY FS_Subset, FS_CardinalityType, EntriesGiven
<1>2. CASE Wrong = {}
  BY <1>1, <1>2
<1>3. CASE Wrong # {}
  <2>1. PICK m \in Wrong : \A k \in Wrong : m <= k
    <3> HIDE DEF Wrong
    <3>1. Wrong \in SUBSET Nat
      BY DEF Wrong
    <3>2. QED
      BY <1>3, <3>1, LeastOf
  <2>2. PICK u \in SUBSET S : Cardinality(u) = m /\ \E y \in u : ~Rest(u, y)
    BY <2>1
  <2>3. PICK y \in u : ~Rest(u, y)
    BY <2>2
  <2>4. \A v \in SUBSET u : Cardinality(v) = m - 1 => \A z \in v : Rest(v, z)
    <3>1. SUFFICES ASSUME NEW v \in SUBSET u, Cardinality(v) = m - 1, NEW z \in v, ~Rest(v, z)
                   PROVE  FALSE
      OBVIOUS
    <3> HIDE DEF Rest
    <3>2. m - 1 \in Wrong
      BY <1>1, <3>1
    <3>3. QED
      BY <2>1, <3>2
  <2>5. PICK w \in u : w = Some(u)
    BY <2>3 DEF Some
  <2>6. SumOf(f, u) = f[w] + SumOf(f, u \ {w})
    BY <1>1, <2>3, <2>5, SumOfRest
  <2>7. w # y
    BY <2>3, <2>6
  <2>8. /\ Cardinality(u \ {w}) = m - 1
        /\ Cardinality(u \ {y}) = m - 1
    BY <1>1, <2>2, SmallerSet
  <2>9. /\ SumOf(f, u \ {w}) = f[y] + SumOf(f, (u \ {w}) \ {y})
        /\ SumOf(f, u \ {y}) = f[w] + SumOf(f, (u \ {y}) \ {w})
    BY <2>4, <2>7, <2>8
  <2>10. (u \ {w}) \ {y} = (u \ {y}) \ {w}
    OBVIOUS
  <2>11. /\ SumOf(f, (u \ {w}) \ {y}) \in Int
         /\ f[w] \in Int /\ f[y] \in Int
    BY <1>1
  <2>12. SumOf(f, u) = f[y] + SumOf(f, u \ {y})
    <3> DEFINE a == SumOf(f, u)
               b == SumOf(f, u \ {w})
               c == SumOf(f, u \ {y})
               d == SumOf(f, (u \ {w}) \ {y})
    <3>1. a = f[w] + b /\ b = f[y] + d /\ c = f[w] + d /\ d \in Int
      BY <2>6, <2>9, <2>10, <2>11
    <3> HIDE DEF a, b, c, d
    <3>2. a = f[y] + c
      BY <2>11, <3>1
    <3>3. QED
      BY <3>2 DEF a, c
  <2>13. QED
    BY <2>3, <2>12
<1>4. QED
  BY <1>2, <1>3
Paying == {o \in Occurrence : Paid(o)}
BooksInv == IsFiniteSet(Paying) /\ Account!BooksBalance

(* What an occurrence pays.                                                   *)
Reward == [o \in Occurrence |-> Policy[o].coins]

LEMMA RewardType == Reward \in [Occurrence -> Int]
<1>1. \A o \in Occurrence : Policy[o] \in Policies
  BY LifecycleAssumption
<1>2. QED
  BY <1>1 DEF Policies, Reward

(* The balances in terms of SumOf, before and after a step.                   *)
LEMMA BooksAreSums ==
  /\ Account!BooksBalance <=>
       \A c \in Child : balance[c] = SumOf(Reward, Account!PaidTo(c))
  /\ Account!BooksBalance' <=>
       \A c \in Child : balance'[c] = SumOf(Reward, Account!PaidTo(c)')
BY DEF Reward, Account!BooksBalance, SumOf, MapThenSumSet, MapThenFoldSet,
   Account!MapThenSumSet, Account!MapThenFoldSet

(* A payment adds one reward to one sum; nothing else touches the books.      *)
LEMMA BooksStep ==
  ASSUME TypeOK, BooksInv, [Account!AccountNext]_(Account!accountVars)
  PROVE  BooksInv'
<1>1. Reward \in [Occurrence -> Int]
  BY RewardType
<1>2. CASE UNCHANGED <<ledger, balance>>
  <2>1. \A c \in Child : Account!PaidTo(c)' = Account!PaidTo(c)
    BY <1>2 DEF Account!PaidTo
  <2>2. Paying' = Paying
    BY <1>2 DEF Paying, Paid
  <2>3. Account!BooksBalance'
    BY <1>2, <2>1, BooksAreSums DEF BooksInv
  <2>4. QED
    BY <2>2, <2>3 DEF BooksInv
<1>3. ASSUME NEW o \in Occurrence, Account!Pay(o) PROVE BooksInv'
  <2>1. /\ ledger[o] = 0
        /\ ledger' = [ledger EXCEPT ![o] = 1]
        /\ balance' = [balance EXCEPT ![ChildOf[o]] = @ + Reward[o]]
    BY <1>3 DEF Account!Pay, Reward
  <2>2. \A p \in Occurrence : ledger[p] \in Nat /\ ledger'[p] = IF p = o THEN 1 ELSE ledger[p]
    BY <2>1 DEF TypeOK
  <2>3. Paying' = Paying \cup {o}
    BY <2>2 DEF Paying, Paid
  <2>4. IsFiniteSet(Paying) /\ IsFiniteSet(Paying')
    BY <2>3, FS_AddElement DEF BooksInv
  <2>5. ASSUME NEW c \in Child PROVE balance'[c] = SumOf(Reward, Account!PaidTo(c)')
    <3>1. Account!PaidTo(c) \in SUBSET Occurrence /\ Account!PaidTo(c) \in SUBSET Paying
      BY DEF Account!PaidTo, Paying, Paid
    <3>2. balance[c] = SumOf(Reward, Account!PaidTo(c))
      BY BooksAreSums DEF BooksInv
    <3>3. CASE c # ChildOf[o]
      <4>1. Account!PaidTo(c)' = Account!PaidTo(c)
        BY <2>2, <3>3 DEF Account!PaidTo
      <4>2. balance'[c] = balance[c]
        BY <2>1, <3>3 DEF TypeOK
      <4>3. QED
        BY <3>2, <4>1, <4>2
    <3>4. CASE c = ChildOf[o]
      <4>1. /\ Account!PaidTo(c)' = Account!PaidTo(c) \cup {o}
            /\ o \notin Account!PaidTo(c)
        BY <2>1, <2>2, <3>4 DEF Account!PaidTo
      <4> DEFINE old == Account!PaidTo(c)
                 new == Account!PaidTo(c)'
      <4>2. o \in new /\ new \ {o} = old /\ new \in SUBSET Occurrence
        BY <3>1, <4>1
      <4>3. IsFiniteSet(old) /\ IsFiniteSet(new)
        BY <2>4, <3>1, <4>1, FS_Subset, FS_AddElement
      <4> HIDE DEF old, new
      <4>4. SumOf(Reward, new) = Reward[o] + SumOf(Reward, old)
        BY <1>1, <4>2, <4>3, SumWithout
      <4>5. balance'[c] = balance[c] + Reward[o]
        BY <2>1, <3>4 DEF TypeOK
      <4>6. Reward[o] \in Int /\ balance[c] \in Int /\ balance[c] = SumOf(Reward, old)
        BY <1>1, <3>2 DEF TypeOK, old
      <4>7. balance'[c] = SumOf(Reward, new)
        BY <4>4, <4>5, <4>6
      <4>8. QED
        BY <4>7 DEF new
    <3>5. QED
      BY <3>3, <3>4
  <2>6. Account!BooksBalance'
    BY <2>5, BooksAreSums
  <2>7. QED
    BY <2>4, <2>6 DEF BooksInv
<1>4. ASSUME NEW o \in Occurrence, Account!Earn(o) PROVE BooksInv'
  BY <1>2, <1>4 DEF Account!Earn
<1>5. CASE UNCHANGED Account!accountVars
  BY <1>2, <1>5 DEF Account!accountVars
<1>6. QED
  BY <1>3, <1>4, <1>5 DEF Account!AccountNext

LEMMA BooksStart == ASSUME Init PROVE BooksInv
<1>1. Reward \in [Occurrence -> Int]
  BY RewardType
<1>2. Paying = {} /\ \A c \in Child : Account!PaidTo(c) = {} /\ balance[c] = 0
  BY DEF Init, Paying, Paid, Account!PaidTo
<1>3. SumOf(Reward, {}) = 0
  BY <1>1, FS_EmptySet, SumOfRest
<1>4. Account!BooksBalance
  BY <1>2, <1>3, BooksAreSums
<1>5. QED
  BY <1>2, <1>4, FS_EmptySet DEF BooksInv

(* However the requests interleave and fail, an occurrence is paid at most    *)
(* once, and only after it was completed with the proofs its policy asks for  *)
(* or on a parent's approval; and every child's balance is the sum of what    *)
(* its occurrences were paid, for any number of them.                         *)
THEOREM CoinsAreEarned == Spec => []CoinsEarned
<1>1. Init => CoinInv
  BY DEF Init, CoinInv, PaidWhenEarned, Idle, Paid
<1>2. TypeOK /\ TypeOK' /\ CoinInv /\ [Next]_vars => CoinInv'
  BY CoinStep
<1>3. Init => BooksInv
  BY BooksStart
<1>4. TypeOK /\ CoinInv /\ BooksInv /\ [Next]_vars => BooksInv'
  BY AccountStep, BooksStep
<1>5. CoinInv /\ BooksInv => CoinsEarned
  BY DEF CoinInv, BooksInv, CoinsEarned
<1>6. QED
  BY <1>1, <1>2, <1>3, <1>4, <1>5, TypeCorrect, PTL DEF Spec

------------------------------------------------------------------------------
(***************************************************************************)
(* The worker's half: the reminder and the check of a notified mission     *)
(* follow the notify job through its handler.                              *)
(***************************************************************************)


(* The occurrence whose notify job the worker has taken and not finished.     *)
Notifying(o) == /\ worker.pc \in {"notify", "arm", "remind"}
                /\ worker.job.kind = "notify" /\ worker.job.occ = o

VerdictTargets ==
  \A r \in Request : req[r].pc = "save" => req[r].target \notin {"scheduled", "notified"}

ReminderInv ==
  /\ RemindedOnce
  /\ VerdictTargets
  /\ worker.pc \in {"notify", "remind"} => worker.job.kind = "notify"
  /\ \A o \in Occurrence :
       Notifying(o) => reminded[o] = 0 /\ (worker.pc # "notify" => status[o] # "scheduled")

(* For the proof a check that BullMQ has given up still counts: GivenUpAfterTwo *)
(* tells it apart at the end.                                                 *)
ArmedBefore(o) == \/ ArmedBy(o, queue \cup dead \cup ActiveJobs)
                  \/ Arming(o)
                  \/ faults > 0 /\ reminded[o] = 0
ArmedInv ==
  /\ \A o \in Occurrence : status[o] = "notified" => ArmedBefore(o)
  /\ worker.pc = "arm" /\ worker.job.kind = "missed" => worker.until > worker.job.at
  /\ worker.pc \in {"remind", "ack"} /\ status[worker.job.occ] = "notified"
       => ArmedBy(worker.job.occ, queue \cup dead)

(* A request leaves the jobs alone, and no verdict reopens a mission.         *)
LEMMA RequestKeeps ==
  ASSUME TypeOK, VerdictTargets, NEW r \in Request,
         RequestStart(r) \/ RequestStep(r) \/ RequestFault(r)
  PROVE  /\ UNCHANGED jobVars
         /\ faults' = faults \/ faults' = faults + 1
         /\ \A o \in Occurrence : status'[o] = status[o] \/ status'[o] \notin {"scheduled", "notified"}
<1>1. CASE RequestStart(r)
  BY <1>1 DEF RequestStart, RequestSnooze, SubmitProof, ParentReview
<1>2. CASE CountSnoozes(r)
  <2>1. UNCHANGED <<now, status, deadline, completedAt, proofs, snoozes, alerts,
                    coinVars, jobVars, faults>>
    BY <1>2, Zenon DEF CountSnoozes
  <2>2. QED
    BY <2>1
<1>3. CASE CommitSnooze(r)
  BY <1>3 DEF CommitSnooze, TypeOK
<1>4. CASE SaveVerdict(r)
  <2>1. req[r].target \notin {"scheduled", "notified"} /\ req[r].pc = "save"
    BY <1>4 DEF SaveVerdict, VerdictTargets
  <2>2. status' = [status EXCEPT ![req[r].occ] = req[r].target] /\ UNCHANGED <<jobVars, faults>>
    BY <1>4 DEF SaveVerdict
  <2>3. QED
    BY <2>1, <2>2 DEF TypeOK
<1>5. CASE LimitAlert(r) \/ RecordDeniedSnooze(r) \/ CreateProof(r)
  BY <1>5 DEF LimitAlert, RecordDeniedSnooze, CreateProof
<1>6. CASE Evaluate(r) \/ AwardCoinsOnce(r) \/ RequestFault(r)
  BY <1>6 DEF Evaluate, AwardCoinsOnce, RequestFault
<1>7. QED
  BY <1>1, <1>2, <1>3, <1>4, <1>5, <1>6 DEF RequestStep

LEMMA TargetsKept ==
  ASSUME TypeOK, VerdictTargets, [Next]_vars PROVE VerdictTargets'
<1> SUFFICES ASSUME NEW r \in Request
             PROVE  (req[r].pc = "save" => req[r].target \notin {"scheduled", "notified"})'
  BY DEF VerdictTargets
<1> DEFINE Fine(local) == local.pc = "save" => local.target \notin {"scheduled", "notified"}
<1>1. Fine(req[r])
  BY DEF VerdictTargets
<1>2. ASSUME NEW q \in Request, NEW local, Set(q, local), Fine(local) PROVE Fine(req'[r])
  BY <1>1, <1>2 DEF Set, TypeOK
<1>3. ASSUME NEW q \in Request, RequestStart(q) PROVE Fine(req'[r])
  <2>1. ASSUME NEW o \in Occurrence, NEW m \in Minutes, RequestSnooze(q, o, m)
        PROVE  Fine(req'[r])
    <3>1. PICK pc \in {"count", "deny"} : Set(q, [Call(pc, "snooze", o) EXCEPT !.minutes = m])
      BY <2>1 DEF RequestSnooze, Begin
    <3>2. Fine([Call(pc, "snooze", o) EXCEPT !.minutes = m])
      BY <3>1 DEF Call
    <3>3. QED
      BY <1>2, <3>1, <3>2
  <2>2. ASSUME NEW o \in Occurrence, NEW op \in {"done", "proof"}, NEW p \in ProofType,
               SubmitProof(q, op, o, p)
        PROVE  Fine(req'[r])
    <3>1. Fine([Call("proof", op, o) EXCEPT !.proof = p, !.rounds = IF op = "done" THEN 2 ELSE 1])
      BY DEF Call
    <3>2. QED
      BY <1>2, <2>2, <3>1 DEF SubmitProof, Begin
  <2>3. ASSUME NEW o \in Occurrence, NEW op \in {"approve", "reject"}, ParentReview(q, op, o)
        PROVE  Fine(req'[r])
    <3>1. Fine([Call("save", op, o) EXCEPT
                  !.target = IF op = "approve" THEN "completed" ELSE "failed"])
      BY DEF Call
    <3>2. QED
      BY <1>2, <2>3, <3>1 DEF ParentReview, Begin
  <2>4. QED
    BY <1>3, <2>1, <2>2, <2>3 DEF RequestStart
<1>4. ASSUME NEW q \in Request, RequestStep(q) \/ RequestFault(q) PROVE Fine(req'[r])
  <2>1. req[q] \in Calls
    BY <1>4, BusyCall, IdlePc DEF RequestStep, RequestFault, CountSnoozes, LimitAlert,
       RecordDeniedSnooze, CommitSnooze, CreateProof, Evaluate, SaveVerdict,
       AwardCoinsOnce, SnoozePc, VerdictPc, TypeOK, Finished, Calls
  <2>2. ASSUME NEW pc \in {"alert", "deny", "evaluate", "award"}, Goto(q, pc)
        PROVE  Fine(req'[r])
    <3>1. Fine([req[q] EXCEPT !.pc = pc])
      BY <2>1 DEF Calls
    <3>2. QED
      BY <1>2, <2>2, <3>1 DEF Goto
  <2>3. CASE Finish(q)
    BY <1>2, <2>3 DEF Finish
  <2>4. CASE AfterVerdict(q)
    <3>1. Fine([req[q] EXCEPT !.pc = "evaluate", !.rounds = 1])
      BY <2>1 DEF Calls
    <3>2. QED
      BY <1>2, <2>3, <2>4, <3>1 DEF AfterVerdict
  <2>5. CASE CountSnoozes(q)
    <3>1. Fine([req[q] EXCEPT !.pc = "commit", !.until = now + req[q].minutes])
      BY <2>1 DEF Calls
    <3>2. QED
      BY <1>2, <2>2, <2>5, <3>1 DEF CountSnoozes
  <2>6. CASE Evaluate(q)
    <3>1. Fine([req[q] EXCEPT !.pc = "save", !.target = Verdict(req[q].occ)])
      BY <2>1 DEF Calls, Verdict
    <3>2. QED
      BY <1>2, <2>6, <3>1 DEF Evaluate
  <2>7. QED
    BY <1>4, <2>2, <2>3, <2>4, <2>5, <2>6 DEF RequestStep, RequestFault, LimitAlert,
       RecordDeniedSnooze, CommitSnooze, CreateProof, SaveVerdict, Complete, AwardCoinsOnce
<1>5. CASE WorkerStep \/ JobThrows \/ WorkerCrash \/ Tick \/ UNCHANGED vars
  <2>1. UNCHANGED req
    BY <1>5 DEF vars, WorkerStep, ListScheduled, EnqueueNotify, TakeNotify, MarkNotified,
       EnqueueMarkMissed, SendReminder, TakeMissed, FailMissed, JobDone, JobThrows, WorkerCrash,
       Tick, dbVars
  <2>2. QED
    BY <1>1, <2>1
<1>6. QED
  BY <1>3, <1>4, <1>5 DEF Next
(* The worker's record while it works on a job.                               *)
LEMMA WorkerRun ==
  ASSUME TypeOK
  PROVE  /\ worker.pc \in {"notify", "arm", "remind", "fail", "ack"}
              => worker \in Runs /\ worker.job \in Job /\ worker.job.occ \in Occurrence
         /\ worker = Idle => worker.pc = "idle"
         /\ Idle.pc = "idle"
BY DEF TypeOK, Runs, Expansions, Idle, Job

LEMMA ReminderStep ==
  ASSUME TypeOK, ReminderInv, [Next]_vars PROVE ReminderInv'
<1> DEFINE Kind(w) == w.pc \in {"notify", "remind"} => w.job.kind = "notify"
           Once(o) == reminded[o] <= 1 /\ (reminded[o] = 1 => status[o] # "scheduled")
           Fresh(o) == Notifying(o) => reminded[o] = 0
                                       /\ (worker.pc # "notify" => status[o] # "scheduled")
<1>1. Kind(worker) /\ \A o \in Occurrence : Once(o) /\ Fresh(o)
  BY DEF ReminderInv, RemindedOnce
<1>2. SUFFICES Kind(worker)' /\ \A o \in Occurrence : Once(o)' /\ Fresh(o)'
  BY TargetsKept DEF ReminderInv, RemindedOnce
<1>3. ASSUME UNCHANGED <<reminded, worker>>,
             \A o \in Occurrence : status'[o] = status[o] \/ status'[o] # "scheduled"
      PROVE  Kind(worker)' /\ \A o \in Occurrence : Once(o)' /\ Fresh(o)'
  BY <1>1, <1>3 DEF Notifying
<1>4. ASSUME UNCHANGED <<reminded, status>>, worker'.pc \in {"idle", "expanding", "fail", "ack"}
      PROVE  Kind(worker)' /\ \A o \in Occurrence : Once(o)' /\ Fresh(o)'
  BY <1>1, <1>4 DEF Notifying
<1>5. ASSUME NEW r \in Request, RequestStart(r) \/ RequestStep(r) \/ RequestFault(r)
      PROVE  Kind(worker)' /\ \A o \in Occurrence : Once(o)' /\ Fresh(o)'
  <2>1. UNCHANGED <<reminded, worker>>
    BY <1>5, RequestKeeps DEF ReminderInv, jobVars
  <2>2. \A o \in Occurrence : status'[o] = status[o] \/ status'[o] # "scheduled"
    BY <1>5, RequestKeeps DEF ReminderInv
  <2>3. QED
    BY <1>3, <2>1, <2>2
<1>6. CASE Tick \/ UNCHANGED vars
  <2>1. UNCHANGED <<reminded, worker, status>>
    BY <1>6 DEF Tick, vars, jobVars
  <2>2. QED
    BY <1>3, <2>1
<1>7. CASE ListScheduled \/ EnqueueNotify
  <2>1. worker'.pc \in {"idle", "expanding"}
    <3>1. CASE ListScheduled
      BY <3>1 DEF ListScheduled
    <3>2. CASE EnqueueNotify
      <4>1. worker \in Expansions
        BY <3>2 DEF EnqueueNotify, TypeOK, Runs, Idle
      <4>2. PICK o : worker' = IF worker.list = {o} THEN Idle ELSE [worker EXCEPT !.list = @ \ {o}]
        BY <3>2 DEF EnqueueNotify
      <4>3. [worker EXCEPT !.list = @ \ {o}].pc = "expanding"
        BY <4>1 DEF Expansions
      <4>4. QED
        BY <4>2, <4>3, WorkerRun
    <3>3. QED
      BY <1>7, <3>1, <3>2
  <2>2. UNCHANGED <<reminded, status>>
    BY <1>7 DEF ListScheduled, EnqueueNotify
  <2>3. QED
    BY <1>4, <2>1, <2>2
<1>8. ASSUME NEW job \in queue, TakeNotify(job)
      PROVE  Kind(worker)' /\ \A o \in Occurrence : Once(o)' /\ Fresh(o)'
  <2>1. UNCHANGED <<reminded, status>> /\ job.kind = "notify" /\ job.occ \in Occurrence
    BY <1>8 DEF TakeNotify, TypeOK, Job
  <2>2. CASE worker' = Idle
    BY <1>4, <2>1, <2>2, WorkerRun
  <2>3. CASE Notifiable(job.occ) /\ worker' = [pc |-> "notify", job |-> job, until |-> now + NotifyDeadline]
    <3>1. worker'.pc = "notify" /\ worker'.job = job
      BY <2>3
    <3>2. reminded[job.occ] = 0
      <4>1. reminded[job.occ] \in Nat
        BY <2>1 DEF TypeOK
      <4>2. reminded[job.occ] <= 1 /\ reminded[job.occ] # 1
        BY <1>1, <2>1, <2>3 DEF Notifiable
      <4>3. QED
        BY <4>1, <4>2
    <3>3. QED
      BY <1>1, <2>1, <3>1, <3>2 DEF Notifying
  <2>4. QED
    BY <1>8, <2>2, <2>3 DEF TakeNotify, Take
<1>9. ASSUME NEW job \in queue, TakeMissed(job)
      PROVE  Kind(worker)' /\ \A o \in Occurrence : Once(o)' /\ Fresh(o)'
  <2>1. UNCHANGED <<reminded, status>> /\ job.kind = "missed"
    BY <1>9 DEF TakeMissed
  <2>2. worker'.pc \in {"idle", "fail"} \/ (worker'.pc = "arm" /\ worker'.job = job)
    BY <1>9, WorkerRun DEF TakeMissed, Take
  <2>3. QED
    BY <1>1, <2>1, <2>2 DEF Notifying
<1>10. CASE MarkNotified
  <2>1. worker \in Runs /\ worker.job.occ \in Occurrence /\ worker.job.kind = "notify"
    BY <1>1, <1>10, WorkerRun DEF MarkNotified
  <2>2. worker'.pc = "arm" /\ worker'.job = worker.job
    BY <1>10, <2>1 DEF MarkNotified, AfterNotified, Runs
  <2>3. UNCHANGED reminded /\ \A o \in Occurrence : status'[o] = status[o] \/ status'[o] # "scheduled"
    BY <1>10, <2>1 DEF MarkNotified, TypeOK
  <2>4. status'[worker.job.occ] = "notified" /\ worker.pc = "notify"
    BY <1>10, <2>1 DEF MarkNotified, TypeOK
  <2>5. QED
    BY <1>1, <2>1, <2>2, <2>3, <2>4 DEF Notifying
<1>11. CASE EnqueueMarkMissed
  <2>1. worker \in Runs /\ worker.pc = "arm" /\ UNCHANGED <<reminded, status>>
    BY <1>11, WorkerRun DEF EnqueueMarkMissed
  <2>2. \/ worker'.pc = "remind" /\ worker'.job = worker.job /\ worker.job.kind = "notify"
        \/ worker'.pc = "ack"
    BY <1>11, <2>1 DEF EnqueueMarkMissed, Runs
  <2>3. QED
    BY <1>1, <2>1, <2>2 DEF Notifying
<1>12. CASE SendReminder
  <2>1. worker.job.occ \in Occurrence /\ Notifying(worker.job.occ) /\ worker.pc = "remind"
    BY <1>1, <1>12, WorkerRun DEF SendReminder, Notifying
  <2>2. reminded[worker.job.occ] = 0 /\ status[worker.job.occ] # "scheduled"
    BY <1>1, <2>1
  <2>3. reminded' = [reminded EXCEPT ![worker.job.occ] = @ + 1] /\ UNCHANGED status
        /\ worker'.pc = "ack"
    BY <1>12, WorkerRun DEF SendReminder, Runs
  <2>4. QED
    BY <1>1, <2>1, <2>2, <2>3 DEF Notifying, TypeOK
<1>13. CASE FailMissed
  <2>1. worker'.pc = "ack" /\ UNCHANGED reminded
    BY <1>13, WorkerRun DEF FailMissed, Runs
  <2>2. \A o \in Occurrence : status'[o] = status[o] \/ status'[o] # "scheduled"
    BY <1>13 DEF FailMissed, FailedStatus, TypeOK
  <2>3. QED
    BY <1>1, <2>1, <2>2 DEF Notifying
<1>14. CASE JobDone \/ JobThrows \/ WorkerCrash
  BY <1>4, <1>14, WorkerRun DEF JobDone, JobThrows, WorkerCrash
<1>15. QED
  BY <1>5, <1>6, <1>7, <1>8, <1>9, <1>10, <1>11, <1>12, <1>13, <1>14 DEF Next, WorkerStep

(* However often a notify-occurrence job is delivered, and whatever requests  *)
(* reach the occurrence meanwhile, the child is reminded at most once.        *)
THEOREM ReminderSentOnce == Spec => []RemindedOnce
<1>1. Init => ReminderInv
  BY WorkerRun DEF Init, ReminderInv, RemindedOnce, VerdictTargets, Notifying, Idle
<1>2. TypeOK /\ ReminderInv /\ [Next]_vars => ReminderInv'
  BY ReminderStep
<1>3. ReminderInv => RemindedOnce
  BY DEF ReminderInv
<1>4. QED
  BY <1>1, <1>2, <1>3, TypeCorrect, PTL DEF Spec
-----------------------------------------------------------------------------
(***************************************************************************)
(* The mark-missed check.  While it is enqueued the worker itself stands   *)
(* for it; a check that postpones itself may not meet its own id in Redis, *)
(* so its new time must lie after its old one.                             *)
(***************************************************************************)
LaterThanItself == worker.pc = "arm" /\ worker.job.kind = "missed" => worker.until > worker.job.at
ArmedOnReminding == worker.pc \in {"remind", "ack"} /\ status[worker.job.occ] = "notified"
                      => ArmedBy(worker.job.occ, queue \cup dead)

LEMMA ArmedParts ==
  /\ ArmedInv <=> /\ \A o \in Occurrence : status[o] = "notified" => ArmedBefore(o)
                  /\ LaterThanItself /\ ArmedOnReminding
  /\ ArmedInv' <=> /\ \A o \in Occurrence : status'[o] = "notified" => ArmedBefore(o)'
                   /\ LaterThanItself' /\ ArmedOnReminding'
BY DEF ArmedInv, ArmedBefore, LaterThanItself, ArmedOnReminding

LEMMA ArmedByMore ==
  ASSUME NEW o, NEW S, NEW T, ArmedBy(o, S), \A job \in S : job.kind = "missed" /\ job.occ = o => job \in T
  PROVE  ArmedBy(o, T)
BY DEF ArmedBy

(* What leaves the worker's job, the queue and the reminders alone.           *)
LEMMA ArmedUndisturbed ==
  ASSUME TypeOK, ArmedInv, UNCHANGED <<reminded, queue, dead, worker>>,
         faults' = faults \/ faults' = faults + 1,
         \A o \in Occurrence : status'[o] = status[o] \/ status'[o] # "notified"
  PROVE  ArmedInv'
<1>1. ASSUME NEW o \in Occurrence, status'[o] = "notified" PROVE ArmedBefore(o)'
  <2>1. status[o] = "notified" /\ ArmedBefore(o)
    BY <1>1, ArmedParts
  <2>2. faults > 0 => faults' > 0
    BY DEF TypeOK
  <2>3. QED
    BY <2>1, <2>2 DEF ArmedBefore, ArmedBy, Arming, ActiveJobs
<1>2. LaterThanItself'
  BY ArmedParts DEF LaterThanItself
<1>3. ArmedOnReminding'
  <2>1. worker.pc \in {"remind", "ack"} => worker.job.occ \in Occurrence
    BY WorkerRun
  <2>2. QED
    BY <2>1, ArmedParts DEF ArmedOnReminding, ArmedBy
<1>4. QED
  BY <1>1, <1>2, <1>3, ArmedParts

LEMMA ArmedStep ==
  ASSUME TypeOK, ReminderInv, ArmedInv, [Next]_vars PROVE ArmedInv'
<1>1. ASSUME NEW r \in Request, RequestStart(r) \/ RequestStep(r) \/ RequestFault(r)
      PROVE  ArmedInv'
  <2>1. UNCHANGED <<reminded, queue, dead, worker>>
    BY <1>1, RequestKeeps DEF ReminderInv, jobVars
  <2>2. faults' = faults \/ faults' = faults + 1
    BY <1>1, RequestKeeps DEF ReminderInv
  <2>3. \A o \in Occurrence : status'[o] = status[o] \/ status'[o] # "notified"
    BY <1>1, RequestKeeps DEF ReminderInv
  <2>4. QED
    BY <2>1, <2>2, <2>3, ArmedUndisturbed
<1>2. CASE Tick \/ UNCHANGED vars
  <2>1. UNCHANGED <<reminded, queue, dead, worker, faults, status>>
    BY <1>2 DEF Tick, vars, jobVars
  <2>2. QED
    BY <2>1, ArmedUndisturbed
<1> DEFINE jobs == queue \cup dead \cup ActiveJobs
<1>3. ASSUME UNCHANGED <<reminded, status, faults>>, worker'.pc \notin {"arm", "remind", "ack"},
             \A job \in jobs : job.kind = "missed" /\ status[job.occ] = "notified" => job \in jobs',
             worker.pc # "arm"
      PROVE  ArmedInv'
  <2>1. ASSUME NEW o \in Occurrence, status'[o] = "notified" PROVE ArmedBefore(o)'
    <3>1. ArmedBy(o, jobs) \/ (faults > 0 /\ reminded[o] = 0)
      BY <1>3, <2>1, ArmedParts DEF ArmedBefore, Arming
    <3>2. ArmedBy(o, jobs) => ArmedBy(o, jobs')
      BY <1>3, <2>1 DEF ArmedBy
    <3>3. QED
      BY <1>3, <3>1, <3>2 DEF ArmedBefore, ArmedBy
  <2>2. LaterThanItself' /\ ArmedOnReminding'
    BY <1>3 DEF LaterThanItself, ArmedOnReminding
  <2>3. QED
    BY <2>1, <2>2, ArmedParts
<1>4. CASE ListScheduled
  <2>1. worker.pc = "idle" /\ worker'.pc = "expanding" /\ UNCHANGED <<queue, dead, reminded, status, faults>>
    BY <1>4, WorkerRun DEF ListScheduled
  <2>2. QED
    BY <1>3, <2>1 DEF ActiveJobs
<1>5. CASE EnqueueNotify
  <2>1. worker.pc = "expanding" /\ worker'.pc \in {"idle", "expanding"}
    <3>1. worker \in Expansions
      BY <1>5 DEF EnqueueNotify, TypeOK, Runs, Idle
    <3>2. PICK o : worker' = IF worker.list = {o} THEN Idle ELSE [worker EXCEPT !.list = @ \ {o}]
      BY <1>5 DEF EnqueueNotify
    <3>3. [worker EXCEPT !.list = @ \ {o}].pc = "expanding"
      BY <3>1 DEF Expansions
    <3>4. QED
      BY <1>5, <3>2, <3>3, WorkerRun DEF EnqueueNotify
  <2>2. queue \subseteq queue' /\ UNCHANGED <<dead, reminded, status, faults>>
    BY <1>5 DEF EnqueueNotify, QueueAdd
  <2>3. QED
    BY <1>3, <2>1, <2>2 DEF ActiveJobs
<1>6. ASSUME NEW job \in queue, TakeNotify(job) PROVE ArmedInv'
  <2>1. worker.pc = "idle" /\ worker'.pc \in {"idle", "notify"} /\ queue' = queue \ {job}
        /\ job.kind = "notify" /\ UNCHANGED <<dead, reminded, status, faults>>
    BY <1>6, WorkerRun DEF TakeNotify, Take
  <2>2. QED
    BY <1>3, <2>1 DEF ActiveJobs
<1>7. ASSUME NEW job \in queue, TakeMissed(job) PROVE ArmedInv'
  <2>1. /\ worker.pc = "idle" /\ queue' = queue \ {job} /\ job.at <= now
        /\ UNCHANGED <<dead, reminded, status, faults>> /\ job \in Job
    BY <1>7, WorkerRun DEF TakeMissed, Take, TypeOK
  <2>2. CASE status[job.occ] \in CLOSED_STATUSES /\ worker' = Idle
    <3>1. status[job.occ] # "notified"
      BY <2>2 DEF CLOSED_STATUSES
    <3>2. QED
      BY <1>3, <2>1, <2>2, <3>1, WorkerRun DEF ActiveJobs
  <2>3. CASE Postponed(job.occ) /\ worker' = [pc |-> "arm", job |-> job, until |-> deadline[job.occ]]
    <3>1. worker'.pc = "arm" /\ worker'.job = job /\ worker'.until = deadline[job.occ]
      BY <2>3
    <3>2. jobs \subseteq jobs'
      BY <2>1, <3>1 DEF ActiveJobs
    <3>3. ASSUME NEW o \in Occurrence, status'[o] = "notified" PROVE ArmedBefore(o)'
      <4>1. ArmedBy(o, jobs) \/ (faults > 0 /\ reminded[o] = 0)
        BY <2>1, <3>3, ArmedParts DEF ArmedBefore, Arming
      <4>2. ArmedBy(o, jobs) => ArmedBy(o, jobs')
        BY <3>2 DEF ArmedBy
      <4>3. QED
        BY <2>1, <4>1, <4>2 DEF ArmedBefore, ArmedBy
    <3>4. deadline[job.occ] > job.at
      <4>1. job.at \in Nat /\ now \in Nat /\ deadline[job.occ] \in Nat \cup {NoTime}
        BY <2>1 DEF Job, TypeOK
      <4>2. QED
        BY <2>1, <2>3, <4>1 DEF Postponed, NoTime
    <3>5. LaterThanItself' /\ ArmedOnReminding'
      BY <3>1, <3>4 DEF LaterThanItself, ArmedOnReminding
    <3>6. QED
      BY <3>3, <3>5, ArmedParts
  <2>4. CASE worker' = [pc |-> "fail", job |-> job, until |-> now]
    <3>1. worker'.pc = "fail" /\ worker'.job = job
      BY <2>4
    <3>2. jobs \subseteq jobs'
      BY <2>1, <3>1 DEF ActiveJobs
    <3>3. QED
      BY <1>3, <2>1, <3>1, <3>2
  <2>5. QED
    BY <1>7, <2>2, <2>3, <2>4 DEF TakeMissed, Take
<1>8. CASE MarkNotified
  <2>1. worker \in Runs /\ worker.job.occ \in Occurrence /\ worker.job.kind = "notify"
        /\ worker.pc = "notify"
    BY <1>8, WorkerRun DEF MarkNotified, ReminderInv
  <2>2. worker'.pc = "arm" /\ worker'.job = worker.job
    BY <1>8, <2>1 DEF MarkNotified, AfterNotified, Runs
  <2>3. UNCHANGED <<queue, dead, reminded, faults>>
        /\ \A o \in Occurrence : o # worker.job.occ => status'[o] = status[o]
    BY <1>8 DEF MarkNotified, TypeOK
  <2>4. jobs' = jobs
    BY <2>1, <2>2, <2>3 DEF ActiveJobs
  <2>5. ASSUME NEW o \in Occurrence, status'[o] = "notified" PROVE ArmedBefore(o)'
    <3>1. CASE o = worker.job.occ
      BY <2>2, <3>1 DEF ArmedBefore, Arming
    <3>2. CASE o # worker.job.occ
      <4>1. ArmedBy(o, jobs) \/ (faults > 0 /\ reminded[o] = 0)
        BY <2>1, <2>3, <2>5, <3>2, ArmedParts DEF ArmedBefore, Arming
      <4>2. ArmedBy(o, jobs) => ArmedBy(o, jobs')
        BY <2>4
      <4>3. QED
        BY <2>3, <4>1, <4>2 DEF ArmedBefore, ArmedBy
    <3>3. QED
      BY <3>1, <3>2
  <2>6. LaterThanItself' /\ ArmedOnReminding'
    BY <2>1, <2>2 DEF LaterThanItself, ArmedOnReminding
  <2>7. QED
    BY <2>5, <2>6, ArmedParts
<1>9. CASE EnqueueMarkMissed
  <2> DEFINE check == NewJob("missed", worker.job.occ, worker.until)
  <2>1. worker \in Runs /\ worker.job \in Job /\ worker.job.occ \in Occurrence /\ worker.pc = "arm"
    BY <1>9, WorkerRun DEF EnqueueMarkMissed
  <2>2. queue' = (IF Held(check) THEN queue ELSE queue \cup {check})
        /\ UNCHANGED <<dead, reminded, status, faults>>
    BY <1>9 DEF EnqueueMarkMissed, QueueAdd
  <2>3. check.kind = "missed" /\ check.occ = worker.job.occ /\ check.at = worker.until
    BY DEF NewJob
  <2>4. ArmedBy(worker.job.occ, queue' \cup dead')
    <3>1. CASE ~Held(check)
      BY <2>2, <2>3, <3>1 DEF ArmedBy
    <3>2. CASE Held(check)
      <4>1. ~SameId(check, worker.job)
        <5>1. worker.job.kind = "missed" => worker.until > worker.job.at
          BY <2>1, ArmedParts DEF LaterThanItself
        <5>2. worker.until \in Nat /\ worker.job.at \in Nat
          BY <2>1 DEF Runs, Job
        <5>3. QED
          BY <2>3, <5>1, <5>2 DEF SameId
      <4>2. PICK k \in queue \cup dead : SameId(check, k)
        BY <2>1, <3>2, <4>1 DEF Held, ActiveJobs
      <4>3. QED
        BY <2>2, <2>3, <3>2, <4>2 DEF ArmedBy, SameId
    <3>3. QED
      BY <3>1, <3>2
  <2>5. ASSUME NEW o \in Occurrence, status'[o] = "notified" PROVE ArmedBefore(o)'
    <3>1. CASE o = worker.job.occ
      <4>1. ArmedBy(o, jobs')
        BY <2>4, <3>1 DEF ArmedBy
      <4>2. QED
        BY <4>1 DEF ArmedBefore, ArmedBy
    <3>2. CASE o # worker.job.occ
      <4>1. ArmedBy(o, queue \cup dead) \/ (faults > 0 /\ reminded[o] = 0)
        BY <2>1, <2>2, <2>5, <3>2, ArmedParts DEF ArmedBefore, Arming, ArmedBy, ActiveJobs
      <4>2. ArmedBy(o, queue \cup dead) => ArmedBy(o, jobs')
        BY <2>2 DEF ArmedBy
      <4>3. QED
        BY <2>2, <4>1, <4>2 DEF ArmedBefore, ArmedBy
    <3>3. QED
      BY <3>1, <3>2
  <2>6. worker'.pc \in {"remind", "ack"} /\ worker'.job = worker.job
    BY <1>9, <2>1 DEF EnqueueMarkMissed, Runs
  <2>7. LaterThanItself' /\ ArmedOnReminding'
    BY <2>4, <2>6 DEF LaterThanItself, ArmedOnReminding, ArmedBy
  <2>8. QED
    BY <2>5, <2>7, ArmedParts
<1>10. CASE SendReminder
  <2>1. worker.pc = "remind" /\ worker.job.kind = "notify" /\ worker.job.occ \in Occurrence
    BY <1>10, WorkerRun DEF SendReminder, ReminderInv
  <2>2. worker'.pc = "ack" /\ worker'.job = worker.job
        /\ UNCHANGED <<queue, dead, status, faults>>
        /\ \A o \in Occurrence : o # worker.job.occ => reminded'[o] = reminded[o]
    BY <1>10, WorkerRun DEF SendReminder, TypeOK, Runs
  <2>3. ASSUME NEW o \in Occurrence, status'[o] = "notified" PROVE ArmedBefore(o)'
    <3>1. ArmedBy(o, queue \cup dead) \/ (faults > 0 /\ reminded[o] = 0 /\ o # worker.job.occ)
      <4>1. CASE o = worker.job.occ
        BY <2>1, <2>2, <2>3, <4>1, ArmedParts DEF ArmedOnReminding
      <4>2. CASE o # worker.job.occ
        BY <2>1, <2>2, <2>3, <4>2, ArmedParts DEF ArmedBefore, Arming, ArmedBy, ActiveJobs
      <4>3. QED
        BY <4>1, <4>2
    <3>2. ArmedBy(o, queue \cup dead) => ArmedBy(o, jobs')
      BY <2>2 DEF ArmedBy
    <3>3. QED
      BY <2>2, <3>1, <3>2 DEF ArmedBefore, ArmedBy
  <2>4. LaterThanItself' /\ ArmedOnReminding'
    BY <2>1, <2>2, ArmedParts DEF LaterThanItself, ArmedOnReminding, ArmedBy
  <2>5. QED
    BY <2>3, <2>4, ArmedParts
<1>11. CASE FailMissed
  <2>1. worker.pc = "fail" /\ worker.job.occ \in Occurrence
    BY <1>11, WorkerRun DEF FailMissed
  <2>2. worker'.pc = "ack" /\ worker'.job = worker.job
        /\ UNCHANGED <<queue, dead, reminded, faults>>
        /\ status'[worker.job.occ] # "notified"
        /\ \A o \in Occurrence : o # worker.job.occ => status'[o] = status[o]
    BY <1>11, <2>1, WorkerRun DEF FailMissed, FailedStatus, TypeOK, Runs
  <2>3. ASSUME NEW o \in Occurrence, status'[o] = "notified" PROVE ArmedBefore(o)'
    <3>1. o # worker.job.occ /\ status[o] = "notified"
      BY <2>2, <2>3
    <3>2. ArmedBy(o, queue \cup dead) \/ (faults > 0 /\ reminded[o] = 0)
      BY <2>1, <3>1, ArmedParts DEF ArmedBefore, Arming, ArmedBy, ActiveJobs
    <3>3. ArmedBy(o, queue \cup dead) => ArmedBy(o, jobs')
      BY <2>2 DEF ArmedBy
    <3>4. QED
      BY <2>2, <3>2, <3>3 DEF ArmedBefore, ArmedBy
  <2>4. LaterThanItself' /\ ArmedOnReminding'
    BY <2>2 DEF LaterThanItself, ArmedOnReminding
  <2>5. QED
    BY <2>3, <2>4, ArmedParts
<1>12. CASE JobThrows \/ WorkerCrash
  <2>1. worker'.pc = "idle" /\ UNCHANGED <<reminded, status>> /\ faults' > 0 /\ worker # Idle
    BY <1>12, WorkerRun DEF JobThrows, WorkerCrash, TypeOK
  <2>2. queue \subseteq queue' /\ dead \subseteq dead'
    BY <1>12 DEF JobThrows, WorkerCrash
  <2>3. ASSUME worker.pc # "expanding"
        PROVE  \E k \in queue' \cup dead' : k.kind = worker.job.kind /\ k.occ = worker.job.occ
    <3>1. worker.job \in Job
      BY <2>1, <2>3, WorkerRun DEF TypeOK, Runs, Expansions
    <3>2. /\ [worker.job EXCEPT !.tries = @ + 1].kind = worker.job.kind
          /\ [worker.job EXCEPT !.tries = @ + 1].occ = worker.job.occ
          /\ [worker.job EXCEPT !.stalled = TRUE].kind = worker.job.kind
          /\ [worker.job EXCEPT !.stalled = TRUE].occ = worker.job.occ
      BY <3>1 DEF Job
    <3>3. \/ queue' = queue \cup {[worker.job EXCEPT !.tries = @ + 1]}
          \/ queue' = queue \cup {[worker.job EXCEPT !.stalled = TRUE]}
          \/ dead' = dead \cup {worker.job}
      BY <1>12, <2>3 DEF JobThrows, WorkerCrash
    <3>4. QED
      BY <3>2, <3>3
  <2>4. ASSUME NEW o \in Occurrence, status'[o] = "notified" PROVE ArmedBefore(o)'
    <3>1. CASE ArmedBy(o, jobs)
      <4>1. ArmedBy(o, queue' \cup dead')
        BY <2>1, <2>2, <2>3, <3>1 DEF ArmedBy, ActiveJobs
      <4>2. QED
        BY <4>1 DEF ArmedBefore, ArmedBy
    <3>2. CASE Arming(o) /\ worker.job.kind = "missed"
      <4>1. ArmedBy(o, queue' \cup dead')
        BY <2>3, <3>2 DEF ArmedBy, Arming
      <4>2. QED
        BY <4>1 DEF ArmedBefore, ArmedBy
    <3>3. CASE Arming(o) /\ worker.job.kind = "notify"
      BY <2>1, <3>3 DEF ArmedBefore, Arming, ReminderInv, Notifying
    <3>4. CASE reminded[o] = 0
      BY <2>1, <3>4 DEF ArmedBefore
    <3>5. Arming(o) => worker.job.kind \in {"notify", "missed"}
      BY WorkerRun DEF Arming, Job
    <3>6. QED
      BY <2>1, <2>4, <3>1, <3>2, <3>3, <3>4, <3>5, ArmedParts DEF ArmedBefore
  <2>5. LaterThanItself' /\ ArmedOnReminding'
    BY <2>1 DEF LaterThanItself, ArmedOnReminding
  <2>6. QED
    BY <2>4, <2>5, ArmedParts
<1>13. CASE JobDone
  <2>1. worker.pc = "ack" /\ worker.job.occ \in Occurrence /\ worker'.pc = "idle"
        /\ UNCHANGED <<queue, dead, reminded, faults, status>>
    BY <1>13, WorkerRun DEF JobDone
  <2>2. ASSUME NEW o \in Occurrence, status'[o] = "notified" PROVE ArmedBefore(o)'
    <3>1. ArmedBy(o, queue \cup dead) \/ (faults > 0 /\ reminded[o] = 0)
      <4>1. CASE o = worker.job.occ
        BY <2>1, <2>2, <4>1, ArmedParts DEF ArmedOnReminding
      <4>2. CASE o # worker.job.occ
        BY <2>1, <2>2, <4>2, ArmedParts DEF ArmedBefore, Arming, ArmedBy, ActiveJobs
      <4>3. QED
        BY <4>1, <4>2
    <3>2. ArmedBy(o, queue \cup dead) => ArmedBy(o, jobs')
      BY <2>1 DEF ArmedBy
    <3>3. QED
      BY <2>1, <3>1, <3>2 DEF ArmedBefore, ArmedBy
  <2>3. LaterThanItself' /\ ArmedOnReminding'
    BY <2>1 DEF LaterThanItself, ArmedOnReminding
  <2>4. QED
    BY <2>2, <2>3, ArmedParts
<1>14. QED
  BY <1>1, <1>2, <1>4, <1>5, <1>6, <1>7, <1>8, <1>9, <1>10, <1>11, <1>12, <1>13
     DEF Next, WorkerStep

(* What has hit a job so far, an attempt that failed or a stall, was a fault;  *)
(* so a job that Redis keeps as failed has cost two at least.                 *)
Hits(job) == job.tries + (IF job.stalled THEN 1 ELSE 0)
GivenUpAfterTwo ==
  /\ \A job \in queue \cup ActiveJobs : Hits(job) <= faults
  /\ dead # {} => faults > 1

(* A fault adds one hit to the job in hand, and the last one gives it up.      *)
LEMMA FaultHits ==
  ASSUME TypeOK, GivenUpAfterTwo, JobThrows \/ WorkerCrash PROVE GivenUpAfterTwo'
<1>1. faults' = faults + 1 /\ faults \in Nat /\ ActiveJobs' = {}
  BY WorkerRun DEF JobThrows, WorkerCrash, TypeOK, ActiveJobs
<1>2. queue \subseteq Job
  BY DEF TypeOK
<1>3. \A job \in queue : Hits(job) <= faults + 1
  BY <1>1, <1>2 DEF GivenUpAfterTwo, Hits, Job, MaxAttempts
<1>4. CASE worker.pc = "expanding"
  BY <1>1, <1>3, <1>4 DEF JobThrows, WorkerCrash, GivenUpAfterTwo
<1>5. CASE worker.pc # "expanding"
  <2>1. worker.job \in Job /\ Hits(worker.job) <= faults
    <3>1. worker.pc # "idle" /\ worker \in Runs
      BY <1>5, WorkerRun DEF JobThrows, WorkerCrash, TypeOK, Expansions, Runs
    <3>2. worker.job \in ActiveJobs
      BY <1>5, <3>1 DEF ActiveJobs
    <3>3. QED
      BY <3>1, <3>2 DEF GivenUpAfterTwo, Runs
  <2>2. CASE JobThrows
    <3>1. CASE worker.job.tries + 1 < MaxAttempts
      <4> DEFINE again == [worker.job EXCEPT !.tries = @ + 1]
      <4>1. queue' = queue \cup {again} /\ dead' = dead
        BY <1>5, <2>2, <3>1 DEF JobThrows
      <4>2. again.tries = worker.job.tries + 1 /\ again.stalled = worker.job.stalled
        BY <2>1 DEF Job
      <4>3. Hits(again) <= faults + 1
        BY <1>1, <2>1, <4>2 DEF Hits, Job, MaxAttempts
      <4> HIDE DEF again
      <4>4. QED
        BY <1>1, <1>3, <4>1, <4>3 DEF GivenUpAfterTwo
    <3>2. CASE ~(worker.job.tries + 1 < MaxAttempts)
      <4>1. queue' = queue
        BY <1>5, <2>2, <3>2 DEF JobThrows
      <4>2. faults > 1
        BY <1>1, <2>1, <3>2 DEF Hits, Job, MaxAttempts
      <4>3. QED
        BY <1>1, <1>3, <4>1, <4>2 DEF GivenUpAfterTwo
    <3>3. QED
      BY <3>1, <3>2
  <2>3. CASE WorkerCrash
    <3>1. CASE ~worker.job.stalled
      <4> DEFINE again == [worker.job EXCEPT !.stalled = TRUE]
      <4>1. queue' = queue \cup {again} /\ dead' = dead
        BY <1>5, <2>3, <3>1 DEF WorkerCrash
      <4>2. again.tries = worker.job.tries /\ again.stalled = TRUE
        BY <2>1 DEF Job
      <4>3. Hits(again) <= faults + 1
        BY <1>1, <2>1, <3>1, <4>2 DEF Hits, Job, MaxAttempts
      <4> HIDE DEF again
      <4>4. QED
        BY <1>1, <1>3, <4>1, <4>3 DEF GivenUpAfterTwo
    <3>2. CASE worker.job.stalled
      <4>1. queue' = queue
        BY <1>5, <2>3, <3>2 DEF WorkerCrash
      <4>2. faults > 0
        BY <1>1, <2>1, <3>2 DEF Hits, Job, MaxAttempts
      <4>3. QED
        BY <1>1, <1>3, <4>1, <4>2 DEF GivenUpAfterTwo
    <3>3. QED
      BY <3>1, <3>2
  <2>4. QED
    BY <2>2, <2>3
<1>6. QED
  BY <1>4, <1>5

LEMMA HitsStep ==
  ASSUME TypeOK, ReminderInv, GivenUpAfterTwo, [Next]_vars PROVE GivenUpAfterTwo'
<1> DEFINE jobs == queue \cup ActiveJobs
<1>0. faults \in Nat /\ jobs \subseteq Job
  BY WorkerRun DEF TypeOK, ActiveJobs, Runs, Expansions
<1>1. ASSUME UNCHANGED <<dead, faults>>, \A job \in jobs' : job \in jobs \/ Hits(job) = 0
      PROVE  GivenUpAfterTwo'
  BY <1>0, <1>1 DEF GivenUpAfterTwo
<1>2. ASSUME NEW r \in Request, RequestStart(r) \/ RequestStep(r) \/ RequestFault(r)
      PROVE  GivenUpAfterTwo'
  <2>1. UNCHANGED jobVars /\ (faults' = faults \/ faults' = faults + 1)
    BY <1>2, RequestKeeps DEF ReminderInv
  <2>2. jobs' = jobs /\ dead' = dead
    BY <2>1 DEF jobVars, ActiveJobs
  <2>3. \A job \in jobs : Hits(job) \in Nat
    BY <1>0 DEF Hits, Job, MaxAttempts
  <2>4. QED
    BY <1>0, <2>1, <2>2, <2>3 DEF GivenUpAfterTwo
<1>3. CASE Tick \/ UNCHANGED vars
  BY <1>1, <1>3 DEF Tick, vars, jobVars, ActiveJobs
<1>4. \A kind, o, at : Hits(NewJob(kind, o, at)) = 0
  BY DEF Hits, NewJob
<1>5. ASSUME NEW new, QueueAdd(new), Hits(new) = 0, UNCHANGED <<dead, faults>>, ActiveJobs' = ActiveJobs
      PROVE  GivenUpAfterTwo'
  BY <1>1, <1>5 DEF QueueAdd
<1>6. CASE EnqueueNotify
  <2>1. UNCHANGED <<dead, faults>> /\ ActiveJobs' = {} /\ ActiveJobs = {}
    <3>1. worker \in Expansions
      BY <1>6 DEF EnqueueNotify, TypeOK, Runs, Idle
    <3>2. PICK o : worker' = IF worker.list = {o} THEN Idle ELSE [worker EXCEPT !.list = @ \ {o}]
      BY <1>6 DEF EnqueueNotify
    <3>3. [worker EXCEPT !.list = @ \ {o}].pc = "expanding"
      BY <3>1 DEF Expansions
    <3>4. worker'.pc \in {"idle", "expanding"}
      BY <3>2, <3>3, WorkerRun
    <3>5. QED
      BY <1>6, <3>4 DEF EnqueueNotify, ActiveJobs
  <2>2. QED
    BY <1>4, <1>5, <1>6, <2>1 DEF EnqueueNotify
<1>7. CASE EnqueueMarkMissed
  <2>1. worker \in Runs /\ UNCHANGED <<dead, faults>>
    BY <1>7, WorkerRun DEF EnqueueMarkMissed
  <2>2. worker'.pc \in {"remind", "ack"} /\ worker'.job = worker.job
    BY <1>7, <2>1 DEF EnqueueMarkMissed, Runs
  <2>3. ActiveJobs' = ActiveJobs
    BY <1>7, <2>2 DEF ActiveJobs, EnqueueMarkMissed
  <2>4. QED
    BY <1>4, <1>5, <1>7, <2>1, <2>3 DEF EnqueueMarkMissed
<1>8. ASSUME NEW job \in queue, TakeNotify(job) \/ TakeMissed(job) PROVE GivenUpAfterTwo'
  <2>1. UNCHANGED <<dead, faults>> /\ queue' = queue \ {job}
    BY <1>8 DEF TakeNotify, TakeMissed, Take
  <2>2. worker' = Idle \/ worker'.job = job
    BY <1>8 DEF TakeNotify, TakeMissed, Take
  <2>3. ActiveJobs' \subseteq {job}
    BY <2>2, WorkerRun DEF ActiveJobs
  <2>4. QED
    BY <1>1, <2>1, <2>3
<1>9. CASE MarkNotified \/ SendReminder \/ FailMissed
  <2>1. worker \in Runs /\ UNCHANGED <<queue, dead, faults>>
    BY <1>9, WorkerRun DEF MarkNotified, SendReminder, FailMissed
  <2>2. worker'.job = worker.job /\ worker'.pc # "expanding" /\ worker.pc \notin {"idle", "expanding"}
    BY <1>9, <2>1 DEF MarkNotified, AfterNotified, SendReminder, FailMissed, Runs
  <2>3. ActiveJobs' \subseteq ActiveJobs
    BY <2>2 DEF ActiveJobs
  <2>4. QED
    BY <1>1, <2>1, <2>3
<1>10. CASE ListScheduled \/ JobDone
  <2>1. UNCHANGED <<queue, dead, faults>> /\ worker'.pc \in {"idle", "expanding"}
    BY <1>10, WorkerRun DEF ListScheduled, JobDone
  <2>2. ActiveJobs' = {}
    BY <2>1 DEF ActiveJobs
  <2>3. QED
    BY <1>1, <2>1, <2>2
<1>11. QED
  BY <1>2, <1>3, <1>6, <1>7, <1>8, <1>9, <1>10, FaultHits DEF Next, WorkerStep

(* A mission that waits for the child has a mark-missed check that will run,   *)
(* unless a fault cut notifyOccurrence short before the reminder, or two faults *)
(* or more used up the check.                                                *)
THEOREM NotifiedStaysArmed == Spec => []NotifiedIsArmed
<1>1. Init => ReminderInv /\ ArmedInv /\ GivenUpAfterTwo
  BY WorkerRun DEF Init, ReminderInv, RemindedOnce, VerdictTargets, Notifying, Idle,
     ArmedInv, GivenUpAfterTwo, ActiveJobs
<1>2. TypeOK /\ ReminderInv /\ [Next]_vars => ReminderInv'
  BY ReminderStep
<1>3. TypeOK /\ ReminderInv /\ ArmedInv /\ [Next]_vars => ArmedInv'
  BY ArmedStep
<1>4. TypeOK /\ ReminderInv /\ GivenUpAfterTwo /\ [Next]_vars => GivenUpAfterTwo'
  BY HitsStep
<1>5. ArmedInv /\ GivenUpAfterTwo => NotifiedIsArmed
  BY DEF ArmedInv, ArmedBefore, ArmedBy, GivenUpAfterTwo, NotifiedIsArmed
<1>6. QED
  BY <1>1, <1>2, <1>3, <1>4, <1>5, TypeCorrect, PTL DEF Spec

------------------------------------------------------------------------------
(***************************************************************************)
(* Missed once.  While nothing fails, a mission has one check at a time:    *)
(* none before it was notified, and one that postpones itself or fails the  *)
(* mission has left the queue.                                             *)
(***************************************************************************)
ChecksOf(o, jobs) == {job \in jobs : job.kind = "missed" /\ job.occ = o}
Handles(kind, o) == worker.pc \in {"notify", "arm", "fail"} /\ worker.job.kind = kind /\ worker.job.occ = o
Ahead(o) == status[o] = "scheduled" \/ Handles("notify", o)

OneCheck(o) ==
  /\ Ahead(o) => ~Handles("missed", o)
  /\ Ahead(o) \/ Handles("missed", o) => ChecksOf(o, queue) = {} /\ alerts[o].missed = 0
  /\ alerts[o].missed > 0 => ChecksOf(o, queue) = {} /\ alerts[o].missed = 1
  /\ \A j, k \in ChecksOf(o, queue) : j = k
MissedInv == faults = 0 => \A o \in Occurrence : OneCheck(o)

LEMMA MissedStep ==
  ASSUME TypeOK, ReminderInv, MissedInv, [Next]_vars PROVE MissedInv'
<1>1. CASE faults' # 0
  BY <1>1 DEF MissedInv
<1>2. ASSUME faults = 0, NEW o \in Occurrence, UNCHANGED <<worker, queue>>,
             alerts'[o].missed = alerts[o].missed, status'[o] = status[o] \/ status'[o] # "scheduled"
      PROVE  OneCheck(o)'
  BY <1>2 DEF MissedInv, OneCheck, Ahead, Handles, ChecksOf
<1>3. ASSUME NEW r \in Request, RequestStart(r) \/ RequestStep(r) \/ RequestFault(r)
      PROVE  MissedInv'
  <2>1. UNCHANGED <<worker, queue>> /\ (faults' = faults \/ faults' = faults + 1)
        /\ \A o \in Occurrence : status'[o] = status[o] \/ status'[o] # "scheduled"
    BY <1>3, RequestKeeps DEF ReminderInv, jobVars
  <2>2. \A o \in Occurrence : alerts'[o].missed = alerts[o].missed
    <3>1. CASE CountSnoozes(r)
      <4>1. UNCHANGED <<now, status, deadline, completedAt, proofs, snoozes, alerts,
                        coinVars, jobVars, faults>>
        BY <3>1, Zenon DEF CountSnoozes
      <4>2. QED
        BY <4>1
    <3>2. CASE LimitAlert(r)
      BY <3>2 DEF LimitAlert, TypeOK
    <3>3. QED
      BY <1>3, <3>1, <3>2 DEF RequestStart, RequestStep, RequestFault, RequestSnooze, SubmitProof,
         ParentReview, RecordDeniedSnooze, CommitSnooze, CreateProof, Evaluate, SaveVerdict, AwardCoinsOnce
  <2>3. QED
    BY <1>2, <2>1, <2>2 DEF MissedInv, TypeOK
<1>4. CASE Tick \/ UNCHANGED vars
  <2>1. UNCHANGED <<worker, queue, status, alerts, faults>>
    BY <1>4 DEF Tick, vars, jobVars
  <2>2. QED
    BY <1>2, <2>1 DEF MissedInv
<1>5. CASE JobThrows \/ WorkerCrash
  BY <1>1, <1>5 DEF JobThrows, WorkerCrash, TypeOK
<1>6. CASE WorkerStep /\ faults' = 0
  <2>1. faults = 0
    BY <1>6 DEF WorkerStep, ListScheduled, EnqueueNotify, TakeNotify, MarkNotified,
       EnqueueMarkMissed, SendReminder, TakeMissed, FailMissed, JobDone
  <2>2. SUFFICES ASSUME NEW o \in Occurrence PROVE OneCheck(o)'
    BY DEF MissedInv
  <2>3. OneCheck(o)
    BY <2>1 DEF MissedInv
  <2>4. ASSUME UNCHANGED <<status, alerts>>, ChecksOf(o, queue') \subseteq ChecksOf(o, queue),
               \A kind \in {"notify", "missed"} : Handles(kind, o)' => Handles(kind, o)
        PROVE  OneCheck(o)'
    BY <2>3, <2>4 DEF OneCheck, Ahead
  <2>5. CASE ListScheduled
    <3>1. worker'.pc = "expanding" /\ UNCHANGED <<status, alerts, queue>>
      BY <2>5 DEF ListScheduled
    <3>2. QED
      BY <2>4, <3>1 DEF Handles
  <2>6. CASE EnqueueNotify
    <3>1. worker'.pc \in {"idle", "expanding"}
      <4>1. worker \in Expansions
        BY <2>6 DEF EnqueueNotify, TypeOK, Runs, Idle
      <4>2. PICK q : worker' = IF worker.list = {q} THEN Idle ELSE [worker EXCEPT !.list = @ \ {q}]
        BY <2>6 DEF EnqueueNotify
      <4>3. [worker EXCEPT !.list = @ \ {q}].pc = "expanding"
        BY <4>1 DEF Expansions
      <4>4. QED
        BY <4>2, <4>3, WorkerRun
    <3>2. PICK q \in worker.list : QueueAdd(NewJob("notify", q, ScheduledFor[q]))
      BY <2>6 DEF EnqueueNotify
    <3>3. ChecksOf(o, queue') \subseteq ChecksOf(o, queue)
      BY <3>2 DEF QueueAdd, NewJob, ChecksOf
    <3>4. UNCHANGED <<status, alerts>>
      BY <2>6 DEF EnqueueNotify
    <3>5. QED
      BY <2>4, <3>1, <3>3, <3>4 DEF Handles
  <2>7. ASSUME NEW job \in queue, TakeNotify(job) PROVE OneCheck(o)'
    <3>1. queue' = queue \ {job} /\ job.kind = "notify" /\ UNCHANGED <<status, alerts>>
      BY <2>7 DEF TakeNotify, Take
    <3>2. ChecksOf(o, queue') \subseteq ChecksOf(o, queue)
      BY <3>1 DEF ChecksOf
    <3>3. CASE worker' = Idle
      BY <2>4, <3>1, <3>2, <3>3, WorkerRun DEF Handles
    <3>4. CASE Notifiable(job.occ) /\ worker' = [pc |-> "notify", job |-> job, until |-> now + NotifyDeadline]
      <4>1. worker'.pc = "notify" /\ worker'.job = job /\ status[job.occ] = "scheduled"
        BY <3>4 DEF Notifiable
      <4>2. ~Handles("missed", o)' /\ (Ahead(o)' => Ahead(o))
        BY <3>1, <4>1 DEF Handles, Ahead
      <4>3. QED
        BY <2>3, <3>1, <3>2, <4>2 DEF OneCheck
    <3>5. QED
      BY <2>7, <3>3, <3>4 DEF TakeNotify, Take
  <2>8. ASSUME NEW job \in queue, TakeMissed(job) PROVE OneCheck(o)'
    <3>1. queue' = queue \ {job} /\ job.kind = "missed" /\ UNCHANGED <<status, alerts>>
      BY <2>8 DEF TakeMissed, Take
    <3>2. ChecksOf(o, queue') \subseteq ChecksOf(o, queue)
      BY <3>1 DEF ChecksOf
    <3>3. worker' = Idle \/ worker'.job = job
      BY <2>8 DEF TakeMissed, Take
    <3>4. CASE worker' = Idle \/ job.occ # o
      BY <2>4, <3>1, <3>2, <3>3, <3>4, WorkerRun DEF Handles
    <3>5. CASE worker'.job = job /\ job.occ = o
      <4>1. job \in ChecksOf(o, queue) /\ ChecksOf(o, queue') = {}
        BY <2>3, <3>1, <3>5 DEF ChecksOf, OneCheck
      <4>2. ~Ahead(o) /\ alerts[o].missed = 0 /\ ~Handles("notify", o)'
        BY <2>3, <3>1, <3>5, <4>1 DEF OneCheck, Handles, TypeOK
      <4>3. QED
        BY <3>1, <4>1, <4>2 DEF OneCheck, Ahead
    <3>6. QED
      BY <3>3, <3>4, <3>5
  <2>9. CASE MarkNotified
    <3>1. /\ worker \in Runs /\ worker.pc = "notify" /\ worker.job.occ \in Occurrence
          /\ UNCHANGED <<queue, alerts>>
          /\ status' = [status EXCEPT ![worker.job.occ] = "notified"]
          /\ worker'.pc = "arm" /\ worker'.job = worker.job
      BY <2>9, WorkerRun DEF MarkNotified, AfterNotified, Runs
    <3>2. \A kind \in {"notify", "missed"} : Handles(kind, o)' <=> Handles(kind, o)
      BY <3>1 DEF Handles
    <3>3. status'[o] = "scheduled" => status[o] = "scheduled"
      BY <3>1 DEF TypeOK
    <3>4. QED
      BY <2>3, <3>1, <3>2, <3>3 DEF OneCheck, Ahead
  <2>10. CASE EnqueueMarkMissed
    <3> DEFINE check == NewJob("missed", worker.job.occ, worker.until)
    <3>1. /\ worker.pc = "arm" /\ worker.job \in Job /\ worker'.pc \in {"remind", "ack"}
          /\ UNCHANGED <<status, alerts>> /\ queue' \subseteq queue \cup {check}
      BY <2>10, WorkerRun DEF EnqueueMarkMissed, QueueAdd, Runs
    <3>2. check.kind = "missed" /\ check.occ = worker.job.occ
      BY DEF NewJob
    <3> HIDE DEF check
    <3>3. CASE o # worker.job.occ
      BY <2>4, <3>1, <3>2, <3>3 DEF ChecksOf, Handles
    <3>4. CASE o = worker.job.occ
      <4>1. Handles("notify", o) \/ Handles("missed", o)
        BY <3>1, <3>4 DEF Handles, Job
      <4>2. ChecksOf(o, queue) = {} /\ alerts[o].missed = 0
        BY <2>3, <4>1 DEF OneCheck, Ahead
      <4>3. ChecksOf(o, queue') \subseteq {check}
        BY <3>1, <4>2 DEF ChecksOf
      <4>4. status[o] # "scheduled"
        BY <2>3, <3>1, <3>4, <4>1 DEF OneCheck, Ahead, ReminderInv, Notifying, Handles
      <4>5. ~Ahead(o)' /\ ~Handles("missed", o)'
        BY <3>1, <4>4 DEF Ahead, Handles
      <4>6. QED
        BY <3>1, <4>2, <4>3, <4>5 DEF OneCheck
    <3>5. QED
      BY <3>3, <3>4
  <2>11. CASE SendReminder \/ JobDone
    <3>1. worker'.pc \in {"idle", "ack"} /\ UNCHANGED <<status, alerts, queue>>
      BY <2>11, WorkerRun DEF SendReminder, JobDone, Runs
    <3>2. QED
      BY <2>4, <3>1 DEF Handles
  <2>12. CASE FailMissed
    <3>1. /\ worker.pc = "fail" /\ worker.job \in Job /\ worker.job.occ \in Occurrence
          /\ worker'.pc = "ack" /\ UNCHANGED queue
          /\ status' = [status EXCEPT ![worker.job.occ] = "failed"]
          /\ alerts' = [alerts EXCEPT ![worker.job.occ].missed = @ + 1]
      BY <2>12, WorkerRun DEF FailMissed, FailedStatus, Runs
    <3>2. CASE o = worker.job.occ
      <4>1. Handles("notify", o) \/ Handles("missed", o)
        BY <3>1, <3>2 DEF Handles, Job
      <4>2. ChecksOf(o, queue) = {} /\ alerts[o].missed = 0
        BY <2>3, <4>1 DEF OneCheck, Ahead
      <4>3. alerts'[o].missed = 1 /\ status'[o] = "failed"
        BY <3>1, <3>2, <4>2 DEF TypeOK
      <4>4. QED
        BY <3>1, <4>2, <4>3 DEF OneCheck, Ahead, Handles, ChecksOf
    <3>3. CASE o # worker.job.occ
      <4>1. alerts'[o].missed = alerts[o].missed /\ status'[o] = status[o]
        BY <3>1, <3>3 DEF TypeOK
      <4>2. QED
        BY <2>3, <3>1, <4>1 DEF OneCheck, Ahead, Handles
    <3>4. QED
      BY <3>2, <3>3
  <2>13. QED
    BY <1>6, <2>5, <2>6, <2>7, <2>8, <2>9, <2>10, <2>11, <2>12 DEF WorkerStep
<1>7. QED
  BY <1>1, <1>3, <1>4, <1>5, <1>6 DEF Next

(* While nothing fails, an occurrence is marked missed at most once, whatever   *)
(* the requests write over its status and however often its check is put off.   *)
THEOREM MarkedMissedOnce == Spec => []MissedOnce
<1>1. Init => ReminderInv /\ MissedInv
  <2>1. Init => ReminderInv
    BY WorkerRun DEF Init, ReminderInv, RemindedOnce, VerdictTargets, Notifying, Idle
  <2>2. Init => MissedInv
    BY DEF Init, MissedInv, OneCheck, Ahead, Handles, ChecksOf, Idle
  <2>3. QED
    BY <2>1, <2>2
<1>2. TypeOK /\ ReminderInv /\ [Next]_vars => ReminderInv'
  BY ReminderStep
<1>3. TypeOK /\ ReminderInv /\ MissedInv /\ [Next]_vars => MissedInv'
  BY MissedStep
<1>4. TypeOK /\ MissedInv => MissedOnce
  <2>1. ASSUME NEW o \in Occurrence, TypeOK, alerts[o].missed > 0 => alerts[o].missed = 1
        PROVE  alerts[o].missed <= 1
    BY <2>1 DEF TypeOK
  <2>2. QED
    BY <2>1 DEF MissedInv, OneCheck, MissedOnce
<1>5. QED
  BY <1>1, <1>2, <1>3, <1>4, TypeCorrect, PTL DEF Spec

------------------------------------------------------------------------------
(***************************************************************************)
(* The snoozed mission.  What may have closed a mission stays on record;   *)
(* until something has, its check is never given up, and a snooze that     *)
(* began on a mission that had its check finds it still there.             *)
(***************************************************************************)
Closed(o) ==
  \/ faults > 0
  \/ o \in completedAt \/ Called(o, "reject") \/ alerts[o].missed > 0
  \/ "tap_done" \in proofs[o]
Guarded(o) == ArmedBy(o, queue \cup dead \cup ActiveJobs) \/ Arming(o) \/ Closed(o)
ClosedOnes == {o \in Occurrence : Closed(o)}
GuardedOnes == {o \in Occurrence : Guarded(o)}

(* What is known of the mission a request is about.                           *)
Aware(local, closed, guarded) ==
  /\ local.pc \in SnoozePc => local.occ \in guarded
  /\ local.pc = "save" =>
       /\ local.target \in {"proof_pending", "parent_review", "completed", "failed"}
       /\ local.target \in {"parent_review", "failed"} => local.occ \in closed

SnoozeInv ==
  /\ \A o \in Occurrence : status[o] \in {"notified", "snoozed"} => o \in GuardedOnes
  /\ \A o \in Occurrence : status[o] \in CLOSED_STATUSES => o \in ClosedOnes
  /\ \A r \in Request : Aware(req[r], ClosedOnes, GuardedOnes)
  /\ worker.pc = "ack" /\ worker.job.kind = "missed" =>
       ArmedBy(worker.job.occ, queue \cup dead) \/ worker.job.occ \in ClosedOnes

LEMMA RecordsGrow ==
  ASSUME TypeOK, ReminderInv, [Next]_vars
  PROVE  /\ faults > 0 => faults' > 0
         /\ completedAt \subseteq completedAt'
         /\ \A o \in Occurrence : alerts[o].missed > 0 => alerts'[o].missed > 0
<1>1. ASSUME NEW r \in Request, RequestStart(r) \/ RequestStep(r) \/ RequestFault(r)
      PROVE  /\ faults > 0 => faults' > 0
             /\ completedAt \subseteq completedAt'
             /\ \A o \in Occurrence : alerts[o].missed > 0 => alerts'[o].missed > 0
  <2>1. faults > 0 => faults' > 0
    BY <1>1, RequestKeeps DEF ReminderInv, TypeOK
  <2>2. CASE CountSnoozes(r)
    <3>1. UNCHANGED <<now, status, deadline, completedAt, proofs, snoozes, alerts,
                      coinVars, jobVars, faults>>
      BY <2>2, Zenon DEF CountSnoozes
    <3>2. QED
      BY <2>1, <3>1
  <2>3. CASE LimitAlert(r)
    <3>1. alerts' = [alerts EXCEPT ![req[r].occ].limit = @ + 1] /\ UNCHANGED completedAt
      BY <2>3 DEF LimitAlert
    <3>2. \A o \in Occurrence : alerts'[o].missed = alerts[o].missed
      BY <3>1 DEF TypeOK
    <3>3. QED
      BY <2>1, <3>1, <3>2
  <2>4. CASE SaveVerdict(r)
    BY <2>1, <2>4 DEF SaveVerdict, Complete
  <2>5. QED
    BY <1>1, <2>1, <2>2, <2>3, <2>4 DEF RequestStart, RequestStep, RequestFault, RequestSnooze, SubmitProof,
       ParentReview, RecordDeniedSnooze, CommitSnooze, CreateProof, Evaluate, AwardCoinsOnce
<1>2. CASE FailMissed
  <2>1. alerts' = [alerts EXCEPT ![worker.job.occ].missed = @ + 1] /\ UNCHANGED <<completedAt, faults>>
    BY <1>2 DEF FailMissed, dbVars
  <2>2. \A o \in Occurrence : alerts[o].missed > 0 => alerts'[o].missed > 0
    BY <2>1 DEF TypeOK
  <2>3. QED
    BY <2>1, <2>2
<1>3. CASE JobThrows \/ WorkerCrash
  BY <1>3 DEF JobThrows, WorkerCrash, dbVars, TypeOK
<1>4. CASE (WorkerStep /\ ~FailMissed) \/ Tick \/ UNCHANGED vars
  BY <1>4 DEF vars, WorkerStep, ListScheduled, EnqueueNotify, TakeNotify, MarkNotified,
     EnqueueMarkMissed, SendReminder, TakeMissed, JobDone, Tick, dbVars
<1>5. QED
  BY <1>1, <1>2, <1>3, <1>4 DEF Next

LEMMA ClosedStays ==
  ASSUME TypeOK, TypeOK', ReminderInv, [Next]_vars PROVE ClosedOnes \subseteq ClosedOnes'
<1>1. SUFFICES ASSUME NEW o \in Occurrence, Closed(o) PROVE Closed(o)'
  BY DEF ClosedOnes
<1>2. CASE Called(o, "reject")
  BY <1>2, CallKept DEF Called, Closed
<1>3. CASE "tap_done" \in proofs[o]
  BY <1>3, ProofsKept DEF Closed
<1>4. CASE faults > 0 \/ o \in completedAt \/ alerts[o].missed > 0
  BY <1>4, RecordsGrow DEF Closed
<1>5. QED
  BY <1>1, <1>2, <1>3, <1>4 DEF Closed

(* Once enqueueMarkMissed has returned, Redis holds a check for the mission,   *)
(* its own or one of the same id, which is not the one the worker holds.       *)
LEMMA EnqueuedIsArmed ==
  ASSUME TypeOK, ArmedInv, EnqueueMarkMissed
  PROVE  ArmedBy(worker.job.occ, queue' \cup dead')
<1> DEFINE check == NewJob("missed", worker.job.occ, worker.until)
<1>1. worker \in Runs /\ worker.job \in Job /\ worker.job.occ \in Occurrence /\ worker.pc = "arm"
  BY WorkerRun DEF EnqueueMarkMissed
<1>2. queue' = (IF Held(check) THEN queue ELSE queue \cup {check}) /\ UNCHANGED dead
  BY DEF EnqueueMarkMissed, QueueAdd
<1>3. check.kind = "missed" /\ check.occ = worker.job.occ /\ check.at = worker.until
  BY DEF NewJob
<1>4. CASE ~Held(check)
  BY <1>2, <1>3, <1>4 DEF ArmedBy
<1>5. CASE Held(check)
  <2>1. worker.job.kind = "missed" => worker.until > worker.job.at
    BY <1>1, ArmedParts DEF LaterThanItself
  <2>2. worker.until \in Nat /\ worker.job.at \in Nat
    BY <1>1 DEF Runs, Job
  <2>3. ~SameId(check, worker.job)
    BY <1>3, <2>1, <2>2 DEF SameId
  <2>4. PICK k \in queue \cup dead : SameId(check, k)
    BY <1>1, <1>5, <2>3 DEF Held, ActiveJobs
  <2>5. QED
    BY <1>2, <1>3, <1>5, <2>4 DEF ArmedBy, SameId
<1>6. QED
  BY <1>4, <1>5

(* No step gives up the check of a mission that nothing has closed.            *)
LEMMA GuardStays ==
  ASSUME TypeOK, TypeOK', ReminderInv, ArmedInv, SnoozeInv, [Next]_vars
  PROVE  GuardedOnes \subseteq GuardedOnes'
<1>1. SUFFICES ASSUME NEW o \in Occurrence, Guarded(o), ~Closed(o)
               PROVE  Guarded(o)'
  <2>1. \A o \in ClosedOnes' : Guarded(o)'
    BY DEF ClosedOnes, Guarded
  <2>2. QED
    BY <2>1, ClosedStays DEF GuardedOnes, ClosedOnes
<1> DEFINE jobs == queue \cup dead \cup ActiveJobs
<1>2. ArmedBy(o, jobs) \/ Arming(o)
  BY <1>1 DEF Guarded
<1>3. ASSUME ArmedBy(o, jobs') PROVE Guarded(o)'
  BY <1>3 DEF Guarded, ArmedBy
<1>4. ASSUME UNCHANGED <<queue, dead, worker>> PROVE Guarded(o)'
  BY <1>2, <1>4 DEF Guarded, ArmedBy, Arming, ActiveJobs
<1>5. ASSUME NEW r \in Request, RequestStart(r) \/ RequestStep(r) \/ RequestFault(r)
      PROVE  Guarded(o)'
  BY <1>4, <1>5, RequestKeeps DEF ReminderInv, jobVars
<1>6. CASE Tick \/ UNCHANGED vars
  BY <1>4, <1>6 DEF Tick, vars, jobVars
<1>7. CASE JobThrows \/ WorkerCrash
  BY <1>7 DEF JobThrows, WorkerCrash, TypeOK, Guarded, Closed
<1>8. ASSUME ArmedBy(o, queue \cup dead), queue \subseteq queue', UNCHANGED dead
      PROVE  Guarded(o)'
  BY <1>3, <1>8 DEF ArmedBy
<1>9. CASE ListScheduled \/ EnqueueNotify
  <2>1. worker.pc \in {"idle", "expanding"} /\ queue \subseteq queue' /\ UNCHANGED dead
    BY <1>9, WorkerRun DEF ListScheduled, EnqueueNotify, QueueAdd
  <2>2. QED
    BY <1>2, <1>8, <2>1 DEF ActiveJobs, Arming
<1>10. ASSUME NEW job \in queue, TakeNotify(job) PROVE Guarded(o)'
  <2>1. worker.pc = "idle" /\ queue' = queue \ {job} /\ job.kind = "notify" /\ UNCHANGED dead
    BY <1>10, WorkerRun DEF TakeNotify, Take
  <2>2. QED
    BY <1>2, <1>3, <2>1 DEF ActiveJobs, Arming, ArmedBy
<1>11. ASSUME NEW job \in queue, TakeMissed(job) PROVE Guarded(o)'
  <2>1. worker.pc = "idle" /\ queue' = queue \ {job} /\ UNCHANGED dead
    BY <1>11, WorkerRun DEF TakeMissed, Take
  <2>2. CASE status[job.occ] \in CLOSED_STATUSES
    <3>1. job.occ # o
      BY <1>1, <2>2 DEF SnoozeInv, ClosedOnes
    <3>2. QED
      BY <1>2, <1>3, <2>1, <3>1 DEF ActiveJobs, Arming, ArmedBy
  <2>3. CASE status[job.occ] \notin CLOSED_STATUSES
    <3>1. worker'.pc \in {"arm", "fail"} /\ worker'.job = job
      BY <1>11, <2>3 DEF TakeMissed, Take
    <3>2. jobs \subseteq jobs'
      BY <2>1, <3>1 DEF ActiveJobs
    <3>3. QED
      BY <1>2, <1>3, <2>1, <3>2 DEF Arming, ArmedBy
  <2>4. QED
    BY <2>2, <2>3
<1>12. CASE MarkNotified \/ SendReminder
  <2>1. worker.pc \in {"notify", "remind"} /\ worker.job.kind = "notify" /\ UNCHANGED <<queue, dead>>
    BY <1>12 DEF MarkNotified, SendReminder, ReminderInv
  <2>2. ArmedBy(o, queue \cup dead)
    BY <1>2, <2>1 DEF ArmedBy, Arming, ActiveJobs
  <2>3. QED
    BY <1>8, <2>1, <2>2
<1>13. CASE EnqueueMarkMissed
  <2>1. worker.pc = "arm" /\ queue \subseteq queue' /\ UNCHANGED dead
    BY <1>13 DEF EnqueueMarkMissed, QueueAdd
  <2>2. CASE o = worker.job.occ
    BY <1>3, <1>13, <2>2, EnqueuedIsArmed DEF ArmedBy
  <2>3. CASE o # worker.job.occ
    BY <1>2, <1>8, <2>1, <2>3 DEF ArmedBy, Arming, ActiveJobs
  <2>4. QED
    BY <2>2, <2>3
<1>14. CASE FailMissed
  <2>1. worker.pc = "fail" /\ worker.job.occ \in Occurrence /\ UNCHANGED <<queue, dead>>
        /\ alerts' = [alerts EXCEPT ![worker.job.occ].missed = @ + 1]
    BY <1>14, WorkerRun DEF FailMissed
  <2>2. CASE o = worker.job.occ
    <3>1. alerts'[o].missed > 0
      BY <2>1, <2>2 DEF TypeOK
    <3>2. QED
      BY <3>1 DEF Guarded, Closed
  <2>3. CASE o # worker.job.occ
    BY <1>2, <1>8, <2>1, <2>3 DEF ArmedBy, Arming, ActiveJobs
  <2>4. QED
    BY <2>2, <2>3
<1>15. CASE JobDone
  <2>1. worker.pc = "ack" /\ UNCHANGED <<queue, dead>>
    BY <1>15 DEF JobDone
  <2>2. ArmedBy(o, queue \cup dead)
    BY <1>1, <1>2, <2>1 DEF SnoozeInv, ArmedBy, Arming, ActiveJobs, ClosedOnes
  <2>3. QED
    BY <1>8, <2>1, <2>2
<1>16. QED
  BY <1>5, <1>6, <1>7, <1>9, <1>10, <1>11, <1>12, <1>13, <1>14, <1>15 DEF Next, WorkerStep

(* A request that snoozes began on a mission that waited, and one that is about *)
(* to close a mission has its reason on record.                                *)
LEMMA AwareStays ==
  ASSUME TypeOK, TypeOK', ReminderInv, ArmedInv, SnoozeInv, [Next]_vars, NEW r \in Request
  PROVE  Aware(req'[r], ClosedOnes', GuardedOnes')
<1> DEFINE Fine(local) == Aware(local, ClosedOnes', GuardedOnes')
<1>1. ClosedOnes \subseteq ClosedOnes' /\ GuardedOnes \subseteq GuardedOnes'
  BY ClosedStays, GuardStays
<1>2. \A q \in Request : Fine(req[q])
  BY <1>1 DEF SnoozeInv, Aware
<1>3. ASSUME NEW q \in Request, NEW local, Set(q, local), Fine(local) PROVE Fine(req'[r])
  <2>1. req'[r] = IF r = q THEN local ELSE req[r]
    BY <1>3 DEF Set, TypeOK
  <2>2. QED
    BY <1>2, <1>3, <2>1
<1> HIDE DEF Fine
<1>4. ASSUME NEW local, local.pc \notin SnoozePc \cup {"save"} PROVE Fine(local)
  BY <1>4 DEF Fine, Aware
<1>5. ASSUME NEW local, local.pc \in SnoozePc, local.occ \in GuardedOnes PROVE Fine(local)
  BY <1>1, <1>5 DEF Fine, Aware, SnoozePc
<1>6. ASSUME NEW q \in Request, RequestStart(q) PROVE Fine(req'[r])
  <2>1. ASSUME NEW o \in Occurrence, NEW m \in Minutes, RequestSnooze(q, o, m)
        PROVE  Fine(req'[r])
    <3>1. PICK pc \in {"count", "deny"} : Set(q, [Call(pc, "snooze", o) EXCEPT !.minutes = m])
      BY <2>1 DEF RequestSnooze, Begin
    <3>2. /\ [Call(pc, "snooze", o) EXCEPT !.minutes = m].pc \in SnoozePc
          /\ [Call(pc, "snooze", o) EXCEPT !.minutes = m].occ = o
      BY <3>1 DEF Call, SnoozePc
    <3>3. o \in GuardedOnes
      BY <2>1 DEF RequestSnooze, SnoozeInv
    <3>4. Fine([Call(pc, "snooze", o) EXCEPT !.minutes = m])
      BY <1>5, <3>2, <3>3
    <3>5. QED
      BY <1>3, <3>1, <3>4
  <2>2. ASSUME NEW o \in Occurrence, NEW op \in {"done", "proof"}, NEW p \in ProofType,
               SubmitProof(q, op, o, p)
        PROVE  Fine(req'[r])
    <3>1. [Call("proof", op, o) EXCEPT !.proof = p, !.rounds = IF op = "done" THEN 2 ELSE 1].pc = "proof"
      BY DEF Call
    <3>2. Fine([Call("proof", op, o) EXCEPT !.proof = p, !.rounds = IF op = "done" THEN 2 ELSE 1])
      BY <1>4, <3>1 DEF SnoozePc
    <3>3. QED
      BY <1>3, <2>2, <3>2 DEF SubmitProof, Begin
  <2>3. ASSUME NEW o \in Occurrence, NEW op \in {"approve", "reject"}, ParentReview(q, op, o)
        PROVE  Fine(req'[r])
    <3> DEFINE verdict == [Call("save", op, o) EXCEPT
                             !.target = IF op = "approve" THEN "completed" ELSE "failed"]
    <3>1. /\ verdict.pc = "save" /\ verdict.op = op /\ verdict.occ = o
          /\ verdict.target = IF op = "approve" THEN "completed" ELSE "failed"
      BY DEF Call
    <3>2. Set(q, verdict)
      BY <2>3 DEF ParentReview, Begin
    <3> HIDE DEF verdict
    <3>3. req'[q] = verdict
      BY <3>2 DEF Set, TypeOK
    <3>4. op = "reject" => o \in ClosedOnes'
      BY <3>1, <3>3, IdlePc DEF ClosedOnes, Closed, Called, Idle
    <3>5. Fine(verdict)
      BY <3>1, <3>4 DEF Fine, Aware, SnoozePc
    <3>6. QED
      BY <1>3, <3>2, <3>5
  <2>4. QED
    BY <1>6, <2>1, <2>2, <2>3 DEF RequestStart
<1>7. ASSUME NEW q \in Request, RequestStep(q) \/ RequestFault(q) PROVE Fine(req'[r])
  <2>1. req[q] \in Calls
    BY <1>7, BusyCall, IdlePc DEF RequestStep, RequestFault, CountSnoozes, LimitAlert,
       RecordDeniedSnooze, CommitSnooze, CreateProof, Evaluate, SaveVerdict,
       AwardCoinsOnce, SnoozePc, VerdictPc, TypeOK, Finished, Calls
  <2>2. req[q].pc \in SnoozePc => req[q].occ \in GuardedOnes
    BY DEF SnoozeInv, Aware
  <2>3. ASSUME NEW pc \in {"evaluate", "award"}, Goto(q, pc) PROVE Fine(req'[r])
    <3>1. [req[q] EXCEPT !.pc = pc].pc = pc
      BY <2>1 DEF Calls
    <3>2. Fine([req[q] EXCEPT !.pc = pc])
      BY <1>4, <3>1 DEF SnoozePc
    <3>3. QED
      BY <1>3, <2>3, <3>2 DEF Goto
  <2>4. ASSUME NEW pc \in {"alert", "deny"}, Goto(q, pc), req[q].pc \in SnoozePc PROVE Fine(req'[r])
    <3> DEFINE moved == [req[q] EXCEPT !.pc = pc]
    <3>1. moved.pc = pc /\ moved.occ = req[q].occ
      BY <2>1 DEF Calls
    <3>2. Set(q, moved)
      BY <2>4 DEF Goto
    <3> HIDE DEF moved
    <3>3. Fine(moved)
      BY <1>5, <2>2, <2>4, <3>1 DEF SnoozePc
    <3>4. QED
      BY <1>3, <3>2, <3>3
  <2>5. CASE Finish(q)
    BY <1>3, <1>4, <2>5 DEF Finish, SnoozePc
  <2>6. CASE AfterVerdict(q)
    <3>1. [req[q] EXCEPT !.pc = "evaluate", !.rounds = 1].pc = "evaluate"
      BY <2>1 DEF Calls
    <3>2. Fine([req[q] EXCEPT !.pc = "evaluate", !.rounds = 1])
      BY <1>4, <3>1 DEF SnoozePc
    <3>3. QED
      BY <1>3, <2>5, <2>6, <3>2 DEF AfterVerdict
  <2>7. CASE CountSnoozes(q)
    <3>1. req[q].pc \in SnoozePc
      BY <2>7 DEF CountSnoozes, SnoozePc
    <3> DEFINE granted == [req[q] EXCEPT !.pc = "commit", !.until = now + req[q].minutes]
    <3>2. granted.pc = "commit" /\ granted.occ = req[q].occ
      BY <2>1 DEF Calls
    <3>3. Goto(q, "alert") \/ Goto(q, "deny") \/ Set(q, granted)
      BY <2>7 DEF CountSnoozes
    <3> HIDE DEF granted
    <3>4. Fine(granted)
      BY <1>5, <2>2, <3>1, <3>2 DEF SnoozePc
    <3>5. QED
      BY <1>3, <2>4, <3>1, <3>3, <3>4
  <2>8. CASE LimitAlert(q)
    BY <2>4, <2>8 DEF LimitAlert, SnoozePc
  <2>9. CASE Evaluate(q)
    <3> DEFINE judged == [req[q] EXCEPT !.pc = "save", !.target = Verdict(req[q].occ)]
    <3>1. judged.pc = "save" /\ judged.occ = req[q].occ /\ judged.target = Verdict(req[q].occ)
      BY <2>1 DEF Calls
    <3>2. Set(q, judged)
      BY <2>9 DEF Evaluate
    <3> HIDE DEF judged
    <3>3. Verdict(req[q].occ) = "parent_review" => req[q].occ \in ClosedOnes
      BY <2>1 DEF Verdict, ClosedOnes, Closed, Calls
    <3>4. Verdict(req[q].occ) \in {"proof_pending", "parent_review", "completed"}
      BY DEF Verdict
    <3>5. Fine(judged)
      BY <1>1, <3>1, <3>3, <3>4 DEF Fine, Aware, SnoozePc
    <3>6. QED
      BY <1>3, <3>2, <3>5
  <2>10. QED
    BY <1>7, <2>3, <2>5, <2>6, <2>7, <2>8, <2>9 DEF RequestStep, RequestFault,
       RecordDeniedSnooze, CommitSnooze, CreateProof, SaveVerdict, Complete, AwardCoinsOnce
<1>8. ASSUME WorkerStep \/ JobThrows \/ WorkerCrash \/ Tick \/ UNCHANGED vars PROVE Fine(req'[r])
  <2>1. UNCHANGED req
    BY <1>8 DEF vars, WorkerStep, ListScheduled, EnqueueNotify, TakeNotify, MarkNotified,
       EnqueueMarkMissed, SendReminder, TakeMissed, FailMissed, JobDone, JobThrows, WorkerCrash,
       Tick, dbVars
  <2>2. QED
    BY <1>2, <2>1
<1>9. Fine(req'[r])
  BY <1>6, <1>7, <1>8 DEF Next
<1>10. QED
  BY <1>9 DEF Fine

LEMMA SnoozeStep ==
  ASSUME TypeOK, TypeOK', ReminderInv, ArmedInv, SnoozeInv, [Next]_vars PROVE SnoozeInv'
<1>1. ClosedOnes \subseteq ClosedOnes' /\ GuardedOnes \subseteq GuardedOnes'
  BY ClosedStays, GuardStays
<1>2. ClosedOnes' \subseteq GuardedOnes'
  BY DEF ClosedOnes, GuardedOnes, Guarded
<1> DEFINE Known(o) == /\ status'[o] \in {"notified", "snoozed"} => o \in GuardedOnes'
                       /\ status'[o] \in CLOSED_STATUSES => o \in ClosedOnes'
<1>3. ASSUME NEW o \in Occurrence, status'[o] = status[o] PROVE Known(o)
  BY <1>1, <1>3 DEF SnoozeInv
<1>4. ASSUME NEW o \in Occurrence PROVE Known(o)
  <2>1. ASSUME NEW r \in Request, CommitSnooze(r) PROVE Known(o)
    <3>1. status' = [status EXCEPT ![req[r].occ] = "snoozed"] /\ req[r].occ \in GuardedOnes
      BY <2>1 DEF CommitSnooze, SnoozeInv, Aware, SnoozePc
    <3>2. CASE o = req[r].occ
      BY <1>1, <3>1, <3>2 DEF TypeOK, CLOSED_STATUSES
    <3>3. CASE o # req[r].occ
      BY <1>3, <3>1, <3>3 DEF TypeOK
    <3>4. QED
      BY <3>2, <3>3
  <2>2. ASSUME NEW r \in Request, SaveVerdict(r) PROVE Known(o)
    <3>1. /\ req[r].pc = "save" /\ Aware(req[r], ClosedOnes, GuardedOnes)
          /\ status' = [status EXCEPT ![req[r].occ] = req[r].target]
          /\ req[r].target = "completed" => completedAt' = completedAt \cup {req[r].occ}
      BY <2>2 DEF SaveVerdict, SnoozeInv, Complete
    <3>2. CASE o = req[r].occ
      <4>1. status'[o] = req[r].target
        BY <3>1, <3>2 DEF TypeOK
      <4>2. req[r].target = "completed" => o \in ClosedOnes'
        BY <3>1, <3>2 DEF ClosedOnes, Closed
      <4>3. QED
        BY <1>1, <3>1, <3>2, <4>1, <4>2 DEF Aware, CLOSED_STATUSES
    <3>3. CASE o # req[r].occ
      BY <1>3, <3>1, <3>3 DEF TypeOK
    <3>4. QED
      BY <3>2, <3>3
  <2>3. CASE MarkNotified
    <3>1. /\ worker \in Runs /\ worker.pc = "notify" /\ UNCHANGED <<queue, dead>>
          /\ status' = [status EXCEPT ![worker.job.occ] = "notified"]
          /\ worker' = [worker EXCEPT !.pc = "arm"]
      BY <2>3, WorkerRun DEF MarkNotified, AfterNotified
    <3>2. CASE o = worker.job.occ
      <4>1. worker'.pc = "arm" /\ worker'.job.occ = o
        BY <3>1, <3>2 DEF Runs
      <4>2. o \in GuardedOnes' /\ status'[o] = "notified"
        BY <3>1, <3>2, <4>1 DEF GuardedOnes, Guarded, Arming, TypeOK
      <4>3. QED
        BY <4>2 DEF CLOSED_STATUSES
    <3>3. CASE o # worker.job.occ
      BY <1>3, <3>1, <3>3 DEF TypeOK
    <3>4. QED
      BY <3>2, <3>3
  <2>4. CASE FailMissed
    <3>1. /\ worker.job.occ \in Occurrence
          /\ status' = [status EXCEPT ![worker.job.occ] = "failed"]
          /\ alerts' = [alerts EXCEPT ![worker.job.occ].missed = @ + 1]
      BY <2>4, WorkerRun DEF FailMissed, FailedStatus
    <3>2. CASE o = worker.job.occ
      <4>1. alerts'[o].missed > 0 /\ status'[o] = "failed"
        BY <3>1, <3>2 DEF TypeOK
      <4>2. QED
        BY <4>1 DEF ClosedOnes, Closed, CLOSED_STATUSES
    <3>3. CASE o # worker.job.occ
      BY <1>3, <3>1, <3>3 DEF TypeOK
    <3>4. QED
      BY <3>2, <3>3
  <2>5. ASSUME NEW r \in Request, CountSnoozes(r) PROVE Known(o)
    <3>1. UNCHANGED <<now, status, deadline, completedAt, proofs, snoozes, alerts,
                      coinVars, jobVars, faults>>
      BY <2>5, Zenon DEF CountSnoozes
    <3>2. QED
      BY <1>3, <3>1
  <2>6. CASE UNCHANGED status
    BY <1>3, <2>6
  <2>7. QED
    BY <2>1, <2>2, <2>3, <2>4, <2>5, <2>6 DEF Next, RequestStart, RequestStep, RequestFault, RequestSnooze, SubmitProof,
       ParentReview, LimitAlert, RecordDeniedSnooze, CreateProof, Evaluate, AwardCoinsOnce,
       vars, WorkerStep, ListScheduled, EnqueueNotify, TakeNotify,
       EnqueueMarkMissed, SendReminder, TakeMissed, JobDone, JobThrows, WorkerCrash, Tick
<1>5. \A r \in Request : Aware(req'[r], ClosedOnes', GuardedOnes')
  BY AwareStays
<1>6. worker'.pc = "ack" /\ worker'.job.kind = "missed" =>
        ArmedBy(worker'.job.occ, queue' \cup dead') \/ worker'.job.occ \in ClosedOnes'
  <2>1. CASE UNCHANGED <<worker, queue, dead>>
    BY <1>1, <2>1 DEF SnoozeInv
  <2>2. ASSUME NEW r \in Request, RequestStart(r) \/ RequestStep(r) \/ RequestFault(r)
        PROVE  UNCHANGED <<worker, queue, dead>>
    BY <2>2, RequestKeeps DEF ReminderInv, jobVars
  <2>3. CASE EnqueueMarkMissed
    <3>1. worker'.job = worker.job
      BY <2>3, WorkerRun DEF EnqueueMarkMissed, Runs
    <3>2. QED
      BY <2>3, <3>1, EnqueuedIsArmed
  <2>4. CASE SendReminder
    <3>1. worker'.job.kind = "notify"
      BY <2>4, WorkerRun DEF SendReminder, Runs, ReminderInv
    <3>2. QED
      BY <3>1
  <2>5. CASE FailMissed
    <3>1. /\ worker.job.occ \in Occurrence /\ worker'.job = worker.job
          /\ alerts' = [alerts EXCEPT ![worker.job.occ].missed = @ + 1]
      BY <2>5, WorkerRun DEF FailMissed, Runs
    <3>2. alerts'[worker.job.occ].missed > 0
      BY <3>1 DEF TypeOK
    <3>3. QED
      BY <3>1, <3>2 DEF ClosedOnes, Closed
  <2>6. CASE MarkNotified
    BY <2>6, WorkerRun DEF MarkNotified, AfterNotified, Runs
  <2>7. CASE EnqueueNotify
    <3>1. worker \in Expansions
      BY <2>7 DEF EnqueueNotify, TypeOK, Runs, Idle
    <3>2. PICK o : worker' = IF worker.list = {o} THEN Idle ELSE [worker EXCEPT !.list = @ \ {o}]
      BY <2>7 DEF EnqueueNotify
    <3>3. [worker EXCEPT !.list = @ \ {o}].pc = "expanding"
      BY <3>1 DEF Expansions
    <3>4. QED
      BY <3>2, <3>3, WorkerRun
  <2>8. ASSUME NEW job \in queue, TakeNotify(job) \/ TakeMissed(job) PROVE worker'.pc # "ack"
    BY <2>8, WorkerRun DEF TakeNotify, TakeMissed, Take
  <2>9. CASE ListScheduled \/ JobDone \/ JobThrows \/ WorkerCrash
    BY <2>9, WorkerRun DEF ListScheduled, JobDone, JobThrows, WorkerCrash
  <2>10. CASE Tick \/ UNCHANGED vars
    BY <2>1, <2>10 DEF Tick, vars, jobVars
  <2>11. QED
    BY <2>1, <2>2, <2>3, <2>4, <2>5, <2>6, <2>7, <2>8, <2>9, <2>10 DEF Next, WorkerStep
<1>7. QED
  BY <1>4, <1>5, <1>6 DEF SnoozeInv

(* Without a fault a snoozed mission loses its check only after something that *)
(* closes a mission, or the child's report that it is done; a snooze alone,     *)
(* however often it moves the deadline, never does.                            *)
THEOREM SnoozedStaysArmed == Spec => []SnoozedIsArmed
<1>1. Init => ReminderInv /\ ArmedInv /\ GivenUpAfterTwo /\ SnoozeInv
  <2>1. Init => ReminderInv /\ ArmedInv /\ GivenUpAfterTwo
    BY WorkerRun DEF Init, ReminderInv, RemindedOnce, VerdictTargets, Notifying, Idle,
       ArmedInv, GivenUpAfterTwo, ActiveJobs
  <2>2. Init => SnoozeInv
    BY DEF Init, SnoozeInv, Aware, Idle, CLOSED_STATUSES, SnoozePc
  <2>3. QED
    BY <2>1, <2>2
<1>2. TypeOK /\ ReminderInv /\ [Next]_vars => ReminderInv'
  BY ReminderStep
<1>3. TypeOK /\ ReminderInv /\ ArmedInv /\ [Next]_vars => ArmedInv'
  BY ArmedStep
<1>4. TypeOK /\ TypeOK' /\ ReminderInv /\ ArmedInv /\ SnoozeInv /\ [Next]_vars => SnoozeInv'
  BY SnoozeStep
<1>5. TypeOK /\ ReminderInv /\ GivenUpAfterTwo /\ [Next]_vars => GivenUpAfterTwo'
  BY HitsStep
<1>6. TypeOK /\ SnoozeInv /\ GivenUpAfterTwo => SnoozedIsArmed
  <2>1. TypeOK /\ GivenUpAfterTwo /\ ~(faults > 0) => dead = {}
    BY DEF TypeOK, GivenUpAfterTwo
  <2>2. QED
    BY <2>1 DEF SnoozeInv, GuardedOnes, Guarded, Closed, ArmedBy, SnoozedIsArmed
<1>7. QED
  BY <1>1, <1>2, <1>3, <1>4, <1>5, <1>6, TypeCorrect, PTL DEF Spec
=============================================================================
