-------------------------- MODULE MissionLifecycle --------------------------
(***************************************************************************)
(* The life of mission occurrences: the API's mission handlers             *)
(* (missions.service.ts, coins.service.ts) and the worker's jobs           *)
(* (deadlines.ts, scheduling.ts, main.ts) over one PostgreSQL database and *)
(* one BullMQ queue.                                                       *)
(*                                                                         *)
(* Every request is a process, split where the handler awaits the          *)
(* database: what it read in one step may be stale when it writes in the   *)
(* next one, because no handler locks a row and every status update is     *)
(* unconditional.  A refused request (a 4xx answer) changes nothing and is *)
(* not a step.  The worker runs one job at a time (BullMQ's default        *)
(* concurrency); the queue keeps a job until it completes and delivers it  *)
(* again after a failed attempt or a stall.                                *)
(***************************************************************************)
EXTENDS Integers, FiniteSets

CONSTANTS
  Occurrence,      (* rows of mission_occurrences                           *)
  Child,           (* child profiles                                        *)
  Request,         (* one-shot API requests; their number bounds the clients *)
  ChildOf,         (* the child profile of each occurrence                  *)
  ScheduledFor,    (* the time each occurrence is scheduled for             *)
  Policy,          (* the proof, snooze and reward policies of its template *)
  Operation,       (* the operations the clients call                       *)
  Minutes,         (* the snooze lengths the clients ask for                *)
  NotifyDeadline,  (* NOTIFY_DEADLINE_MS, in ticks                          *)
  Horizon,         (* horizonDays, in ticks                                 *)
  MaxTime,         (* bound: the clock stops here                           *)
  MaxFaults        (* bound: process deaths and failed steps in a behaviour *)

ProofType == {"tap_done", "photo", "geofence_exit", "parent_review"}

Policies == [rules: SUBSET ProofType, mode: {"any", "all"},
             snoozeAllowed: BOOLEAN, maxSnoozes: Nat, allowedMinutes: SUBSET Nat,
             hardDeadline: Nat, coins: Nat]

ASSUME LifecycleAssumption ==
  /\ IsFiniteSet(Request)
  /\ ChildOf \in [Occurrence -> Child]
  /\ ScheduledFor \in [Occurrence -> Nat]
  /\ Policy \in [Occurrence -> Policies]
  /\ Operation \subseteq {"snooze", "done", "proof", "approve", "reject"}
  /\ Minutes \subseteq Nat
  /\ NotifyDeadline \in Nat /\ Horizon \in Nat
  /\ MaxTime \in Nat /\ MaxFaults \in Nat

VARIABLES
  now,           (* the wall clock, shared by API, worker and queue         *)
  status,        (* MissionOccurrence.status                                *)
  deadline,      (* MissionOccurrence.currentDeadlineAt, NoTime when null   *)
  completedAt,   (* the occurrences whose completedAt is set                *)
  proofs,        (* the types of the ProofSubmissions of each occurrence    *)
  snoozes,       (* how many SnoozeEvents were approved and denied          *)
  alerts,        (* how many alerts: mission missed, snooze limit reached   *)
  ledger,        (* how many CoinLedger rows each occurrence has            *)
  balance,       (* ChildProfile.coinBalance                                *)
  reminded,      (* how many reminders went out for each occurrence         *)
  req,           (* the local state of each request                         *)
  queue,         (* jobs waiting or delayed in Redis                        *)
  dead,          (* jobs out of attempts: Redis keeps them, and their ids   *)
  worker,        (* the worker's local state                                *)
  faults         (* faults so far                                           *)

coinVars == <<ledger, balance>>
jobVars  == <<queue, dead, worker, reminded>>
vars == <<now, status, deadline, completedAt, proofs, snoozes, alerts, ledger,
          balance, reminded, req, queue, dead, worker, faults>>

NoTime == -1
Status == {"scheduled", "notified", "snoozed", "proof_pending",
           "parent_review", "completed", "failed", "cancelled"}
ApiClosed == {"completed", "failed", "cancelled"}
CLOSED_STATUSES == {"completed", "failed", "cancelled", "parent_review"}

MaxAttempts == 3
Job == [kind: {"notify", "missed"}, occ: Occurrence, at: Nat,
        tries: 0..(MaxAttempts - 1), stalled: BOOLEAN]
Idle == [pc |-> "idle"]

(***************************************************************************)
(* The queue.  The id of a job is its kind, its occurrence and, for        *)
(* mark-missed, its deadline; Queue.add ignores an id Redis still holds.   *)
(***************************************************************************)
SameId(j, k) == j.kind = k.kind /\ j.occ = k.occ /\ j.at = k.at
NewJob(kind, o, at) ==
  [kind |-> kind, occ |-> o, at |-> at, tries |-> 0, stalled |-> FALSE]
ActiveJobs == IF worker.pc \in {"idle", "expanding"} THEN {} ELSE {worker.job}
Held(job) == \E k \in queue \cup dead \cup ActiveJobs : SameId(job, k)
QueueAdd(job) == queue' = IF Held(job) THEN queue ELSE queue \cup {job}

(***************************************************************************)
(* API requests.                                                           *)
(***************************************************************************)
Call(pc, op, o) ==
  [pc |-> pc, op |-> op, occ |-> o, minutes |-> 0, proof |-> "tap_done",
   rounds |-> 1, target |-> "scheduled", until |-> 0]
Set(r, local) == req' = [req EXCEPT ![r] = local]
Begin(r, call) == req[r] = Idle /\ call.op \in Operation /\ Set(r, call)
Goto(r, pc) == Set(r, [req[r] EXCEPT !.pc = pc])
Finish(r) == Set(r, [pc |-> "done", op |-> req[r].op, occ |-> req[r].occ])

(* snooze, first read: only a mission that has notified can be snoozed. *)
RequestSnooze(r, o, m) ==
  /\ status[o] \in {"notified", "snoozed"}
  /\ LET next == IF Policy[o].snoozeAllowed THEN "count" ELSE "deny"
     IN  Begin(r, [Call(next, "snooze", o) EXCEPT !.minutes = m])
  /\ UNCHANGED <<now, status, deadline, completedAt, proofs, snoozes, alerts,
                 coinVars, jobVars, faults>>

LimitReached(o) == snoozes[o].approved >= Policy[o].maxSnoozes

(* snooze, second read: the approved SnoozeEvents are counted and the policy *)
(* applied; the new deadline is computed here and saved by the next step.    *)
CountSnoozes(r) ==
  LET o == req[r].occ
      p == Policy[o]
      until == now + req[r].minutes
      overLimit == LimitReached(o)
      overHard  == p.hardDeadline # 0 /\ until > ScheduledFor[o] + p.hardDeadline
  IN /\ req[r].pc = "count"
     /\ \/ overLimit /\ Goto(r, "alert")
        \/ /\ ~overLimit
           /\ req[r].minutes \notin p.allowedMinutes \/ overHard
           /\ Goto(r, "deny")
        \/ /\ ~overLimit /\ req[r].minutes \in p.allowedMinutes /\ ~overHard
           /\ Set(r, [req[r] EXCEPT !.pc = "commit", !.until = until])
     /\ UNCHANGED <<now, status, deadline, completedAt, proofs, snoozes, alerts,
                    coinVars, jobVars, faults>>

LimitAlert(r) ==
  /\ req[r].pc = "alert"
  /\ alerts' = [alerts EXCEPT ![req[r].occ].limit = @ + 1]
  /\ Goto(r, "deny")
  /\ UNCHANGED <<now, status, deadline, completedAt, proofs, snoozes, coinVars,
                 jobVars, faults>>

RecordDeniedSnooze(r) ==
  /\ req[r].pc = "deny"
  /\ snoozes' = [snoozes EXCEPT ![req[r].occ].denied = @ + 1]
  /\ Finish(r)
  /\ UNCHANGED <<now, status, deadline, completedAt, proofs, alerts, coinVars,
                 jobVars, faults>>

(* One transaction: the approved event, the status and the deadline. *)
CommitSnooze(r) ==
  LET o == req[r].occ
  IN /\ req[r].pc = "commit"
     /\ snoozes' = [snoozes EXCEPT ![o].approved = @ + 1]
     /\ status' = [status EXCEPT ![o] = "snoozed"]
     /\ deadline' = [deadline EXCEPT ![o] = req[r].until]
     /\ Finish(r)
     /\ UNCHANGED <<now, completedAt, proofs, alerts, coinVars, jobVars, faults>>

(* submitProof: refuse a closed mission and a proof its policy does not take. *)
(* done() is a tap_done proof whose handler evaluates twice.                  *)
SubmitProof(r, op, o, p) ==
  /\ status[o] \notin ApiClosed
  /\ p \in Policy[o].rules \ {"parent_review"}
  /\ op = "done" => p = "tap_done"
  /\ Begin(r, [Call("proof", op, o) EXCEPT !.proof = p,
                                            !.rounds = IF op = "done" THEN 2 ELSE 1])
  /\ UNCHANGED <<now, status, deadline, completedAt, proofs, snoozes, alerts,
                 coinVars, jobVars, faults>>

CreateProof(r) ==
  /\ req[r].pc = "proof"
  /\ proofs' = [proofs EXCEPT ![req[r].occ] = @ \cup {req[r].proof}]
  /\ Goto(r, "evaluate")
  /\ UNCHANGED <<now, status, deadline, completedAt, snoozes, alerts, coinVars,
                 jobVars, faults>>

Passed(o) == IF Policy[o].mode = "any" THEN Policy[o].rules \cap proofs[o] # {}
                                       ELSE Policy[o].rules \subseteq proofs[o]

VerdictTapFirst(o) ==   \* mutant: a tap completes whatever else is required
  IF "tap_done" \in proofs[o] \/ Passed(o) THEN "completed" ELSE "proof_pending"
Verdict(o) == IF Passed(o) THEN "completed"
              ELSE IF "tap_done" \in proofs[o] THEN "parent_review"
              ELSE "proof_pending"

(* evaluateAndPersist, the read: the verdict on the proofs stored so far. *)
Evaluate(r) ==
  LET o == req[r].occ
  IN /\ req[r].pc = "evaluate"
     /\ Set(r, [req[r] EXCEPT !.pc = "save", !.target = Verdict(o)])
     /\ UNCHANGED <<now, status, deadline, completedAt, proofs, snoozes, alerts,
                    coinVars, jobVars, faults>>

(* parentReview: the occurrence exists; its status is not looked at. *)
ParentReview(r, op, o) ==
  /\ op \in {"approve", "reject"}
  /\ Begin(r, [Call("save", op, o) EXCEPT
                !.target = IF op = "approve" THEN "completed" ELSE "failed"])
  /\ UNCHANGED <<now, status, deadline, completedAt, proofs, snoozes, alerts,
                 coinVars, jobVars, faults>>

(* What follows a verdict and its award: done() evaluates a second time. *)
AfterVerdict(r) ==
  \/ req[r].rounds = 1 /\ Finish(r)
  \/ /\ req[r].rounds = 2
     /\ Set(r, [req[r] EXCEPT !.pc = "evaluate", !.rounds = 1])

(* The rest of the update to completed: the time, and the award comes next. *)
CompleteUntimed(r, o) ==   \* mutant: completedAt is not written
  UNCHANGED completedAt /\ Goto(r, "award")
Complete(r, o) == completedAt' = completedAt \cup {o} /\ Goto(r, "award")

(* The unconditional update of evaluateAndPersist and of parentReview. *)
SaveVerdict(r) ==
  LET o == req[r].occ
  IN /\ req[r].pc = "save"
     /\ status' = [status EXCEPT ![o] = req[r].target]
     /\ \/ req[r].target = "completed" /\ Complete(r, o)
        \/ /\ req[r].target # "completed"
           /\ UNCHANGED completedAt
           /\ AfterVerdict(r)
     /\ UNCHANGED <<now, deadline, proofs, snoozes, alerts, coinVars, jobVars, faults>>

Paid(o) == ledger[o] > 0

(* awardCompletionCoins: nothing to pay, or one transaction inserting the     *)
(* ledger row and incrementing the balance, which the unique index on         *)
(* CoinLedger.occurrenceId rolls back when the occurrence was paid before.    *)
AwardSplit(o) ==   \* mutant: the increment is outside the transaction
  /\ ledger' = [ledger EXCEPT ![o] = 1]
  /\ balance' = [balance EXCEPT ![ChildOf[o]] = @ + Policy[o].coins]
Award(o) ==
  IF Policy[o].coins <= 0 \/ Paid(o)
  THEN UNCHANGED coinVars
  ELSE /\ ledger' = [ledger EXCEPT ![o] = @ + 1]
       /\ balance' = [balance EXCEPT ![ChildOf[o]] = @ + Policy[o].coins]

AwardCoinsOnce(r) ==
  /\ req[r].pc = "award"
  /\ Award(req[r].occ)
  /\ AfterVerdict(r)
  /\ UNCHANGED <<now, status, deadline, completedAt, proofs, snoozes, alerts,
                 jobVars, faults>>

(* The API process dies, or a query of the handler fails: the rest is lost. *)
RequestFault(r) ==
  /\ faults < MaxFaults
  /\ req[r].pc \notin {"idle", "done"}
  /\ Finish(r)
  /\ faults' = faults + 1
  /\ UNCHANGED <<now, status, deadline, completedAt, proofs, snoozes, alerts,
                 coinVars, jobVars>>

RequestStart(r) ==
  \E o \in Occurrence :
    \/ \E m \in Minutes : RequestSnooze(r, o, m)
    \/ \E op \in {"done", "proof"}, p \in ProofType : SubmitProof(r, op, o, p)
    \/ \E op \in {"approve", "reject"} : ParentReview(r, op, o)
RequestStep(r) ==
  \/ CountSnoozes(r) \/ LimitAlert(r) \/ RecordDeniedSnooze(r) \/ CommitSnooze(r)
  \/ CreateProof(r) \/ Evaluate(r) \/ SaveVerdict(r) \/ AwardCoinsOnce(r)

(***************************************************************************)
(* Worker jobs.                                                            *)
(***************************************************************************)
dbVars == <<now, completedAt, proofs, snoozes, coinVars, req>>
Take(job, local) ==
  /\ queue' = queue \ {job}
  /\ worker' = local

(* expand-occurrences, enqueueScheduledNotifications: list the scheduled      *)
(* occurrences, then add their jobs one by one.  A run with nothing to add    *)
(* changes nothing and is not a step.                                         *)
UpcomingLater ==   \* mutant: the query starts after now
  {o \in Occurrence : status[o] = "scheduled" /\ ScheduledFor[o] \in now + 1..now + Horizon}
Upcoming == {o \in Occurrence : status[o] = "scheduled" /\ ScheduledFor[o] <= now + Horizon}
ListScheduled ==
  /\ worker = Idle
  /\ \E o \in Upcoming : ~Held(NewJob("notify", o, ScheduledFor[o]))
  /\ worker' = [pc |-> "expanding", list |-> Upcoming]
  /\ UNCHANGED <<dbVars, status, deadline, alerts, reminded, queue, dead, faults>>

EnqueueNotify ==
  /\ worker.pc = "expanding"
  /\ \E o \in worker.list :
       /\ QueueAdd(NewJob("notify", o, ScheduledFor[o]))
       /\ worker' = IF worker.list = {o} THEN Idle
                    ELSE [worker EXCEPT !.list = @ \ {o}]
  /\ UNCHANGED <<dbVars, status, deadline, alerts, reminded, dead, faults>>

(* notifyOccurrence, the read: only a scheduled occurrence is notified. *)
NotifiableAlways(o) == TRUE   \* mutant: the check of the status is dropped
Notifiable(o) == status[o] = "scheduled"
TakeNotify(job) ==
  /\ worker = Idle /\ job.kind = "notify" /\ job.at <= now
  /\ Take(job, IF Notifiable(job.occ)
               THEN [pc |-> "notify", job |-> job, until |-> now + NotifyDeadline]
               ELSE Idle)
  /\ UNCHANGED <<dbVars, status, deadline, alerts, reminded, dead, faults>>

AfterNotifiedUnarmed == "remind"   \* mutant: the reminder goes out instead
AfterNotified == "arm"
MarkNotified ==
  /\ worker.pc = "notify"
  /\ status' = [status EXCEPT ![worker.job.occ] = "notified"]
  /\ deadline' = [deadline EXCEPT ![worker.job.occ] = worker.until]
  /\ worker' = [worker EXCEPT !.pc = AfterNotified]
  /\ UNCHANGED <<dbVars, alerts, reminded, queue, dead, faults>>

EnqueueAndFail ==   \* mutant: markMissed does not return once it has postponed
  /\ worker.pc = "arm"
  /\ QueueAdd(NewJob("missed", worker.job.occ, worker.until))
  /\ worker' = [worker EXCEPT !.pc = IF worker.job.kind = "notify" THEN "remind" ELSE "fail"]
  /\ UNCHANGED <<dbVars, status, deadline, alerts, reminded, dead, faults>>
EnqueueSameId ==   \* mutant: the check goes back under the id that Redis still holds
  /\ worker.pc = "arm"
  /\ QueueAdd(NewJob("missed", worker.job.occ,
                     IF worker.job.kind = "notify" THEN worker.until ELSE worker.job.at))
  /\ worker' = [worker EXCEPT !.pc = IF worker.job.kind = "notify" THEN "remind" ELSE "ack"]
  /\ UNCHANGED <<dbVars, status, deadline, alerts, reminded, dead, faults>>
EnqueueMarkMissed ==
  /\ worker.pc = "arm"
  /\ QueueAdd(NewJob("missed", worker.job.occ, worker.until))
  /\ worker' = [worker EXCEPT !.pc = IF worker.job.kind = "notify" THEN "remind" ELSE "ack"]
  /\ UNCHANGED <<dbVars, status, deadline, alerts, reminded, dead, faults>>

SendReminder ==
  /\ worker.pc = "remind"
  /\ reminded' = [reminded EXCEPT ![worker.job.occ] = @ + 1]
  /\ worker' = [worker EXCEPT !.pc = "ack"]
  /\ UNCHANGED <<dbVars, status, deadline, alerts, queue, dead, faults>>

(* markMissed, the read: done for a closed mission, again later when a snooze *)
(* moved the deadline (or none is set: NoTime is never in the future).        *)
PostponedAtDeadline(o) == deadline[o] >= now   \* mutant: due now counts as later
Postponed(o) == deadline[o] > now
TakeMissed(job) ==
  /\ worker = Idle /\ job.kind = "missed" /\ job.at <= now
  /\ Take(job, IF status[job.occ] \in CLOSED_STATUSES THEN Idle
               ELSE IF Postponed(job.occ)
               THEN [pc |-> "arm", job |-> job, until |-> deadline[job.occ]]
               ELSE [pc |-> "fail", job |-> job, until |-> now])
  /\ UNCHANGED <<dbVars, status, deadline, alerts, reminded, dead, faults>>

(* One transaction: failed, and the parent's alert. *)
FailedStatusMissed == "missed"   \* mutant: a status no other code knows
FailedStatus == "failed"
FailMissed ==
  /\ worker.pc = "fail"
  /\ status' = [status EXCEPT ![worker.job.occ] = FailedStatus]
  /\ alerts' = [alerts EXCEPT ![worker.job.occ].missed = @ + 1]
  /\ worker' = [worker EXCEPT !.pc = "ack"]
  /\ UNCHANGED <<dbVars, deadline, reminded, queue, dead, faults>>

(* The handler has returned and BullMQ removes the job (removeOnComplete); a  *)
(* worker that dies before that gets the job again.                           *)
JobDone ==
  /\ worker.pc = "ack"
  /\ worker' = Idle
  /\ UNCHANGED <<dbVars, status, deadline, alerts, reminded, queue, dead, faults>>

(* BullMQ: a handler that throws is tried again until its attempts run out;   *)
(* a job whose worker died is stalled and delivered once more.                *)
JobThrows ==
  /\ faults < MaxFaults
  /\ worker.pc \notin {"idle", "ack"}
  /\ IF worker.pc = "expanding" THEN UNCHANGED <<queue, dead>>
     ELSE IF worker.job.tries + 1 < MaxAttempts
     THEN queue' = queue \cup {[worker.job EXCEPT !.tries = @ + 1]} /\ UNCHANGED dead
     ELSE dead' = dead \cup {worker.job} /\ UNCHANGED queue
  /\ worker' = Idle
  /\ faults' = faults + 1
  /\ UNCHANGED <<dbVars, status, deadline, alerts, reminded>>

WorkerCrash ==
  /\ faults < MaxFaults
  /\ worker # Idle
  /\ IF worker.pc = "expanding" THEN UNCHANGED <<queue, dead>>
     ELSE IF ~worker.job.stalled
     THEN queue' = queue \cup {[worker.job EXCEPT !.stalled = TRUE]} /\ UNCHANGED dead
     ELSE dead' = dead \cup {worker.job} /\ UNCHANGED queue
  /\ worker' = Idle
  /\ faults' = faults + 1
  /\ UNCHANGED <<dbVars, status, deadline, alerts, reminded>>

WorkerStep ==
  \/ ListScheduled \/ EnqueueNotify \/ MarkNotified \/ EnqueueMarkMissed
  \/ SendReminder \/ FailMissed \/ JobDone
  \/ \E job \in queue : TakeNotify(job) \/ TakeMissed(job)

Tick ==
  /\ now < MaxTime
  /\ now' = now + 1
  /\ UNCHANGED <<status, deadline, completedAt, proofs, snoozes, alerts, coinVars,
                 jobVars, req, faults>>

-----------------------------------------------------------------------------
Init ==
  /\ now = 0
  /\ status = [o \in Occurrence |-> "scheduled"]
  /\ deadline = [o \in Occurrence |-> NoTime]
  /\ completedAt = {}
  /\ proofs = [o \in Occurrence |-> {}]
  /\ snoozes = [o \in Occurrence |-> [approved |-> 0, denied |-> 0]]
  /\ alerts = [o \in Occurrence |-> [missed |-> 0, limit |-> 0]]
  /\ ledger = [o \in Occurrence |-> 0]
  /\ balance = [c \in Child |-> 0]
  /\ reminded = [o \in Occurrence |-> 0]
  /\ req = [r \in Request |-> Idle]
  /\ queue = {} /\ dead = {}
  /\ worker = Idle
  /\ faults = 0

Next ==
  \/ \E r \in Request : RequestStart(r) \/ RequestStep(r) \/ RequestFault(r)
  \/ WorkerStep \/ JobThrows \/ WorkerCrash
  \/ Tick

Spec == Init /\ [][Next]_vars

(* The worker takes its jobs, time passes and a handler that began goes on;   *)
(* nobody is bound to call the API, and nothing has to fail.                  *)
Fairness ==
  /\ WF_vars(WorkerStep)
  /\ WF_vars(Tick)
  /\ \A r \in Request : WF_vars(RequestStep(r))
FairSpec == Spec /\ Fairness
-----------------------------------------------------------------------------
SnoozePc == {"count", "alert", "deny", "commit"}
VerdictPc == {"proof", "evaluate", "save", "award"}
Calls == [pc: SnoozePc \cup VerdictPc, op: Operation, occ: Occurrence, minutes: Nat,
          proof: ProofType, rounds: {1, 2}, target: Status, until: Nat]
Finished == [pc: {"done"}, op: Operation, occ: Occurrence]
Runs == [pc: {"notify", "arm", "remind", "fail", "ack"}, job: Job, until: Nat]
Expansions == [pc: {"expanding"}, list: SUBSET Occurrence]

(* Every variable keeps the shape of its column, job or handler. *)
TypeOK ==
  /\ now \in Nat /\ faults \in Nat
  /\ status \in [Occurrence -> Status]
  /\ deadline \in [Occurrence -> Nat \cup {NoTime}]
  /\ completedAt \subseteq Occurrence
  /\ proofs \in [Occurrence -> SUBSET ProofType]
  /\ snoozes \in [Occurrence -> [approved: Nat, denied: Nat]]
  /\ alerts \in [Occurrence -> [missed: Nat, limit: Nat]]
  /\ ledger \in [Occurrence -> Nat] /\ balance \in [Child -> Nat]
  /\ reminded \in [Occurrence -> Nat]
  /\ req \in [Request -> {Idle} \cup Calls \cup Finished]
  /\ queue \subseteq Job /\ dead \subseteq Job
  /\ worker \in {Idle} \cup Runs \cup Expansions

Called(o, op) == \E r \in Request : req[r] # Idle /\ req[r].op = op /\ req[r].occ = o

(* The handlers implement the account of CoinAccount: every step of theirs    *)
(* completes an occurrence, pays a completed one that was not paid before, or *)
(* leaves the account alone; the insert and the increment go together.        *)
Account == INSTANCE CoinAccount WITH earned <- completedAt,
                                     Coins <- [o \in Occurrence |-> Policy[o].coins]
ImplementsAccount == Account!AccountSpec

(* Coins are paid at most once for an occurrence, and only for one that was   *)
(* completed by proofs that satisfy its policy or by a parent's approval:     *)
(* awardCoinsOnce runs after the update to completed, whatever the other      *)
(* handlers wrote to the row in between (coins.service.ts, evaluateAndPersist). *)
(* And a child's balance is the sum of what its occurrences were paid.        *)
PaidWhenEarned ==
  \A o \in Occurrence :
    /\ ledger[o] <= 1
    /\ Paid(o) => o \in completedAt /\ (Passed(o) \/ Called(o, "approve"))
CoinsEarned == PaidWhenEarned /\ Account!BooksBalance

(* A mission that waits for the child has a mark-missed check that will still   *)
(* run: in the queue, in the hands of the worker, or about to be enqueued by it. *)
(* Two things lose it: a fault between the update and the enqueue of            *)
(* notifyOccurrence, and then no reminder was sent; and two faults or more that  *)
(* hit the check itself, until BullMQ gives it up: it has then stalled twice or  *)
(* used up its attempts, and its id keeps another check of that deadline away.  *)
ArmedBy(o, jobs) == \E job \in jobs : job.kind = "missed" /\ job.occ = o
Arming(o) == worker.pc = "arm" /\ worker.job.occ = o
NotifiedIsArmed ==
  \A o \in Occurrence :
    status[o] = "notified" => \/ ArmedBy(o, queue \cup ActiveJobs)
                              \/ Arming(o)
                              \/ faults > 0 /\ reminded[o] = 0
                              \/ faults > 1 /\ ArmedBy(o, dead)

(* A child is reminded at most once of an occurrence, however often its       *)
(* notify-occurrence job is delivered, and never of one still scheduled.      *)
RemindedOnce ==
  \A o \in Occurrence : reminded[o] <= 1 /\ (reminded[o] = 1 => status[o] # "scheduled")

(* While nothing fails, an occurrence is marked missed at most once: two      *)
(* checks of one occurrence are never in the queue together, although a       *)
(* request that read it earlier may reopen it afterwards.                     *)
MissedOnce == faults = 0 => \A o \in Occurrence : alerts[o].missed <= 1

(* A snooze writes its status over whatever the mission has become since its    *)
(* request read it, so a snoozed mission may have lost its check; while nothing *)
(* fails, only one that was closed before: completed, rejected, missed, or       *)
(* reported done.  A check that finds a later deadline is put back for that.    *)
SnoozedIsArmed ==
  \A o \in Occurrence :
    status[o] = "snoozed" =>
      \/ ArmedBy(o, queue \cup ActiveJobs) \/ Arming(o)
      \/ faults > 0
      \/ o \in completedAt \/ Called(o, "reject") \/ alerts[o].missed > 0
      \/ "tap_done" \in proofs[o]

-----------------------------------------------------------------------------
(* Liveness, while nothing fails.                                             *)

(* A mission whose time comes does not wait for ever: the worker finds it and   *)
(* notifies the child, and unless somebody acts on it the check at its deadline  *)
(* closes it.                                                                 *)
Waiting(o) == status[o] \in {"scheduled", "notified"}
MissionsResolve ==
  \A o \in Occurrence :
    (Waiting(o) /\ ScheduledFor[o] <= MaxTime) ~> (~Waiting(o) \/ deadline[o] > MaxTime)

(* A notified mission does not stay so past its deadline: "if the occurrence  *)
(* is still `notified` at the deadline, marks it `failed`"                    *)
(* (push-notifications.md:13).  With a fault this is refuted: the retry of    *)
(* notifyOccurrence sees `notified` and never enqueues the check.             *)
NotifiedResolves ==
  \A o \in Occurrence :
    (status[o] = "notified" /\ deadline[o] <= MaxTime) ~> (status[o] # "notified")

-----------------------------------------------------------------------------
(* What the documents say of the handlers and the interleavings refute.       *)

(* "mark-missed does nothing for a closed occurrence" (deadlines.test.ts:112). *)
ClosedNotMarkedMissed ==
  [][\A o \in Occurrence :
       alerts'[o].missed > alerts[o].missed => status[o] \notin CLOSED_STATUSES]_vars

(* "a snoozed mission is not failed by the original deadline"                 *)
(* (push-notifications.md:13).                                                *)
SnoozeRespected ==
  [][\A o \in Occurrence :
       alerts'[o].missed > alerts[o].missed => deadline[o] <= now]_vars

(* "request a snooze; validated against the snooze policy" (missions.md:18).  *)
SnoozesWithinLimit ==
  \A o \in Occurrence : snoozes[o].approved <= Policy[o].maxSnoozes

(* "the worker respects the latest deadline" (missions.md:37): a snoozed      *)
(* mission does not stay so past its deadline.                                *)
SnoozedResolves ==
  \A o \in Occurrence :
    (status[o] = "snoozed" /\ deadline[o] <= MaxTime) ~> (status[o] # "snoozed")

(* "notifies child devices at the scheduled time via FCM, enforces deadlines"   *)
(* (push-notifications.md:5): a mission whose time has come and that lacks       *)
(* proofs is reminded of.  It is not if the first proof came before its time:    *)
(* notifyOccurrence then leaves it alone, and it has no deadline either.        *)
PendingIsReminded ==
  \A o \in Occurrence :
    (status[o] = "proof_pending" /\ reminded[o] = 0 /\ ScheduledFor[o] <= MaxTime)
      ~> (status[o] # "proof_pending" \/ reminded[o] = 1)
=============================================================================
