--------------------------- MODULE DeviceCommands ----------------------------
(***************************************************************************)
(* The device action bridge: commands for one paired device, made from     *)
(* confirmed drafts (device-commands.service.ts), pulled and executed by   *)
(* the app (Android bridge/) and answered once.                            *)
(*                                                                         *)
(* A poll is one run of DeviceCommandProcessor.pollAndExecute.  The app    *)
(* polls when it is opened and on a ping, so two polls may overlap.  The   *)
(* pull handler awaits three queries and the result handler two; each is a *)
(* step of its own here.  The device runs read-only handlers, so running a *)
(* command twice is allowed.                                               *)
(***************************************************************************)
EXTENDS Integers, FiniteSets

CONSTANTS
  Command,     (* rows of device_commands, each from one confirmed draft     *)
  Poll,        (* polls that may be under way at once                        *)
  TTL,         (* COMMAND_TTL_MS, in ticks                                   *)
  MaxTime,     (* bound: the clock stops here                                *)
  MaxFaults    (* bound: lost requests and answers, and process deaths       *)

ASSUME CommandsAssumption == TTL \in Nat /\ MaxTime \in Nat /\ MaxFaults \in Nat

VARIABLES
  now,
  enabled,     (* DeviceCapabilityGrant.enabled; no row counts as enabled    *)
  creating,    (* creations that passed assertCapabilityEnabled              *)
  status,      (* DeviceCommand.status, "none" before the row exists         *)
  expiresAt,   (* DeviceCommand.expiresAt                                    *)
  result,      (* DeviceCommandResult.status, unique by command              *)
  audits,      (* how many AgentAuditLog rows report each command's result   *)
  poll,        (* the local state of each poll                               *)
  faults

bus == <<creating, status, expiresAt, result, audits>>
vars == <<now, enabled, creating, status, expiresAt, result, audits, poll, faults>>

NoResult == "none"
Outcome == {"completed", "failed", "permission_required"}
OpenStatus == {"pending", "dispatched"}
Status == OpenStatus \cup {"completed", "failed", "expired", "none"}

Idle == [pc |-> "idle"]
Become(p, local) == poll' = [poll EXCEPT ![p] = local]
Running(list) == IF list = {} THEN Idle ELSE [pc |-> "run", list |-> list]

(* createFromReadContextDraft: the grant is read first, the row written next. *)
CheckCapability(c) ==
  /\ status[c] = "none" /\ c \notin creating
  /\ enabled
  /\ creating' = creating \cup {c}
  /\ UNCHANGED <<now, enabled, status, expiresAt, result, audits, poll, faults>>

CreateCommand(c) ==
  /\ c \in creating
  /\ creating' = creating \ {c}
  /\ status' = [status EXCEPT ![c] = "pending"]
  /\ expiresAt' = [expiresAt EXCEPT ![c] = now + TTL]
  /\ UNCHANGED <<now, enabled, result, audits, poll, faults>>

SetCapabilityGrant ==
  /\ enabled' = ~enabled
  /\ UNCHANGED <<now, bus, poll, faults>>

(***************************************************************************)
(* The pull: expire what is stale, read what is open, mark what was        *)
(* pending.  The mark names the rows by id and does not look at them again. *)
(***************************************************************************)
StalePending(c) ==   \* mutant: what was dispatched does not expire
  status[c] = "pending" /\ expiresAt[c] <= now
Stale(c) == status[c] \in OpenStatus /\ expiresAt[c] <= now
DuePending(c, at) ==   \* mutant: what was dispatched is not sent again
  status[c] = "pending" /\ expiresAt[c] > at
Due(c, at) == status[c] \in OpenStatus /\ expiresAt[c] > at

PullExpire(p) ==
  /\ poll[p] = Idle
  /\ status' = [c \in Command |-> IF Stale(c) THEN "expired" ELSE status[c]]
  /\ Become(p, [pc |-> "find", at |-> now])
  /\ UNCHANGED <<now, enabled, creating, expiresAt, result, audits, faults>>

PullFind(p) ==
  /\ poll[p].pc = "find"
  /\ LET list  == {c \in Command : Due(c, poll[p].at)}
         fresh == {c \in list : status[c] = "pending"}
     IN  Become(p, IF fresh = {} THEN Running(list)
                   ELSE [pc |-> "mark", list |-> list, fresh |-> fresh])
  /\ UNCHANGED <<now, enabled, bus, faults>>

PullMark(p) ==
  /\ poll[p].pc = "mark"
  /\ status' = [c \in Command |-> IF c \in poll[p].fresh THEN "dispatched" ELSE status[c]]
  /\ Become(p, Running(poll[p].list))
  /\ UNCHANGED <<now, enabled, creating, expiresAt, result, audits, faults>>

(***************************************************************************)
(* The app: run the handler of one command, post what it reports, go on    *)
(* with the rest whatever became of the post.                              *)
(***************************************************************************)
Run(p) ==
  /\ poll[p].pc = "run"
  /\ \E c \in poll[p].list, outcome \in Outcome :
       Become(p, [pc |-> "post", list |-> poll[p].list \ {c}, cur |-> c, outcome |-> outcome])
  /\ UNCHANGED <<now, enabled, bus, faults>>

(* submitResult, the read: a stored result is returned as it is. *)
PostFind(p) ==
  /\ poll[p].pc = "post"
  /\ Become(p, IF result[poll[p].cur] # NoResult THEN Running(poll[p].list)
               ELSE [poll[p] EXCEPT !.pc = "store"])
  /\ UNCHANGED <<now, enabled, bus, faults>>

ClosedAsTold(outcome) == outcome   \* mutant: permission_required is no status of a command
ClosedUnlessFailed(outcome) ==     \* mutant: a missing permission counts as completed
  IF outcome = "failed" THEN "failed" ELSE "completed"
ClosedAs(outcome) == IF outcome = "completed" THEN "completed" ELSE "failed"

(* submitResult, the transaction: result, status and audit entry, or nothing  *)
(* when the unique commandId says that another post was faster.               *)
NeverDuplicate(c) == FALSE   \* mutant: commandId is not unique
Duplicate(c) == result[c] # NoResult
PostStore(p) ==
  LET c == poll[p].cur
  IN /\ poll[p].pc = "store"
     /\ \/ Duplicate(c) /\ UNCHANGED <<result, status, audits>>
        \/ /\ ~Duplicate(c)
           /\ result' = [result EXCEPT ![c] = poll[p].outcome]
           /\ status' = [status EXCEPT ![c] = ClosedAs(poll[p].outcome)]
           /\ audits' = [audits EXCEPT ![c] = @ + 1]
     /\ Become(p, Running(poll[p].list))
     /\ UNCHANGED <<now, enabled, creating, expiresAt, faults>>

(* The pull's answer is lost, the API dies in a handler or the app is killed. *)
PollLost(p) ==
  /\ faults < MaxFaults
  /\ poll[p] # Idle
  /\ Become(p, Idle)
  /\ faults' = faults + 1
  /\ UNCHANGED <<now, enabled, bus>>

(* A post fails; runCatching goes on with the rest of the batch. *)
PostLost(p) ==
  /\ faults < MaxFaults
  /\ poll[p].pc \in {"post", "store"}
  /\ Become(p, Running(poll[p].list))
  /\ faults' = faults + 1
  /\ UNCHANGED <<now, enabled, bus>>

Tick ==
  /\ now < MaxTime
  /\ now' = now + 1
  /\ UNCHANGED <<enabled, bus, poll, faults>>

PollStep(p) ==
  PullExpire(p) \/ PullFind(p) \/ PullMark(p) \/ Run(p) \/ PostFind(p) \/ PostStore(p)

Init ==
  /\ now = 0 /\ faults = 0 /\ enabled = TRUE
  /\ creating = {}
  /\ status = [c \in Command |-> "none"]
  /\ expiresAt = [c \in Command |-> 0]
  /\ result = [c \in Command |-> NoResult]
  /\ audits = [c \in Command |-> 0]
  /\ poll = [p \in Poll |-> Idle]

Next ==
  \/ \E c \in Command : CheckCapability(c) \/ CreateCommand(c)
  \/ SetCapabilityGrant
  \/ \E p \in Poll : PollStep(p) \/ PollLost(p) \/ PostLost(p)
  \/ Tick

Spec == Init /\ [][Next]_vars

(* The app is opened or pinged again and again, and a poll that began goes on. *)
FairSpec == Spec /\ WF_vars(Tick) /\ \A p \in Poll : WF_vars(PollStep(p))
-----------------------------------------------------------------------------
Polls == {Idle} \cup [pc: {"find"}, at: Nat]
         \cup [pc: {"mark"}, list: SUBSET Command, fresh: SUBSET Command]
         \cup [pc: {"run"}, list: SUBSET Command]
         \cup [pc: {"post", "store"}, list: SUBSET Command, cur: Command, outcome: Outcome]

(* Every row and every poll keeps its shape; a status is one the schema knows. *)
TypeOK ==
  /\ now \in Nat /\ faults \in Nat /\ enabled \in BOOLEAN
  /\ creating \subseteq Command
  /\ status \in [Command -> Status]
  /\ expiresAt \in [Command -> Nat]
  /\ result \in [Command -> Outcome \cup {NoResult}]
  /\ audits \in [Command -> Nat]
  /\ poll \in [Poll -> Polls]

(* A command that says completed or failed has the result that says so, even  *)
(* when polls overlap, posts are repeated and the command expired meanwhile.  *)
ClosedHasResult ==
  \A c \in Command :
    /\ status[c] = "completed" => result[c] = "completed"
    /\ status[c] = "failed" => result[c] \in {"failed", "permission_required"}

(* The bus implements the inbox: one answer per command, never replaced, with *)
(* its audit entry (submitResult, "idempotent by command").                   *)
Inbox == INSTANCE CommandInbox WITH asked  <- {c \in Command : status[c] # "none"},
                                    answer <- result
ImplementsInbox == Inbox!InboxSpec

(* Until it is answered or its time is over, a command is among those that the *)
(* next pull finds: no pull expires it early, no slow mark and no lost post     *)
(* takes it out of the open rows.                                              *)
OpenUntilAnswered ==
  \A c \in Command :
    status[c] # "none" /\ result[c] = NoResult /\ expiresAt[c] > now => Due(c, now)

(* A command made in time is answered although pulls and posts get lost: what *)
(* was dispatched is sent again until it is answered or expires.              *)
ResultArrives ==
  \A c \in Command :
    (status[c] = "pending" /\ expiresAt[c] > MaxTime) ~> (result[c] # NoResult)

(* Whatever late marks do to its status, a command that has expired or been   *)
(* answered on a device that keeps polling is closed for good in the end.     *)
ClosedInTheEnd ==
  \A c \in Command :
    (status[c] # "none" /\ expiresAt[c] <= MaxTime) ~> [](status[c] \notin OpenStatus)

-----------------------------------------------------------------------------
(* What the documents say and overlapping steps refute.                       *)

(* "The server stores it, logs to `agent_audit_logs`, updates command status" *)
(* (device-action-bridge.md:72): an answered command says how it ended.       *)
AnsweredIsClosed ==
  \A c \in Command : result[c] # NoResult => status[c] \in {"completed", "failed"}

(* "each handler wraps exactly one OS integration mechanism, gated by runtime *)
(* permission + parent policy" (device-action-bridge.md:57).                  *)
RunOnlyIfEnabled ==
  [][\A p \in Poll : poll[p].pc = "run" /\ poll'[p].pc = "post" => enabled]_vars
=============================================================================
