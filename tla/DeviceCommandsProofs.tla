------------------------ MODULE DeviceCommandsProofs ------------------------
(***************************************************************************)
(* Theorems about DeviceCommands, for every set of commands and polls.     *)
(***************************************************************************)
EXTENDS DeviceCommands, TLAPS

LEMMA BecomeType ==
  ASSUME TypeOK, NEW p \in Poll, NEW local \in Polls, Become(p, local)
  PROVE  poll' \in [Poll -> Polls]
BY DEF TypeOK, Become

LEMMA RunningType ==
  ASSUME NEW list \in SUBSET Command PROVE Running(list) \in Polls
BY DEF Running, Polls

(* What a poll's record holds at each of its steps.                           *)
LEMMA PollShape ==
  ASSUME TypeOK, NEW p \in Poll
  PROVE  /\ poll[p] = Idle <=> poll[p].pc = "idle"
         /\ poll[p].pc = "find" => poll[p].at \in Nat
         /\ poll[p].pc = "mark" => poll[p].list \subseteq Command /\ poll[p].fresh \subseteq Command
         /\ poll[p].pc = "run" => poll[p].list \subseteq Command
         /\ poll[p].pc \in {"post", "store"} =>
              /\ poll[p] \in [pc: {"post", "store"}, list: SUBSET Command, cur: Command, outcome: Outcome]
              /\ poll[p].list \subseteq Command /\ poll[p].cur \in Command
              /\ poll[p].outcome \in Outcome
<1>1. poll[p] \in Polls
  BY DEF TypeOK
<1>2. QED
  BY <1>1 DEF Polls, Idle

LEMMA TypeStep ==
  ASSUME TypeOK, [Next]_vars PROVE TypeOK'
<1> USE CommandsAssumption
<1>1. ASSUME NEW c \in Command, CheckCapability(c) PROVE TypeOK'
  BY <1>1 DEF CheckCapability, TypeOK
<1>2. ASSUME NEW c \in Command, CreateCommand(c) PROVE TypeOK'
  BY <1>2 DEF CreateCommand, TypeOK, Status, OpenStatus
<1>3. CASE SetCapabilityGrant
  BY <1>3 DEF SetCapabilityGrant, TypeOK, bus
<1>4. ASSUME NEW p \in Poll, PullExpire(p) PROVE TypeOK'
  <2>1. [pc |-> "find", at |-> now] \in Polls
    BY DEF TypeOK, Polls
  <2>2. poll' \in [Poll -> Polls]
    BY <1>4, <2>1, BecomeType DEF PullExpire
  <2>3. status' \in [Command -> Status]
    BY <1>4 DEF PullExpire, TypeOK, Status
  <2>4. QED
    BY <1>4, <2>2, <2>3 DEF PullExpire, TypeOK
<1>5. ASSUME NEW p \in Poll, PullFind(p) PROVE TypeOK'
  <2> DEFINE list  == {c \in Command : Due(c, poll[p].at)}
             fresh == {c \in list : status[c] = "pending"}
  <2>1. [pc |-> "mark", list |-> list, fresh |-> fresh] \in Polls
    BY DEF Polls
  <2>2. Running(list) \in Polls
    BY RunningType
  <2>3. poll' \in [Poll -> Polls]
    BY <1>5, <2>1, <2>2, BecomeType DEF PullFind
  <2>4. QED
    BY <1>5, <2>3 DEF PullFind, TypeOK, bus
<1>6. ASSUME NEW p \in Poll, PullMark(p) PROVE TypeOK'
  <2>1. Running(poll[p].list) \in Polls
    BY <1>6, PollShape, RunningType DEF PullMark
  <2>2. poll' \in [Poll -> Polls]
    BY <1>6, <2>1, BecomeType DEF PullMark
  <2>3. status' \in [Command -> Status]
    BY <1>6 DEF PullMark, TypeOK, Status, OpenStatus
  <2>4. QED
    BY <1>6, <2>2, <2>3 DEF PullMark, TypeOK
<1>7. ASSUME NEW p \in Poll, Run(p) PROVE TypeOK'
  <2>1. PICK c \in poll[p].list, outcome \in Outcome :
          Become(p, [pc |-> "post", list |-> poll[p].list \ {c}, cur |-> c, outcome |-> outcome])
    BY <1>7 DEF Run
  <2>2. [pc |-> "post", list |-> poll[p].list \ {c}, cur |-> c, outcome |-> outcome] \in Polls
    BY <1>7, PollShape DEF Run, Polls
  <2>3. poll' \in [Poll -> Polls]
    BY <2>1, <2>2, BecomeType
  <2>4. QED
    BY <1>7, <2>3 DEF Run, TypeOK, bus
<1>8. ASSUME NEW p \in Poll, PostFind(p) PROVE TypeOK'
  <2>1. poll[p].pc = "post"
    BY <1>8 DEF PostFind
  <2>2. Running(poll[p].list) \in Polls
    BY <2>1, PollShape, RunningType
  <2>3. [poll[p] EXCEPT !.pc = "store"] \in Polls
    BY <2>1, PollShape DEF Polls
  <2>4. poll' \in [Poll -> Polls]
    BY <1>8, <2>2, <2>3, BecomeType DEF PostFind
  <2>5. QED
    BY <1>8, <2>4 DEF PostFind, TypeOK, bus
<1>9. ASSUME NEW p \in Poll, PostStore(p) PROVE TypeOK'
  <2>1. poll[p].pc = "store"
    BY <1>9 DEF PostStore
  <2>2. poll[p].cur \in Command /\ poll[p].outcome \in Outcome
    BY <2>1, PollShape
  <2>3. poll' \in [Poll -> Polls]
    BY <1>9, <2>1, PollShape, RunningType, BecomeType DEF PostStore
  <2>4. ClosedAs(poll[p].outcome) \in Status
    BY DEF ClosedAs, Status
  <2>5. /\ result' \in [Command -> Outcome \cup {NoResult}]
        /\ status' \in [Command -> Status] /\ audits' \in [Command -> Nat]
    BY <1>9, <2>2, <2>4 DEF PostStore, TypeOK
  <2>6. QED
    BY <1>9, <2>3, <2>5 DEF PostStore, TypeOK
<1>10. ASSUME NEW p \in Poll, PollLost(p) \/ PostLost(p) PROVE TypeOK'
  <2>1. poll' \in [Poll -> Polls]
    BY <1>10, PollShape, RunningType, BecomeType DEF PollLost, PostLost, Polls
  <2>2. QED
    BY <1>10, <2>1 DEF PollLost, PostLost, TypeOK, bus
<1>11. CASE Tick \/ UNCHANGED vars
  BY <1>11 DEF Tick, TypeOK, bus, vars
<1>12. QED
  BY <1>1, <1>2, <1>3, <1>4, <1>5, <1>6, <1>7, <1>8, <1>9, <1>10, <1>11 DEF Next, PollStep

(* Every row and every poll keeps its shape, however the polls overlap.       *)
THEOREM CommandsTypeCorrect == Spec => []TypeOK
<1>1. Init => TypeOK
  BY DEF Init, TypeOK, Status, NoResult, Polls
<1>2. TypeOK /\ [Next]_vars => TypeOK'
  BY TypeStep
<1>3. QED
  BY <1>1, <1>2, PTL DEF Spec

-----------------------------------------------------------------------------
(***************************************************************************)
(* The inbox.  A poll works on a list it read earlier; the invariant says  *)
(* that every command on it has a row, which no step ever removes.         *)
(***************************************************************************)
Asked == {c \in Command : status[c] # "none"}
Touched(local) == IF local.pc = "mark" THEN local.list \cup local.fresh
                  ELSE IF local.pc = "run" THEN local.list
                  ELSE IF local.pc \in {"post", "store"} THEN local.list \cup {local.cur}
                  ELSE {}
KnownInv == \A p \in Poll : Touched(poll[p]) \subseteq Asked

LEMMA RunningTouches ==
  ASSUME NEW list PROVE Touched(Running(list)) \subseteq list
BY DEF Touched, Running, Idle

(* What a step does to the inbox.                                             *)
LEMMA InboxStep ==
  ASSUME TypeOK, KnownInv, [Next]_vars
  PROVE  /\ [Inbox!InboxNext]_(Inbox!inboxVars)
         /\ Asked \subseteq Asked'
<1> DEFINE Goal == [Inbox!InboxNext]_(Inbox!inboxVars) /\ Asked \subseteq Asked'
<1>1. ASSUME UNCHANGED <<result, audits>>, Asked' = Asked PROVE Goal
  BY <1>1 DEF Inbox!inboxVars, Asked
<1>2. ASSUME UNCHANGED <<status, result, audits>> PROVE Goal
  BY <1>1, <1>2 DEF Asked
<1>3. ASSUME NEW c \in Command, CheckCapability(c) PROVE Goal
  BY <1>2, <1>3 DEF CheckCapability
<1>4. ASSUME NEW c \in Command, CreateCommand(c) PROVE Goal
  <2>1. Asked' = Asked \cup {c} /\ UNCHANGED <<result, audits>>
    BY <1>4 DEF CreateCommand, Asked, TypeOK
  <2>2. Inbox!Ask(c)
    BY <2>1 DEF Inbox!Ask, Asked
  <2>3. QED
    BY <2>1, <2>2 DEF Inbox!InboxNext
<1>5. CASE SetCapabilityGrant
  BY <1>2, <1>5 DEF SetCapabilityGrant, bus
<1>6. ASSUME NEW p \in Poll, PullExpire(p) PROVE Goal
  <2>1. Asked' = Asked
    BY <1>6 DEF PullExpire, Asked, Stale, OpenStatus, TypeOK
  <2>2. QED
    BY <1>1, <1>6, <2>1 DEF PullExpire
<1>7. ASSUME NEW p \in Poll, PullFind(p) PROVE Goal
  BY <1>2, <1>7 DEF PullFind, bus
<1>8. ASSUME NEW p \in Poll, PullMark(p) PROVE Goal
  <2>1. poll[p].fresh \subseteq Asked
    BY <1>8 DEF PullMark, KnownInv, Touched
  <2>2. Asked' = Asked
    BY <1>8, <2>1 DEF PullMark, Asked, TypeOK
  <2>3. QED
    BY <1>1, <1>8, <2>2 DEF PullMark
<1>9. ASSUME NEW p \in Poll, Run(p) \/ PostFind(p) \/ PollLost(p) \/ PostLost(p) PROVE Goal
  BY <1>2, <1>9 DEF Run, PostFind, PollLost, PostLost, bus
<1>10. ASSUME NEW p \in Poll, PostStore(p) PROVE Goal
  <2>1. PICK c \in Command : c = poll[p].cur
    BY <1>10, PollShape DEF PostStore
  <2>2. c \in Asked /\ poll[p].outcome \in Outcome
    BY <1>10, <2>1, PollShape DEF PostStore, KnownInv, Touched
  <2>3. CASE UNCHANGED <<result, status, audits>>
    BY <1>2, <2>3
  <2>4. CASE /\ ~Duplicate(c)
             /\ result' = [result EXCEPT ![c] = poll[p].outcome]
             /\ status' = [status EXCEPT ![c] = ClosedAs(poll[p].outcome)]
             /\ audits' = [audits EXCEPT ![c] = @ + 1]
    <3>1. Asked' = Asked
      BY <2>2, <2>4 DEF Asked, TypeOK, ClosedAs
    <3>2. Inbox!Answer(c)
      BY <2>2, <2>4, <3>1 DEF Inbox!Answer, Asked, Duplicate
    <3>3. QED
      BY <3>1, <3>2 DEF Inbox!InboxNext
  <2>5. QED
    BY <1>10, <2>1, <2>3, <2>4 DEF PostStore
<1>11. CASE Tick \/ UNCHANGED vars
  BY <1>2, <1>11 DEF Tick, bus, vars
<1>12. QED
  BY <1>3, <1>4, <1>5, <1>6, <1>7, <1>8, <1>9, <1>10, <1>11 DEF Next, PollStep

LEMMA KnownStep ==
  ASSUME TypeOK, KnownInv, [Next]_vars PROVE KnownInv'
<1> SUFFICES ASSUME NEW q \in Poll PROVE Touched(poll'[q]) \subseteq Asked
  BY InboxStep DEF KnownInv, Touched
<1>1. Touched(poll[q]) \subseteq Asked
  BY DEF KnownInv
<1>2. ASSUME NEW p \in Poll, NEW local, Become(p, local), Touched(local) \subseteq Asked
      PROVE  Touched(poll'[q]) \subseteq Asked
  BY <1>1, <1>2 DEF Become, TypeOK
<1>3. ASSUME NEW p \in Poll, PullExpire(p) PROVE Touched(poll'[q]) \subseteq Asked
  BY <1>2, <1>3 DEF PullExpire, Touched
<1>4. ASSUME NEW p \in Poll, PullFind(p) PROVE Touched(poll'[q]) \subseteq Asked
  <2> DEFINE list  == {c \in Command : Due(c, poll[p].at)}
             fresh == {c \in list : status[c] = "pending"}
  <2>1. list \subseteq Asked /\ fresh \subseteq Asked
    BY DEF Due, Asked, OpenStatus
  <2>2. Touched(Running(list)) \subseteq Asked
    BY <2>1, RunningTouches
  <2>3. Touched([pc |-> "mark", list |-> list, fresh |-> fresh]) \subseteq Asked
    BY <2>1 DEF Touched
  <2>4. QED
    BY <1>2, <1>4, <2>2, <2>3 DEF PullFind
<1>5. ASSUME NEW p \in Poll, PullMark(p) PROVE Touched(poll'[q]) \subseteq Asked
  <2>1. poll[p].list \subseteq Asked
    BY <1>5 DEF PullMark, KnownInv, Touched
  <2>2. QED
    BY <1>2, <1>5, <2>1, RunningTouches DEF PullMark
<1>6. ASSUME NEW p \in Poll, Run(p) PROVE Touched(poll'[q]) \subseteq Asked
  <2>1. poll[p].list \subseteq Asked
    BY <1>6 DEF Run, KnownInv, Touched
  <2>2. PICK c \in poll[p].list, outcome \in Outcome :
          Become(p, [pc |-> "post", list |-> poll[p].list \ {c}, cur |-> c, outcome |-> outcome])
    BY <1>6 DEF Run
  <2>3. QED
    BY <1>2, <2>1, <2>2 DEF Touched
<1>7. ASSUME NEW p \in Poll, PostFind(p) \/ PostStore(p) \/ PostLost(p)
      PROVE  Touched(poll'[q]) \subseteq Asked
  <2>1. poll[p].pc \in {"post", "store"}
    BY <1>7 DEF PostFind, PostStore, PostLost
  <2>2. poll[p].list \subseteq Asked /\ poll[p].cur \in Asked
    BY <2>1 DEF KnownInv, Touched
  <2>3. Touched([poll[p] EXCEPT !.pc = "store"]) \subseteq Asked
    BY <2>1, <2>2, PollShape DEF Touched
  <2>4. QED
    BY <1>2, <1>7, <2>2, <2>3, RunningTouches DEF PostFind, PostStore, PostLost
<1>8. ASSUME NEW p \in Poll, PollLost(p) PROVE Touched(poll'[q]) \subseteq Asked
  BY <1>2, <1>8 DEF PollLost, Touched, Idle
<1>9. ASSUME UNCHANGED poll PROVE Touched(poll'[q]) \subseteq Asked
  BY <1>1, <1>9
<1>10. QED
  BY <1>3, <1>4, <1>5, <1>6, <1>7, <1>8, <1>9 DEF Next, PollStep, CheckCapability,
     CreateCommand, SetCapabilityGrant, Tick, vars

(* However polls overlap and posts repeat, a command is answered once, the    *)
(* answer is never replaced, and its audit entry appears with it.             *)
THEOREM InboxImplemented == Spec => ImplementsInbox
<1>1. Init => Inbox!InboxInit /\ KnownInv
  BY DEF Init, Inbox!InboxInit, KnownInv, Touched, Idle
<1>2. TypeOK /\ KnownInv /\ [Next]_vars => KnownInv'
  BY KnownStep
<1>3. TypeOK /\ KnownInv /\ [Next]_vars => [Inbox!InboxNext]_(Inbox!inboxVars)
  BY InboxStep
<1>4. QED
  BY <1>1, <1>2, <1>3, CommandsTypeCorrect, PTL DEF Spec, ImplementsInbox, Inbox!InboxSpec

(* The audit log of the bus has one entry about each result and none without   *)
(* one, and a result stands, whatever is posted after it.                      *)
THEOREM AuditTellsResults == Spec => []Inbox!AuditsTell /\ Inbox!AnswersStand
<1>1. Init => Inbox!AuditsTell
  BY DEF Init, Inbox!AuditsTell
<1>2. TypeOK /\ Inbox!AuditsTell /\ [Inbox!InboxNext]_(Inbox!inboxVars) => Inbox!AuditsTell'
  <2>1. SUFFICES ASSUME TypeOK, Inbox!AuditsTell, [Inbox!InboxNext]_(Inbox!inboxVars),
                        NEW d \in Command
                 PROVE  /\ audits'[d] = IF result'[d] = NoResult THEN 0 ELSE 1
                        /\ result'[d] # NoResult => d \in Asked'
    BY DEF Inbox!AuditsTell, Asked
  <2>2. /\ audits[d] = IF result[d] = NoResult THEN 0 ELSE 1
        /\ result[d] # NoResult => d \in Asked
    BY <2>1 DEF Inbox!AuditsTell, Asked
  <2>3. ASSUME NEW c \in Command, Inbox!Ask(c)
        PROVE  Asked \subseteq Asked' /\ UNCHANGED <<result, audits>>
    BY <2>3 DEF Inbox!Ask, Asked
  <2>4. ASSUME NEW c \in Command, Inbox!Answer(c)
        PROVE  /\ audits'[d] = IF result'[d] = NoResult THEN 0 ELSE 1
               /\ result'[d] # NoResult => d \in Asked'
    <3>1. /\ c \in Asked /\ result[c] = NoResult /\ Asked' = Asked
          /\ \E outcome \in Outcome : result' = [result EXCEPT ![c] = outcome]
          /\ audits' = [audits EXCEPT ![c] = @ + 1]
      BY <2>4 DEF Inbox!Answer, Asked
    <3>2. CASE d = c
      BY <2>1, <2>2, <3>1, <3>2 DEF TypeOK, Outcome, NoResult
    <3>3. CASE d # c
      BY <2>1, <2>2, <3>1, <3>3 DEF TypeOK
    <3>4. QED
      BY <3>2, <3>3
  <2>5. CASE UNCHANGED Inbox!inboxVars
    BY <2>2, <2>5 DEF Inbox!inboxVars, Asked
  <2>6. QED
    BY <2>1, <2>2, <2>3, <2>4, <2>5 DEF Inbox!InboxNext
<1>3. TypeOK /\ [Inbox!InboxNext]_(Inbox!inboxVars)
        => [\A c \in Command : result[c] # NoResult =>
              result'[c] = result[c] /\ audits'[c] = audits[c]]_(Inbox!inboxVars)
  BY DEF Inbox!InboxNext, Inbox!Ask, Inbox!Answer, Inbox!inboxVars, TypeOK
<1>4. QED
  BY <1>1, <1>2, <1>3, CommandsTypeCorrect, InboxImplemented, PTL
     DEF Spec, ImplementsInbox, Inbox!InboxSpec, Inbox!AnswersStand

(* A command that says completed or failed has the result that says so.       *)
THEOREM ClosedCommandHasResult == Spec => []ClosedHasResult
<1>1. Init => ClosedHasResult
  BY DEF Init, ClosedHasResult
<1>2. ASSUME TypeOK, ClosedHasResult, [Next]_vars PROVE ClosedHasResult'
  <2>1. ASSUME \A c \in Command : status'[c] = status[c] \/ status'[c] \notin {"completed", "failed"},
               UNCHANGED result
        PROVE  ClosedHasResult'
    BY <1>2, <2>1 DEF ClosedHasResult
  <2>2. ASSUME NEW c \in Command, CheckCapability(c) \/ CreateCommand(c) PROVE ClosedHasResult'
    BY <1>2, <2>1, <2>2 DEF CheckCapability, CreateCommand, TypeOK
  <2>3. ASSUME NEW p \in Poll, PullExpire(p) \/ PullMark(p) PROVE ClosedHasResult'
    BY <2>1, <2>3 DEF PullExpire, PullMark
  <2>4. ASSUME NEW p \in Poll, PostStore(p) PROVE ClosedHasResult'
    <3>1. PICK c \in Command : c = poll[p].cur
      BY <1>2, <2>4, PollShape DEF PostStore
    <3>2. poll[p].outcome \in Outcome
      BY <1>2, <2>4, PollShape DEF PostStore
    <3>3. CASE UNCHANGED <<result, status>>
      BY <2>1, <3>3
    <3>4. CASE /\ result' = [result EXCEPT ![c] = poll[p].outcome]
               /\ status' = [status EXCEPT ![c] = ClosedAs(poll[p].outcome)]
      BY <1>2, <3>2, <3>4 DEF ClosedHasResult, ClosedAs, Outcome, TypeOK
    <3>5. QED
      BY <2>4, <3>1, <3>3, <3>4 DEF PostStore
  <2>5. ASSUME NEW p \in Poll, PullFind(p) \/ Run(p) \/ PostFind(p) \/ PollLost(p) \/ PostLost(p)
        PROVE  ClosedHasResult'
    BY <2>1, <2>5 DEF PullFind, Run, PostFind, PollLost, PostLost, bus
  <2>6. CASE SetCapabilityGrant \/ Tick \/ UNCHANGED vars
    BY <2>1, <2>6 DEF SetCapabilityGrant, Tick, bus, vars
  <2>7. QED
    BY <1>2, <2>2, <2>3, <2>4, <2>5, <2>6 DEF Next, PollStep
<1>3. QED
  BY <1>1, <1>2, CommandsTypeCorrect, PTL DEF Spec

(* What ResultArrives rests on, for any number of overlapping polls: a command  *)
(* is offered to each pull until it is answered or its time is over.            *)
THEOREM CommandStaysOpen == Spec => []OpenUntilAnswered
<1>1. Init => OpenUntilAnswered
  BY DEF Init, OpenUntilAnswered
<1>2. ASSUME TypeOK, TypeOK', OpenUntilAnswered, [Next]_vars, NEW c \in Command
      PROVE  status'[c] # "none" /\ result'[c] = NoResult /\ expiresAt'[c] > now'
               => status'[c] \in OpenStatus
  <2> DEFINE Goal == status'[c] # "none" /\ result'[c] = NoResult /\ expiresAt'[c] > now'
                       => status'[c] \in OpenStatus
  <2>1. status[c] # "none" /\ result[c] = NoResult /\ expiresAt[c] > now => status[c] \in OpenStatus
    BY <1>2 DEF OpenUntilAnswered, Due
  <2>2. now \in Nat /\ expiresAt[c] \in Int
    BY <1>2 DEF TypeOK
  <2>3. ASSUME UNCHANGED <<now, expiresAt, result>>,
               status'[c] = status[c] \/ status'[c] \in OpenStatus
        PROVE  Goal
    BY <2>1, <2>3
  <2>4. ASSUME NEW d \in Command, CheckCapability(d) \/ CreateCommand(d) PROVE Goal
    BY <1>2, <2>1, <2>4 DEF CheckCapability, CreateCommand, TypeOK, OpenStatus
  <2>5. ASSUME NEW p \in Poll, PullExpire(p) PROVE Goal
    <3>1. /\ status'[c] = IF Stale(c) THEN "expired" ELSE status[c]
          /\ UNCHANGED <<now, expiresAt, result>>
      BY <2>5 DEF PullExpire
    <3>2. QED
      BY <2>1, <2>2, <3>1 DEF Stale
  <2>6. ASSUME NEW p \in Poll, PullMark(p) PROVE Goal
    BY <2>3, <2>6 DEF PullMark, OpenStatus
  <2>7. ASSUME NEW p \in Poll, PostStore(p) PROVE Goal
    <3>1. UNCHANGED <<now, expiresAt>>
      BY <2>7 DEF PostStore
    <3>2. PICK d \in Command : d = poll[p].cur
      BY <1>2, <2>7, PollShape DEF PostStore
    <3>3. CASE UNCHANGED <<result, status>>
      BY <2>3, <3>1, <3>3
    <3>4. CASE /\ result' = [result EXCEPT ![d] = poll[p].outcome]
               /\ status' = [status EXCEPT ![d] = ClosedAs(poll[p].outcome)]
      <4>1. poll[p].outcome # NoResult
        BY <1>2, <2>7, PollShape DEF PostStore, Outcome, NoResult
      <4>2. c = d => result'[c] # NoResult
        BY <1>2, <3>4, <4>1 DEF TypeOK
      <4>3. c # d => result'[c] = result[c] /\ status'[c] = status[c]
        BY <1>2, <3>4 DEF TypeOK
      <4>4. QED
        BY <2>1, <3>1, <4>2, <4>3
    <3>5. QED
      BY <2>7, <3>2, <3>3, <3>4 DEF PostStore
  <2>8. ASSUME NEW p \in Poll, PullFind(p) \/ Run(p) \/ PostFind(p) \/ PollLost(p) \/ PostLost(p)
        PROVE  Goal
    BY <2>3, <2>8 DEF PullFind, Run, PostFind, PollLost, PostLost, bus
  <2>9. CASE Tick
    BY <2>1, <2>2, <2>9 DEF Tick, bus
  <2>10. CASE SetCapabilityGrant \/ UNCHANGED vars
    BY <2>3, <2>10 DEF SetCapabilityGrant, bus, vars
  <2>11. QED
    BY <1>2, <2>4, <2>5, <2>6, <2>7, <2>8, <2>9, <2>10 DEF Next, PollStep
<1>3. TypeOK /\ TypeOK' /\ OpenUntilAnswered /\ [Next]_vars => OpenUntilAnswered'
  BY <1>2 DEF OpenUntilAnswered, Due
<1>4. QED
  BY <1>1, <1>3, CommandsTypeCorrect, PTL DEF Spec
=============================================================================
