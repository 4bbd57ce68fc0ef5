# Family Manager: a TLA+ verification project

Family Manager lets parents give children missions (a time, a proof policy, a
snooze policy, a reward), reminds the child's phone, checks the proofs and pays
coins. An assistant in the chat may propose changes, and readings of the
child's phone, that a person must confirm. A Telegram bot beside it lets the
developers run codex from a phone.

This directory holds TLA+ models of the parts where steps of several actors
meet, the TLC configurations that check them, and TLAPS proofs of the
properties that matter most. `PROJECT.json` lists components, runs, mutants,
the source lines behind every definition, findings, hazards and theorems.

```
tlc -config lifecycle_race.cfg MCMissionLifecycle   # a run
tlapm MissionLifecycleProofs.tla                    # the proofs of a module
```

## 1. The system

| component | source | state it keeps | operations | interacts with |
|---|---|---|---|---|
| missions, coins, alerts | `apps/api/src/modules/{missions,coins,alerts}` | occurrences, proofs, snooze events, alerts, coin ledger and balances (PostgreSQL) | `snooze`, `submitProof`, `done`, `parentReview`, `createTemplate`, `updateTemplate` | the worker, through the same rows; drafts call `createTemplate` |
| worker | `apps/worker/src` | the BullMQ queue (Redis), a cached Google access token | `expandOccurrences` every five minutes, `notifyOccurrence`, `sendMissionReminderToChildDevices`, `markMissed` | writes the rows the API writes; pushes to phones |
| calendar | `packages/shared/src/index.ts` | none | `zonedDateTimeToUtc`, `nextScheduledDateForTimezone`, `scheduledDatesForHorizon` | used by both |
| device command bus | `apps/api/src/modules/devices/device-commands.service.ts`, Android `bridge/` | commands, results, capability grants, audit | `createFromReadContextDraft`, `setCapability`, `pullPending`, `submitResult`; the phone's `pollAndExecute` | drafts create commands; pushes wake the phone |
| chat and drafts | `apps/api/src/modules/{chat,openclaw}`, `apps/openclaw-adapter` | threads, messages, drafts, audit | `sendMessage`, `confirmDraft`, `rejectDraft` | missions and the command bus |
| accounts, children, pairing | `apps/api/src/modules/{auth,children}`, `devices.service.ts` | users, children, pairing codes, devices | `bootstrapParent`, `login`, `refresh`, `create`, `createPairingCode`, `claim`, `registerFcmToken` | the phone's session |
| phone session | Android `data/ApiClient.kt`, `SessionStore.kt`, `MainActivity.kt`, `FamilyMessagingService.kt` | a token pair in SharedPreferences, a mutex per client | `authed`, `tryRefresh`, sign-in, pairing, log-out, `onNewToken` | the API |
| Telegram bridge | `apps/telegram-codex/src/main.ts` | sessions file, active run, lock file | updates, prompts, `/cancel`, `/new`, end of a run, start and stop of the process | Telegram, codex processes |
| local alarms | Android `alarm/` | pending alarms | schedule, fire, reboot | nothing schedules one but the boot receiver |
| proof files | `apps/api/src/modules/proofs` | files | upload, download | a file of its own per upload |
| shell, schema, infrastructure | `main.ts`, `config/`, `prisma/`, `infra/`, `scripts/` | none | start-up, validation, migrations | |

What is hard here. No handler locks a row: it reads in one query, decides, and
writes unconditionally in a later one, so any two handlers that touch the same
row can overlap (snooze, done, review, the worker's jobs; confirm and reject;
two polls; two claims). The queue delivers a job again after a failure or a
stall. Requests die between two of their writes. Phones lose answers, post
twice, are wiped and paired anew, and refresh one session through several
clients. The Telegram bridge handles the end of a process while it waits for a
message about it to be sent. And local times skip and repeat twice a year.

What makes each component correct: coins are earned and paid once, row and
money together; reminders go out once, and a mission that waits for the child
keeps the check that closes it; a mission rings at the local time that was asked; a
command has one answer; an assistant's proposal takes effect only as agreed by
somebody who may agree; an update to the bot is handled before it is forgotten,
in order, a session is neither mixed up nor lost, and what codex said is what
the chat is told; a phone acts for the child it was paired for, and a reminder
comes up once, on a phone that acts for its child.

## 2. The modules

| module | models | proofs |
|---|---|---|
| `MissionLifecycle` | API requests on occurrences, the worker and its queue | `MissionLifecycleProofs` |
| `CoinAccount` | abstract: what the coins promise | implemented by `MissionLifecycle` |
| `Scheduling` | calendar, templates, expansion, jobs | `SchedulingProofs` |
| `DeviceCommands` | command bus and polling phone | `DeviceCommandsProofs` |
| `CommandInbox` | abstract: one answer per command | implemented by `DeviceCommands` |
| `ChatDrafts` | messages, drafts, their effects | `ChatDraftsProofs` |
| `DraftAgreement` | abstract: a proposal is agreed, then takes effect | implemented by `ChatDrafts` |
| `TelegramCodex` | the bot's update loop and runs | `TelegramCodexProofs` |
| `UpdateQueue` | abstract: updates are handled in order before they are forgotten | implemented by `TelegramCodex` |
| `CodexOutput` | what the bot makes of the output of one run | `TelegramCodexProofs`, with which it shares no name |
| `BridgeLock` | the bot's lock file and sessions file | `BridgeLockProofs` |
| `PhoneSession` | token pair, clients, refresh | `PhoneSessionProofs` |
| `Pairing` | bootstrap, children, codes, claims, push tokens | `PairingProofs` |
| `PushDelivery` | extends `Pairing`: reminders on their way to its phones | `PairingProofs` |
| `ReminderDelivery` | abstract: a reminder comes up once, where it belongs | implemented by `PushDelivery` |

`MC...` modules give constants of their module values for TLC that a `.cfg`
cannot; where it can, the run takes the module itself. Definitions
marked `\* mutant` are the forms a plausible bug would give the definition
below them; the specifications never use them.

Conventions shared by all modules:

- A request is a process with a local state (`req`, `poll`, `claim`, `call`);
  a step is what the handler does up to its next `await` of the database or
  the network. A transaction is one step: no handler relies on what another
  one sees in the middle of it. What a handler read is carried in its local
  state, and may be stale when it is used.
- A request that is refused (4xx) changes nothing and is not a step.
- Faults are bounded by `MaxFaults` (or the bounds named for their kind) and
  are enabled wherever the code can fail: a process that dies, a query that
  throws, a request or an answer that is lost.
- Time is a counter of ticks that stops at `MaxTime`.

### MissionLifecycle

State: one variable per column the handlers read or write (`status`,
`deadline`, `completedAt`, `proofs`, `snoozes`, `alerts`, `ledger`,
`balance`), the local state of each request, and the queue as BullMQ keeps it:
`queue` (waiting or delayed), `dead` (out of attempts; Redis keeps the id, so a
job with that id is not added again), and the one job the worker holds.

`snooze` is four steps: read and check, count the approved events, deny or
alert, and commit event, deadline and job. `submitProof` and `done` store a
proof, evaluate the policy, save the status and award coins, each from what it
read before; `done` evaluates twice when a review is pending. `parentReview`
saves and awards. `awardCoinsOnce` is one step because the unique index on
the ledger makes its insert and the increment of the balance one transaction
that a second payment cannot pass. `notifyOccurrence` reads, marks, enqueues
its deadline and sends the reminder; `markMissed` reads, reschedules itself if
the deadline moved, and fails the mission in a transaction of its own. A job
whose handler throws comes back up to three times, and once more after a stall.
The jobs that `expandOccurrences` adds for scheduled occurrences are added
here; the occurrences themselves are constants, and come from `Scheduling`.

`CoinAccount` is the abstract specification: an occurrence that was completed
is paid at most once, row and money together. `ImplementsAccount` maps
`earned` to `completedAt`. `BooksBalance` follows from it and is a part of
`CoinsEarned`: what `getBalance` shows a child is the sum of what its
occurrences were paid, each once.

### Scheduling

UTC and the local clock are counted in the same ticks (`Day` to a day). A zone
has one change of its offset, before and after which it is constant; `ToUtc` is
`zonedDateTimeToUtc`, with the three corrections of the source. The requests
`createTemplate` and `updateTemplate` store the template in one step and its
next occurrence in another; the worker's run reads all templates, inserts the
dates of the horizon for one at a time, and then adds the jobs. A template
whose time or rule cannot be read ends the run with an exception. The unique
index on (template, time) is the `occ` set.

What the model makes visible and the properties take into account:

- A time that the clock skips rings one leap early or late, as the third
  correction leaves it, never at another time of the day.
- When the clock skips midnight's neighbourhood, two local dates can be 23
  hours apart: `DaysApart` allows the leap, and no more.
- A time that occurs twice rings once.
- An occurrence that was made for an old time of a template stays after an
  update; `OnTime` speaks of the times a template has had.
- A template of an unknown recurrence rule, like one whose time cannot be
  parsed or whose child has an unknown timezone, throws in the middle of the
  run.

### DeviceCommands

A poll is `pollAndExecute`: `pullPending` expires, reads and marks in three
steps, the phone executes each command of the list and posts its result, and
`submitResult` checks, stores result, status and audit in one transaction, or
refuses a duplicate. Two polls may overlap (the app is opened and pinged), and
any answer may be lost. A capability is checked when a command is created and
not again. `CommandInbox` is the abstract specification. What a capability
handler reads from Android is left out but for its outcome.

### ChatDrafts

`sendMessage` stores the message, asks OpenClaw (the adapter, or the local
fallback when it refuses or is out of reach), stores a draft, the answer and
the audit. `confirmDraft` reads the draft, expires it or applies it, and marks
it confirmed; a mission is applied in two steps, the template and its first
occurrence, and the second throws for a time that does not parse. A proposal is
one of six kinds, told apart only by what the handlers decide on.

An effect has two steps for a mission, so a draft may have one and not be
marked. `DraftAgreement` is what remains to rely on: an effect needs a
confirmation, given in time and on a draft that is not decided, by somebody who
may; each confirmation has one effect at most; a draft is called confirmed only
after an effect. `ImplementsAgreement` maps its open confirmations to the
requests that are about to apply a draft.

### TelegramCodex, CodexOutput and BridgeLock

`TelegramCodex` is the process. The poll loop gets a batch of updates, handles
one after the other and waits for each message to be sent; a run's close handler
exists only from the moment its announcement was sent, and its end may come
before. `activeRun`, the sessions, SIGTERM and the timeout of a run are as in the
source. A crash ends the process and its children's handlers; the sessions file
stays. `UpdateQueue` is its abstract specification: `inbox`, `taken` and
`forgotten` are taken over as they are, all else is hidden.

`CodexOutput` looks into one run, from its announcement to its close event:
lines on stdout and text on stderr arrive in chunks that end anywhere, also
within a line or a character; what arrives before there are handlers is lost if
codex has ended; the whole of stdout is parsed again with every chunk, of stderr
only the end is kept. Text is counted in halves, of a line and of the error that
names a stale session: whether a chunk or the limit cuts a text is all that the
handlers can tell.

`BridgeLock` looks at several processes. It splits `acquireLock`, `releaseLock`
and `saveSessions` at every call of `node:fs`: the question whether there is a
lock and its read are two steps, and so are the two halves of `writeFileSync`,
which empties a file and fills it. A lock that is unlinked before it is read
makes the start throw; one that is unlinked before it is filled is filled all
the same, without a name (`linked`). The sessions are loaded before the lock
is asked for; they are changes counted from 1, `store` holds those in the file,
and `Torn` is what a kill leaves of a file that was being written. `met`,
`beside` and `overlap` are history that the properties speak of.

### PhoneSession

One session and the `ApiClient`s over it, each with a mutex of its own. A call
reads the token when it is sent; after a 401 it takes the mutex, reads the token
again, and refreshes unless another call of the client has. Steps end where a
coroutine suspends, so `SaveTokens` is not interrupted and is not conditional
either. Token pairs are numbers in the order they are signed; the server
accepts any that has not expired. A log-out clears the store at once, and
cancels the calls of the screen only when it is drawn again; `underWay` keeps
which calls were refreshing at that moment.

### Pairing

`bootstrapParent` counts and later inserts; `claim` reads the code and later
stores device and `claimedAt` together. A phone types a code only while it
has no session and waits for one claim at a time; it may give up while the
server still works on it, lose the answer, or have its data cleared, which
gives it another push token. Push tokens are posted by the pairing card (whose
coroutines end when it leaves the screen) and by the messaging service, and
arrive in any order.

### PushDelivery

Extends `Pairing` by what `push.ts` does while phones are paired and cleared. The
rows of the child are read once, then every push is sent on its own: with the
cached access token if that is usable, else after asking Google for one, whose
answers come in any order and overwrite the cache. Firebase delivers to the last
token of a phone only. A push that fails is counted and not repeated, and the
code removes no row whose token Firebase rejects. `ReminderDelivery` is the
abstract specification; `actsFor` is the child of the row of a phone's session.

## 3. What TLC checks

Every run finishes in under three minutes on two workers. `CHECK_DEADLOCK FALSE` is set
everywhere because every instance really may stop: its requests, ticks and
faults are used up.

| run | instance | properties | shows |
|---|---|---|---|
| `lifecycle_race` | 1 occurrence (photo and tap, one snooze), 2 requests of any kind, the worker, 2 faults | `TypeOK`, `CoinsEarned`, `ImplementsAccount`, `NotifiedIsArmed`, `RemindedOnce`, `MissedOnce`, `SnoozedIsArmed` | whatever overlaps, throws, stalls and comes back: coins are earned first and paid once; one reminder; a mission that waits for the child has a check that will still run, but for the faults and verdicts that are named below |
| `lifecycle_live` | 1 occurrence (a tap or a review), 2 requests, no faults | `MissionsResolve` | a due mission is notified, and acted on or closed at its deadline |
| `schedule` | 6 zones that change their clock, 1 template, two rules, an update and a fault | `TypeOK`, `OnTime`, `DaysApart`, `HorizonCovered`, `TemplatesScheduled` | missions ring at the local time asked, each day, once; a daily template gets its jobs although runs and requests are cut short |
| `commands` | 1 command, 2 polls, 2 faults | `TypeOK`, `ClosedHasResult`, `ImplementsInbox`, `ResultArrives`, `ClosedInTheEnd` | one answer per command, audited with it; a lost message delays it, no more |
| `drafts` | 1 parent, 2 children, all kinds, 3 taps, 2 faults | `TypeOK`, `ImplementsAgreement`, `AppliedWasAgreed`, `MessagesAnswered` | effects are offered, allowed and agreed to in time, once per confirmation; a message is answered and audited |
| `bridge` | 2 chats, 3 updates, 3 runs, stale sessions, one refused message or end of the process | `SessionIsOwn`, `OneRun`, `ImplementsQueue`, `UpdatesTaken`, `RunsEnd` | the bridge is a queue that handles everything in the end; no session is mixed up; undisturbed, one codex at a time; every announced codex ends, also one nobody waits for |
| `codex_output` | 2 lines, 3 halves of errors of which 2 are kept, every split into chunks | `SessionIsLast`, `AnswerIsLast`, `StaleIsSeen` | with handlers in time: the last thread is stored, the last message told, a stale session recognised |
| `lock` | 3 processes, 1 kill, 2 changes of the sessions | `RefusedOnlyIfTaken`, `OneBridge`, `SessionsKept` | without a kill a start fails only beside another process, or one it met as it looked for the lock; of two processes one runs; no session is lost before a process that began beside another changes them |
| `phone` | 2 clients, 3 calls, a sign-in, log-outs, 1 fault | `OneRefreshPerClient`, `FreshRetry`, `SignedOutButForRefresh`, `CallsEnd` | a client replaces a pair once, never retries with the refused token, and always gives the mutex back; after a log-out the store is filled again only by a call that was refreshing at that log-out |
| `push` | 2 phones, 2 codes, 2 children, 1 reminder, 1 fault | `PairedAsAgreed`, `CachedTokenWorks`, `ImplementsDelivery` | phones act for the child of their code; a reminder comes up once and only there, although the rows were read before; no access token is used past its end |
| `viol_notified` | 1 request, 1 fault | `NotifiedResolves` | refuted, see section 4 |
| `viol_rejected` | 1 child, 1 draft, 2 taps | `NoEffectOnceRejected` | refuted, see section 4 |

The bounds are the smallest at which the interesting cases occur: two requests
for every race of two reads and two writes; times long enough for a snooze past
the first deadline and a reminder after it; four ticks a day, with changes of
the clock at a midnight in UTC and missions just before and at it; one fault for
every place it can happen, two where a retry must fail again; three updates, so
that a second run begins before the first, cancelled one has ended; two lines
and three halves of errors, so that a later line replaces an earlier one and a
stale error can be whole, cut, or out of what is kept; three processes, so that
one can be refused while two meet at the lock; two phones and two codes, so that
each phone can take the other's place. One
occurrence and one command are enough because the handlers of two share no row
but the child's balance, which the database increments in one step, and no job:
the ids in the queue hold the occurrence. That the balance adds up for any
number of occurrences is proved (`CoinsAreEarned`).
Every safety property is proved for any number (section 5). Each property of a
passing run has a mutant, a plausible bug in one mapped definition, under which
TLC finds it violated: none of them holds for lack of an opportunity.

Some properties are conditional, and say so: `MissedOnce`, `SnoozedIsArmed` and
`MessagesAnswered` speak of behaviours without a fault, `NotifiedIsArmed`
excepts two things by name, a fault within `notifyOccurrence` before its enqueue
(section 4) and a check that two faults or more have hit, so that BullMQ has given
it up (its job is in `dead` then and never runs), `SnoozedIsArmed` missions that
something had closed or the child reported done before, `OneRun` ends at the
first `/cancel`, stale session or crash, `RunsEnd` at a crash and `UpdatesTaken`
when the bound on runs is used up, `SessionIsLast`, `AnswerIsLast` and
`StaleIsSeen` ask that nothing was written before there were handlers (and
`AnswerIsLast`, without a file, that no chunk cut a character),
`RefusedOnlyIfTaken` ends at a kill and excepts a start whose lock was removed
between the look for it and its read, by a bridge that may be gone by now,
`SessionsKept` excepts a file torn by a kill and ends when a process changes the
sessions that was started beside another, `OneBridge` ends at a third process,
and `SignedOutButForRefresh` excepts the calls that were refreshing at the last
log-out, and no others. Without the condition the code breaks them.
(For `UpdatesTaken` and `RunsEnd` the condition is one of the model: a bound,
and children that outlive a crash and whose end nobody waits for.)

Symmetry is used only in runs of safety properties and only over constants that
no definition tells apart.

### Fairness

- `MissionLifecycle`: the worker goes on taking jobs (BullMQ), the clock
  passes, a handler that began goes on (Node's event loop). Nobody has to call
  the API, and nothing has to fail.
- `Scheduling`: the repeatable job and the worker.
- `DeviceCommands`: the clock, and polls: the app is opened or pinged again and
  again, and a poll that began goes on. `ClosedInTheEnd` and `ResultArrives`
  are about such a phone.
- `ChatDrafts`: handlers go on. Taps and the clock owe nothing.
- `TelegramCodex`: the loop, the supervisor that restarts it, handlers and
  timers; a codex process ends only if it was signalled.
- `PhoneSession`, `Pairing`: answers arrive or fail, and a coroutine has its
  turn; people need not do anything.
- `CodexOutput`, `BridgeLock`, `PushDelivery`: none; their properties are of
  safety.

## 4. Disagreements with the code

Two statements of the repository are refuted by runs of their own;
`PROJECT.json` quotes the lines.

| run | statement | how it fails |
|---|---|---|
| `viol_notified` | a mission still notified at its deadline is failed | `notifyOccurrence` fails between its update and the enqueue of the deadline; the retry sees `notified` and returns |
| `viol_rejected` | "If you tap **Reject**, nothing happens" | a confirmation has read the draft before the reject is written, and applies it after |

The modules state more of this kind, each beside the document it quotes. TLC
refutes every one of them when it takes the place of the properties of the run
named here (with the constants changed as given):

| definition | run | statement | how it fails |
|---|---|---|---|
| `ClosedNotMarkedMissed` | `lifecycle_race` | a completed mission is not marked missed | `markMissed` writes from an older read |
| `SnoozeRespected` | `lifecycle_race` | a granted snooze moves the deadline | the same, with a snooze in between |
| `SnoozesWithinLimit` | `lifecycle_race` | at most `maxSnoozes` snoozes | two requests count before either adds |
| `PendingIsReminded` | `lifecycle_live`, `Policy <- PianoOnly`, `Request = {r1}` | the child is reminded at the scheduled time | a first proof before that time leaves `scheduled`: no reminder, and no deadline |
| `SnoozedResolves` | `lifecycle_live` | a snoozed mission is resolved | a snooze writes over a mission that was closed meanwhile, whose job is gone |
| `AnsweredIsClosed` | `commands` | an answered command is closed | a slower pull marks it dispatched |
| `RunOnlyIfEnabled` | `commands` | a disabled capability is not used | it is checked at creation only |
| `OneEffectPerDraft` | `drafts` | a draft has one effect | a template is stored, its occurrence throws, the draft stays open |
| `RunsReported` | `bridge` | the result of a run is sent | codex ends before its handler is there |
| `StatusShowsRun` | `bridge` | `/status` shows the run | the handler of the previous run clears `activeRun` |
| `NewForgets` | `bridge` | `/new` forgets the session | a cancelled run stores it again |
| `SessionIsStored` | `codex_output` | the session of a run is stored | what codex wrote during the announcement is gone |
| `AnswerIsVerbatim` | `codex_output` | the final answer is sent | there is no file, and a chunk ended within a character |
| `StaleIsAlwaysSeen` | `codex_output` | an expired session is replaced by a new one | the error is further back in stderr than what is kept |
| `NoSessionLost` | `lock` | sessions are stored | a bridge that started beside another writes what it loaded before |
| `SomeoneCanStart` | `lock` | the same file is read at the next start | a kill while it is written leaves a file that does not parse |
| `RefusedOnlyIfTaken` without `kills = 0` | `lock` | a start is refused only when a bridge runs | the lock of a killed process stays |
| `FailsBesideAnother` | `lock` | a start fails only because another bridge runs | the lock is unlinked, by a bridge that exits, between `existsSync` and `readFileSync` |
| `OneBridge` without its premise | `lock` | one bridge at a time | the exit handler of a refused start removes another's lock |
| `TemplatesScheduled` | `schedule`, `Template = {t1, t2}`, `Rules = {"freq=daily", "weekly"}`, `MaxTime = 5` | every template gets its jobs | one unreadable template ends all runs |
| `OneShotOnce` | `schedule` | a one-time mission occurs once | each run looks at the current day only |
| `OneRefreshPerPair` | `phone` | one refresh for a burst of 401s | each client has a mutex of its own |
| `LoggedOut` | `phone` | log-out clears the session | a refresh saves its pair afterwards |
| `OneTimeCode` | `push` | a pairing code is one-time | two claims read it before either stores |
| `OneBootstrap` | `push`, `Parent = {p1, p2}` | one first parent | two requests count before either inserts |
| `PairedIsRegistered` | `push` for the module `Pairing`, `FairSpec`, no symmetry | a paired phone registers its push token | the registration ends with the pairing card |

## 5. What is proved

TLAPS checks the following for every value of the constants that satisfies the
named assumption of the module (`LifecycleAssumption`, `CommandsAssumption`,
`DraftsAssumption`, `BridgeAssumption`, `SchedulingAssumption`,
`PhoneAssumption`, `PairingAssumption`, `PushAssumption`, `LockAssumption`,
`OutputAssumption`): types of constants, natural bounds, and that "none" markers are no element of the sets they are added to.
`SchedulingAssumption` also limits the leap of a zone to a day. The bounds
(`MaxTime`, `MaxFaults`, ...) are constants too: a proof holds for each, so for
behaviours of any length.

| theorem | property | inductive invariant, and why it is needed |
|---|---|---|
| `TypeCorrect` | `TypeOK` of `MissionLifecycle` | itself |
| `AccountImplemented` | `ImplementsAccount` | `CoinInv`: a request about to save `completed`, or to pay, has its ground in the database already; proofs and approvals are never taken back. So a step of a handler is a payment, a completion or a stutter of `CoinAccount` |
| `CoinsAreEarned` | `CoinsEarned` | the same; and `BooksInv`: the sums, and that finitely many occurrences were paid. A payment adds one reward to one sum, by `SumWithout`: a sum does not depend on the order in which `MapThenSumSet` takes the elements |
| `ReminderSentOnce` | `RemindedOnce` | `ReminderInv`: whoever is about to send has left no second job that still finds `scheduled`, and no verdict reopens a mission |
| `NotifiedStaysArmed` | `NotifiedIsArmed` | `ArmedInv`: the check that `notifyOccurrence` or a moved deadline enqueued is in the queue before the job is acknowledged, and a check in `dead` has been hit by two faults (`GivenUpAfterTwo`: each stall and each attempt is a fault of its own) |
| `MarkedMissedOnce` | `MissedOnce` | `MissedInv`: while nothing fails a mission has no check before it was notified, one at most afterwards, and none that waits once it was marked; a check that postpones or closes it has left the queue |
| `SnoozedStaysArmed` | `SnoozedIsArmed` | `SnoozeInv`: what may have closed a mission (a completion, a rejection, a mark, a report that it is done) stays on record; until there is such a record its check is in Redis or in the worker's hands, also while a snooze that read it is under way |
| `SchedulingTypeCorrect`, `OccurrencesAreOnTime` | `TypeOK`, `OnTime` of `Scheduling` | `SchedulingInv`: what a request or a run carries was asked for, and an occurrence is where the calendar put it. The calendar is a lemma: for one change of the offset by at most a day, three corrections reach the local time, or miss it by the leap where the clock skips it |
| `OccurrencesAreDaysApart` | `DaysApart` | the same invariant, and the distance of two corrected times |
| `HorizonIsCovered` | `HorizonCovered` | the same invariant; and a time of the horizon that the child's clock shows once has its date among those that `occurrenceDatesForSchedule` gives, and the calendar lemma takes the date back to that time, whether or not the clock changes in between |
| `CommandsTypeCorrect`, `ClosedCommandHasResult` | `TypeOK`, `ClosedHasResult` of `DeviceCommands` | a command is closed only with its result, and results stay |
| `InboxImplemented` | `ImplementsInbox` | `KnownInv`: a poll only touches commands that were created |
| `CommandStaysOpen` | `OpenUntilAnswered` of `DeviceCommands` (of no run) | itself with `TypeOK`: only a pull after its time expires a command, and a slow pull's mark leaves it open |
| `AuditTellsResults` | `AuditsTell` and `AnswersStand` of `CommandInbox` (of no run: they follow from `ImplementsInbox`) | itself, of the abstract specification |
| `DraftsTypeCorrect`, `ConfirmedDraftIsApplied`, `AppliedDraftWasAgreed` | `TypeOK`, `ConfirmedIsApplied` (of no run: the next theorem implies it), `AppliedWasAgreed` of `ChatDrafts` | `DraftsInv`: a request that applies a draft was made by one who may, of a draft that was offered, and one about to mark it has stored its effect |
| `DraftsFollowAgreement` | `ImplementsAgreement` | the same invariant: a step of a request is an offer, an agreement, an effect, a decision or a stutter of `DraftAgreement` |
| `EveryEffectWasTapped` | `TapsCover` of `ChatDrafts` (of no run) | itself with `DraftsInv`: a tap puts one request before its effect, the effect takes it away from there. A draft may have two effects (`OneEffectPerDraft` is refuted), but all drafts together have no more than there were taps |
| `MessagesAreKept` | `NothingLost` of `ChatDrafts` (of no run) | itself with `TypeOK`: the messages that are not answered and the answers that are not logged are those of requests under way, but for one with each fault |
| `BridgeIsAQueue` | `ImplementsQueue` | `OffsetsFollow`: the offset, the batch and what Telegram has dropped never run ahead of what was taken |
| `MessagesInTurn` | `InTurn` of `UpdateQueue` (of no run: it follows from `ImplementsQueue`) | itself, of the abstract specification |
| `SessionsAreOwn` | `SessionIsOwn` | `OwnInv`: what a run resumes was its chat's when it began, and a run has one chat for good |
| `OneCodexAtATime` | `OneRun` | `OneInv`: a retry follows a stale session, which ends the premise; a prompt starts a run only when `activeRun` is empty, and then none lives |
| `StoredSessionIsLast`, `AnswerIsLastSaid`, `StaleSessionIsSeen` | `SessionIsLast`, `AnswerIsLast`, `StaleIsSeen` of `CodexOutput` | `OutputInv`: at every chunk the thread and the message are those of the last whole line that has arrived, and what is kept of stderr is the end of what has arrived of it, however both were cut; the close event comes when all has |
| `RefusalsAreJustified`, `OnlyOneBridgeRuns` | `RefusedOnlyIfTaken`, `OneBridge` | `LockInv`: but for a kill, the process whose pid the file holds has written it and not released it since, an empty file is about to be filled, who found a lock and has not read it yet met another process (`FoundIsMet`), and a pid that was read is of another process that was started; and of two processes the one that runs holds the file |
| `SessionsAreKept` | `SessionsKept` | `AllThere`: of the processes that were not started beside another at most one is up, and it has all changes; who writes is that one, and the file has all changes or is torn, by the write or by a kill |
| `ClientRefreshesOnce`, `RetriesAreFresh` | `OneRefreshPerClient`, `FreshRetry` | `SessionInv`: a pair that is not saved yet is known to its call only; a pair that was replaced never comes back; what the holder of a mutex refreshes, no call of its client has replaced |
| `LogOutLeavesARefreshAtMost` | `SignedOutButForRefresh` | `OnlyUnderWay`: after a log-out, while the store is empty, only calls that were refreshing at the log-out still are, as under the lock the others find no refresh token |
| `ReminderStaysHome` | `ReminderReachesOwnPhone` (of no run: the lemma behind `RemindersAreDelivered`) | `PushInv`: a phone waits for one claim at a time and only without a session; a post under way carries an old token or is for the current session; no row holds a token that is still to come |
| `PhonesArePairedAsAgreed` | `PairedAsAgreed` | `AgreedInv` of `Pairing`: rows are the child's of their claim's code, codes stay claimed, children stay in their family. `PairingGoesOn` carries it to `PushDelivery`, whose steps are steps of `Pairing` or leave its variables alone |
| `RemindersAreDelivered` | `ImplementsDelivery` | `DeliveryInv`: a push under way is for the child of its row, and if its token still works the phone's session is that row's and the reminder has not come up there |
| `AccessTokensWork` | `CachedTokenWorks` | the cache holds an end that is not later than Google's |

The argument is the same everywhere: the initial states satisfy the invariant,
one step per action shows that it is kept, and a last temporal step concludes.
The invariants that a model module defines were first checked by TLC as
invariants of its runs.

Two inductions are over data: the order in which a sum is taken
(`MissionLifecycleProofs`) and the last line of an output
(`TelegramCodexProofs`). The library states induction for an operator, which the
provers cannot instantiate; its theorem on well-founded relations, of a set
and its minimal element, they can use. `LeastOf` is that theorem for the natural
numbers, and the proofs take the least counterexample to a contradiction. The
same way `EntriesExist` shows that the recursive function inside `MapThenSumSet`
exists.

The proof of `AnswerIsLastSaid` found a fault of the model: two arms of a `CASE`
in `Told` overlapped and left the answer open where the code's order of
conditions decides. TLC takes the first arm and had not noticed.

The abstract specifications say what their components promise; that they do is
proved of some of them (`BooksBalance`, `AuditsTell`, `AnswersStand`, `InTurn`)
and carried over by the refinement.

Only model-checked: the liveness properties (`MissionsResolve`, `ResultArrives`,
`ClosedInTheEnd`, `MessagesAnswered`, `UpdatesTaken`, `RunsEnd`,
`TemplatesScheduled`, `CallsEnd`), which need `ENABLED` and fairness. What they
rest on is proved where it is a safety property: a mission that waits has its
check (`NotifiedIsArmed`, `SnoozedIsArmed`), an unanswered command is offered to
the next poll (`OpenUntilAnswered`), an unanswered message is with a request
(`NothingLost`), updates are taken in turn (`InTurn`), and a mutex of the phone
is held only by a call that is refreshing (`TypeOK` of `PhoneSession`, a
part of `SessionInv`).

## 6. What is not modelled

- The local alarms of Android: nothing schedules one, so their store stays
  empty. Screens, but for the pairing card and the sign-in and log-out.
- Proof files: pure I/O, a file of its own per upload.
- What codex says, what OpenClaw answers and how the fallback parses a
  sentence: a choice over the outcomes the handlers tell apart. How the bot
  splits long messages and words its status: no state.
- An answer of OpenClaw whose draft has no payload throws in `validateDraft`,
  outside the `try` of `ask`: for `ChatDrafts` a request that dies like any other
  (`RequestDies`), and no outcome of `Ask`.
- Updates of a template's proof, snooze and reward policies: `UpdateTemplate`
  changes what `Scheduling` computes with, the time and the rule; to
  `MissionLifecycle` the policies of its occurrences are constants.
- A push token that is registered again with the session of a later sign-in
  after a 401: clearing the app's data ends the process, and a post keeps the
  session it began with.
- Start-up, configuration, validation of inputs: models take only inputs that
  pass it. Roles and passwords, but where a handler decides on the owner.
- A request of the adapter that never returns; two workers (one is deployed).
- The virtual device script and the deployment files: test aids, no logic.

## 7. Plan

Done, in this order: `MissionLifecycle` with `CoinAccount` (the core: the
most actors and the money), `DeviceCommands` with `CommandInbox`, `ChatDrafts`,
`TelegramCodex` with `BridgeLock`, `Scheduling`, `PhoneSession`, `Pairing`; then
the abstract specifications `DraftAgreement`, `UpdateQueue` and
`ReminderDelivery`, `PushDelivery` over `Pairing`, `CodexOutput`, the sessions
file in `BridgeLock`, and theorems for every safety property of a run.

What could follow:

1. A composition of `Scheduling` and `MissionLifecycle`, in which the
   occurrences of the lifecycle are those that a run inserts and jobs are added
   by the same run, with the template's update in between.
2. A composition of `ChatDrafts` and `DeviceCommands`: the command that a
   confirmed draft creates, up to the answer in the chat.
3. What `TemplatesScheduled` and `RunsEnd` rest on as theorems of safety: that
   an occurrence within the horizon whose job is missing is in the hands of a
   run, and that a live codex has a handler, a timeout or a cancellation ahead.
