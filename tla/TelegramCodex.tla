---------------------------- MODULE TelegramCodex ----------------------------
(***************************************************************************)
(* The Telegram-Codex bridge (apps/telegram-codex/src/main.ts): one Node   *)
(* process that takes updates from Telegram one after the other, runs      *)
(* codex for prompts, and remembers each chat's codex session in a file.   *)
(*                                                                         *)
(* The poll loop waits for each of its messages to be sent; the handlers   *)
(* of a run's end take their steps in between.  A run's close handler is   *)
(* registered only when the message that announces the run has been sent.  *)
(* The lock that keeps a second bridge out is in BridgeLock.               *)
(***************************************************************************)
EXTENDS Integers, Sequences, FiniteSets

CONSTANTS
  Chat,        (* the allowed chats                                            *)
  Run,         (* codex processes, numbered in the order of their starts       *)
  None,        (* no run, no session                                           *)
  Commands,    (* what the chats send in this instance                         *)
  Codes,       (* how codex ends in this instance                              *)
  MaxUpdates,  (* bound: messages sent to the bot                              *)
  MaxFaults    (* bound: messages that Telegram refuses, ends of the process   *)

(* "status" stands for all that is only answered: /help, /status, a prompt     *)
(* that is too long; "ignored" for an update without text.                     *)
Command == {"prompt", "new", "new_prompt", "cancel", "status", "ignored"}
Code == {"ok", "fail", "stale"}

ASSUME BridgeAssumption ==
  /\ Run \subseteq Nat /\ None \notin Run
  /\ Commands \subseteq Command /\ Codes \subseteq Code
  /\ MaxUpdates \in Nat /\ MaxFaults \in Nat

VARIABLES
  inbox,       (* every update sent to the bot; its index is its update_id     *)
  forgotten,   (* Telegram has dropped the updates up to this one              *)
  taken,       (* updates that handleUpdate was called with                    *)
  pc,          (* what the poll loop waits for                                 *)
  cur, last,   (* the update being handled, the last one of its batch          *)
  nextOffset,
  active,      (* activeRun                                                    *)
  sessions,    (* the session of each chat, named by the run that began it     *)
  child,       (* the codex process of each run                                *)
  chat,        (* the chat each run belongs to                                 *)
  resumes,     (* the session each run resumed                                 *)
  step,        (* how far runCodex and the close handler of each run are       *)
  starter,     (* who waits for the announcement: the poll loop or a handler   *)
  signalled,   (* runs that were sent SIGTERM                                  *)
  sayFails, crashes

telegram == <<inbox, forgotten, taken>>
loop == <<pc, cur, last, nextOffset>>
runs == <<child, chat, resumes, step, starter, signalled>>
bounds == <<sayFails, crashes>>
vars == <<inbox, forgotten, taken, pc, cur, last, nextOffset, active, sessions,
          child, chat, resumes, step, starter, signalled, sayFails, crashes>>

Larger(a, b) == IF a > b THEN a ELSE b
Up == pc # "down"

Send(c, cmd) ==
  /\ Len(inbox) < MaxUpdates
  /\ inbox' = Append(inbox, [chat |-> c, cmd |-> cmd])
  /\ UNCHANGED <<forgotten, taken, loop, active, sessions, runs, bounds>>

(***************************************************************************)
(* The poll loop.  getUpdates names an offset: Telegram drops what is      *)
(* before it and returns the rest.                                         *)
(***************************************************************************)
GetUpdates ==
  /\ pc = "work" /\ cur = last
  /\ forgotten' = Larger(forgotten, nextOffset - 1)
  /\ <<forgotten', Len(inbox)>> # <<forgotten, cur>>   \* an empty answer changes nothing
  /\ cur' = forgotten'
  /\ last' = Len(inbox)
  /\ UNCHANGED <<inbox, taken, pc, nextOffset, active, sessions, runs, bounds>>

(* mutant: the offset moves past the whole batch when its first update is taken *)
OffsetAfterBatch(i) == Larger(nextOffset, last + 1)
OffsetAfter(i) == Larger(nextOffset, i + 1)

(* hasCodexSession: a file of codex names the session, or none does any more.   *)
Found(stored) == {stored, None}

(* runCodex up to its first await: a stored session that is found is resumed,   *)
(* else it is deleted.                                                         *)
NextRun(k) == child[k] = "unborn" /\ \A q \in Run : child[q] = "unborn" => k <= q
StartRun(k, c, stored) ==
  /\ NextRun(k)   \* bound: there is a run left
  /\ \E resumed \in Found(stored) :
       /\ sessions' = [sessions EXCEPT ![c] = resumed]
       /\ resumes' = [resumes EXCEPT ![k] = resumed]
  /\ child' = [child EXCEPT ![k] = "live"]
  /\ chat' = [chat EXCEPT ![k] = c]
  /\ active' = k

StartFromChat(c, stored) ==
  \E k \in Run :
    /\ StartRun(k, c, stored)
    /\ step' = [step EXCEPT ![k] = "announce"]
    /\ starter' = [starter EXCEPT ![k] = "poll"]
    /\ pc' = "announce"
    /\ UNCHANGED signalled

Say == pc' = "say"
KeepRuns == UNCHANGED <<active, sessions, runs>>

Stopped == {active} \ {None}

Cancel ==
  /\ Say
  /\ active' = None
  /\ signalled' = signalled \cup Stopped
  /\ UNCHANGED <<sessions, child, chat, resumes, step, starter>>

ForgetSession(c) ==
  /\ Say
  /\ sessions' = [sessions EXCEPT ![c] = None]
  /\ UNCHANGED <<active, runs>>

(* mutant: a prompt does not look for a run                                    *)
BusyForNew(cmd) == active # None /\ cmd \in {"new", "new_prompt"}
Busy(cmd) == active # None /\ cmd \in {"prompt", "new", "new_prompt"}

(* handleUpdate, up to its first await.                                        *)
Handle(c, cmd) ==
  \/ cmd = "ignored" /\ UNCHANGED pc /\ KeepRuns
  \/ (cmd = "status" \/ Busy(cmd)) /\ Say /\ KeepRuns
  \/ cmd = "cancel" /\ Cancel
  \/ cmd = "new" /\ ~Busy(cmd) /\ ForgetSession(c)
  \/ cmd = "new_prompt" /\ ~Busy(cmd) /\ StartFromChat(c, None)
  \/ cmd = "prompt" /\ ~Busy(cmd) /\ StartFromChat(c, sessions[c])

TakeUpdate ==
  /\ pc = "work" /\ cur < last
  /\ cur' = cur + 1
  /\ nextOffset' = OffsetAfter(cur + 1)
  /\ taken' = taken \cup {cur + 1}
  /\ Handle(inbox[cur + 1].chat, inbox[cur + 1].cmd)
  /\ UNCHANGED <<inbox, forgotten, last, bounds>>

Said ==
  /\ pc = "say"
  /\ pc' = "work"
  /\ UNCHANGED <<telegram, cur, last, nextOffset, active, sessions, runs, bounds>>

(* The announcement is out: the handlers of the run are registered.            *)
Announced(k) ==
  /\ step[k] = "announce"
  /\ step' = [step EXCEPT ![k] = "hooked"]
  /\ pc' = IF starter[k] = "poll" THEN "work" ELSE pc
  /\ UNCHANGED <<telegram, cur, last, nextOffset, active, sessions, child, chat, resumes,
                 starter, signalled, bounds>>

(* A message fails in the poll loop: the rest of the batch is left for the      *)
(* next getUpdates.  A run that could not be announced has no handlers.         *)
DropBatchForGood == last' = cur /\ nextOffset' = last + 1   \* mutant: it is skipped
DropBatch == last' = cur /\ UNCHANGED nextOffset
SayFails ==
  /\ sayFails + crashes < MaxFaults
  /\ pc \in {"say", "announce"}
  /\ pc' = "work"
  /\ DropBatch
  /\ step' = [k \in Run |-> IF step[k] = "announce" /\ starter[k] = "poll" THEN "unheard" ELSE step[k]]
  /\ sayFails' = sayFails + 1
  /\ UNCHANGED <<telegram, cur, active, sessions, child, chat, resumes, starter, signalled, crashes>>

(***************************************************************************)
(* Runs.  A child's close event is lost when no handler is registered.     *)
(***************************************************************************)
Thread(k) == IF resumes[k] = None THEN k ELSE resumes[k]

(* mutant: the session is stored for the chat of the active run                *)
OwnerActive(k) == IF active = None THEN chat[k] ELSE chat[active]
Owner(k) == chat[k]

AfterClose(k, code) ==
  /\ active' = None
  /\ sessions' = CASE code = "ok"    -> [sessions EXCEPT ![Owner(k)] = Thread(k)]
                   [] code = "stale" -> [sessions EXCEPT ![chat[k]] = None]
                   [] OTHER          -> sessions
  /\ step' = [step EXCEPT ![k] = IF code = "stale" THEN "apologise" ELSE "report"]

CodexEnds(k, code) ==
  /\ child[k] = "live"
  /\ code = "stale" => resumes[k] # None
  /\ child' = [child EXCEPT ![k] = code]
  /\ IF Up /\ step[k] = "hooked" THEN AfterClose(k, code)
     ELSE UNCHANGED <<active, sessions, step>>
  /\ UNCHANGED <<telegram, loop, chat, resumes, starter, signalled, bounds>>

(* The timer of runCodex.                                                      *)
TimerStopsActive(k) == active = k   \* mutant: it stops the active run only
TimerStops(k) == TRUE
TimeOut(k) ==
  /\ step[k] = "hooked" /\ child[k] = "live" /\ k \notin signalled
  /\ TimerStops(k)
  /\ signalled' = signalled \cup {k}
  /\ UNCHANGED <<telegram, loop, active, sessions, child, chat, resumes, step, starter, bounds>>

Report(k) ==
  /\ step[k] = "report"
  /\ step' = [step EXCEPT ![k] = "told"]
  /\ UNCHANGED <<telegram, loop, active, sessions, child, chat, resumes, starter, signalled, bounds>>

(* The stored session had expired: the same prompt runs again.                 *)
Retry(k) ==
  /\ step[k] = "apologise"
  /\ \E q \in Run :
       /\ StartRun(q, chat[k], sessions[chat[k]])
       /\ step' = [step EXCEPT ![k] = "told", ![q] = "announce"]
       /\ starter' = [starter EXCEPT ![q] = "close"]
  /\ UNCHANGED <<telegram, loop, signalled, bounds>>

(***************************************************************************)
(* The process ends: codex could not be spawned or a message failed in a    *)
(* handler (nobody catches either), or a signal came, which stops the       *)
(* active run.  Codex processes live on; the session file stays.            *)
(***************************************************************************)
Ended ==
  /\ sayFails + crashes < MaxFaults
  /\ crashes' = crashes + 1
  /\ pc' = "down"
  /\ active' = None
  /\ cur' = 0 /\ last' = 0 /\ nextOffset' = 0
  /\ step' = [k \in Run |-> IF step[k] = "none" THEN "none" ELSE "unheard"]
  /\ UNCHANGED <<telegram, sessions, chat, resumes, starter, sayFails>>

Crash ==
  /\ \E k \in Run :
       \/ /\ step[k] \in {"apologise", "report"} \/ (step[k] = "announce" /\ starter[k] = "close")
          /\ UNCHANGED child
       \/ /\ step[k] = "announce" /\ child[k] = "live"
          /\ child' = [child EXCEPT ![k] = "fail"]
  /\ Ended
  /\ UNCHANGED signalled

Shutdown ==
  /\ Up
  /\ Ended
  /\ signalled' = signalled \cup Stopped
  /\ UNCHANGED child

Restart ==
  /\ ~Up
  /\ pc' = "work"
  /\ UNCHANGED <<telegram, cur, last, nextOffset, active, sessions, runs, bounds>>

Loop == GetUpdates \/ TakeUpdate \/ Said \/ Restart

Init ==
  /\ inbox = <<>> /\ forgotten = 0 /\ taken = {}
  /\ pc = "work" /\ cur = 0 /\ last = 0 /\ nextOffset = 0
  /\ active = None
  /\ sessions = [c \in Chat |-> None]
  /\ child = [k \in Run |-> "unborn"]
  /\ chat \in [Run -> {None}]
  /\ resumes = [k \in Run |-> None]
  /\ step = [k \in Run |-> "none"]
  /\ starter = [k \in Run |-> "poll"]
  /\ signalled = {}
  /\ sayFails = 0 /\ crashes = 0

Next ==
  \/ \E c \in Chat, cmd \in Commands : Send(c, cmd)
  \/ Loop \/ SayFails
  \/ \E k \in Run : Announced(k) \/ TimeOut(k) \/ Report(k) \/ Retry(k)
  \/ \E k \in Run, code \in Codes : CodexEnds(k, code)
  \/ Crash \/ Shutdown

Spec == Init /\ [][Next]_vars

(* The event loop and Telegram go on, a supervisor restarts the bridge, and a   *)
(* codex that was signalled ends; one that was not may run for ever.            *)
FairSpec ==
  /\ Spec /\ WF_vars(Loop)
  /\ \A k \in Run :
       /\ WF_vars(Announced(k)) /\ WF_vars(TimeOut(k)) /\ WF_vars(Report(k)) /\ WF_vars(Retry(k))
       /\ WF_vars(k \in signalled /\ \E code \in Codes : CodexEnds(k, code))

-----------------------------------------------------------------------------
(* Types.                                                                      *)
TypeOK ==
  /\ inbox \in Seq([chat: Chat, cmd: Command]) /\ forgotten \in Nat /\ taken \subseteq Nat
  /\ pc \in {"down", "work", "say", "announce"}
  /\ cur \in Nat /\ last \in Nat /\ nextOffset \in Nat
  /\ active \in Run \cup {None}
  /\ sessions \in [Chat -> Run \cup {None}]
  /\ child \in [Run -> {"unborn", "live"} \cup Code]
  /\ chat \in [Run -> Chat \cup {None}]
  /\ resumes \in [Run -> Run \cup {None}]
  /\ step \in [Run -> {"none", "announce", "hooked", "unheard", "apologise", "report", "told"}]
  /\ starter \in [Run -> {"poll", "close"}]
  /\ signalled \subseteq Run
  /\ sayFails \in Nat /\ crashes \in Nat

(* The bridge implements the queue it promises: an update is handled before     *)
(* Telegram forgets it and none for the first time before an earlier one,       *)
(* whatever messages fail in a batch and whenever the process ends.  A command  *)
(* may be handled twice, never dropped.                                         *)
Queue == INSTANCE UpdateQueue WITH Message <- [chat: Chat, cmd: Command]
ImplementsQueue == Queue!Spec

(* Why: the offset and the batch never run ahead of what was taken.            *)
OffsetsFollow ==
  /\ inbox \in Seq([chat: Chat, cmd: Command]) /\ taken \subseteq 1..Len(inbox)
  /\ forgotten \in Nat /\ cur \in Nat /\ last \in Nat /\ nextOffset \in Nat
  /\ 1..forgotten \subseteq taken /\ 1..cur \subseteq taken /\ 1..(nextOffset - 1) \subseteq taken
  /\ last <= Len(inbox) /\ (cur < last => forgotten <= cur)

(* A chat's session was begun by a run of that chat that ended well, though     *)
(* runs of several chats end in any order after they were cancelled.            *)
Owned(c, s) ==
  /\ child[s] # "unborn" /\ chat[s] = c
  /\ \E k \in Run : child[k] = "ok" /\ chat[k] = c /\ Thread(k) = s
SessionIsOwn == \A c \in Chat : sessions[c] # None => Owned(c, sessions[c])

(* Why: so is what a run resumes, and a run is begun once and for one chat.     *)
ResumesOwn ==
  \A k \in Run :
    /\ child[k] # "unborn" => chat[k] \in Chat
    /\ resumes[k] # None => child[k] # "unborn" /\ Owned(chat[k], resumes[k])
    /\ step[k] # "none" => child[k] # "unborn"
OwnInv == TypeOK /\ OffsetsFollow /\ SessionIsOwn /\ ResumesOwn

(* As long as nobody has cancelled, no session was stale and the process stays  *)
(* up, one codex works at a time, and activeRun names it.                       *)
Undisturbed ==
  /\ \A i \in taken : inbox[i].cmd # "cancel"
  /\ \A k \in Run : child[k] # "stale"
  /\ crashes = 0
OneRun == Undisturbed => \A k \in Run : child[k] = "live" => active = k

(* Every update is handled in the end, whatever messages fail and although the  *)
(* process crashes: again and again none is left, as long as the bound on runs  *)
(* leaves one to start.                                                        *)
UpdatesTaken ==
  []<>(1..Len(inbox) \subseteq taken \/ \A k \in Run : child[k] # "unborn")

(* No codex that was announced runs for ever: its timer stops it, active or     *)
(* not: again and again none does, as long as no bridge ended (the timer is set *)
(* after the announcement; if that fails there is none).                       *)
RunsEnd ==
  []<>(crashes > 0 \/ \A k \in Run : step[k] = "hooked" => child[k] # "live")

(* main.ts:158, "When a run ends, I will send the final answer plus run status  *)
(* automatically."                                                              *)
RunsReported == \A k \in Run : child[k] = "ok" ~> step[k] = "told"

(* apps/telegram-codex/README.md:18, "/status - show the active Codex run":     *)
(* a codex nobody has stopped is the active run.                                *)
StatusShowsRun == \A k \in Run : child[k] = "live" /\ k \notin signalled => active = k

(* apps/telegram-codex/README.md:20, "/new - forget the current Codex session   *)
(* for this chat": a session once forgotten does not come back.                 *)
NewForgets ==
  [][\A c \in Chat : sessions[c] = None /\ sessions'[c] # None =>
       \E k \in Run : child[k] = "live" /\ chat[k] = c /\ resumes[k] = None /\ sessions'[c] = k]_vars
=============================================================================
