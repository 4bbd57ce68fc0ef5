----------------------------- MODULE CodexOutput -----------------------------
(***************************************************************************)
(* What the Telegram-Codex bridge makes of the output of one codex process *)
(* (apps/telegram-codex/src/main.ts, runCodex from the announcement on).    *)
(*                                                                         *)
(* Codex writes JSON lines to stdout and text to stderr, both of which      *)
(* arrive in chunks that end anywhere, and its last message to a file.      *)
(* Text is counted in halves: of a line, and of the error that names a      *)
(* stale session.  Handlers are there once the announcement is sent; when   *)
(* codex has ended, Node throws away what nobody listens to.               *)
(***************************************************************************)
EXTENDS Integers, Sequences

CONSTANTS
  Word,       (* texts: what codex says and the ids of its threads            *)
  Kept,       (* how much of stderr the bridge keeps: 8000 characters         *)
  MaxLines,   (* bound: lines on stdout                                       *)
  MaxErrors   (* bound: halves on stderr                                      *)

Empty == ""
Garbled == "garbled"
ASSUME OutputAssumption ==
  /\ {Empty, Garbled, "recent stderr", "no output"} \cap Word = {}
  /\ Kept \in Nat /\ MaxLines \in Nat /\ MaxErrors \in Nat

VARIABLES
  out, err,   (* all that codex writes until it ends                          *)
  exitCode,   (* "running", or how codex ended: code 0 or not                  *)
  file,       (* the file of --output-last-message                            *)
  resumed,    (* the session that was resumed                                 *)
  phase,      (* the run: its announcement, its handlers, its end             *)
  read, errRead,      (* how many halves have arrived                         *)
  missed, errMissed,  (* how many of them before there were handlers          *)
  cut,        (* lines that a chunk has cut within a character                *)
  stderr, threadId, lastAgentMessage,   (* the variables of runCodex           *)
  session, answer     (* what is stored for the chat, and told                *)

codex == <<out, err, exitCode, file, resumed>>
pipes == <<read, errRead, missed, errMissed, cut>>
heard == <<stderr, threadId, lastAgentMessage>>
result == <<session, answer>>
outputVars == <<codex, phase, pipes, heard, result>>

(* The events that count (a completed agent_message and a task_complete are     *)
(* taken alike), and one for all that is skipped: others, lines that are no     *)
(* JSON.                                                                       *)
Event == [kind: {"thread.started", "agent_message"}, text: Word \cup {Empty}]
           \cup {[kind |-> "other", text |-> Empty]}

ErrorHalf == {"no rollout found", "for thread id", "other"}
UpTo(n, S) == UNION {[1..m -> S] : m \in 0..n}

(* The text of the last of the lines, Empty texts being no texts.              *)
LastText(lines, kind, garbled, default) ==
  LET T == {i \in lines : out[i].kind = kind /\ out[i].text # Empty}
  IN  IF T = {} THEN default
      ELSE LET i == CHOOSE i \in T : \A j \in T : j <= i
           IN  IF i \in garbled THEN Garbled ELSE out[i].text
LastSaid == LastText(DOMAIN out, "agent_message", {}, Empty)

(* Codex ends; the file has its last message or could not be written or read.  *)
CodexExits(c) ==
  /\ exitCode = "running"
  /\ exitCode' = c
  /\ file' \in {Empty, LastSaid}
  /\ UNCHANGED <<out, err, resumed, phase, pipes, heard, result>>

HandlersThere ==
  /\ phase = "announce"
  /\ phase' = "hooked"
  /\ UNCHANGED <<codex, pipes, heard, result>>

(* No handler yet and nothing more to come: the streams are drained.           *)
Discard ==
  /\ phase = "announce" /\ exitCode # "running"
  /\ \/ \E n \in (read + 1)..(2 * Len(out)) :
          read' = n /\ missed' = n /\ UNCHANGED <<errRead, errMissed>>
     \/ \E n \in (errRead + 1)..Len(err) :
          errRead' = n /\ errMissed' = n /\ UNCHANGED <<read, missed>>
  /\ UNCHANGED <<codex, phase, cut, heard, result>>

(* A chunk of stdout.  parseJsonlEvents looks at the whole text again: at       *)
(* the lines that have arrived completely.                                     *)
LinesOfChunk == {i \in DOMAIN out : 2 * i - 1 > read /\ 2 * i <= read'}   \* mutant
Lines == {i \in DOMAIN out : 2 * i - 1 > missed /\ 2 * i <= read'}
ReadOut ==
  /\ phase = "hooked"
  /\ read' \in (read + 1)..(2 * Len(out))
  /\ cut' \in {cut, cut \cup {(read' + 1) \div 2}}
  /\ cut' # cut => read' % 2 = 1
  /\ threadId' = LastText(Lines, "thread.started", {}, threadId)
  /\ lastAgentMessage' = LastText(Lines, "agent_message", cut', lastAgentMessage)
  /\ UNCHANGED <<codex, phase, errRead, missed, errMissed, stderr, result>>

(* A chunk of stderr: what is kept is the end of all that came.                *)
tail(s) == SubSeq(s, IF Len(s) > Kept THEN Len(s) - Kept + 1 ELSE 1, Len(s))
KeptOfChunk(before, chunk) == tail(chunk)   \* mutant: what came before is lost
KeptOf(before, chunk) == tail(before \o chunk)
ReadErr ==
  /\ phase = "hooked"
  /\ errRead' \in (errRead + 1)..Len(err)
  /\ stderr' = KeptOf(stderr, SubSeq(err, errRead + 1, errRead'))
  /\ UNCHANGED <<codex, phase, read, missed, errMissed, cut, threadId, lastAgentMessage, result>>

(* isStaleCodexSessionError: the text of the error is there as a whole.         *)
NamesStale(s) == \E i \in 1..(Len(s) - 1) : s[i] = "no rollout found" /\ s[i + 1] = "for thread id"

(* What the chat is told: the message in the file, else the one on stdout, else *)
(* the end of stderr, else that there was no output.                           *)
Message == IF file # Empty THEN file ELSE lastAgentMessage
Told(m) == CASE m # Empty                   -> m
             [] m = Empty /\ stderr # <<>> -> "recent stderr"
             [] m = Empty /\ stderr = <<>> -> "no output"

(* The close event comes when both streams have ended: a stale session is       *)
(* deleted and the run repeated, or its end is told.                           *)
Stale == exitCode # "ok" /\ resumed # Empty /\ NamesStale(stderr)
DrainedNot == exitCode # "running"   \* mutant: the exit event instead
Drained == exitCode # "running" /\ read = 2 * Len(out) /\ errRead = Len(err)
Close ==
  /\ phase = "hooked" /\ Drained
  /\ \/ /\ Stale
        /\ phase' = "retry" /\ session' = Empty /\ UNCHANGED answer
     \/ /\ ~Stale
        /\ session' = IF exitCode = "ok" /\ threadId # Empty THEN threadId ELSE session
        /\ phase' = "closed" /\ answer' = Told(Message)
  /\ UNCHANGED <<codex, pipes, heard>>

CloseUnheard ==
  /\ phase = "announce" /\ Drained
  /\ phase' = "unheard"
  /\ UNCHANGED <<codex, pipes, heard, result>>

OutputInit ==
  /\ out \in UpTo(MaxLines, Event) /\ err \in UpTo(MaxErrors, ErrorHalf)
  /\ exitCode = "running" /\ file = Empty
  /\ resumed \in Word \cup {Empty}
  /\ phase = "announce" /\ read = 0 /\ errRead = 0 /\ missed = 0 /\ errMissed = 0 /\ cut = {}
  /\ stderr = <<>> /\ threadId = resumed /\ lastAgentMessage = Empty
  /\ session = resumed /\ answer = Empty

OutputNext ==
  \/ \E c \in {"ok", "failed"} : CodexExits(c)
  \/ HandlersThere \/ Discard \/ ReadOut \/ ReadErr \/ Close \/ CloseUnheard

OutputSpec == OutputInit /\ [][OutputNext]_outputVars

-----------------------------------------------------------------------------
(* The session that is stored is the thread codex began last, or the resumed   *)
(* one, wherever the chunks ended, if there were handlers in time.              *)
SessionIsLast ==
  phase = "closed" /\ exitCode = "ok" /\ missed = 0 =>
    session = LastText(DOMAIN out, "thread.started", {}, resumed)

(* The chat is told the last thing codex said: from the file, or, if there is  *)
(* none, from stdout, if there were handlers in time and no chunk ended within *)
(* a character.                                                                *)
AnswerIsLast ==
  phase = "closed" /\ (file # Empty \/ (missed = 0 /\ cut = {})) =>
    IF LastSaid # Empty THEN answer = LastSaid ELSE answer \in {"recent stderr", "no output"}

(* A failed run is repeated, and its session forgotten, exactly if the end of   *)
(* stderr that the bridge keeps says that this is stale.                       *)
StaleIsSeen ==
  /\ phase \in {"closed", "retry"} /\ errMissed = 0 =>
       (phase = "retry" <=> exitCode # "ok" /\ resumed # Empty /\ NamesStale(tail(err)))
  /\ phase = "retry" => session = Empty

(* Why: the variables of runCodex are at every moment what the lines and the    *)
(* errors that have arrived give as a whole, however they were cut into chunks. *)
Arrived == {i \in DOMAIN out : 2 * i - 1 > missed /\ 2 * i <= read}
OutputTypes ==
  /\ out \in Seq(Event) /\ err \in Seq(ErrorHalf)
  /\ exitCode \in {"running", "ok", "failed"} /\ file \in {Empty, LastSaid}
  /\ resumed \in Word \cup {Empty}
  /\ phase \in {"announce", "hooked", "unheard", "closed", "retry"}
  /\ read \in 0..(2 * Len(out)) /\ missed \in 0..read
  /\ errRead \in 0..Len(err) /\ errMissed \in 0..errRead
OutputInv ==
  /\ OutputTypes
  /\ phase = "announce" => missed = read /\ errMissed = errRead
  /\ phase \in {"announce", "hooked"} => session = resumed
  /\ phase \in {"unheard", "closed", "retry"} => Drained
  /\ threadId = LastText(Arrived, "thread.started", {}, resumed)
  /\ cut = {} => lastAgentMessage = LastText(Arrived, "agent_message", {}, Empty)
  /\ stderr = tail(SubSeq(err, errMissed + 1, errRead))
  /\ SessionIsLast /\ AnswerIsLast /\ StaleIsSeen

(* "the bridge stores that Codex session id" (apps/telegram-codex/README.md:30):*)
(* of a run that ended during its announcement it may store the session of an   *)
(* earlier one, or none.                                                       *)
SessionIsStored ==
  phase = "closed" /\ exitCode = "ok" => session = LastText(DOMAIN out, "thread.started", {}, resumed)

(* main.ts:158, "I will send the final answer": without a file, a chunk that    *)
(* ends within a character garbles it.                                         *)
AnswerIsVerbatim == phase = "closed" /\ missed = 0 /\ LastSaid # Empty => answer = LastSaid

(* main.ts:319, "Stored Codex session expired. Starting a new session.": not    *)
(* if the error is followed by more of stderr than the bridge keeps.            *)
StaleIsAlwaysSeen ==
  phase = "closed" /\ errMissed = 0 /\ exitCode # "ok" /\ resumed # Empty => ~NamesStale(err)
=============================================================================
