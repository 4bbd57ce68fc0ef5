------------------------------ MODULE BridgeLock ------------------------------
(***************************************************************************)
(* The two files that Telegram-Codex bridges share (apps/telegram-codex/    *)
(* src/main.ts): the lock that lets one run at a time (acquireLock,         *)
(* releaseLock, shutdown) and the sessions of the chats, which a bridge     *)
(* loads as it starts, before it asks for the lock, and writes whole        *)
(* whenever it changes them (loadSessions, saveSessions).                  *)
(*                                                                         *)
(* Every process has a pid of its own.  Its calls are synchronous, those   *)
(* of different processes are not: each call of node:fs is a step, and      *)
(* writeFileSync two, as it empties the file before it fills it.  A file    *)
(* that is open outlives its name: a pid may be filled into one that was    *)
(* unlinked meanwhile, and a read that began before finds what was there.   *)
(***************************************************************************)
EXTENDS Integers

CONSTANTS
  Pid,         (* the processes that are started, each at most once            *)
  MaxKills,    (* bound: processes that end without their exit handler         *)
  MaxSaves     (* bound: changes of the sessions                               *)

ASSUME LockAssumption ==
  /\ Pid \cap {"none", "absent", "empty"} = {}
  /\ MaxKills \in Nat /\ MaxSaves \in Nat

VARIABLES
  file,        (* the lock file: absent, empty or holding a pid                *)
  pc,          (* the step each process is at                                  *)
  seen,        (* the pid acquireLock has read, "none" for none                *)
  linked,      (* who has the file open to fill it, and it is still the lock   *)
  exits,       (* how often releaseLock still runs before the process is gone  *)
  met,         (* history: who found another alive as it looked for the lock   *)
  kills,
  store,       (* the session file: the changes it holds, or Torn              *)
  sessions,    (* the changes that the sessions of each process hold           *)
  saves,       (* how many changes there were                                  *)
  beside,      (* history: the processes that were started beside another one  *)
  overlap      (* history: one of these has changed the sessions               *)

sessionVars == <<store, sessions, saves, beside, overlap>>
lockVars == <<seen, linked, exits, met, kills>>
vars == <<file, pc, lockVars, sessionVars>>

NoPid == "none"
Content == {"absent", "empty"} \cup Pid
Alive(p) == pc[p] \notin {"off", "gone"}
Goto(p, l) == pc' = [pc EXCEPT ![p] = l]
Others(p) == \E q \in Pid \ {p} : Alive(q)

(* The module is evaluated: the sessions are loaded; on what is left of a file  *)
(* that was being written JSON.parse fails, and no exit handler is there yet.   *)
Torn == {0}   \* changes are numbered from 1
Start(p) ==
  /\ pc[p] = "off"
  /\ Goto(p, IF store = Torn THEN "gone" ELSE "load")
  /\ sessions' = [sessions EXCEPT ![p] = store]
  /\ beside' = IF Others(p) THEN beside \cup {p} ELSE beside
  /\ UNCHANGED <<file, lockVars, store, saves, overlap>>

(***************************************************************************)
(* acquireLock.  readExistingLockPid asks whether there is a file and then  *)
(* reads it, which fails if it is gone by then; a file without a pid in it  *)
(* is taken for none.                                                      *)
(***************************************************************************)
Leave(p, l, times) ==
  /\ Goto(p, l)
  /\ exits' = [exits EXCEPT ![p] = times]
Fail(p) == Leave(p, "release", 1)   \* a start that throws runs the exit handler

LookForLock(p) ==
  /\ pc[p] = "load"
  /\ Goto(p, IF file = "absent" THEN "open" ELSE "read")
  /\ met' = IF Others(p) THEN met \cup {p} ELSE met
  /\ UNCHANGED <<file, seen, linked, exits, kills, sessionVars>>

ReadLock(p) ==
  /\ pc[p] = "read"
  /\ \/ file = "absent" /\ Fail(p) /\ UNCHANGED seen
     \/ /\ file # "absent"
        /\ seen' = [seen EXCEPT ![p] = IF file \in Pid THEN file ELSE NoPid]
        /\ Goto(p, "check") /\ UNCHANGED exits
  /\ UNCHANGED <<file, linked, met, kills, sessionVars>>

(* Refuse if the pid is that of a living process; if it is dead, releaseLock,   *)
(* which removes the file only if it is one's own; then create the file, and    *)
(* fail if there is one.                                                       *)
CheckHolder(p) ==
  /\ pc[p] = "check"
  /\ \/ seen[p] # NoPid /\ Alive(seen[p]) /\ Fail(p)
     \/ seen[p] # NoPid /\ ~Alive(seen[p]) /\ Goto(p, "release") /\ UNCHANGED exits
     \/ seen[p] = NoPid /\ Goto(p, "open") /\ UNCHANGED exits
  /\ UNCHANGED <<file, seen, linked, met, kills, sessionVars>>

(* The flag "wx": the file must not exist.                                     *)
CreatableAlways == TRUE   \* mutant: the flag is "w"
Creatable == file = "absent"

Open(p) ==
  /\ pc[p] = "open"
  /\ \/ Creatable /\ file' = "empty" /\ Goto(p, "write") /\ UNCHANGED exits
     \/ ~Creatable /\ Fail(p) /\ UNCHANGED file
  /\ UNCHANGED <<seen, linked, met, kills, sessionVars>>

(* writeFileSync of the pid: whatever is there by now is emptied, and filled.   *)
Write(p) ==
  /\ pc[p] = "write"
  /\ file' = "empty" /\ linked' = linked \cup {p}
  /\ Goto(p, "fill")
  /\ UNCHANGED <<seen, exits, met, kills, sessionVars>>

Fill(p) ==
  /\ pc[p] = "fill"
  /\ file' = IF p \in linked THEN p ELSE file
  /\ linked' = linked \ {p}
  /\ Goto(p, "run")
  /\ UNCHANGED <<seen, exits, met, kills, sessionVars>>

(***************************************************************************)
(* The ways out.  shutdown releases the lock, and so does the handler of    *)
(* "exit" after it; a failed start and a crash only run the latter; a kill  *)
(* runs neither.  A process that has the lock does not ask for the file     *)
(* before it reads it, and once it has released it it no longer has it.     *)
(***************************************************************************)
Shutdown(p) ==
  /\ pc[p] = "run"
  /\ \E times \in {1, 2} : Leave(p, "look", times)
  /\ UNCHANGED <<file, seen, linked, met, kills, sessionVars>>

(* releaseLock, of a lock that is stale or on the way out: is there a file?     *)
AfterRelease(p) == IF exits[p] = 0 THEN "open" ELSE "exit"
Release(p) ==
  /\ pc[p] = "release"
  /\ Goto(p, IF file = "absent" THEN AfterRelease(p) ELSE "look")
  /\ UNCHANGED <<file, lockVars, sessionVars>>

(* readExistingLockPid again: no file is no pid, and the file is unlinked.      *)
LookAgain(p) ==
  /\ pc[p] = "look"
  /\ Goto(p, IF file = "absent" THEN "unlink" ELSE "reread")
  /\ UNCHANGED <<file, lockVars, sessionVars>>

(* A file that is gone by now ends releaseLock; so does the pid of another.     *)
MayUnlinkRead(p) == file = "empty"   \* mutant: one's own pid is not recognised
MayUnlink(p) == file \in {"empty", p}
ReadAgain(p) ==
  /\ pc[p] = "reread"
  /\ Goto(p, IF MayUnlink(p) THEN "unlink" ELSE AfterRelease(p))
  /\ UNCHANGED <<file, lockVars, sessionVars>>

(* unlinkSync; its failure is ignored.                                         *)
Unlink(p) ==
  /\ pc[p] = "unlink"
  /\ file' = "absent" /\ linked' = {}
  /\ Goto(p, AfterRelease(p))
  /\ UNCHANGED <<seen, exits, met, kills, sessionVars>>

Exit(p) ==
  /\ pc[p] = "exit"
  /\ Leave(p, IF exits[p] > 1 THEN "release" ELSE "gone", exits[p] - 1)
  /\ UNCHANGED <<file, seen, linked, met, kills, sessionVars>>

(* saveSessions: writeFileSync makes the file empty and then writes it.         *)
Change(p) ==
  /\ pc[p] = "run" /\ saves < MaxSaves
  /\ Goto(p, "save")
  /\ saves' = saves + 1
  /\ sessions' = [sessions EXCEPT ![p] = @ \cup {saves + 1}]
  /\ store' = Torn
  /\ overlap' = (overlap \/ p \in beside)
  /\ UNCHANGED <<file, lockVars, beside>>

SavedOwn(p) == {saves}   \* mutant: the change alone is written
Saved(p) == sessions[p]
Save(p) ==
  /\ pc[p] = "save"
  /\ Goto(p, "run")
  /\ store' = Saved(p)
  /\ UNCHANGED <<file, lockVars, sessions, saves, beside, overlap>>

Kill(p) ==
  /\ kills < MaxKills
  /\ Alive(p)
  /\ Goto(p, "gone")
  /\ kills' = kills + 1
  /\ linked' = linked \ {p}
  /\ UNCHANGED <<file, seen, exits, met, sessionVars>>

Init ==
  /\ file = "absent"
  /\ pc = [p \in Pid |-> "off"]
  /\ seen = [p \in Pid |-> NoPid] /\ linked = {} /\ met = {}
  /\ exits = [p \in Pid |-> 0]
  /\ kills = 0
  /\ store = {} /\ sessions = [p \in Pid |-> {}] /\ saves = 0
  /\ beside = {} /\ overlap = FALSE

Next ==
  \E p \in Pid :
    \/ Start(p) \/ LookForLock(p) \/ ReadLock(p) \/ CheckHolder(p) \/ Open(p) \/ Write(p) \/ Fill(p)
    \/ Change(p) \/ Save(p) \/ Shutdown(p) \/ Release(p) \/ LookAgain(p) \/ ReadAgain(p)
    \/ Unlink(p) \/ Exit(p) \/ Kill(p)

Spec == Init /\ [][Next]_vars

-----------------------------------------------------------------------------
(* Types.                                                                      *)
TypeOK ==
  /\ file \in Content
  /\ pc \in [Pid -> {"off", "load", "read", "check", "open", "write", "fill", "run", "save",
                     "release", "look", "reread", "unlink", "exit", "gone"}]
  /\ seen \in [Pid -> Pid \cup {NoPid}]
  /\ linked \subseteq Pid /\ met \subseteq Pid
  /\ exits \in [Pid -> 0..2] /\ kills \in Nat
  /\ store \in SUBSET Nat /\ sessions \in [Pid -> SUBSET Nat]
  /\ saves \in Nat /\ beside \subseteq Pid /\ overlap \in BOOLEAN

(* As long as no process was killed, a start fails only while another bridge is  *)
(* starting, running or on its way out (main.ts:730, "Another Telegram Codex     *)
(* bridge is already running").  The exception: one that was there as the start  *)
(* looked for the lock may have removed it and be gone before the start reads it *)
(* (main.ts:745, 749), and then the start fails with nobody else around.  A kill *)
(* refutes it: releaseLock does not remove the lock of a dead process.           *)
Failing(p) == pc[p] \in {"read", "check", "open"} /\ exits'[p] > 0
RefusedOnlyIfTaken ==
  [][\A p \in Pid : kills = 0 /\ Failing(p) =>
       Others(p) \/ (pc[p] = "read" /\ p \in met)]_vars

(* Two bridges do not run at a time (main.ts:730) as long as no third process   *)
(* was started, although one may be killed: with a third, the exit handler of a  *)
(* refused start removes a lock that was created and not yet written.           *)
OneBridge ==
  \A p, q \in Pid :
    pc[p] \in {"run", "save"} /\ pc[q] \in {"run", "save"} =>
      p = q \/ \E r \in Pid \ {p, q} : pc[r] # "off"

(* "the bridge stores that Codex session id in `.telegram-codex-sessions.json`  *)
(* and resumes it" (apps/telegram-codex/README.md:30): no change is lost, by     *)
(* whatever start that is refused, fails or is killed, until a bridge changes    *)
(* the sessions that was itself started beside another.  That one has loaded     *)
(* them before it got the lock, and undoes what the other changed meanwhile.     *)
(* A kill loses all of them or none: the file it tears no bridge can start with. *)
SessionsKept ==
  ~overlap =>
    \/ \E p \in Pid : pc[p] = "save" /\ sessions[p] = 1..saves
    \/ store = 1..saves
    \/ store = Torn /\ kills > 0

(* The same without the conditions.                                            *)
NoSessionLost == (\A p \in Pid : pc[p] # "save") => store = 1..saves
SomeoneCanStart == (\A p \in Pid : ~Alive(p)) => store # Torn
FailsBesideAnother == [][\A p \in Pid : kills = 0 /\ Failing(p) => Others(p)]_vars
=============================================================================
